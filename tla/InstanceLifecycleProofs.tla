----------------------- MODULE InstanceLifecycleProofs -----------------------
(***************************************************************************)
(* For any number of requests, builds, hosts, ports and failures.          *)
(*                                                                         *)
(* Also when clients stop instances that are still being worked on: the    *)
(* state is well typed, and no container of an active instance is marked   *)
(* for removal.                                                            *)
(*                                                                         *)
(* When they do not (~Overlap; the overlap run shows what happens else):   *)
(* every container that ran is recorded, records outlive containers, ports *)
(* are recorded and exclusive, networks are recorded as long as the        *)
(* database works, and a recovery without errors leaves nothing half done. *)
(* And each container goes through its states and records as the abstract  *)
(* specification ContainerLedger says.                                     *)
(***************************************************************************)
EXTENDS InstanceLifecycle, TLAPS, WellFoundedInduction

\* What one request may hold at each of its steps: loops over containers
\* visit containers, loops over instances and networks visit those, a step
\* on an instance has one, newInstance has seen no error until it aborts, and
\* the lists of stopContainers stay inside the list it started from.
InstanceSteps == {"net", "lock", "create", "retire", "start", "finalize",
                  "cleanup", "unlock", "remove", "forget", "ports",
                  "rbretire", "rbnet", "retnet", "delete", "stopnet",
                  "brokennet", "brokenret", "brokenrow"}

CreateSteps == {"net", "lock", "create", "retire", "start", "finalize"}

RecoverySteps == {"retired", "networks", "scan", "broken", "brokennet",
                  "brokenret", "brokenrow", "restore"}

Sound(r) ==
  /\ r \in Requests
  /\ r.pc \in {"retire", "start", "cleanup", "remove", "forget", "retired"}
       => r.todo \subseteq Containers
  /\ r.pc \in {"networks", "broken", "brokennet", "brokenret", "brokenrow"}
       => r.todo \subseteq Ids
  /\ r.pc \in {"retire", "start", "forget"} => r.todo # {}
  /\ r.pc \in InstanceSteps => r.inst \in Ids
  /\ r.pc \in CreateSteps => r.ok
  /\ r.pc \in CreateSteps \cup {"cleanup", "unlock", "rbretire"}
                          \cup RecoverySteps
       => r.kind # "stop"
  /\ r.pc = "cleanup" => ~r.ok
  /\ r.pc \in {"retire", "remove", "forget"} => r.todo \subseteq r.cs
  /\ r.pc \in {"remove", "forget", "ports"} => r.left \subseteq r.cs

Locals == /\ op \in [Ops -> Requests]
          /\ \A o \in Ops : Sound(op[o])

\* The types of everything but the requests.
Stores ==
  /\ row \in [Ids -> Builds \cup {None}]
  /\ owner \in [Containers -> Ids \cup {0}]
  /\ assigned \in [Ports -> Ids \cup {0}]
  /\ retC \in SUBSET Containers /\ retN \in SUBSET Ids
  /\ state \in [Containers -> {"none", "created", "running", "exited"}]
  /\ attached \in [Containers -> Ids \cup {0}]
  /\ bind \in [Containers -> Ports \cup {0}]
  /\ nets \in SUBSET Ids
  /\ hold \in [Ops -> Barrier!Holds]
  /\ portLock \in Ops \cup {None}
  /\ faults \in 0 .. MaxFaults

\* newInstance is under way with containers that are not yet committed.
Building(r) == /\ r.kind # "stop"
               /\ \/ r.pc \in CreateSteps \cup {"cleanup", "remove", "forget",
                                             "ports", "rbretire"}
                  \/ r.pc = "unlock" /\ ~r.ok

\* The next value r of a request is sound, and it is not about to commit or
\* retire containers that it did not have.
Good(o, r) ==
  /\ Sound(r)
  /\ Building(r) => \/ r.cs = {}
                    \/ Building(op[o]) /\ r.cs \subseteq op[o].cs

\* Only the request of o changes, and to a good value.
Moves(o) == op' = [op EXCEPT ![o] = op'[o]] /\ Good(o, op'[o])

USE ParametersAssumption

\* The choice of a member.
LEMMA PickIn == ASSUME NEW S, S # {} PROVE Pick(S) \in S
  BY DEF Pick

\* A request that becomes a good value moves.
LEMMA BecomeMoves ==
  ASSUME NEW o \in Ops, NEW r, Locals, Become(o, r), Good(o, r)
  PROVE  Moves(o)
  BY DEF Locals, Become, Moves

\* A request that ends.
LEMMA FinishMoves ==
  ASSUME NEW o \in Ops, Locals, Finish(o)
  PROVE  Moves(o)
<1>1. Good(o, Idle)
  BY DEF Good, Building, Sound, Idle, Requests, Steps, InstanceSteps,
         CreateSteps, RecoverySteps
<1> QED BY <1>1, BecomeMoves DEF Finish

\* A request that goes on to its next step with the same local variables.
LEMMA GotoMoves ==
  ASSUME NEW o \in Ops, NEW p, Locals, Goto(o, p),
         \/ op[o].pc = "net" /\ p \in {"lock", "create"}
         \/ op[o].pc = "lock" /\ p = "create"
         \/ op[o].pc = "retire" /\ p = "start"
         \/ op[o].pc = "start" /\ p \in {"create", "finalize"}
         \/ op[o].pc \in {"finalize", "cleanup"} /\ p = "unlock"
         \/ op[o].pc = "remove" /\ op[o].todo # {} /\ p = "forget"
         \/ op[o].pc = "remove" /\ p = "ports"
         \/ op[o].pc = "ports" /\ p = "stopnet"
         \/ op[o].pc \in {"stopnet", "rbnet", "retnet"} /\ p = "delete"
         \/ op[o].pc = "rbretire" /\ p = "rbnet"
         \/ op[o].pc = "rbnet" /\ p = "retnet"
         \/ op[o].pc = "networks" /\ p = "scan"
         \/ op[o].pc = "broken" /\ p = "restore"
         \/ op[o].pc = "brokennet" /\ p \in {"brokenrow", "brokenret"}
         \/ op[o].pc = "brokenret" /\ p = "brokenrow"
  PROVE  Moves(o)
<1> DEFINE r == [op[o] EXCEPT !.pc = p]
<1>1. Sound(op[o]) BY DEF Locals
<1>2. p \in Steps BY DEF Steps
<1>3. r \in Requests BY <1>1, <1>2 DEF Sound, Requests
<1>4. Sound(r)
  BY <1>1, <1>3 DEF Sound, InstanceSteps, CreateSteps, RecoverySteps, Requests
<1>5. Good(o, r)
  BY <1>1, <1>4 DEF Good, Building, Sound, CreateSteps, Requests
<1> QED BY <1>5, BecomeMoves DEF Goto

\* The roll-back of newInstance visits the containers of the request.
LEMMA RollbackMoves ==
  ASSUME NEW o \in Ops, Locals, Rollback(o),
         op[o].pc \in CreateSteps \/ (op[o].pc = "unlock" /\ ~op[o].ok)
  PROVE  Moves(o)
<1> DEFINE r == [op[o] EXCEPT !.pc = "remove", !.todo = op[o].cs,
                              !.left = {}, !.ok = FALSE]
<1>1. Sound(op[o]) BY DEF Locals
<1>2. r \in Requests BY <1>1 DEF Sound, Requests, Steps
<1>3. Sound(r)
  BY <1>1, <1>2 DEF Sound, InstanceSteps, CreateSteps, RecoverySteps, Requests
<1>4. Good(o, r)
  BY <1>1, <1>3 DEF Good, Building, Sound, CreateSteps, Requests
<1> QED BY <1>4, BecomeMoves DEF Rollback

\* startContainers gives up, with or without the port allocation lock.
LEMMA AbortMoves ==
  ASSUME NEW o \in Ops, Locals, Abort(o), op[o].pc \in CreateSteps
  PROVE  Moves(o)
<1> DEFINE r == [op[o] EXCEPT !.pc = "cleanup", !.todo = op[o].cs,
                              !.ok = FALSE]
<1>1. Sound(op[o]) BY DEF Locals
<1>2. r \in Requests BY <1>1 DEF Sound, Requests, Steps
<1>3. Sound(r)
  BY <1>1, <1>2 DEF Sound, InstanceSteps, CreateSteps, RecoverySteps, Requests
<1>4. Good(o, r)
  BY <1>1, <1>3 DEF Good, Building, Sound, CreateSteps, Requests
<1> QED BY <1>4, BecomeMoves, RollbackMoves DEF Abort

\* A new instance has no containers yet.
LEMMA OpenMoves ==
  ASSUME NEW o \in Ops, Locals, NEW b \in Builds, NEW q \in Requests,
         q.kind # "stop", Open(o, b, q)
  PROVE  Moves(o)
<1> DEFINE r == [q EXCEPT !.pc = "net", !.build = b, !.inst = NextId,
        !.cs = {},
                         !.todo = {}, !.left = {}, !.ok = TRUE]
<1>1. Sound(op[o]) BY DEF Locals
<1>a. NextId \in Ids BY DEF Open
<1>2. r \in Requests BY <1>a DEF Requests, Steps
<1>3. Sound(r)
  BY <1>a, <1>2 DEF Sound, InstanceSteps, CreateSteps, RecoverySteps, Requests
<1>4. Good(o, r)
  BY <1>1, <1>3 DEF Good, Building, Sound, CreateSteps, Requests
<1> QED BY <1>4, BecomeMoves DEF Open

\* The end of newInstance.
LEMMA NewInstanceDoneMoves ==
  ASSUME NEW o \in Ops, Locals, NewInstanceDone(o), op[o].kind # "stop"
  PROVE  Moves(o)
<1> DEFINE r == [op[o] EXCEPT
       !.pc = "restore", !.inst = 0, !.cs = {}, !.left = {},
       !.restore = IF op[o].ok THEN @ ELSE @ \ {op[o].build},
       !.clean = @ /\ op[o].ok]
<1>1. Sound(op[o]) /\ op[o] \in Requests BY DEF Locals, Sound
<1>2. r \in Requests
  <2>1. PICK R, d :
          /\ R = IF op[o].ok THEN op[o].restore
                 ELSE op[o].restore \ {op[o].build}
          /\ d = (op[o].clean /\ op[o].ok)
    OBVIOUS
  <2>2. R \subseteq Builds /\ d \in BOOLEAN BY <1>1, <2>1 DEF Requests
  <2>3. r = [op[o] EXCEPT !.pc = "restore", !.inst = 0, !.cs = {},
                          !.left = {}, !.restore = R, !.clean = d]
    BY <2>1
  <2> HIDE DEF r
  <2> QED BY <1>1, <2>2, <2>3 DEF Requests, Steps
<1>3. Sound(r)
  BY <1>1, <1>2 DEF Sound, InstanceSteps, CreateSteps, RecoverySteps, Requests
<1>4. Good(o, r)
  BY <1>1, <1>3 DEF Good, Building, Sound, CreateSteps, Requests
<1> QED BY <1>4, BecomeMoves, FinishMoves DEF NewInstanceDone

\* The end of stopContainers.
LEMMA AfterStopMoves ==
  ASSUME NEW o \in Ops, Locals, NEW failed, AfterStop(o, failed),
         \/ op[o].pc = "remove" /\ failed
         \/ op[o].pc = "ports"
  PROVE  Moves(o)
<1>1. CASE op[o].kind # "stop"
  <2> DEFINE r == [op[o] EXCEPT !.pc = "rbretire", !.cs = op[o].left]
  <2>1. Sound(op[o]) BY DEF Locals
  <2>2. r \in Requests BY <2>1 DEF Sound, Requests, Steps
  <2>3. Sound(r)
    BY <1>1, <2>1, <2>2
       DEF Sound, InstanceSteps, CreateSteps, RecoverySteps, Requests
  <2>4. Good(o, r)
    BY <2>1, <2>3 DEF Good, Building, Sound, CreateSteps, Requests
  <2> QED BY <1>1, <2>4, BecomeMoves DEF AfterStop
<1>2. CASE op[o].kind = "stop"
  BY <1>2, FinishMoves, GotoMoves DEF AfterStop
<1> QED BY <1>1, <1>2

\* The next round of a loop of recovery.
LEMMA ProceedMoves ==
  ASSUME NEW o \in Ops, Locals, NEW x, NEW good \in BOOLEAN,
         Proceed(o, x, good), op[o].pc \in {"retired", "networks", "broken"}
  PROVE  Moves(o)
<1> DEFINE r == [op[o] EXCEPT !.todo = @ \ {x}, !.clean = @ /\ good]
<1>1. Sound(op[o]) BY DEF Locals
<1>2. r \in Requests BY <1>1, ZenonT(60) DEF Sound, Requests, Steps
<1>3. Sound(r)
  BY <1>1, <1>2 DEF Sound, InstanceSteps, CreateSteps, RecoverySteps, Requests
<1>4. Good(o, r)
  BY <1>1, <1>3 DEF Good, Building, Sound, CreateSteps, Requests
<1> QED BY <1>4, BecomeMoves DEF Proceed

\* Recovery goes on with the next broken instance.
LEMMA SkipBrokenMoves ==
  ASSUME NEW o \in Ops, Locals, SkipBroken(o),
         op[o].pc \in {"brokenret", "brokenrow"}
  PROVE  Moves(o)
<1> DEFINE r == [op[o] EXCEPT !.pc = "broken", !.todo = @ \ {op[o].inst},
                              !.inst = 0, !.clean = FALSE]
<1>1. Sound(op[o]) BY DEF Locals
<1>2. r \in Requests BY <1>1 DEF Sound, Requests, Steps
<1>3. Sound(r)
  BY <1>1, <1>2 DEF Sound, InstanceSteps, CreateSteps, RecoverySteps, Requests
<1>4. Good(o, r)
  BY <1>1, <1>3 DEF Good, Building, Sound, CreateSteps, Requests
<1> QED BY <1>4, BecomeMoves DEF SkipBroken

\* Start and recovery begin with a fresh request.
LEMMA IdleTyped == Idle \in Requests
  BY DEF Idle, Requests, Steps

\* Start opens an instance.
LEMMA StartMoves ==
  ASSUME NEW o \in Ops, NEW b \in Builds, Locals, Start(o, b)
  PROVE  Moves(o)
<1> DEFINE q == [Idle EXCEPT !.kind = "start"]
<1>1. q \in Requests /\ q.kind # "stop" BY IdleTyped DEF Requests
<1> QED BY <1>1, OpenMoves DEF Start

\* Stop has the containers of the instance, all committed.
LEMMA StopMoves ==
  ASSUME NEW o \in Ops, NEW i \in Ids, Locals, Stop(o, i)
  PROVE  Moves(o)
<1> DEFINE r == [Idle EXCEPT !.kind = "stop", !.pc = "remove", !.inst = i,
                   !.cs = ContainersOf(i), !.todo = ContainersOf(i)]
<1>1. ContainersOf(i) \subseteq Containers BY DEF ContainersOf
<1>2. r \in Requests BY <1>1, IdleTyped DEF Requests, Steps
<1>3. Sound(r)
  BY <1>1, <1>2 DEF Sound, Idle, InstanceSteps, CreateSteps, RecoverySteps
<1>4. Good(o, r)
  BY <1>3, IdleTyped DEF Good, Building, Requests
<1> QED BY <1>4, BecomeMoves DEF Stop

\* Recovery begins with the retired containers.
LEMMA RecoverMoves ==
  ASSUME NEW o \in Ops, Locals, Stores, Recover(o)
  PROVE  Moves(o)
<1> DEFINE r == [Idle EXCEPT !.kind = "recover", !.pc = "retired"]
           r1 == [r EXCEPT !.todo = retC]
           r2 == [r EXCEPT !.clean = FALSE]
<1>1. r1 \in Requests /\ r2 \in Requests
  BY IdleTyped, ZenonT(60) DEF Requests, Steps, Stores
<1>2. Sound(r1)
  BY <1>1, IdleTyped DEF Sound, InstanceSteps, CreateSteps, RecoverySteps,
                         Stores, Requests
<1>3. Sound(r2)
  BY <1>1 DEF Sound, Idle, InstanceSteps, CreateSteps, RecoverySteps
<1>4. Good(o, r1) /\ Good(o, r2)
  BY <1>2, <1>3, IdleTyped DEF Good, Building, Requests, CreateSteps
<1> QED BY <1>4, BecomeMoves DEF Recover

\* A container of the failed Start is removed.
LEMMA CleanedMoves ==
  ASSUME NEW o \in Ops, Locals, NEW c, op[o].pc = "cleanup",
         Become(o, [op[o] EXCEPT !.todo = @ \ {c}])
  PROVE  Moves(o)
<1> DEFINE r == [op[o] EXCEPT !.todo = @ \ {c}]
<1>1. Sound(op[o]) BY DEF Locals
<1>2. r \in Requests BY <1>1 DEF Sound, Requests, Steps
<1>3. Sound(r)
  BY <1>1, <1>2 DEF Sound, InstanceSteps, CreateSteps, RecoverySteps, Requests
<1>4. Good(o, r)
  BY <1>1, <1>3 DEF Good, Building, Sound, CreateSteps, Requests
<1> QED BY <1>4, BecomeMoves

\* stopContainers could not remove a container.
LEMMA RemainsMoves ==
  ASSUME NEW o \in Ops, Locals, op[o].pc = "remove", op[o].todo # {},
         Become(o, [op[o] EXCEPT !.todo = @ \ {Pick(@)},
                                 !.left = @ \cup {Pick(op[o].todo)}])
  PROVE  Moves(o)
<1> DEFINE r == [op[o] EXCEPT !.todo = @ \ {Pick(@)},
                                 !.left = @ \cup {Pick(op[o].todo)}]
<1>1. Sound(op[o]) BY DEF Locals
<1>a. Pick(op[o].todo) \in op[o].todo BY PickIn
<1>2. r \in Requests BY <1>1, <1>a, ZenonT(60) DEF Sound, Requests, Steps
<1>3. Sound(r)
  BY <1>1, <1>2, <1>a
     DEF Sound, InstanceSteps, CreateSteps, RecoverySteps, Requests
<1>4. Good(o, r)
  BY <1>1, <1>3, <1>a DEF Good, Building, Sound, CreateSteps, Requests
<1> QED BY <1>4, BecomeMoves

\* stopContainers could not forget a container.
LEMMA KeptMoves ==
  ASSUME NEW o \in Ops, Locals, op[o].pc = "forget",
         Become(o, [op[o] EXCEPT !.pc = "remove",
                                 !.todo = @ \ {Pick(op[o].todo)},
                                 !.left = @ \cup {Pick(op[o].todo)}])
  PROVE  Moves(o)
<1> DEFINE r == [op[o] EXCEPT !.pc = "remove",
                              !.todo = @ \ {Pick(op[o].todo)},
                              !.left = @ \cup {Pick(op[o].todo)}]
<1>1. Sound(op[o]) BY DEF Locals
<1>a. Pick(op[o].todo) \in op[o].todo BY <1>1, PickIn DEF Sound
<1>2. r \in Requests BY <1>1, <1>a, ZenonT(60) DEF Sound, Requests, Steps
<1>3. Sound(r)
  BY <1>1, <1>2, <1>a
     DEF Sound, InstanceSteps, CreateSteps, RecoverySteps, Requests
<1>4. Good(o, r)
  BY <1>1, <1>3, <1>a DEF Good, Building, Sound, CreateSteps, Requests
<1> QED BY <1>4, BecomeMoves

\* Recovery turns to the retired networks.
LEMMA NetworksMoves ==
  ASSUME NEW o \in Ops, Locals, NEW N \in SUBSET Ids, op[o].pc = "retired",
         Become(o, [op[o] EXCEPT !.pc = "networks", !.todo = N])
  PROVE  Moves(o)
<1> DEFINE r == [op[o] EXCEPT !.pc = "networks", !.todo = N]
<1>1. Sound(op[o]) BY DEF Locals
<1>2. r \in Requests BY <1>1 DEF Sound, Requests, Steps
<1>3. Sound(r)
  BY <1>1, <1>2 DEF Sound, InstanceSteps, CreateSteps, RecoverySteps, Requests
<1>4. Good(o, r)
  BY <1>1, <1>3 DEF Good, Building, Sound, CreateSteps, Requests
<1> QED BY <1>4, BecomeMoves

\* Recovery turns to the tracked containers.
LEMMA ScanMoves ==
  ASSUME NEW o \in Ops, Locals, op[o].pc = "retired",
         Become(o, [op[o] EXCEPT !.pc = "scan", !.clean = FALSE])
  PROVE  Moves(o)
<1> DEFINE r == [op[o] EXCEPT !.pc = "scan", !.clean = FALSE]
<1>1. Sound(op[o]) BY DEF Locals
<1>2. r \in Requests BY <1>1 DEF Sound, Requests, Steps
<1>3. Sound(r)
  BY <1>1, <1>2 DEF Sound, InstanceSteps, CreateSteps, RecoverySteps, Requests
<1>4. Good(o, r)
  BY <1>1, <1>3 DEF Good, Building, Sound, CreateSteps, Requests
<1> QED BY <1>4, BecomeMoves

\* Recovery knows the broken instances.
LEMMA BrokenMoves ==
  ASSUME NEW o \in Ops, Locals, NEW B \in SUBSET Ids, NEW good \in BOOLEAN,
         op[o].pc = "scan",
         Become(o, [op[o] EXCEPT !.pc = "broken", !.todo = B, !.clean = good])
  PROVE  Moves(o)
<1> DEFINE r == [op[o] EXCEPT !.pc = "broken", !.todo = B, !.clean = good]
<1>1. Sound(op[o]) BY DEF Locals
<1>2. r \in Requests BY <1>1 DEF Sound, Requests, Steps
<1>3. Sound(r)
  BY <1>1, <1>2 DEF Sound, InstanceSteps, CreateSteps, RecoverySteps, Requests
<1>4. Good(o, r)
  BY <1>1, <1>3 DEF Good, Building, Sound, CreateSteps, Requests
<1> QED BY <1>4, BecomeMoves

\* Recovery turns to the network of a broken instance.
LEMMA BrokenNetMoves ==
  ASSUME NEW o \in Ops, Locals, NEW i \in op[o].todo, op[o].pc = "broken",
         Become(o, [op[o] EXCEPT !.pc = "brokennet", !.inst = i])
  PROVE  Moves(o)
<1> DEFINE r == [op[o] EXCEPT !.pc = "brokennet", !.inst = i]
<1>1. Sound(op[o]) BY DEF Locals
<1>2. r \in Requests BY <1>1 DEF Sound, Requests, Steps
<1>3. Sound(r)
  BY <1>1, <1>2 DEF Sound, InstanceSteps, CreateSteps, RecoverySteps, Requests
<1>4. Good(o, r)
  BY <1>1, <1>3 DEF Good, Building, Sound, CreateSteps, Requests
<1> QED BY <1>4, BecomeMoves

\* A broken instance is gone.
LEMMA BrokenGoneMoves ==
  ASSUME NEW o \in Ops, Locals, NEW i, NEW B \in SUBSET Builds,
  op[o].pc = "brokenrow",
         Become(o, [op[o] EXCEPT !.pc = "broken", !.todo = @ \ {i},
         !.inst = 0,
                                 !.restore = @ \cup B])
  PROVE  Moves(o)
<1> DEFINE r == [op[o] EXCEPT !.pc = "broken", !.todo = @ \ {i}, !.inst = 0,
                                 !.restore = @ \cup B]
<1>1. Sound(op[o]) BY DEF Locals
<1>2. r \in Requests BY <1>1 DEF Sound, Requests, Steps
<1>3. Sound(r)
  BY <1>1, <1>2 DEF Sound, InstanceSteps, CreateSteps, RecoverySteps, Requests
<1>4. Good(o, r)
  BY <1>1, <1>3 DEF Good, Building, Sound, CreateSteps, Requests
<1> QED BY <1>4, BecomeMoves

\* Recovery is done with a build.
LEMMA RestoredMoves ==
  ASSUME NEW o \in Ops, Locals, NEW b, NEW good \in BOOLEAN,
  op[o].pc = "restore",
         Become(o, [op[o] EXCEPT !.restore = @ \ {b}, !.clean = good])
  PROVE  Moves(o)
<1> DEFINE r == [op[o] EXCEPT !.restore = @ \ {b}, !.clean = good]
<1>1. Sound(op[o]) BY DEF Locals
<1>2. r \in Requests BY <1>1 DEF Sound, Requests, Steps
<1>3. Sound(r)
  BY <1>1, <1>2 DEF Sound, InstanceSteps, CreateSteps, RecoverySteps, Requests
<1>4. Good(o, r)
  BY <1>1, <1>3 DEF Good, Building, Sound, CreateSteps, Requests
<1> QED BY <1>4, BecomeMoves

\* stopContainers forgets a container.
LEMMA ForgottenMoves ==
  ASSUME NEW o \in Ops, Locals, NEW c, op[o].pc = "forget",
         Become(o, [op[o] EXCEPT !.pc = "remove", !.todo = @ \ {c}])
  PROVE  Moves(o)
<1> DEFINE r == [op[o] EXCEPT !.pc = "remove", !.todo = @ \ {c}]
<1>1. Sound(op[o]) BY DEF Locals
<1>2. r \in Requests BY <1>1 DEF Sound, Requests, Steps
<1>3. Sound(r)
  BY <1>1, <1>2 DEF Sound, InstanceSteps, CreateSteps, RecoverySteps, Requests
<1>4. Good(o, r)
  BY <1>1, <1>3 DEF Good, Building, Sound, CreateSteps, Requests
<1> QED BY <1>4, BecomeMoves

\* A build has its instances.
LEMMA CompleteMoves ==
  ASSUME NEW o \in Ops, Locals, NEW b, op[o].pc = "restore",
         Become(o, [op[o] EXCEPT !.restore = @ \ {b}])
  PROVE  Moves(o)
<1> DEFINE r == [op[o] EXCEPT !.restore = @ \ {b}]
<1>1. Sound(op[o]) BY DEF Locals
<1>2. r \in Requests BY <1>1 DEF Sound, Requests, Steps
<1>3. Sound(r)
  BY <1>1, <1>2 DEF Sound, InstanceSteps, CreateSteps, RecoverySteps, Requests
<1>4. Good(o, r)
  BY <1>1, <1>3 DEF Good, Building, Sound, CreateSteps, Requests
<1> QED BY <1>4, BecomeMoves

\* Every step of a request but the creation of a container is a move.
LEMMA CreatingMoves ==
  ASSUME NEW o \in Ops, Locals, Stores,
         \/ CreateNetwork(o) \/ AcquirePortLock(o) \/ PortLockFails(o)
         \/ RetirePending(o) \/ StartContainer(o) \/ FinalizeInstance(o)
         \/ CleanupContainer(o) \/ ReleasePortLock(o)
  PROVE  Moves(o)
<1>0. Sound(op[o]) BY DEF Locals
<1>1. CASE CreateNetwork(o)
  BY <1>1, GotoMoves, RollbackMoves DEF CreateNetwork, CreateSteps
<1>2. CASE AcquirePortLock(o)
  BY <1>2, GotoMoves DEF AcquirePortLock
<1>3. CASE PortLockFails(o)
  BY <1>3, RollbackMoves DEF PortLockFails, CreateSteps
<1>4. CASE RetirePending(o)
  BY <1>4, GotoMoves, AbortMoves DEF RetirePending, CreateSteps
<1>5. CASE StartContainer(o)
  BY <1>5, GotoMoves, AbortMoves DEF StartContainer, CreateSteps
<1>6. CASE FinalizeInstance(o)
  BY <1>6, GotoMoves, AbortMoves DEF FinalizeInstance, CreateSteps
<1>7. CASE CleanupContainer(o)
  BY <1>7, CleanedMoves, GotoMoves DEF CleanupContainer
<1>8. CASE ReleasePortLock(o)
  BY <1>0, <1>8, NewInstanceDoneMoves, RollbackMoves
     DEF ReleasePortLock, Sound
<1> QED BY <1>1, <1>2, <1>3, <1>4, <1>5, <1>6, <1>7, <1>8

\* The same for stopContainers and what follows it.
LEMMA StoppingMoves ==
  ASSUME NEW o \in Ops, Locals, Stores,
         \/ RemoveContainer(o) \/ ForgetContainer(o) \/ RemovePorts(o)
         \/ StopNetwork(o) \/ RetireRemaining(o) \/ RollbackNetwork(o)
         \/ RetireNetwork(o) \/ DeleteRow(o)
  PROVE  Moves(o)
<1>1. CASE RemoveContainer(o)
  BY <1>1, GotoMoves, RemainsMoves, AfterStopMoves, ZenonT(60)
     DEF RemoveContainer
<1>2. CASE ForgetContainer(o)
  BY <1>2, ForgottenMoves, KeptMoves DEF ForgetContainer
<1>3. CASE RemovePorts(o)
  BY <1>3, AfterStopMoves DEF RemovePorts
<1>4. CASE StopNetwork(o)
  BY <1>4, GotoMoves, FinishMoves DEF StopNetwork
<1>5. CASE RetireRemaining(o)
  BY <1>5, GotoMoves DEF RetireRemaining
<1>6. CASE RollbackNetwork(o)
  BY <1>6, GotoMoves DEF RollbackNetwork
<1>7. CASE RetireNetwork(o)
  BY <1>7, GotoMoves DEF RetireNetwork
<1>8. CASE DeleteRow(o)
  BY <1>8, FinishMoves, NewInstanceDoneMoves DEF DeleteRow
<1> QED BY <1>1, <1>2, <1>3, <1>4, <1>5, <1>6, <1>7, <1>8

\* The same for the loops of recovery.
LEMMA RecoveringMoves ==
  ASSUME NEW o \in Ops, Locals, Stores,
         \/ RemoveRetiredContainer(o) \/ RemoveRetiredNetwork(o)
         \/ RemoveBroken(o) \/ BrokenNetwork(o) \/ RetireBrokenNetwork(o)
         \/ BrokenRow(o)
  PROVE  Moves(o)
<1>1. CASE RemoveRetiredContainer(o)
  BY <1>1, ProceedMoves, NetworksMoves, ScanMoves
     DEF RemoveRetiredContainer, Stores
<1>2. CASE RemoveRetiredNetwork(o)
  BY <1>2, ProceedMoves, GotoMoves DEF RemoveRetiredNetwork
<1>3. CASE RemoveBroken(o)
  BY <1>3, ProceedMoves, GotoMoves, BrokenNetMoves DEF RemoveBroken
<1>4. CASE BrokenNetwork(o)
  BY <1>4, GotoMoves DEF BrokenNetwork
<1>5. CASE RetireBrokenNetwork(o)
  BY <1>5, GotoMoves, SkipBrokenMoves DEF RetireBrokenNetwork
<1>6. CASE BrokenRow(o)
  <2> DEFINE B == {b \in Builds : row[op[o].inst] = b /\ Target[b] >= 0}
  <2>1. B \in SUBSET Builds OBVIOUS
  <2> QED BY <1>6, <2>1, BrokenGoneMoves, SkipBrokenMoves DEF BrokenRow
<1> QED BY <1>1, <1>2, <1>3, <1>4, <1>5, <1>6

\* What the inspection finds are instances.
LEMMA InspectMoves ==
  ASSUME NEW o \in Ops, Locals, Stores, NEW found \in SUBSET Ids,
         NEW seen \in SUBSET {c \in Containers : owner[c] # 0},
         NEW good \in BOOLEAN, op[o].pc = "scan",
         Inspect(o, found, seen, good)
  PROVE  Moves(o)
<1> DEFINE B == found \cup {owner[c] : c \in {d \in seen : ~Exists(d)}}
           stopped == {c \in seen : state[c] = "exited"}
           fine == /\ op[o].clean /\ good
                   /\ {c \in stopped : CanStart(c)} = stopped
<1>1. B \in SUBSET Ids BY DEF Stores
<1>2. fine \in BOOLEAN OBVIOUS
<1>3. Become(o, [op[o] EXCEPT !.pc = "broken", !.todo = B, !.clean = fine])
  BY DEF Inspect
<1> HIDE DEF B, fine
<1> QED BY <1>1, <1>2, <1>3, BrokenMoves

\* The same for the scan and the restoration of capacity.
LEMMA ScanRestoreMoves ==
  ASSUME NEW o \in Ops, Locals, Stores, Scan(o) \/ Restore(o)
  PROVE  Moves(o)
<1>1. CASE Scan(o)
  <2> DEFINE tracked == {c \in Containers : owner[c] # 0}
  <2>1. Incomplete \in SUBSET Ids /\ {} \in SUBSET Ids
    BY DEF Incomplete, Rows
  <2> QED BY <1>1, <2>1, InspectMoves DEF Scan
<1>2. CASE Restore(o)
  <2>1. op[o] \in Requests /\ (op[o].pc = "restore" => op[o].kind # "stop")
    BY DEF Locals, Sound, RecoverySteps
  <2>2. op[o].restore \subseteq Builds BY <2>1 DEF Requests
  <2> QED BY <1>2, <2>1, <2>2, OpenMoves, CompleteMoves, RestoredMoves,
             FinishMoves DEF Restore
<1> QED BY <1>1, <1>2

-----------------------------------------------------------------------------
(* The stores                                                              *)

DatabaseTyped ==
  /\ row \in [Ids -> Builds \cup {None}]
  /\ owner \in [Containers -> Ids \cup {0}]
  /\ assigned \in [Ports -> Ids \cup {0}]
  /\ retC \in SUBSET Containers /\ retN \in SUBSET Ids

ContainersTyped ==
  /\ state \in [Containers -> {"none", "created", "running", "exited"}]
  /\ attached \in [Containers -> Ids \cup {0}]
  /\ bind \in [Containers -> Ports \cup {0}]

RestTyped ==
  /\ nets \in SUBSET Ids
  /\ hold \in [Ops -> Barrier!Holds]
  /\ portLock \in Ops \cup {None}
  /\ faults \in 0 .. MaxFaults

\* The count of failures stays within its bound.
LEMMA WorksTyped == ASSUME Stores, Works PROVE faults' \in 0 .. MaxFaults
  BY DEF Stores, Works

\* The same when this step fails.
LEMMA FailsTyped == ASSUME Stores, NEW k, Fails(k)
                    PROVE  faults' \in 0 .. MaxFaults
  BY DEF Stores, Fails

\* Leaving the barrier.
LEMMA LeaveTyped ==
  ASSUME Stores, NEW o \in Ops, Barrier!Leave({o})
  PROVE  hold' \in [Ops -> Barrier!Holds]
  BY DEF Stores, Barrier!Leave, Barrier!Holds

\* Entering it.
LEMMA EnterTyped ==
  ASSUME Stores, NEW o \in Ops, NEW m \in {"shared", "exclusive"},
         Barrier!Enter(o, m)
  PROVE  hold' \in [Ops -> Barrier!Holds]
  BY DEF Stores, Barrier!Enter, Barrier!Holds

\* Removing containers.
LEMMA DiscardTyped ==
  ASSUME Stores, NEW gone, Discard(gone)
  PROVE  /\ state' \in [Containers ->
                          {"none", "created", "running", "exited"}]
         /\ attached' \in [Containers -> Ids \cup {0}]
         /\ bind' \in [Containers -> Ports \cup {0}]
  BY DEF Stores, Discard

\* Deleting a row and what refers to it.
LEMMA DeleteTyped ==
  ASSUME Stores, NEW i, DeleteInstance(i)
  PROVE  /\ row' \in [Ids -> Builds \cup {None}]
         /\ owner' \in [Containers -> Ids \cup {0}]
         /\ assigned' \in [Ports -> Ids \cup {0}]
  BY DEF Stores, DeleteInstance

\* The steps of newInstance keep the stores typed.
LEMMA CreatingStores ==
  ASSUME NEW o \in Ops, Locals, Stores,
         \/ CreateNetwork(o)
         \/ AcquirePortLock(o)
         \/ PortLockFails(o)
         \/ CreateContainer(o)
         \/ StartContainer(o)
         \/ FinalizeInstance(o)
         \/ CleanupContainer(o)
         \/ ReleasePortLock(o)
  PROVE  Stores'
<1>0. op[o] \in Requests /\ (op[o].pc \in InstanceSteps => op[o].inst \in Ids)
  BY DEF Locals, Sound
<1>1. CASE CreateNetwork(o)
  BY <1>0, <1>1
     DEF database, docker, containers, Works, Fails, Stores, CreateNetwork,
         InstanceSteps
<1>2. CASE AcquirePortLock(o)
  BY <1>0, <1>2
     DEF database, docker, containers, Works, Fails, Stores, AcquirePortLock
<1>3. CASE PortLockFails(o)
  BY <1>0, <1>3
     DEF database, docker, containers, Works, Fails, Stores, PortLockFails
<1>4. CASE CreateContainer(o)
  <2>1. DatabaseTyped'
    BY <1>0, <1>4
       DEF database, docker, containers, Works, Fails, Stores,
           CreateContainer, DatabaseTyped, InstanceSteps, FreePorts, Fresh,
           Requests
  <2>2. ContainersTyped'
    <3>1. Fresh # {} => Pick(Fresh) \in Containers BY PickIn DEF Fresh
    <3>2. FreePorts(op[o].build) \subseteq Ports \cup {0} BY DEF FreePorts
    <3>3. op[o].inst \in Ids \cup {0} BY <1>0 DEF Requests
    <3> QED BY <1>4, <3>1, <3>2, <3>3
            DEF CreateContainer, ContainersTyped, containers, Stores
  <2>3. RestTyped'
    BY <1>0, <1>4, WorksTyped, FailsTyped
       DEF database, docker, containers, Stores, CreateContainer, RestTyped
  <2> QED BY <2>1, <2>2, <2>3, SMTT(40)
             DEF DatabaseTyped, ContainersTyped, RestTyped, Stores
<1>5. CASE StartContainer(o)
  BY <1>0, <1>5
     DEF database, docker, containers, Works, Fails, Stores, StartContainer
<1>6. CASE FinalizeInstance(o)
  BY <1>0, <1>6
     DEF database, docker, containers, Works, Fails, Stores,
         FinalizeInstance, Requests
<1>7. CASE CleanupContainer(o)
  <2>1. DatabaseTyped'
    BY <1>0, <1>7, DiscardTyped
       DEF database, docker, containers, Works, Fails, Stores,
           CleanupContainer, DatabaseTyped
  <2>2. ContainersTyped'
    BY <1>0, <1>7, DiscardTyped
       DEF database, docker, containers, Works, Fails, Stores,
           CleanupContainer, ContainersTyped
  <2>3. RestTyped'
    BY <1>0, <1>7, WorksTyped, FailsTyped
       DEF database, docker, containers, Stores, CleanupContainer, RestTyped
  <2> QED BY <2>1, <2>2, <2>3
          DEF DatabaseTyped, ContainersTyped, RestTyped, Stores
<1>8. CASE ReleasePortLock(o)
  BY <1>0, <1>8, LeaveTyped
     DEF database, docker, containers, Works, Fails, Stores,
         ReleasePortLock, NewInstanceDone, Finish
<1> QED BY <1>1, <1>2, <1>3, <1>4, <1>5, <1>6, <1>7, <1>8

\* So do the steps of stopContainers and what follows it.
LEMMA StoppingStores ==
  ASSUME NEW o \in Ops, Locals, Stores,
         \/ RemoveContainer(o)
         \/ ForgetContainer(o)
         \/ RemovePorts(o)
         \/ StopNetwork(o)
         \/ RetireRemaining(o)
         \/ RollbackNetwork(o)
         \/ RetireNetwork(o)
         \/ DeleteRow(o)
  PROVE  Stores'
<1>0. op[o] \in Requests /\ (op[o].pc \in InstanceSteps => op[o].inst \in Ids)
  BY DEF Locals, Sound
<1>1. CASE RemoveContainer(o)
  BY <1>0, <1>1, DiscardTyped, LeaveTyped
     DEF database, docker, containers, Works, Fails, Stores,
         RemoveContainer, AfterStop, Finish
<1>2. CASE ForgetContainer(o)
  BY <1>0, <1>2
     DEF database, docker, containers, Works, Fails, Stores, ForgetContainer
<1>3. CASE RemovePorts(o)
  BY <1>0, <1>3, LeaveTyped
     DEF database, docker, containers, Works, Fails, Stores, RemovePorts,
         AfterStop, Finish
<1>4. CASE StopNetwork(o)
  BY <1>0, <1>4, LeaveTyped
     DEF database, docker, containers, Works, Fails, Stores, StopNetwork,
         RemoveNetwork, KeepNetwork, Finish
<1>5. CASE RetireRemaining(o)
  BY <1>0, <1>5
     DEF database, docker, containers, Works, Fails, Stores,
         RetireRemaining, Requests
<1>6. CASE RollbackNetwork(o)
  BY <1>0, <1>6
     DEF database, docker, containers, Works, Fails, Stores,
         RollbackNetwork, RemoveNetwork, KeepNetwork
<1>7. CASE RetireNetwork(o)
  BY <1>0, <1>7
     DEF database, docker, containers, Works, Fails, Stores, RetireNetwork,
         InstanceSteps
<1>8. CASE DeleteRow(o)
  BY <1>0, <1>8, DeleteTyped, LeaveTyped
     DEF database, docker, containers, Works, Fails, Stores, DeleteRow,
         Finish, NewInstanceDone
<1> QED BY <1>1, <1>2, <1>3, <1>4, <1>5, <1>6, <1>7, <1>8

\* And the steps of recovery.
LEMMA RecoveringStores ==
  ASSUME NEW o \in Ops, Locals, Stores,
         \/ RemoveRetiredContainer(o)
         \/ RemoveRetiredNetwork(o)
         \/ Scan(o)
         \/ RemoveBroken(o)
         \/ BrokenNetwork(o)
         \/ RetireBrokenNetwork(o)
         \/ BrokenRow(o)
         \/ Restore(o)
  PROVE  Stores'
<1>0. op[o] \in Requests /\ (op[o].pc \in InstanceSteps => op[o].inst \in Ids)
  BY DEF Locals, Sound
<1>1. CASE RemoveRetiredContainer(o)
  <2>1. DatabaseTyped'
    BY <1>0, <1>1, DiscardTyped
       DEF database, docker, containers, Works, Fails, Stores,
           RemoveRetiredContainer, DatabaseTyped
  <2>2. ContainersTyped'
    BY <1>0, <1>1, DiscardTyped
       DEF database, docker, containers, Works, Fails, Stores,
           RemoveRetiredContainer, ContainersTyped
  <2>3. RestTyped'
    BY <1>0, <1>1, WorksTyped, FailsTyped
       DEF database, docker, containers, Stores, RemoveRetiredContainer,
           RestTyped
  <2> QED BY <2>1, <2>2, <2>3
          DEF DatabaseTyped, ContainersTyped, RestTyped, Stores
<1>2. CASE RemoveRetiredNetwork(o)
  <2>1. DatabaseTyped'
    BY <1>0, <1>2
       DEF database, docker, containers, Works, Fails, Stores,
           RemoveRetiredNetwork, DatabaseTyped, RemoveNetwork, KeepNetwork
  <2>2. ContainersTyped'
    BY <1>0, <1>2
       DEF database, docker, containers, Works, Fails, Stores,
           RemoveRetiredNetwork, ContainersTyped, RemoveNetwork, KeepNetwork
  <2>3. RestTyped'
    BY <1>0, <1>2, WorksTyped, FailsTyped
       DEF database, docker, containers, Stores, RemoveRetiredNetwork,
           RestTyped, RemoveNetwork, KeepNetwork
  <2> QED BY <2>1, <2>2, <2>3
          DEF DatabaseTyped, ContainersTyped, RestTyped, Stores
<1>3. CASE Scan(o)
  <2>1. DatabaseTyped'
    BY <1>0, <1>3
       DEF database, docker, containers, Works, Fails, Stores, Scan,
           DatabaseTyped, Inspect
  <2>2. ContainersTyped'
    BY <1>0, <1>3, ZenonT(60)
       DEF database, docker, containers, Works, Fails, Stores, Scan,
           ContainersTyped, Inspect
  <2>3. RestTyped'
    BY <1>0, <1>3, WorksTyped, FailsTyped
       DEF database, docker, containers, Stores, Scan, RestTyped, Inspect
  <2> QED BY <2>1, <2>2, <2>3
          DEF DatabaseTyped, ContainersTyped, RestTyped, Stores
<1>4. CASE RemoveBroken(o)
  <2>1. DatabaseTyped'
    BY <1>0, <1>4, DiscardTyped
       DEF database, docker, containers, Works, Fails, Stores, RemoveBroken,
           DatabaseTyped
  <2>2. ContainersTyped'
    BY <1>0, <1>4, DiscardTyped
       DEF database, docker, containers, Works, Fails, Stores, RemoveBroken,
           ContainersTyped
  <2>3. RestTyped'
    BY <1>0, <1>4, WorksTyped, FailsTyped
       DEF database, docker, containers, Stores, RemoveBroken, RestTyped
  <2> QED BY <2>1, <2>2, <2>3
          DEF DatabaseTyped, ContainersTyped, RestTyped, Stores
<1>5. CASE BrokenNetwork(o)
  BY <1>0, <1>5
     DEF database, docker, containers, Works, Fails, Stores, BrokenNetwork,
         RemoveNetwork, KeepNetwork
<1>6. CASE RetireBrokenNetwork(o)
  BY <1>0, <1>6
     DEF database, docker, containers, Works, Fails, Stores,
         RetireBrokenNetwork, InstanceSteps
<1>7. CASE BrokenRow(o)
  BY <1>0, <1>7, DeleteTyped, SMTT(40)
     DEF database, docker, containers, Works, Fails, Stores, BrokenRow
<1>8. CASE Restore(o)
  <2>1. DatabaseTyped'
    <3>1. op[o].restore \subseteq Builds BY <1>0 DEF Requests
    <3> QED BY <1>8, <3>1 DEF Restore, Open, DatabaseTyped, Stores
  <2>2. ContainersTyped'
    BY <1>0, <1>8, LeaveTyped
       DEF database, docker, containers, Works, Fails, Stores, Restore,
           ContainersTyped, Finish, Open, Requests
  <2>3. RestTyped'
    BY <1>0, <1>8, LeaveTyped, WorksTyped, FailsTyped
       DEF database, docker, containers, Stores, Restore, RestTyped, Finish
  <2> QED BY <2>1, <2>2, <2>3
          DEF DatabaseTyped, ContainersTyped, RestTyped, Stores
<1> QED BY <1>1, <1>2, <1>3, <1>4, <1>5, <1>6, <1>7, <1>8

\* The mark of a container that is being created.
LEMMA RetirePendingStores ==
  ASSUME NEW o \in Ops, Locals, Stores, RetirePending(o)
  PROVE  Stores'
<1>1. op[o].pc = "retire" => op[o].todo \subseteq Containers
  BY DEF Locals, Sound
<1>2. faults' \in 0 .. MaxFaults
  BY WorksTyped, FailsTyped DEF RetirePending
<1> QED BY <1>1, <1>2 DEF RetirePending, Stores, docker, containers

\* The beginnings of requests.
LEMMA BeginningStores ==
  ASSUME NEW o \in Ops, Locals, Stores,
         \/ \E b \in Builds : Start(o, b)
         \/ \E i \in Ids : Stop(o, i)
         \/ Recover(o)
  PROVE  Stores'
<1>1. ASSUME NEW b \in Builds, Start(o, b) PROVE Stores'
  BY <1>1, EnterTyped DEF Start, Open, Stores, docker, containers
<1>2. ASSUME NEW i \in Ids, Stop(o, i) PROVE Stores'
  BY <1>2, EnterTyped DEF Stop, Stores, database, docker, containers
<1>3. CASE Recover(o)
  BY <1>3, EnterTyped, WorksTyped, FailsTyped
     DEF Recover, Stores, database, docker, containers
<1> QED BY <1>1, <1>2, <1>3

\* What happens to processes and containers.
LEMMA CrashStores ==
  ASSUME NEW o \in Ops, Locals, Stores, Crash(o)
  PROVE  Stores'
  BY LeaveTyped, FailsTyped
     DEF Crash, Finish, Stores, database, docker, containers

\* The same for containers that are lost or stop.
LEMMA ContainerStores ==
  ASSUME NEW c \in Containers, Stores, Lose(c) \/ Exit(c)
  PROVE  Stores'
  BY FailsTyped DEF Lose, Exit, Stores, database

-----------------------------------------------------------------------------
(* Containers and their marks                                              *)

\* No table gives the containers of an unfinished newInstance to an instance,
\* and no two of them have a container in common.
Uncommitted ==
  \A o \in Ops : Building(op[o]) => \A c \in op[o].cs : owner[c] = 0

Apart == \A o, u \in Ops :
           o # u /\ Building(op[o]) /\ Building(op[u])
             => op[o].cs \cap op[u].cs = {}

Marks == Uncommitted /\ Apart /\ ActiveNotRetired

IndInv == Stores /\ Locals /\ Marks

\* No container gets an owner, and an owned one no mark.
Quiet == \A c \in Containers : owner'[c] # 0 => owner[c] # 0 /\ c \notin retC'

\* A move of one request keeps them all sound.
LEMMA LocalsKept ==
  ASSUME NEW o \in Ops, Locals, Moves(o)
  PROVE  Locals'
  BY DEF Locals, Moves, Good, Sound

\* A quiet move keeps the marks.
LEMMA MarksKept ==
  ASSUME NEW o \in Ops, Locals, Marks, Moves(o), Quiet
  PROVE  Marks'
<1>1. \A u \in Ops : u # o => op'[u] = op[u]
  BY DEF Moves, Locals
<1>2. Building(op'[o]) => \/ op'[o].cs = {}
                          \/ Building(op[o]) /\ op'[o].cs \subseteq op[o].cs
  BY DEF Moves, Good
<1>3. \A u \in Ops : op[u].cs \subseteq Containers
  BY DEF Locals, Requests
<1>4. Uncommitted'
  BY <1>1, <1>2, <1>3 DEF Marks, Uncommitted, Quiet, Building
<1>5. Apart'
  BY <1>1, <1>2 DEF Marks, Apart, Building
<1>6. ActiveNotRetired' BY DEF ActiveNotRetired, Quiet
<1> QED BY <1>4, <1>5, <1>6 DEF Marks

\* These steps give no container an owner or a mark ...
LEMMA QuietSteps ==
  ASSUME NEW o \in Ops, Stores, Locals, Marks,
         \/ CreateNetwork(o) \/ AcquirePortLock(o) \/ PortLockFails(o)
         \/ StartContainer(o) \/ CleanupContainer(o) \/ ReleasePortLock(o)
         \/ RemoveContainer(o) \/ ForgetContainer(o) \/ RemovePorts(o)
         \/ StopNetwork(o) \/ RollbackNetwork(o) \/ RetireNetwork(o)
         \/ DeleteRow(o)
         \/ RemoveRetiredContainer(o) \/ RemoveRetiredNetwork(o)
         \/ Scan(o) \/ RemoveBroken(o) \/ BrokenNetwork(o)
         \/ RetireBrokenNetwork(o) \/ BrokenRow(o) \/ Restore(o)
  PROVE  Quiet
<1>0. \A c \in Containers : owner[c] # 0 => c \notin retC
  BY DEF Marks, ActiveNotRetired
<1>1. CASE CreateNetwork(o)
  BY <1>0, <1>1 DEF Quiet, Stores, database, CreateNetwork
<1>2. CASE AcquirePortLock(o)
  BY <1>0, <1>2 DEF Quiet, Stores, database, AcquirePortLock
<1>3. CASE PortLockFails(o)
  BY <1>0, <1>3 DEF Quiet, Stores, database, PortLockFails
<1>4. CASE StartContainer(o)
  BY <1>0, <1>4 DEF Quiet, Stores, database, StartContainer
<1>5. CASE CleanupContainer(o)
  BY <1>0, <1>5 DEF Quiet, Stores, database, CleanupContainer
<1>6. CASE ReleasePortLock(o)
  BY <1>0, <1>6 DEF Quiet, Stores, database, ReleasePortLock
<1>7. CASE RemoveContainer(o)
  BY <1>0, <1>7 DEF Quiet, Stores, database, RemoveContainer
<1>8. CASE ForgetContainer(o)
  BY <1>0, <1>8 DEF Quiet, Stores, database, ForgetContainer
<1>9. CASE RemovePorts(o)
  BY <1>0, <1>9 DEF Quiet, Stores, database, RemovePorts
<1>10. CASE StopNetwork(o)
  BY <1>0, <1>10 DEF Quiet, Stores, database, StopNetwork
<1>11. CASE RollbackNetwork(o)
  BY <1>0, <1>11 DEF Quiet, Stores, database, RollbackNetwork
<1>12. CASE RetireNetwork(o)
  BY <1>0, <1>12 DEF Quiet, Stores, database, RetireNetwork
<1>13. CASE DeleteRow(o)
  BY <1>0, <1>13 DEF Quiet, Stores, database, DeleteRow, DeleteInstance
<1>14. CASE RemoveRetiredContainer(o)
  BY <1>0, <1>14 DEF Quiet, Stores, database, RemoveRetiredContainer
<1>15. CASE RemoveRetiredNetwork(o)
  BY <1>0, <1>15 DEF Quiet, Stores, database, RemoveRetiredNetwork
<1>16. CASE Scan(o)
  BY <1>0, <1>16 DEF Quiet, Stores, database, Scan
<1>17. CASE RemoveBroken(o)
  BY <1>0, <1>17 DEF Quiet, Stores, database, RemoveBroken
<1>18. CASE BrokenNetwork(o)
  BY <1>0, <1>18 DEF Quiet, Stores, database, BrokenNetwork
<1>19. CASE RetireBrokenNetwork(o)
  BY <1>0, <1>19 DEF Quiet, Stores, database, RetireBrokenNetwork
<1>20. CASE BrokenRow(o)
  BY <1>0, <1>20, SMTT(40)
     DEF Quiet, Stores, database, BrokenRow, DeleteInstance
<1>21. CASE Restore(o)
  BY <1>0, <1>21 DEF Quiet, Stores, database, Restore
<1> QED BY <1>1, <1>2, <1>3, <1>4, <1>5, <1>6, <1>7, <1>8, <1>9, <1>10,
        <1>11, <1>12, <1>13, <1>14, <1>15, <1>16, <1>17, <1>18, <1>19,
                <1>20, <1>21

\* ... and these mark the containers of an unfinished newInstance only.
LEMMA RetiringSteps ==
  ASSUME NEW o \in Ops, Stores, Locals, Marks,
         RetirePending(o) \/ RetireRemaining(o)
  PROVE  Quiet
<1>0. \A c \in Containers : owner[c] # 0 => c \notin retC
  BY DEF Marks, ActiveNotRetired
<1>1. CASE RetirePending(o)
  <2>1. \A c \in op[o].todo : owner[c] = 0
    BY <1>1 DEF RetirePending, Locals, Sound, Marks, Uncommitted, Building,
                CreateSteps
  <2> QED BY <1>0, <1>1, <2>1 DEF Quiet, RetirePending
<1>2. CASE RetireRemaining(o)
  <2>1. \A c \in op[o].cs : owner[c] = 0
    BY <1>2 DEF RetireRemaining, Locals, Sound, Marks, Uncommitted, Building,
                CreateSteps
  <2> QED BY <1>0, <1>2, <2>1 DEF Quiet, RetireRemaining
<1> QED BY <1>1, <1>2

\* A new container is nobody's: no table and no request mentions it.
LEMMA CreateStep ==
  ASSUME NEW o \in Ops, Stores, Locals, Marks, CreateContainer(o)
  PROVE  Locals' /\ Marks'
<1>0. Quiet
  BY DEF CreateContainer, database, Quiet, Marks, ActiveNotRetired
<1>1. CASE Abort(o)
  <2>1. Moves(o) BY <1>1, AbortMoves DEF CreateContainer, CreateSteps
  <2> QED BY <1>0, <2>1, LocalsKept, MarksKept
<1>2. CASE ~Abort(o)
  <2> DEFINE c == Pick(Fresh)
             r == [op[o] EXCEPT !.pc = "retire", !.cs = @ \cup {c},
                                !.todo = {c}]
  <2>1. Become(o, r) /\ op[o].pc = "create" /\ UNCHANGED owner
    BY <1>2 DEF CreateContainer, database
  <2>2. c \in Fresh BY PickIn DEF CreateContainer
  <2>3. c \in Containers /\ owner[c] = 0 /\ \A u \in Ops : c \notin op[u].cs
    BY <2>2 DEF Fresh, Referenced
  <2> HIDE DEF c
  <2>4. Sound(op[o]) BY DEF Locals
  <2>5. r \in Requests
    <3>1. op[o] \in Requests BY <2>4 DEF Sound
    <3>2. PICK C, T : C = op[o].cs \cup {c} /\ T = {c} OBVIOUS
    <3>3. C \subseteq Containers /\ T \subseteq Containers
      BY <2>3, <3>1, <3>2 DEF Requests
    <3>4. r = [op[o] EXCEPT !.pc = "retire", !.cs = C, !.todo = T] BY <3>2
    <3> HIDE DEF r
    <3> QED BY <3>1, <3>3, <3>4 DEF Requests, Steps
  <2>6. Sound(r)
    BY <2>1, <2>3, <2>4, <2>5
       DEF Sound, InstanceSteps, CreateSteps, RecoverySteps, Requests
  <2>7. r.cs = op[o].cs \cup {c} /\ Building(op[o])
    BY <2>1, <2>4 DEF Sound, Building, CreateSteps, Requests
  <2>8. op' = [op EXCEPT ![o] = r] BY <2>1 DEF Become
  <2> HIDE DEF r
  <2>9. op'[o] = r /\ \A u \in Ops : u # o => op'[u] = op[u]
    BY <2>8 DEF Locals
  <2>10. Locals'
    BY <2>6, <2>8, <2>9 DEF Locals, Sound
  <2>11. Uncommitted'
    BY <2>1, <2>3, <2>7, <2>9 DEF Marks, Uncommitted, Building
  <2>12. Apart'
    BY <2>3, <2>7, <2>9 DEF Marks, Apart, Building
  <2> QED BY <1>0, <2>10, <2>11, <2>12 DEF Marks, Quiet, ActiveNotRetired
<1> QED BY <1>1, <1>2

\* The commit takes the marks away, and other requests have other containers.
LEMMA FinalizeStep ==
  ASSUME NEW o \in Ops, Stores, Locals, Marks, FinalizeInstance(o)
  PROVE  Locals' /\ Marks'
<1>1. Moves(o) BY CreatingMoves
<1>2. Locals' BY <1>1, LocalsKept
<1>3. CASE UNCHANGED <<owner, retC>>
  BY <1>1, <1>2, <1>3, MarksKept DEF Quiet, Marks, ActiveNotRetired
<1>4. CASE ~UNCHANGED <<owner, retC>>
  <2>1. /\ Goto(o, "unlock") /\ op[o].pc = "finalize"
        /\ retC' = retC \ op[o].cs
        /\ owner' = [c \in Containers |->
                       IF c \in op[o].cs THEN op[o].inst ELSE owner[c]]
    BY <1>4 DEF FinalizeInstance
  <2>2. op[o] \in Requests /\ op[o].ok /\ op[o].kind # "stop"
    BY <2>1 DEF Locals, Sound, CreateSteps
  <2>3. Building(op[o]) BY <2>1, <2>2 DEF Building, CreateSteps
  <2>4. ~Building([op[o] EXCEPT !.pc = "unlock"])
    BY <2>2 DEF Building, CreateSteps, Requests
  <2>5. ~Building(op'[o]) /\ \A u \in Ops : u # o => op'[u] = op[u]
    BY <2>1, <2>4 DEF Goto, Become, Locals
  <2>6. \A u \in Ops : op[u].cs \subseteq Containers
    BY DEF Locals, Requests
  <2>7. Uncommitted'
    BY <2>1, <2>3, <2>5, <2>6 DEF Marks, Uncommitted, Apart, Building
  <2>8. Apart'
    BY <2>5 DEF Marks, Apart, Building
  <2>9. ActiveNotRetired'
    BY <2>1 DEF Marks, ActiveNotRetired
  <2> QED BY <1>2, <2>7, <2>8, <2>9 DEF Marks
<1> QED BY <1>3, <1>4

\* The initial states.
LEMMA InitInv == Init => IndInv
<1> SUFFICES ASSUME Init PROVE IndInv OBVIOUS
<1>1. row \in [Ids -> Builds \cup {None}] BY DEF Init
<1>2. owner \in [Containers -> Ids \cup {0}] BY DEF Init
<1>3. assigned \in [Ports -> Ids \cup {0}]
  <2>1. \A p \in Ports : (\E c \in Containers : bind[c] = p) =>
          (CHOOSE c \in Containers : bind[c] = p) \in Containers
    OBVIOUS
  <2> QED BY <1>2, <2>1 DEF Init
<1>4. ContainersTyped BY <1>2 DEF Init, ContainersTyped
<1>5. RestTyped
  <2>1. nets \in SUBSET Ids BY DEF Init, Rows
  <2>2. hold \in [Ops -> Barrier!Holds] BY DEF Init, Barrier!Holds
  <2>3. faults \in 0 .. MaxFaults
    <3>1. MaxFaults \in Nat BY ParametersAssumption
    <3>2. faults = 0 BY DEF Init
    <3> QED BY <3>1, <3>2
  <2> QED BY <2>1, <2>2, <2>3 DEF Init, RestTyped
<1>6. Stores
  BY <1>1, <1>2, <1>3, <1>4, <1>5 DEF Init, Stores, ContainersTyped, RestTyped
<1>7. Sound(Idle)
  BY DEF Sound, Idle, Requests, Steps, InstanceSteps, CreateSteps,
         RecoverySteps
<1>8. Locals
  <2>1. op = [o \in Ops |-> Idle] BY DEF Init
  <2>2. Idle \in Requests BY <1>7 DEF Sound
  <2> QED BY <1>7, <2>1, <2>2 DEF Locals
<1>9. Marks
  BY DEF Init, Idle, Marks, Uncommitted, Apart, ActiveNotRetired
<1> QED BY <1>6, <1>8, <1>9 DEF IndInv

\* Every step keeps the inductive invariant.
LEMMA StepInv == IndInv /\ [Next]_vars => IndInv'
<1> SUFFICES ASSUME IndInv, [Next]_vars PROVE IndInv' OBVIOUS
<1> USE DEF IndInv
<1>1. ASSUME NEW o \in Ops, Moves(o), Quiet PROVE Locals' /\ Marks'
  BY <1>1, LocalsKept, MarksKept
<1>2. ASSUME NEW o \in Ops, Step(o) PROVE IndInv'
  <2>1. Stores'
    BY <1>2, CreatingStores, StoppingStores, RecoveringStores,
       RetirePendingStores DEF Step
  <2>2. CASE CreateContainer(o) BY <2>1, <2>2, CreateStep
  <2>3. CASE FinalizeInstance(o) BY <2>1, <2>3, FinalizeStep
  <2>4. CASE ~CreateContainer(o) /\ ~FinalizeInstance(o)
    <3>1. Moves(o)
      BY <1>2, <2>4, CreatingMoves, StoppingMoves, RecoveringMoves,
         ScanRestoreMoves DEF Step
    <3>2. Quiet BY <1>2, <2>4, QuietSteps, RetiringSteps DEF Step
    <3> QED BY <1>1, <2>1, <3>1, <3>2
  <2> QED BY <2>2, <2>3, <2>4
<1>3. ASSUME NEW o \in Ops,
             \/ \E b \in Builds : Start(o, b)
             \/ \E i \in Ids : Stop(o, i)
             \/ Recover(o)
      PROVE  IndInv'
  <2>1. Stores' BY <1>3, BeginningStores
  <2>2. Moves(o) BY <1>3, StartMoves, StopMoves, RecoverMoves
  <2>3. UNCHANGED <<owner, retC>>
    BY <1>3 DEF Start, Stop, Recover, database
  <2> QED BY <1>1, <2>1, <2>2, <2>3 DEF Quiet, Marks, ActiveNotRetired
<1>4. ASSUME NEW o \in Ops, Crash(o) PROVE IndInv'
  <2>1. Stores' BY <1>4, CrashStores
  <2>2. Moves(o) BY <1>4, FinishMoves DEF Crash
  <2>3. UNCHANGED <<owner, retC>> BY <1>4 DEF Crash, database
  <2> QED BY <1>1, <2>1, <2>2, <2>3 DEF Quiet, Marks, ActiveNotRetired
<1>5. ASSUME NEW c \in Containers, Lose(c) \/ Exit(c) PROVE IndInv'
  <2>1. Stores' BY <1>5, ContainerStores
  <2>2. UNCHANGED <<op, owner, retC>> BY <1>5 DEF Lose, Exit, database
  <2> QED BY <2>1, <2>2 DEF Locals, Marks, Uncommitted, Apart,
          ActiveNotRetired
<1>6. CASE UNCHANGED vars
  BY <1>6 DEF vars, database, docker, containers, Stores, Locals, Marks,
              Uncommitted, Apart, ActiveNotRetired
<1> QED BY <1>2, <1>3, <1>4, <1>5, <1>6 DEF Next

\* The inductive invariant holds in every reachable state.
THEOREM Inductive == Spec => []IndInv
  BY InitInv, StepInv, PTL DEF Spec

\* The state of the two stores and of the requests is always of its type.
THEOREM TypeCorrect == Spec => []TypeOK
<1>1. IndInv => TypeOK BY DEF IndInv, Stores, Locals, TypeOK
<1> QED BY Inductive, <1>1, PTL

\* Recovery, which removes what is marked as retired, never removes a
\* container that finalizeInstance has committed: whatever fails, however
\* many requests run, and also when clients stop unfinished instances.
THEOREM CommittedNotRetired == Spec => []ActiveNotRetired
<1>1. IndInv => ActiveNotRetired BY DEF IndInv, Marks
<1> QED BY Inductive, <1>1, PTL

-----------------------------------------------------------------------------
(* Who works on what                                                       *)

\* A request is inside the barrier from its first step to its last, and a
\* recovery is alone there; its own steps hold no containers.
Held(o) ==
  /\ hold[o] = "none" => op[o] = Idle
  /\ op[o].pc = "idle" => op[o] = Idle /\ hold[o] = "none"
  /\ op[o].kind = "none" => op[o].pc = "idle"
  /\ op[o].kind = "recover" => hold[o] = "exclusive"
  /\ op[o].pc \in RecoverySteps => op[o].kind = "recover" /\ op[o].cs = {}

Alone == \A o, u \in Ops : o # u /\ hold[o] = "exclusive" => hold[u] = "none"

\* No two requests work on the same instance or the same container.
Distinct == \A o, u \in Ops : o # u =>
              /\ op[o].inst # 0 => op[o].inst # op[u].inst
              /\ op[o].cs \cap op[u].cs = {}

\* newInstance has not committed, and never will once it rolls back.
Unfinished(r) == \/ Building(r)
                 \/ r.kind # "stop" /\ r.pc \in {"rbnet", "retnet", "delete"}

\* What the stores say of the instance and the containers of a request.
Faithful(o) ==
  LET r == op[o] IN
  /\ r.inst # 0 => row[r.inst] # None
  /\ \A c \in r.cs : owner[c] # 0 => owner[c] = r.inst
  /\ r.pc \in {"start", "cleanup"} => r.todo \subseteq r.cs
  /\ r.pc = "stopnet" => r.kind = "stop"
  /\ r.pc \in {"rbnet", "retnet"} => r.kind # "stop"
  /\ r.pc = "start" => r.todo \subseteq retC
  /\ r.pc = "forget" => state[Pick(r.todo)] = "none"
  /\ r.pc \in {"broken", "brokennet", "brokenret", "brokenrow"}
       => \A i \in r.todo : row[i] # None
  /\ \A c \in Containers : owner[c] = r.inst =>
       /\ ~Unfinished(r)
       /\ r.kind = "stop" /\ r.pc \in {"remove", "forget"}
            => c \in r.todo \cup r.left
       /\ ~(r.kind = "stop" /\ r.pc \in {"ports", "stopnet", "delete"})
       /\ r.pc \in {"brokennet", "brokenret", "brokenrow"}
            => state[c] = "none"

\* A container row has its instance row, and a container that ever ran has a
\* row or is retired.
Recorded ==
  /\ \A c \in Containers : owner[c] # 0 => row[owner[c]] # None
  /\ \A c \in Containers :
       state[c] \in {"running", "exited"} => owner[c] # 0 \/ c \in retC

TrackInv == /\ Alone /\ Distinct /\ Recorded
            /\ \A o \in Ops : Held(o) /\ Faithful(o)

OthersStay(o) == \A u \in Ops : u # o => op'[u] = op[u]

\* The next step, with the same local variables.
LEMMA GotoFields ==
  ASSUME NEW o \in Ops, Locals, NEW p, Goto(o, p)
  PROVE  /\ OthersStay(o)
         /\ op'[o].kind = op[o].kind /\ op'[o].pc = p
         /\ op'[o].build = op[o].build /\ op'[o].inst = op[o].inst
         /\ op'[o].cs = op[o].cs /\ op'[o].todo = op[o].todo
         /\ op'[o].left = op[o].left /\ op'[o].restore = op[o].restore
         /\ op'[o].ok = op[o].ok /\ op'[o].clean = op[o].clean
<1>1. op[o] \in Requests BY DEF Locals
<1>2. op' = [op EXCEPT ![o] = [op[o] EXCEPT !.pc = p]]
  BY DEF Goto, Become
<1> QED BY <1>1, <1>2 DEF Locals, OthersStay, Requests

\* The roll-back begins.
LEMMA RollbackFields ==
  ASSUME NEW o \in Ops, Locals, Rollback(o)
  PROVE  /\ OthersStay(o)
         /\ op'[o].kind = op[o].kind /\ op'[o].pc = "remove"
         /\ op'[o].build = op[o].build /\ op'[o].inst = op[o].inst
         /\ op'[o].cs = op[o].cs /\ op'[o].todo = op[o].cs /\ op'[o].left = {}
         /\ op'[o].restore = op[o].restore /\ op'[o].ok = FALSE
         /\ op'[o].clean = op[o].clean
<1>1. op[o] \in Requests BY DEF Locals
<1>2. op' = [op EXCEPT ![o] = [op[o] EXCEPT
                               !.pc = "remove", !.todo = op[o].cs,
                               !.left = {}, !.ok = FALSE]]
  BY DEF Rollback, Become
<1> QED BY <1>1, <1>2 DEF Locals, OthersStay, Requests

\* The clean-up under the port allocation lock begins.
LEMMA CleanupFields ==
  ASSUME NEW o \in Ops, Locals, Abort(o), portLock = o
  PROVE  /\ OthersStay(o)
         /\ op'[o].kind = op[o].kind /\ op'[o].pc = "cleanup"
         /\ op'[o].build = op[o].build /\ op'[o].inst = op[o].inst
         /\ op'[o].cs = op[o].cs /\ op'[o].todo = op[o].cs
         /\ op'[o].left = op[o].left /\ op'[o].restore = op[o].restore
         /\ op'[o].ok = FALSE /\ op'[o].clean = op[o].clean
<1>1. op[o] \in Requests BY DEF Locals
<1>2. op' = [op EXCEPT ![o] = [op[o] EXCEPT
                               !.pc = "cleanup", !.todo = op[o].cs,
                               !.ok = FALSE]]
  BY DEF Abort, Become
<1> QED BY <1>1, <1>2 DEF Locals, OthersStay, Requests

\* A request ends.
LEMMA FinishFields ==
  ASSUME NEW o \in Ops, Locals, Stores, Finish(o)
  PROVE  /\ OthersStay(o)
         /\ op'[o] = Idle /\ hold'[o] = "none"
         /\ \A u \in Ops : u # o => hold'[u] = hold[u]
  BY DEF Finish, Become, Barrier!Leave, Locals, Stores, OthersStay

\* A new instance, for the request q.
LEMMA OpenFields ==
  ASSUME NEW o \in Ops, Locals, NEW b, NEW q \in Requests, Open(o, b, q)
  PROVE  /\ OthersStay(o)
         /\ op'[o].kind = q.kind /\ op'[o].pc = "net" /\ op'[o].build = b
         /\ op'[o].inst = NextId /\ op'[o].cs = {} /\ op'[o].todo = {}
         /\ op'[o].left = {} /\ op'[o].restore = q.restore /\ op'[o].ok = TRUE
         /\ op'[o].clean = q.clean
<1>1. op[o] \in Requests BY DEF Locals
<1>2. op' = [op EXCEPT ![o] = [q EXCEPT
                         !.pc = "net", !.build = b, !.inst = NextId,
                         !.cs = {}, !.todo = {}, !.left = {}, !.ok = TRUE]]
  BY DEF Open, Become
<1> QED BY <1>1, <1>2 DEF Locals, OthersStay, Requests

\* Recovery is done with a new instance.
LEMMA DoneFields ==
  ASSUME NEW o \in Ops, Locals, NewInstanceDone(o),
         op[o].kind # "start"
  PROVE  /\ OthersStay(o)
         /\ op'[o].kind = op[o].kind /\ op'[o].pc = "restore"
         /\ op'[o].build = op[o].build /\ op'[o].inst = 0 /\ op'[o].cs = {}
         /\ op'[o].todo = op[o].todo /\ op'[o].left = {}
         /\ op'[o].restore = (IF op[o].ok THEN op[o].restore
                              ELSE op[o].restore \ {op[o].build})
         /\ op'[o].ok = op[o].ok /\ op'[o].clean = (op[o].clean /\ op[o].ok)
<1>1. op[o] \in Requests BY DEF Locals
<1>2. op' = [op EXCEPT ![o] = [op[o] EXCEPT
       !.pc = "restore", !.inst = 0, !.cs = {}, !.left = {},
       !.restore = IF op[o].ok THEN @ ELSE @ \ {op[o].build},
       !.clean = @ /\ op[o].ok]]
  BY DEF NewInstanceDone, Become
<1> QED BY <1>1, <1>2 DEF Locals, OthersStay, Requests

\* The roll-back goes on after stopContainers.
LEMMA RetainFields ==
  ASSUME NEW o \in Ops, Locals, NEW failed, AfterStop(o, failed),
         op[o].kind # "stop"
  PROVE  /\ OthersStay(o)
         /\ op'[o].kind = op[o].kind /\ op'[o].pc = "rbretire"
         /\ op'[o].build = op[o].build /\ op'[o].inst = op[o].inst
         /\ op'[o].cs = op[o].left /\ op'[o].todo = op[o].todo
         /\ op'[o].left = op[o].left /\ op'[o].restore = op[o].restore
         /\ op'[o].ok = op[o].ok /\ op'[o].clean = op[o].clean
<1>1. op[o] \in Requests BY DEF Locals
<1>2. op' = [op EXCEPT ![o] = [op[o] EXCEPT !.pc = "rbretire",
                                            !.cs = op[o].left]]
  BY DEF AfterStop, Become
<1> QED BY <1>1, <1>2 DEF Locals, OthersStay, Requests

\* The loop of a recovery goes on.
LEMMA ProceedFields ==
  ASSUME NEW o \in Ops, Locals, NEW x, NEW good \in BOOLEAN,
         Proceed(o, x, good)
  PROVE  /\ OthersStay(o)
         /\ op'[o].kind = op[o].kind /\ op'[o].pc = op[o].pc
         /\ op'[o].build = op[o].build /\ op'[o].inst = op[o].inst
         /\ op'[o].cs = op[o].cs /\ op'[o].todo = op[o].todo \ {x}
         /\ op'[o].left = op[o].left /\ op'[o].restore = op[o].restore
         /\ op'[o].ok = op[o].ok /\ op'[o].clean = (op[o].clean /\ good)
<1>1. op[o] \in Requests BY DEF Locals
<1>2. op' = [op EXCEPT ![o] = [op[o] EXCEPT !.todo = @ \ {x},
                                          !.clean = @ /\ good]]
  BY DEF Proceed, Become
<1> QED BY <1>1, <1>2 DEF Locals, OthersStay, Requests

\* The loop over the broken instances goes on.
LEMMA SkipFields ==
  ASSUME NEW o \in Ops, Locals, SkipBroken(o)
  PROVE  /\ OthersStay(o)
         /\ op'[o].kind = op[o].kind /\ op'[o].pc = "broken"
         /\ op'[o].build = op[o].build /\ op'[o].inst = 0
         /\ op'[o].cs = op[o].cs /\ op'[o].todo = op[o].todo \ {op[o].inst}
         /\ op'[o].left = op[o].left /\ op'[o].restore = op[o].restore
         /\ op'[o].ok = op[o].ok /\ op'[o].clean = FALSE
<1>1. op[o] \in Requests BY DEF Locals
<1>2. op' = [op EXCEPT ![o] = [op[o] EXCEPT
                  !.pc = "broken", !.todo = @ \ {op[o].inst}, !.inst = 0,
                  !.clean = FALSE]]
  BY DEF SkipBroken, Become
<1> QED BY <1>1, <1>2 DEF Locals, OthersStay, Requests

\* A step of o leaves the other requests alone: it deletes the row of its own
\* instance at most, moves its own containers in or out of its instance, and
\* creates containers that nobody mentions.
Frame(o) ==
  /\ OthersStay(o)
  /\ \A u \in Ops : u # o => hold'[u] = hold[u]
  /\ \A i \in Ids : row[i] # None /\ i # op[o].inst => row'[i] # None
  /\ \A c \in Containers :
       \/ owner'[c] = owner[c]
       \/ owner[c] = op[o].inst /\ owner'[c] = 0
       \/ c \in op[o].cs /\ owner'[c] = op[o].inst
  /\ \A c \in Containers :
       state[c] = "none" => state'[c] = "none" \/ c \in Fresh
  /\ \A c \in retC : c \in retC' \/ c \in op[o].cs \/ hold[o] = "exclusive"

\* What disappears from the tables is gone from Docker, what leaves the
\* retired containers belongs to an instance, and what starts to run is
\* known to one of the two.
Careful ==
  \A c \in Containers :
    /\ owner[c] # 0 /\ owner'[c] = 0 => state'[c] = "none"
    /\ c \in retC => c \in retC' \/ state'[c] = "none" \/ owner'[c] # 0
    /\ state'[c] \in {"running", "exited"}
         => \/ state[c] \in {"running", "exited"}
            \/ owner'[c] # 0 \/ c \in retC'
    /\ owner'[c] # 0 => row'[owner'[c]] # None

\* The request of o takes no instance and no container that it did not have.
Shrinks(o) == op'[o].inst \in {0, op[o].inst} /\ op'[o].cs \subseteq op[o].cs

\* A framed step keeps what is known of the other requests.
LEMMA OthersKept ==
  ASSUME IndInv, TrackInv, NEW o \in Ops, Frame(o), NEW u \in Ops, u # o
  PROVE  Held(u)' /\ Faithful(u)'
<1>1. op'[u] = op[u] /\ hold'[u] = hold[u]
  BY DEF Frame, OthersStay
<1>2. Held(u)'
  BY <1>1 DEF TrackInv, Held
<1>3. Faithful(u) /\ Held(u) /\ Held(o) BY DEF TrackInv
<1>4. Sound(op[u]) BY DEF IndInv, Locals
<1>5. /\ op[u].inst # 0 => op[u].inst # op[o].inst
      /\ \A c \in op[u].cs : c \notin op[o].cs
  BY DEF TrackInv, Distinct
<1>6. hold[o] = "exclusive" => op[u] = Idle
  BY <1>3 DEF TrackInv, Alone, Held
<1>7. hold[u] = "exclusive" => op[o] = Idle
  BY <1>3 DEF TrackInv, Alone, Held
<1>8. op[u].inst \in Ids \cup {0} /\ op[u].cs \subseteq Containers
  BY <1>4 DEF Sound, Requests
<1>9. op[u].inst # 0 => row'[op[u].inst] # None
  BY <1>3, <1>5, <1>8 DEF Faithful, Frame
<1>10. \A c \in op[u].cs : owner'[c] # 0 => owner'[c] = op[u].inst
  BY <1>3, <1>5, <1>8 DEF Faithful, Frame
<1>11. op[u].pc = "start" => op[u].todo \subseteq retC'
  <2> SUFFICES ASSUME op[u].pc = "start", NEW c \in op[u].todo
               PROVE  c \in retC'
    OBVIOUS
  <2>1. c \in retC /\ c \in op[u].cs BY <1>3 DEF Faithful
  <2>2. hold[o] # "exclusive" BY <1>6 DEF Idle
  <2> QED BY <1>5, <2>1, <2>2 DEF Frame
<1>12. \A c \in Containers :
         state[c] = "none" /\ (c \in op[u].cs \/ owner[c] # 0)
           => state'[c] = "none"
  BY DEF Frame, Fresh, Referenced
<1>13. op[u].pc = "forget" => state'[Pick(op[u].todo)] = "none"
  <2> SUFFICES ASSUME op[u].pc = "forget"
               PROVE  state'[Pick(op[u].todo)] = "none"
    OBVIOUS
  <2>1. Pick(op[u].todo) \in op[u].cs BY <1>4, PickIn DEF Sound
  <2>2. state[Pick(op[u].todo)] = "none" BY <1>3 DEF Faithful
  <2> QED BY <1>8, <1>12, <2>1, <2>2
<1>14. op[u].pc \in {"broken", "brokennet", "brokenret", "brokenrow"}
         => \A i \in op[u].todo : row'[i] # None
  <2> SUFFICES ASSUME op[u].pc \in {"broken", "brokennet", "brokenret",
                                    "brokenrow"},
                      NEW i \in op[u].todo
               PROVE  row'[i] # None
    OBVIOUS
  <2>1. i \in Ids /\ row[i] # None BY <1>3, <1>4 DEF Faithful, Sound
  <2>2. op[o].inst = 0 BY <1>3, <1>7 DEF Held, RecoverySteps, Idle
  <2>3. i # op[o].inst BY <2>1, <2>2 DEF Ids
  <2> QED BY <2>1, <2>3 DEF Frame
<1>15. ASSUME NEW c \in Containers, owner'[c] = op[u].inst, op[u].inst # 0
       PROVE  owner[c] = op[u].inst
  BY <1>5, <1>15 DEF Frame
<1>16. op[u].inst = 0 => op[u].pc \notin InstanceSteps
  BY <1>4 DEF Sound, Ids
<1>17. ASSUME NEW c \in Containers, owner'[c] = op[u].inst
       PROVE  /\ ~Unfinished(op[u])
              /\ op[u].kind = "stop" /\ op[u].pc \in {"remove", "forget"}
                   => c \in op[u].todo \cup op[u].left
              /\ ~(op[u].kind = "stop" /\
                   op[u].pc \in {"ports", "stopnet", "delete"})
              /\ op[u].pc \in {"brokennet", "brokenret", "brokenrow"}
                   => state'[c] = "none"
  <2>1. CASE op[u].inst = 0
    BY <1>16, <2>1 DEF Unfinished, Building, InstanceSteps, CreateSteps
  <2>2. CASE op[u].inst # 0
    <3>1. owner[c] = op[u].inst BY <1>15, <1>17, <2>2
    <3> QED BY <1>3, <1>12, <2>2, <3>1 DEF Faithful
  <2> QED BY <2>1, <2>2
<1>18. Faithful(u)'
  BY <1>1, <1>3, <1>9, <1>10, <1>11, <1>13, <1>14, <1>17
     DEF Faithful, Unfinished, Building
<1> QED BY <1>2, <1>18

\* A careful step keeps the records.
LEMMA RecordsKept == ASSUME Recorded, Careful PROVE Recorded'
  BY DEF Recorded, Careful

\* A framed step that takes nothing new keeps requests apart.
LEMMA DistinctKept ==
  ASSUME Distinct, NEW o \in Ops, Frame(o),
         \A u \in Ops : u # o =>
           /\ op'[o].inst # 0 => op'[o].inst # op[u].inst
           /\ op'[o].cs \cap op[u].cs = {}
  PROVE  Distinct'
  BY DEF Distinct, Frame, OthersStay

\* One that shrinks does.
LEMMA ShrinkingKept ==
  ASSUME Distinct, NEW o \in Ops, Frame(o), Shrinks(o)
  PROVE  Distinct'
  BY DistinctKept DEF Distinct, Shrinks

\* So nothing but the request itself is left to look at.
LEMMA TrackKept ==
  ASSUME IndInv, TrackInv, NEW o \in Ops, Frame(o), Careful, Distinct',
         Held(o)', Faithful(o)', hold'[o] \in {hold[o], "none"}
  PROVE  TrackInv'
<1>1. \A u \in Ops : Held(u)' /\ Faithful(u)' BY OthersKept
<1>2. Alone' BY DEF TrackInv, Alone, Frame
<1>3. Recorded' BY RecordsKept DEF TrackInv
<1> QED BY <1>1, <1>2, <1>3 DEF TrackInv

\* A set of identifiers has a largest one.
LEMMA Largest ==
  ASSUME NEW S \in SUBSET Ids, S # {}
  PROVE  \E x \in S : \A y \in S : x >= y
<1> DEFINE T == {MaxInstances - x : x \in S}
<1>1. MaxInstances \in Nat OBVIOUS
<1>2. \A x \in S : x \in Nat /\ x <= MaxInstances BY <1>1 DEF Ids
<1>3. T \subseteq Nat /\ T # {} BY <1>1, <1>2
<1>4. PICK t \in T : \A y \in T : ~(<<y, t>> \in OpToRel(<, Nat))
  BY <1>3, NatLessThanWellFounded, WFMin
<1>5. \A y \in T : ~(y < t)
  BY <1>3, <1>4 DEF OpToRel
<1>6. PICK x \in S : t = MaxInstances - x OBVIOUS
<1>7. \A y \in S : ~(MaxInstances - y < t)
  BY <1>5
<1>8. \A y \in S : x >= y
  BY <1>1, <1>2, <1>6, <1>7
<1> QED BY <1>8

\* The identifier of a new row is free.
LEMMA NextIdFree == NextId \notin Rows
<1>1. CASE Rows # {}
  <2>1. Rows \in SUBSET Ids BY DEF Rows
  <2>2. \E x \in Rows : \A y \in Rows : x >= y BY <1>1, <2>1, Largest
  <2>3. \A y \in Rows : Max(Rows) >= y BY <2>2 DEF Max
  <2>4. Max(Rows) \in Rows BY <2>2 DEF Max
  <2>5. \A y \in Rows : y \in Int BY <2>1 DEF Ids
  <2> QED BY <1>1, <2>3, <2>4, <2>5 DEF NextId
<1> QED BY <1>1

\* A step that touches neither the tables of instances and containers nor the
\* state of a container is framed and careful.
LEMMA StillFrame ==
  ASSUME TrackInv, NEW o \in Ops, OthersStay(o),
         \A u \in Ops : u # o => hold'[u] = hold[u],
         UNCHANGED <<row, owner, retC, state>>
  PROVE  Frame(o) /\ Careful
  BY DEF Frame, Careful, TrackInv, Recorded

\* A request stays inside the barrier, and only a recovery gets to the steps
\* of one.
LEMMA HeldKept ==
  ASSUME NEW o \in Ops, Held(o), op[o].pc # "idle", hold'[o] = hold[o],
         op'[o].kind = op[o].kind, op'[o].pc # "idle",
         \/ op'[o].pc \notin RecoverySteps
         \/ op[o].kind = "recover" /\ op'[o].cs = {}
  PROVE  Held(o)'
<1>1. hold[o] # "none" BY DEF Held, Idle
<1>2. op[o].kind # "none" BY DEF Held
<1> QED BY <1>1, <1>2 DEF Held

\* What the proofs below need to know of a request before its step.
LEMMA Before ==
  ASSUME IndInv, TrackInv, NEW o \in Ops
  PROVE  /\ op[o] \in Requests /\ Sound(op[o]) /\ Held(o) /\ Faithful(o)
         /\ Alone /\ Distinct /\ Recorded /\ Stores /\ Locals /\ Marks
  BY DEF IndInv, TrackInv, Locals

\* newInstance gives up: its roll-back begins, or the clean-up that comes
\* before it.
LEMMA GiveUp ==
  ASSUME IndInv, TrackInv, NEW o \in Ops, Rollback(o) \/ Abort(o),
         op[o].pc \in CreateSteps \/ (op[o].pc = "unlock" /\ ~op[o].ok),
         op[o].kind # "stop",
         UNCHANGED <<row, owner, retC, hold>>
  PROVE  OthersStay(o) /\ Shrinks(o) /\ Held(o)' /\ Faithful(o)'
<1>1. Held(o) /\ Faithful(o) /\ Sound(op[o]) /\ Locals BY Before, SMTT(40)
<1>2. /\ OthersStay(o)
      /\ op'[o].kind = op[o].kind /\ op'[o].pc \in {"remove", "cleanup"}
      /\ op'[o].inst = op[o].inst
      /\ op'[o].cs = op[o].cs /\ op'[o].todo = op[o].cs
  BY <1>1, RollbackFields, CleanupFields DEF Abort
<1>3. Unfinished(op[o]) BY DEF Unfinished, Building
<1>4. Held(o)'
  BY <1>1, <1>2, HeldKept DEF CreateSteps, RecoverySteps
<1>5. Faithful(o)'
  BY <1>1, <1>2, <1>3 DEF Faithful
<1> QED BY <1>2, <1>4, <1>5 DEF Shrinks

\* The network of a new instance.
LEMMA CreateNetworkTracks ==
  ASSUME IndInv, TrackInv, NEW o \in Ops,
         CreateNetwork(o) \/ AcquirePortLock(o) \/ PortLockFails(o)
  PROVE  TrackInv' /\ Careful
<1>1. Held(o) /\ Faithful(o) /\ Sound(op[o]) /\ Locals /\ Distinct BY Before
<1>2. /\ UNCHANGED <<row, owner, retC, state, hold>>
      /\ op[o].pc \in {"net", "lock"}
  BY DEF CreateNetwork, AcquirePortLock, PortLockFails, database, docker,
         containers
<1>3. op[o].kind # "stop" /\ Unfinished(op[o])
  BY <1>1, <1>2 DEF Sound, CreateSteps, Unfinished, Building
<1>4. OthersStay(o) /\ Shrinks(o) /\ Held(o)' /\ Faithful(o)'
  <2>1. CASE Rollback(o)
    BY <1>2, <1>3, <2>1, GiveUp DEF CreateSteps
  <2>2. CASE ~Rollback(o)
    <3>1. PICK p \in {"lock", "create"} : Goto(o, p)
      BY <2>2 DEF CreateNetwork, AcquirePortLock, PortLockFails
    <3>2. /\ OthersStay(o)
          /\ op'[o].kind = op[o].kind /\ op'[o].pc = p
          /\ op'[o].inst = op[o].inst /\ op'[o].cs = op[o].cs
      BY <1>1, <3>1, GotoFields
    <3>3. Held(o)'
      BY <1>1, <1>2, <3>2, HeldKept DEF RecoverySteps
    <3>4. Faithful(o)'
      BY <1>1, <1>2, <1>3, <3>2 DEF Faithful
    <3> QED BY <3>2, <3>3, <3>4 DEF Shrinks
  <2> QED BY <2>1, <2>2
<1>5. Frame(o) /\ Careful BY <1>2, <1>4, StillFrame
<1>6. Distinct' BY <1>1, <1>4, <1>5, ShrinkingKept
<1> QED BY <1>2, <1>4, <1>5, <1>6, TrackKept

\* The two together, for a step that takes nothing new.
LEMMA ShrinkTracks ==
  ASSUME IndInv, TrackInv, NEW o \in Ops, Frame(o), Careful, Shrinks(o),
         Held(o)', Faithful(o)', hold'[o] \in {hold[o], "none"}
  PROVE  TrackInv'
<1>1. Distinct' BY ShrinkingKept DEF TrackInv
<1> QED BY <1>1, TrackKept

\* A new container is nobody's.
LEMMA CreateContainerTracks ==
  ASSUME IndInv, TrackInv, NEW o \in Ops, CreateContainer(o)
  PROVE  TrackInv' /\ Careful
<1>1. Held(o) /\ Faithful(o) /\ Sound(op[o]) /\ Locals /\ Distinct
      /\ Recorded /\ Stores /\ op[o] \in Requests
  BY Before
<1>2. UNCHANGED <<row, owner, retC, hold>> /\ op[o].pc = "create"
  BY DEF CreateContainer, database
<1>3. op[o].kind # "stop" /\ Unfinished(op[o])
  BY <1>1, <1>2 DEF Sound, CreateSteps, Unfinished, Building
<1>4. CASE Abort(o) /\ UNCHANGED state
  <2>1. OthersStay(o) /\ Shrinks(o) /\ Held(o)' /\ Faithful(o)'
    BY <1>2, <1>3, <1>4, GiveUp DEF CreateSteps
  <2>2. Frame(o) /\ Careful BY <1>2, <1>4, <2>1, StillFrame
  <2> QED BY <1>2, <2>1, <2>2, ShrinkTracks
<1>5. CASE ~(Abort(o) /\ UNCHANGED state)
  <2>1. PICK c : c = Pick(Fresh) OBVIOUS
  <2>2. /\ state' = [state EXCEPT ![c] = "created"]
        /\ op' = [op EXCEPT ![o] = [op[o] EXCEPT !.pc = "retire",
                                    !.cs = @ \cup {c}, !.todo = {c}]]
    BY <1>5, <2>1 DEF CreateContainer, Become, containers
  <2>3. c \in Fresh BY <2>1, PickIn DEF CreateContainer
  <2>4. /\ c \in Containers /\ owner[c] = 0
        /\ \A u \in Ops : c \notin op[u].cs
    BY <2>3 DEF Fresh, Referenced
  <2>5. /\ OthersStay(o)
        /\ op'[o].kind = op[o].kind /\ op'[o].pc = "retire"
        /\ op'[o].inst = op[o].inst /\ op'[o].cs = op[o].cs \cup {c}
    BY <1>1, <2>2 DEF Locals, OthersStay, Requests
  <2>6. Frame(o)
    BY <1>1, <1>2, <2>2, <2>3, <2>5 DEF Frame, Stores
  <2>7. Careful
    BY <1>1, <1>2, <2>2, <2>4 DEF Careful, Recorded, Stores
  <2>8. Held(o)'
    BY <1>1, <1>2, <2>5, HeldKept DEF RecoverySteps
  <2>9. Faithful(o)'
    BY <1>1, <1>2, <1>3, <2>4, <2>5 DEF Faithful
  <2>10. Distinct'
    BY <1>1, <2>4, <2>5, <2>6, DistinctKept DEF Distinct
  <2> QED BY <1>2, <2>6, <2>7, <2>8, <2>9, <2>10, TrackKept
<1> QED BY <1>4, <1>5

\* The new container is marked ...
LEMMA RetirePendingTracks ==
  ASSUME IndInv, TrackInv, NEW o \in Ops, RetirePending(o)
  PROVE  TrackInv' /\ Careful
<1>1. Held(o) /\ Faithful(o) /\ Sound(op[o]) /\ Locals /\ Distinct
      /\ Recorded /\ Stores /\ op[o] \in Requests
  BY Before
<1>2. UNCHANGED <<row, owner, state, hold>> /\ op[o].pc = "retire"
  BY DEF RetirePending, docker, containers
<1>3. op[o].kind # "stop" /\ Unfinished(op[o])
  BY <1>1, <1>2 DEF Sound, CreateSteps, Unfinished, Building
<1>4. CASE Abort(o) /\ UNCHANGED retC
  <2>1. OthersStay(o) /\ Shrinks(o) /\ Held(o)' /\ Faithful(o)'
    BY <1>2, <1>3, <1>4, GiveUp DEF CreateSteps
  <2>2. Frame(o) /\ Careful BY <1>2, <1>4, <2>1, StillFrame
  <2> QED BY <1>2, <2>1, <2>2, ShrinkTracks
<1>5. CASE ~(Abort(o) /\ UNCHANGED retC)
  <2>1. retC' = retC \cup op[o].todo /\ Goto(o, "start")
    BY <1>5 DEF RetirePending
  <2>2. /\ OthersStay(o)
        /\ op'[o].kind = op[o].kind /\ op'[o].pc = "start"
        /\ op'[o].inst = op[o].inst /\ op'[o].cs = op[o].cs
        /\ op'[o].todo = op[o].todo
    BY <1>1, <2>1, GotoFields
  <2>3. Frame(o) BY <1>2, <2>1, <2>2 DEF Frame
  <2>4. Careful BY <1>1, <1>2, <2>1 DEF Careful, Recorded
  <2>5. Held(o)' BY <1>1, <1>2, <2>2, HeldKept DEF RecoverySteps
  <2>6. Faithful(o)'
    BY <1>1, <1>2, <1>3, <2>1, <2>2 DEF Faithful, Sound
  <2> QED BY <1>2, <2>2, <2>3, <2>4, <2>5, <2>6, ShrinkTracks DEF Shrinks
<1> QED BY <1>4, <1>5

\* ... before it starts to run.
LEMMA StartContainerTracks ==
  ASSUME IndInv, TrackInv, NEW o \in Ops, StartContainer(o)
  PROVE  TrackInv' /\ Careful
<1>1. Held(o) /\ Faithful(o) /\ Sound(op[o]) /\ Locals /\ Distinct
      /\ Recorded /\ Stores /\ op[o] \in Requests
  BY Before
<1>2. UNCHANGED <<row, owner, retC, hold>> /\ op[o].pc = "start"
  BY DEF StartContainer, database
<1>3. op[o].kind # "stop" /\ Unfinished(op[o])
  BY <1>1, <1>2 DEF Sound, CreateSteps, Unfinished, Building
<1>4. PICK c : c = Pick(op[o].todo) OBVIOUS
<1>5. c \in Containers /\ c \in retC
  BY <1>1, <1>2, <1>4, PickIn DEF Sound, Faithful
<1>6. \/ UNCHANGED state
      \/ state[c] # "none" /\ state' = [state EXCEPT ![c] = "running"]
  BY <1>4 DEF StartContainer, CanStart
<1>7. OthersStay(o) /\ Shrinks(o) /\ Held(o)' /\ Faithful(o)'
  <2>1. CASE Abort(o)
    BY <1>2, <1>3, <2>1, GiveUp DEF CreateSteps
  <2>2. CASE ~Abort(o)
    <3>1. PICK p \in {"finalize", "create"} : Goto(o, p)
      BY <2>2 DEF StartContainer
    <3>2. /\ OthersStay(o)
          /\ op'[o].kind = op[o].kind /\ op'[o].pc = p
          /\ op'[o].inst = op[o].inst /\ op'[o].cs = op[o].cs
      BY <1>1, <3>1, GotoFields
    <3>3. Held(o)' BY <1>1, <1>2, <3>2, HeldKept DEF RecoverySteps
    <3>4. Faithful(o)' BY <1>1, <1>2, <1>3, <3>2 DEF Faithful
    <3> QED BY <3>2, <3>3, <3>4 DEF Shrinks
  <2> QED BY <2>1, <2>2
<1>8. Frame(o) BY <1>1, <1>2, <1>5, <1>6, <1>7 DEF Frame, Stores
<1>9. Careful
  BY <1>1, <1>2, <1>5, <1>6 DEF Careful, Recorded, Stores
<1> QED BY <1>2, <1>7, <1>8, <1>9, ShrinkTracks

\* The commit gives the containers to the instance.
LEMMA FinalizeTracks ==
  ASSUME IndInv, TrackInv, NEW o \in Ops, FinalizeInstance(o)
  PROVE  TrackInv' /\ Careful
<1>1. Held(o) /\ Faithful(o) /\ Sound(op[o]) /\ Locals /\ Distinct
      /\ Recorded /\ Stores /\ op[o] \in Requests
  BY Before
<1>2. UNCHANGED <<row, state, hold>> /\ op[o].pc = "finalize"
  BY DEF FinalizeInstance, docker, containers
<1>3. op[o].kind # "stop" /\ Unfinished(op[o]) /\ op[o].ok
  BY <1>1, <1>2 DEF Sound, CreateSteps, Unfinished, Building
<1>4. CASE Abort(o) /\ UNCHANGED <<owner, retC>>
  <2>1. OthersStay(o) /\ Shrinks(o) /\ Held(o)' /\ Faithful(o)'
    BY <1>2, <1>3, <1>4, GiveUp DEF CreateSteps
  <2>2. Frame(o) /\ Careful BY <1>2, <1>4, <2>1, StillFrame
  <2> QED BY <1>2, <2>1, <2>2, ShrinkTracks
<1>5. CASE ~(Abort(o) /\ UNCHANGED <<owner, retC>>)
  <2>1. /\ row[op[o].inst] # None
        /\ retC' = retC \ op[o].cs
        /\ owner' = [c \in Containers |->
                       IF c \in op[o].cs THEN op[o].inst ELSE owner[c]]
        /\ Goto(o, "unlock")
    BY <1>5 DEF FinalizeInstance
  <2>2. /\ OthersStay(o)
        /\ op'[o].kind = op[o].kind /\ op'[o].pc = "unlock"
        /\ op'[o].inst = op[o].inst /\ op'[o].cs = op[o].cs
        /\ op'[o].ok = op[o].ok
    BY <1>1, <2>1, GotoFields
  <2>3. op[o].inst \in Ids /\ op[o].inst # 0 /\ op[o].cs \subseteq Containers
    BY <1>1, <1>2 DEF Sound, InstanceSteps, Ids, Requests
  <2>4. Frame(o) BY <1>2, <2>1, <2>2 DEF Frame
  <2>5. Careful BY <1>1, <1>2, <2>1, <2>3 DEF Careful, Recorded
  <2>6. Held(o)' BY <1>1, <1>2, <2>2, HeldKept DEF RecoverySteps
  <2>7. Faithful(o)'
    BY <1>1, <1>2, <1>3, <2>1, <2>2, <2>3
       DEF Faithful, Unfinished, Building, CreateSteps
  <2> QED BY <1>2, <2>2, <2>4, <2>5, <2>6, <2>7, ShrinkTracks DEF Shrinks
<1> QED BY <1>4, <1>5

\* A request that ends has nothing any more.
LEMMA Ends ==
  ASSUME IndInv, TrackInv, NEW o \in Ops, Finish(o)
  PROVE  /\ OthersStay(o) /\ \A u \in Ops : u # o => hold'[u] = hold[u]
         /\ Shrinks(o) /\ Held(o)' /\ Faithful(o)' /\ hold'[o] = "none"
<1>1. /\ OthersStay(o)
      /\ op'[o] = Idle /\ hold'[o] = "none"
      /\ \A u \in Ops : u # o => hold'[u] = hold[u]
  BY Before, FinishFields
<1>2. Held(o)' BY <1>1 DEF Held, Idle, RecoverySteps
<1>3. Faithful(o)'
  BY <1>1 DEF Faithful, Idle, Unfinished, Building, CreateSteps
<1> QED BY <1>1, <1>2, <1>3 DEF Shrinks, Idle

\* Nor has recovery after newInstance.
LEMMA EndsNewInstance ==
  ASSUME IndInv, TrackInv, NEW o \in Ops, NewInstanceDone(o),
         op[o].kind # "stop", op[o].pc \in {"unlock", "delete"}
  PROVE  /\ OthersStay(o) /\ \A u \in Ops : u # o => hold'[u] = hold[u]
         /\ Shrinks(o) /\ Held(o)' /\ Faithful(o)'
         /\ hold'[o] \in {hold[o], "none"}
<1>1. Held(o) /\ Locals /\ op[o] \in Requests BY Before
<1>2. CASE op[o].kind = "start"
  BY <1>2, Ends DEF NewInstanceDone
<1>3. CASE op[o].kind # "start"
  <2>1. /\ OthersStay(o)
        /\ op'[o].kind = op[o].kind /\ op'[o].pc = "restore"
        /\ op'[o].inst = 0 /\ op'[o].cs = {}
    BY <1>1, <1>3, DoneFields
  <2>2. UNCHANGED hold BY <1>3 DEF NewInstanceDone
  <2>3. op[o].kind = "recover" BY <1>1, <1>3 DEF Held, Requests
  <2>4. Held(o)' BY <1>1, <2>1, <2>2, <2>3, HeldKept DEF RecoverySteps
  <2>5. Faithful(o)'
    BY <2>1 DEF Faithful, Unfinished, Building, CreateSteps
  <2> QED BY <2>1, <2>2, <2>4, <2>5 DEF Shrinks
<1> QED BY <1>2, <1>3

\* A container of a failed newInstance is removed and forgotten.
LEMMA CleanupTracks ==
  ASSUME IndInv, TrackInv, NEW o \in Ops, CleanupContainer(o)
  PROVE  TrackInv' /\ Careful
<1>1. Held(o) /\ Faithful(o) /\ Sound(op[o]) /\ Locals /\ Distinct
      /\ Recorded /\ Stores /\ op[o] \in Requests
  BY Before
<1>2. UNCHANGED <<row, owner, hold>> /\ op[o].pc = "cleanup"
  BY DEF CleanupContainer
<1>3. op[o].kind # "stop" /\ Unfinished(op[o]) /\ ~op[o].ok
  BY <1>1, <1>2 DEF Sound, CreateSteps, Unfinished, Building
<1>4. CASE op[o].todo = {} /\ Goto(o, "unlock") /\ UNCHANGED <<state, retC>>
  <2>1. /\ OthersStay(o)
        /\ op'[o].kind = op[o].kind /\ op'[o].pc = "unlock"
        /\ op'[o].inst = op[o].inst /\ op'[o].cs = op[o].cs
        /\ op'[o].ok = op[o].ok
    BY <1>1, <1>4, GotoFields
  <2>2. Held(o)' BY <1>1, <1>2, <2>1, HeldKept DEF RecoverySteps
  <2>3. Faithful(o)' BY <1>1, <1>2, <1>3, <2>1 DEF Faithful
  <2>4. Frame(o) /\ Careful BY <1>2, <1>4, <2>1, StillFrame
  <2> QED BY <1>2, <2>1, <2>2, <2>3, <2>4, ShrinkTracks DEF Shrinks
<1>5. CASE ~(op[o].todo = {} /\ Goto(o, "unlock")
             /\ UNCHANGED <<state, retC>>)
  <2>1. PICK c \in op[o].todo :
          /\ Become(o, [op[o] EXCEPT !.todo = @ \ {c}])
          /\ \/ Discard({c}) /\ retC' = retC \ {c}
             \/ UNCHANGED <<state, retC>>
             \/ Discard({c}) /\ UNCHANGED retC
    BY <1>5 DEF CleanupContainer, containers
  <2>2. /\ OthersStay(o)
        /\ op'[o].kind = op[o].kind /\ op'[o].pc = "cleanup"
        /\ op'[o].inst = op[o].inst /\ op'[o].cs = op[o].cs
        /\ op'[o].todo \subseteq op[o].todo
    <3>1. op' = [op EXCEPT ![o] = [op[o] EXCEPT !.todo = @ \ {c}]]
      BY <2>1 DEF Become
    <3> QED BY <1>1, <1>2, <3>1 DEF Locals, OthersStay, Requests
  <2>3. c \in Containers /\ c \in op[o].cs
    BY <1>1, <1>2, <2>1 DEF Sound, Faithful
  <2>4. \A d \in Containers :
          /\ state'[d] \in {state[d], "none"}
          /\ d \in retC => d \in retC' \/ (d = c /\ state'[d] = "none")
    BY <1>1, <2>1, <2>3 DEF Discard, Stores
  <2>5. Frame(o) BY <1>1, <1>2, <2>2, <2>3, <2>4 DEF Frame, Stores
  <2>6. Careful
    BY <1>1, <1>2, <2>4 DEF Careful, Recorded
  <2>7. Held(o)' BY <1>1, <1>2, <2>2, HeldKept DEF RecoverySteps
  <2>8. Faithful(o)' BY <1>1, <1>2, <1>3, <2>2 DEF Faithful
  <2> QED BY <1>2, <2>2, <2>5, <2>6, <2>7, <2>8, ShrinkTracks DEF Shrinks
<1> QED BY <1>4, <1>5

\* The end of startContainers.
LEMMA ReleaseTracks ==
  ASSUME IndInv, TrackInv, NEW o \in Ops, ReleasePortLock(o)
  PROVE  TrackInv' /\ Careful
<1>1. Sound(op[o]) BY Before
<1>2. UNCHANGED <<row, owner, retC, state>> /\ op[o].pc = "unlock"
  BY DEF ReleasePortLock, database, docker, containers
<1>3. op[o].kind # "stop" BY <1>1, <1>2 DEF Sound
<1>4. CASE op[o].ok
  <2>1. /\ OthersStay(o) /\ \A u \in Ops : u # o => hold'[u] = hold[u]
        /\ Shrinks(o) /\ Held(o)' /\ Faithful(o)'
        /\ hold'[o] \in {hold[o], "none"}
    BY <1>2, <1>3, <1>4, EndsNewInstance DEF ReleasePortLock
  <2>2. Frame(o) /\ Careful BY <1>2, <2>1, StillFrame
  <2> QED BY <2>1, <2>2, ShrinkTracks
<1>5. CASE ~op[o].ok
  <2>1. UNCHANGED hold /\ Rollback(o) BY <1>5 DEF ReleasePortLock
  <2>2. OthersStay(o) /\ Shrinks(o) /\ Held(o)' /\ Faithful(o)'
    BY <1>2, <1>3, <1>5, <2>1, GiveUp
  <2>3. Frame(o) /\ Careful BY <1>2, <2>1, <2>2, StillFrame
  <2> QED BY <2>1, <2>2, <2>3, ShrinkTracks
<1> QED BY <1>4, <1>5

\* The roll-back, or a Stop, goes on after stopContainers.
LEMMA GoesOn ==
  ASSUME IndInv, TrackInv, NEW o \in Ops, NEW failed \in BOOLEAN,
         AfterStop(o, failed), UNCHANGED <<row, owner, retC, state>>,
         \/ op[o].pc = "remove" /\ failed
         \/ op[o].pc = "ports"
  PROVE  TrackInv' /\ Careful
<1>1. Held(o) /\ Faithful(o) /\ Sound(op[o]) /\ Locals /\ op[o] \in Requests
  BY Before
<1>2. CASE op[o].kind # "stop"
  <2>1. /\ OthersStay(o)
        /\ op'[o].kind = op[o].kind /\ op'[o].pc = "rbretire"
        /\ op'[o].inst = op[o].inst /\ op'[o].cs = op[o].left
    BY <1>1, <1>2, RetainFields
  <2>2. UNCHANGED hold BY <1>2 DEF AfterStop
  <2>3. op[o].left \subseteq op[o].cs BY <1>1 DEF Sound
  <2>4. Unfinished(op[o]) BY <1>2 DEF Unfinished, Building
  <2>5. Held(o)' BY <1>1, <2>1, <2>2, HeldKept DEF RecoverySteps
  <2>6. Faithful(o)' BY <1>1, <2>1, <2>3, <2>4 DEF Faithful
  <2>7. Frame(o) /\ Careful BY <2>1, <2>2, StillFrame
  <2> QED BY <2>1, <2>2, <2>3, <2>5, <2>6, <2>7, ShrinkTracks DEF Shrinks
<1>3. CASE op[o].kind = "stop" /\ failed
  <2>1. Finish(o) BY <1>3 DEF AfterStop
  <2>2. Frame(o) /\ Careful BY <2>1, Ends, StillFrame
  <2> QED BY <2>1, <2>2, Ends, ShrinkTracks
<1>4. CASE op[o].kind = "stop" /\ ~failed
  <2>1. Goto(o, "stopnet") /\ UNCHANGED hold /\ op[o].pc = "ports"
    BY <1>4 DEF AfterStop
  <2>2. /\ OthersStay(o)
        /\ op'[o].kind = op[o].kind /\ op'[o].pc = "stopnet"
        /\ op'[o].inst = op[o].inst /\ op'[o].cs = op[o].cs
    BY <1>1, <2>1, GotoFields
  <2>3. Held(o)' BY <1>1, <2>1, <2>2, HeldKept DEF RecoverySteps
  <2>4. Faithful(o)'
    BY <1>1, <1>4, <2>1, <2>2
       DEF Faithful, Unfinished, Building, CreateSteps
  <2>5. Frame(o) /\ Careful BY <2>1, <2>2, StillFrame
  <2> QED BY <2>1, <2>2, <2>3, <2>4, <2>5, ShrinkTracks DEF Shrinks
<1> QED BY <1>2, <1>3, <1>4

\* stopContainers removes a container, or lists it among those that remain.
LEMMA RemoveTracks ==
  ASSUME IndInv, TrackInv, NEW o \in Ops, RemoveContainer(o)
  PROVE  TrackInv' /\ Careful
<1>1. Held(o) /\ Faithful(o) /\ Sound(op[o]) /\ Locals /\ Distinct
      /\ Recorded /\ Stores /\ op[o] \in Requests
  BY Before
<1>2. UNCHANGED <<row, owner, retC>> /\ op[o].pc = "remove"
  BY DEF RemoveContainer, database
<1>3. op[o].kind # "stop" => Unfinished(op[o])
  BY <1>2 DEF Unfinished, Building
<1>4. PICK c : c = Pick(op[o].todo) OBVIOUS
<1>5. CASE /\ op[o].todo # {} /\ Discard({c})
           /\ Goto(o, "forget") /\ UNCHANGED hold
  <2>1. Discard({c}) /\ UNCHANGED hold BY <1>5
  <2>2. c \in Containers BY <1>1, <1>2, <1>4, <1>5, PickIn DEF Sound
  <2>3. /\ OthersStay(o)
        /\ op'[o].kind = op[o].kind /\ op'[o].pc = "forget"
        /\ op'[o].inst = op[o].inst /\ op'[o].cs = op[o].cs
        /\ op'[o].todo = op[o].todo /\ op'[o].left = op[o].left
    BY <1>1, <1>5, GotoFields
  <2>4. /\ \A d \in Containers : state'[d] \in {state[d], "none"}
        /\ state'[c] = "none"
    BY <1>1, <2>1, <2>2 DEF Discard, Stores
  <2>5. Frame(o) BY <1>1, <1>2, <2>1, <2>3, <2>4 DEF Frame
  <2>6. Careful BY <1>1, <1>2, <2>4 DEF Careful, Recorded
  <2>7. Held(o)' BY <1>1, <1>2, <2>1, <2>3, HeldKept DEF RecoverySteps
  <2>8. Faithful(o)'
    BY <1>1, <1>2, <1>3, <1>4, <2>3, <2>4
       DEF Faithful, Unfinished, Building, CreateSteps
  <2> QED BY <2>1, <2>3, <2>5, <2>6, <2>7, <2>8, ShrinkTracks DEF Shrinks
<1>6. CASE /\ op[o].todo # {}
           /\ ~(Discard({c}) /\ Goto(o, "forget") /\ UNCHANGED hold)
  <2>1. /\ UNCHANGED <<state, hold>>
        /\ op' = [op EXCEPT ![o] = [op[o] EXCEPT
                    !.todo = @ \ {c}, !.left = @ \cup {c}]]
    BY <1>4, <1>6 DEF RemoveContainer, Become, containers
  <2>2. /\ OthersStay(o)
        /\ op'[o].kind = op[o].kind /\ op'[o].pc = "remove"
        /\ op'[o].inst = op[o].inst /\ op'[o].cs = op[o].cs
        /\ op'[o].todo = op[o].todo \ {c}
        /\ op'[o].left = op[o].left \cup {c}
    BY <1>1, <1>2, <2>1 DEF Locals, OthersStay, Requests
  <2>3. Frame(o) /\ Careful BY <1>2, <2>1, <2>2, StillFrame
  <2>4. Held(o)' BY <1>1, <1>2, <2>1, <2>2, HeldKept DEF RecoverySteps
  <2>5. Faithful(o)'
    BY <1>1, <1>2, <1>3, <2>2
       DEF Faithful, Unfinished, Building, CreateSteps
  <2> QED BY <2>1, <2>2, <2>3, <2>4, <2>5, ShrinkTracks DEF Shrinks
<1>7. CASE op[o].todo = {} /\ op[o].left = {}
  <2>1. UNCHANGED <<state, hold>> /\ Goto(o, "ports")
    BY <1>7 DEF RemoveContainer, containers
  <2>2. /\ OthersStay(o)
        /\ op'[o].kind = op[o].kind /\ op'[o].pc = "ports"
        /\ op'[o].inst = op[o].inst /\ op'[o].cs = op[o].cs
    BY <1>1, <2>1, GotoFields
  <2>3. Frame(o) /\ Careful BY <1>2, <2>1, <2>2, StillFrame
  <2>4. Held(o)' BY <1>1, <1>2, <2>1, <2>2, HeldKept DEF RecoverySteps
  <2>5. Faithful(o)'
    BY <1>1, <1>2, <1>3, <1>7, <2>2
       DEF Faithful, Unfinished, Building, CreateSteps
  <2> QED BY <2>1, <2>2, <2>3, <2>4, <2>5, ShrinkTracks DEF Shrinks
<1>8. CASE op[o].todo = {} /\ op[o].left # {}
  <2>1. AfterStop(o, TRUE) /\ UNCHANGED state
    BY <1>8 DEF RemoveContainer, containers
  <2> QED BY <1>2, <2>1, GoesOn
<1> QED BY <1>5, <1>6, <1>7, <1>8

\* stopContainers forgets a container that it has removed.
LEMMA ForgetTracks ==
  ASSUME IndInv, TrackInv, NEW o \in Ops, ForgetContainer(o)
  PROVE  TrackInv' /\ Careful
<1>1. Held(o) /\ Faithful(o) /\ Sound(op[o]) /\ Locals /\ Distinct
      /\ Recorded /\ Stores /\ op[o] \in Requests
  BY Before
<1>2. UNCHANGED <<row, state, hold>> /\ op[o].pc = "forget"
  BY DEF ForgetContainer, docker, containers
<1>3. op[o].kind # "stop" => Unfinished(op[o])
  BY <1>2 DEF Unfinished, Building
<1>4. PICK c : c = Pick(op[o].todo) OBVIOUS
<1>5. c \in op[o].cs /\ c \in Containers /\ state[c] = "none"
  BY <1>1, <1>2, <1>4, PickIn DEF Sound, Faithful
<1>6. \/ /\ owner' = [owner EXCEPT ![c] = IF @ = op[o].inst THEN 0 ELSE @]
         /\ retC' = retC \ {c}
         /\ op' = [op EXCEPT ![o] = [op[o] EXCEPT
                     !.pc = "remove", !.todo = @ \ {c}]]
      \/ /\ \/ owner' = owner
            \/ owner' = [owner EXCEPT ![c] = IF @ = op[o].inst THEN 0 ELSE @]
         /\ UNCHANGED retC
         /\ op' = [op EXCEPT ![o] = [op[o] EXCEPT
                     !.pc = "remove", !.todo = @ \ {c},
                     !.left = @ \cup {c}]]
  BY <1>4 DEF ForgetContainer, Become
<1>7. /\ OthersStay(o)
      /\ op'[o].kind = op[o].kind /\ op'[o].pc = "remove"
      /\ op'[o].inst = op[o].inst /\ op'[o].cs = op[o].cs
      /\ op'[o].todo = op[o].todo \ {c}
      /\ op[o].left \subseteq op'[o].left
      /\ c \in op'[o].left
         \/ owner' = [owner EXCEPT ![c] = IF @ = op[o].inst THEN 0 ELSE @]
  <2>1. CASE op' = [op EXCEPT ![o] = [op[o] EXCEPT
                       !.pc = "remove", !.todo = @ \ {c}]]
             /\ owner' = [owner EXCEPT ![c] = IF @ = op[o].inst THEN 0
                                              ELSE @]
    BY <1>1, <1>2, <2>1 DEF Locals, OthersStay, Requests
  <2>2. CASE op' = [op EXCEPT ![o] = [op[o] EXCEPT
                     !.pc = "remove", !.todo = @ \ {c},
                     !.left = @ \cup {c}]]
    BY <1>1, <1>2, <2>2 DEF Locals, OthersStay, Requests
  <2> QED BY <1>6, <2>1, <2>2
<1>8. /\ \A d \in Containers : \/ owner'[d] = owner[d]
                               \/ d = c /\ owner[d] = op[o].inst
                                  /\ owner'[d] = 0
      /\ \A d \in retC : d = c \/ d \in retC'
  BY <1>1, <1>5, <1>6 DEF Stores
<1>9. Frame(o) BY <1>2, <1>5, <1>7, <1>8 DEF Frame
<1>10. Careful BY <1>1, <1>2, <1>5, <1>8 DEF Careful, Recorded
<1>11. Held(o)' BY <1>1, <1>2, <1>7, HeldKept DEF RecoverySteps
<1>12. op[o].inst # 0 BY <1>1, <1>2 DEF Sound, InstanceSteps, Ids
<1>13. ASSUME NEW d \in Containers, owner'[d] = op[o].inst
       PROVE  owner[d] = op[o].inst /\ (d # c \/ c \in op'[o].left)
  BY <1>1, <1>5, <1>7, <1>8, <1>12, <1>13 DEF Stores
<1>14. \A d \in op[o].cs : owner'[d] # 0 => owner'[d] = op[o].inst
  BY <1>1, <1>8 DEF Faithful, Requests
<1>15. Faithful(o)'
  BY <1>1, <1>2, <1>3, <1>7, <1>13, <1>14
     DEF Faithful, Unfinished, Building, CreateSteps
<1> QED BY <1>2, <1>7, <1>9, <1>10, <1>11, <1>15, ShrinkTracks DEF Shrinks

\* The ports, and the networks, of a stopped or failed instance, and the mark
\* of what remains of it.
LEMMA LaterTracks ==
  ASSUME IndInv, TrackInv, NEW o \in Ops,
         \/ RemovePorts(o) \/ StopNetwork(o) \/ RetireRemaining(o)
         \/ RollbackNetwork(o) \/ RetireNetwork(o)
  PROVE  TrackInv' /\ Careful
<1>1. Held(o) /\ Faithful(o) /\ Sound(op[o]) /\ Locals /\ Distinct
      /\ Recorded /\ Stores /\ op[o] \in Requests
  BY Before
<1>2. UNCHANGED <<row, owner, state>> /\ retC \subseteq retC'
  BY DEF RemovePorts, StopNetwork, RetireRemaining, RollbackNetwork,
         RetireNetwork, database, docker, containers
<1>3. CASE RemovePorts(o)
  BY <1>3, GoesOn DEF RemovePorts, docker, containers
<1>4. CASE StopNetwork(o) /\ Finish(o)
  <2>1. UNCHANGED <<row, owner, state, retC>>
    BY <1>2, <1>4 DEF StopNetwork, database
  <2>2. Frame(o) /\ Careful BY <1>4, <2>1, Ends, StillFrame
  <2> QED BY <1>4, <2>2, Ends, ShrinkTracks
<1>5. CASE (StopNetwork(o) /\ ~Finish(o)) \/ RetireRemaining(o)
           \/ RollbackNetwork(o) \/ RetireNetwork(o)
  <2>1. PICK p \in {"delete", "rbnet", "retnet"} :
          /\ Goto(o, p) /\ UNCHANGED hold
          /\ \/ op[o].pc = "stopnet" /\ p = "delete"
             \/ op[o].pc = "rbretire" /\ p = "rbnet"
             \/ op[o].pc \in {"rbnet", "retnet"} /\ p \in {"retnet", "delete"}
    BY <1>5 DEF StopNetwork, RetireRemaining, RollbackNetwork, RetireNetwork
  <2>2. /\ OthersStay(o)
        /\ op'[o].kind = op[o].kind /\ op'[o].pc = p
        /\ op'[o].inst = op[o].inst /\ op'[o].cs = op[o].cs
    BY <1>1, <2>1, GotoFields
  <2>3. /\ op[o].pc = "stopnet" <=> op[o].kind = "stop"
        /\ op[o].pc # "stopnet" => Unfinished(op[o])
    BY <1>1, <2>1 DEF Unfinished, Building, Sound, Faithful
  <2>4. Frame(o) BY <1>2, <2>1, <2>2 DEF Frame
  <2>5. Careful BY <1>1, <1>2 DEF Careful, Recorded
  <2>6. Held(o)' BY <1>1, <2>1, <2>2, HeldKept DEF RecoverySteps
  <2>7. Faithful(o)'
    BY <1>1, <1>2, <2>1, <2>2, <2>3
       DEF Faithful, Unfinished, Building, CreateSteps
  <2> QED BY <2>1, <2>2, <2>4, <2>5, <2>6, <2>7, ShrinkTracks DEF Shrinks
<1> QED BY <1>3, <1>4, <1>5

\* The row goes last, when no container refers to it.
LEMMA DeleteTracks ==
  ASSUME IndInv, TrackInv, NEW o \in Ops, DeleteRow(o)
  PROVE  TrackInv' /\ Careful
<1>1. Held(o) /\ Faithful(o) /\ Sound(op[o]) /\ Locals /\ Distinct
      /\ Recorded /\ Stores /\ op[o] \in Requests
  BY Before
<1>2. UNCHANGED <<retC, state>> /\ op[o].pc = "delete"
  BY DEF DeleteRow, docker, containers
<1>3. \A c \in Containers : owner[c] # op[o].inst
  BY <1>1, <1>2 DEF Faithful, Unfinished
<1>4. /\ \A c \in Containers : owner'[c] = owner[c]
      /\ \A i \in Ids : i # op[o].inst => row'[i] = row[i]
  BY <1>1, <1>3 DEF DeleteRow, DeleteInstance, Stores
<1>5. Careful
  BY <1>1, <1>2, <1>3, <1>4 DEF Careful, Recorded, Stores
<1>6. /\ OthersStay(o) /\ \A u \in Ops : u # o => hold'[u] = hold[u]
      /\ Shrinks(o) /\ Held(o)' /\ Faithful(o)'
      /\ hold'[o] \in {hold[o], "none"}
  <2>1. CASE op[o].kind = "stop" BY <2>1, Ends DEF DeleteRow
  <2>2. CASE op[o].kind # "stop"
    <3>1. NewInstanceDone(o) BY <2>2 DEF DeleteRow
    <3> QED BY <1>2, <2>2, <3>1, EndsNewInstance
  <2> QED BY <2>1, <2>2
<1>7. Frame(o) BY <1>2, <1>4, <1>6 DEF Frame
<1> QED BY <1>5, <1>6, <1>7, ShrinkTracks

\* Recovery removes a retired container, which no instance has.
LEMMA RemoveRetiredTracks ==
  ASSUME IndInv, TrackInv, NEW o \in Ops, RemoveRetiredContainer(o)
  PROVE  TrackInv' /\ Careful
<1>1. Held(o) /\ Faithful(o) /\ Sound(op[o]) /\ Locals /\ Distinct
      /\ Recorded /\ Stores /\ op[o] \in Requests
  BY Before
<1>2. UNCHANGED <<row, owner, hold>> /\ op[o].pc = "retired"
  BY DEF RemoveRetiredContainer
<1>3. op[o].kind = "recover" /\ op[o].cs = {} /\ hold[o] = "exclusive"
  BY <1>1, <1>2 DEF Held, RecoverySteps
<1>4. /\ OthersStay(o)
      /\ op'[o].kind = op[o].kind
      /\ op'[o].pc \in {"retired", "networks", "scan"}
      /\ op'[o].inst = op[o].inst /\ op'[o].cs = op[o].cs
  <2>1. CASE \E c, good : good \in BOOLEAN /\ Proceed(o, c, good)
    BY <1>1, <1>2, <2>1, ProceedFields
  <2>2. CASE op' = [op EXCEPT ![o] = [op[o] EXCEPT !.pc = "networks",
                                                   !.todo = retN]]
    BY <1>1, <2>2 DEF Locals, OthersStay, Requests
  <2>3. CASE op' = [op EXCEPT ![o] = [op[o] EXCEPT !.pc = "scan",
                                                   !.clean = FALSE]]
    BY <1>1, <2>3 DEF Locals, OthersStay, Requests
  <2> QED BY <2>1, <2>2, <2>3 DEF RemoveRetiredContainer, Become
<1>5. \A d \in Containers :
        /\ state'[d] \in {state[d], "none"}
        /\ d \in retC => d \in retC' \/ state'[d] = "none"
  <2>1. CASE UNCHANGED <<state, retC>> BY <2>1
  <2>2. ASSUME NEW c \in op[o].todo, Discard({c}),
               retC' = retC \ {c} \/ UNCHANGED retC
        PROVE  \A d \in Containers :
                 /\ state'[d] \in {state[d], "none"}
                 /\ d \in retC => d \in retC' \/ state'[d] = "none"
    BY <2>2 DEF Discard
  <2> QED BY <2>1, <2>2 DEF RemoveRetiredContainer, containers
<1>6. Frame(o) BY <1>2, <1>3, <1>4, <1>5 DEF Frame
<1>7. Careful BY <1>1, <1>2, <1>5 DEF Careful, Recorded
<1>8. Held(o)' BY <1>1, <1>2, <1>3, <1>4, HeldKept
<1>9. Faithful(o)'
  BY <1>1, <1>2, <1>3, <1>4 DEF Faithful, Unfinished, Building, CreateSteps
<1> QED BY <1>2, <1>4, <1>6, <1>7, <1>8, <1>9, ShrinkTracks DEF Shrinks

\* Recovery removes a retired network.
LEMMA RemoveNetworkTracks ==
  ASSUME IndInv, TrackInv, NEW o \in Ops, RemoveRetiredNetwork(o)
  PROVE  TrackInv' /\ Careful
<1>1. Held(o) /\ Faithful(o) /\ Sound(op[o]) /\ Locals /\ Distinct
      /\ Recorded /\ Stores /\ op[o] \in Requests
  BY Before
<1>2. UNCHANGED <<row, owner, retC, state, hold>> /\ op[o].pc = "networks"
  BY DEF RemoveRetiredNetwork, containers
<1>3. op[o].kind = "recover" /\ op[o].cs = {}
  BY <1>1, <1>2 DEF Held, RecoverySteps
<1>4. /\ OthersStay(o)
      /\ op'[o].kind = op[o].kind /\ op'[o].pc \in {"networks", "scan"}
      /\ op'[o].inst = op[o].inst /\ op'[o].cs = op[o].cs
  <2>1. CASE \E c, good : good \in BOOLEAN /\ Proceed(o, c, good)
    BY <1>1, <1>2, <2>1, ProceedFields
  <2>2. CASE Goto(o, "scan") BY <1>1, <2>2, GotoFields
  <2> QED BY <2>1, <2>2 DEF RemoveRetiredNetwork
<1>5. Frame(o) /\ Careful BY <1>2, <1>4, StillFrame
<1>6. Held(o)' BY <1>1, <1>2, <1>3, <1>4, HeldKept
<1>7. Faithful(o)'
  BY <1>1, <1>2, <1>3, <1>4 DEF Faithful, Unfinished, Building, CreateSteps
<1> QED BY <1>2, <1>4, <1>5, <1>6, <1>7, ShrinkTracks DEF Shrinks

\* Recovery looks at the tracked containers, and starts those that stopped.
LEMMA ScanTracks ==
  ASSUME IndInv, TrackInv, NEW o \in Ops, Scan(o)
  PROVE  TrackInv' /\ Careful
<1>1. Held(o) /\ Faithful(o) /\ Sound(op[o]) /\ Locals /\ Distinct
      /\ Recorded /\ Stores /\ op[o] \in Requests
  BY Before
<1>2. UNCHANGED <<row, owner, retC, hold>> /\ op[o].pc = "scan"
  BY DEF Scan, database
<1>3. op[o].kind = "recover" /\ op[o].cs = {}
  BY <1>1, <1>2 DEF Held, RecoverySteps
<1>4. PICK found \in {Incomplete, {}},
           seen \in SUBSET {c \in Containers : owner[c] # 0},
           good \in BOOLEAN : Inspect(o, found, seen, good)
  <2>1. {} \in SUBSET {c \in Containers : owner[c] # 0} OBVIOUS
  <2> QED BY <2>1 DEF Scan
<1>5. PICK B, fine :
        /\ op' = [op EXCEPT ![o] = [op[o] EXCEPT !.pc = "broken",
                                      !.todo = B, !.clean = fine]]
        /\ B = found \cup {owner[c] : c \in {d \in seen : ~Exists(d)}}
  BY <1>4 DEF Inspect, Become
<1>6. /\ OthersStay(o)
      /\ op'[o].kind = op[o].kind /\ op'[o].pc = "broken"
      /\ op'[o].inst = op[o].inst /\ op'[o].cs = op[o].cs
      /\ op'[o].todo = B
  BY <1>1, <1>5 DEF Locals, OthersStay, Requests
<1>7. \A d \in Containers :
        \/ state'[d] = state[d]
        \/ owner[d] # 0 /\ state[d] = "exited" /\ state'[d] = "running"
  BY <1>4 DEF Inspect
<1>8. \A i \in B : row[i] # None
  BY <1>1, <1>5 DEF Incomplete, Rows, Recorded
<1>9. Frame(o) BY <1>2, <1>6, <1>7 DEF Frame
<1>10. Careful BY <1>1, <1>2, <1>7 DEF Careful, Recorded
<1>11. Held(o)' BY <1>1, <1>2, <1>3, <1>6, HeldKept
<1>12. Faithful(o)'
  BY <1>1, <1>2, <1>3, <1>6, <1>8
     DEF Faithful, Unfinished, Building, CreateSteps
<1> QED BY <1>2, <1>6, <1>9, <1>10, <1>11, <1>12, ShrinkTracks DEF Shrinks

\* While a recovery is under way nobody else has an instance.
LEMMA RecoveryAlone ==
  ASSUME IndInv, TrackInv, NEW o \in Ops, op[o].kind = "recover",
         NEW u \in Ops, u # o
  PROVE  op[u] = Idle
  BY DEF TrackInv, Alone, Held

\* Recovery removes the containers of a broken instance.
LEMMA RemoveBrokenTracks ==
  ASSUME IndInv, TrackInv, NEW o \in Ops, RemoveBroken(o)
  PROVE  TrackInv' /\ Careful
<1>1. Held(o) /\ Faithful(o) /\ Sound(op[o]) /\ Locals /\ Distinct
      /\ Recorded /\ Stores /\ op[o] \in Requests
  BY Before
<1>2. UNCHANGED <<row, owner, retC, hold>> /\ op[o].pc = "broken"
  BY DEF RemoveBroken, database
<1>3. op[o].kind = "recover" /\ op[o].cs = {}
  BY <1>1, <1>2 DEF Held, RecoverySteps
<1>4. \A d \in Containers : state'[d] \in {state[d], "none"}
  <2>1. CASE UNCHANGED state BY <2>1
  <2>2. ASSUME NEW gone, Discard(gone)
        PROVE  \A d \in Containers : state'[d] \in {state[d], "none"}
    BY <2>2 DEF Discard
  <2> QED BY <2>1, <2>2 DEF RemoveBroken, containers
<1>5. Careful BY <1>1, <1>2, <1>4 DEF Careful, Recorded
<1>6. CASE \E i, good : good \in BOOLEAN /\ Proceed(o, i, good)
  <2>1. /\ OthersStay(o)
        /\ op'[o].kind = op[o].kind /\ op'[o].pc = "broken"
        /\ op'[o].inst = op[o].inst /\ op'[o].cs = op[o].cs
        /\ op'[o].todo \subseteq op[o].todo
    BY <1>1, <1>2, <1>6, ProceedFields
  <2>2. Frame(o) BY <1>2, <1>4, <2>1 DEF Frame
  <2>3. Held(o)' BY <1>1, <1>2, <1>3, <2>1, HeldKept
  <2>4. Faithful(o)'
    BY <1>1, <1>2, <1>3, <2>1
       DEF Faithful, Unfinished, Building, CreateSteps
  <2> QED BY <1>2, <1>5, <2>1, <2>2, <2>3, <2>4, ShrinkTracks DEF Shrinks
<1>7. CASE Goto(o, "restore")
  <2>1. /\ OthersStay(o)
        /\ op'[o].kind = op[o].kind /\ op'[o].pc = "restore"
        /\ op'[o].inst = op[o].inst /\ op'[o].cs = op[o].cs
    BY <1>1, <1>7, GotoFields
  <2>2. Frame(o) BY <1>2, <1>4, <2>1 DEF Frame
  <2>3. Held(o)' BY <1>1, <1>2, <1>3, <2>1, HeldKept
  <2>4. Faithful(o)'
    BY <1>1, <1>2, <1>3, <2>1
       DEF Faithful, Unfinished, Building, CreateSteps
  <2> QED BY <1>2, <1>5, <2>1, <2>2, <2>3, <2>4, ShrinkTracks DEF Shrinks
<1>8. CASE /\ ~\E i, good : good \in BOOLEAN /\ Proceed(o, i, good)
           /\ ~Goto(o, "restore")
  <2>1. PICK i \in op[o].todo :
          /\ Discard(ContainersOf(i))
          /\ op' = [op EXCEPT ![o] = [op[o] EXCEPT !.pc = "brokennet",
                                                   !.inst = i]]
    BY <1>8 DEF RemoveBroken, Become
  <2>2. /\ OthersStay(o)
        /\ op'[o].kind = op[o].kind /\ op'[o].pc = "brokennet"
        /\ op'[o].inst = i /\ op'[o].cs = op[o].cs
        /\ op'[o].todo = op[o].todo
    BY <1>1, <2>1 DEF Locals, OthersStay, Requests
  <2>3. Frame(o) BY <1>2, <1>4, <2>2 DEF Frame
  <2>4. Held(o)' BY <1>1, <1>2, <1>3, <2>2, HeldKept
  <2>5. \A c \in Containers : owner[c] = i => state'[c] = "none"
    BY <2>1 DEF Discard, ContainersOf
  <2>6. i \in Ids /\ row[i] # None BY <1>1, <1>2 DEF Faithful, Sound
  <2>7. Faithful(o)'
    BY <1>1, <1>2, <1>3, <2>2, <2>5, <2>6
       DEF Faithful, Unfinished, Building, CreateSteps
  <2>8. \A u \in Ops : u # o => op[u].inst = 0 /\ op[u].cs = {}
    BY <1>3, RecoveryAlone DEF Idle
  <2>9. Distinct' BY <1>1, <1>3, <2>2, <2>3, <2>8, DistinctKept
  <2> QED BY <1>2, <1>5, <2>3, <2>4, <2>7, <2>9, TrackKept
<1> QED BY <1>6, <1>7, <1>8

\* The network of a broken instance.
LEMMA BrokenNetworkTracks ==
  ASSUME IndInv, TrackInv, NEW o \in Ops,
         BrokenNetwork(o) \/ RetireBrokenNetwork(o)
  PROVE  TrackInv' /\ Careful
<1>1. Held(o) /\ Faithful(o) /\ Sound(op[o]) /\ Locals /\ Distinct
      /\ Recorded /\ Stores /\ op[o] \in Requests
  BY Before
<1>2. /\ UNCHANGED <<row, owner, retC, state, hold>>
      /\ op[o].pc \in {"brokennet", "brokenret"}
  BY DEF BrokenNetwork, RetireBrokenNetwork, database, docker, containers
<1>3. op[o].kind = "recover" /\ op[o].cs = {}
  BY <1>1, <1>2 DEF Held, RecoverySteps
<1>4. CASE \E p \in {"brokenrow", "brokenret"} : Goto(o, p)
  <2>1. /\ OthersStay(o)
        /\ op'[o].kind = op[o].kind
        /\ op'[o].pc \in {"brokenrow", "brokenret"}
        /\ op'[o].inst = op[o].inst /\ op'[o].cs = op[o].cs
        /\ op'[o].todo = op[o].todo
    BY <1>1, <1>4, GotoFields
  <2>2. Frame(o) /\ Careful BY <1>2, <2>1, StillFrame
  <2>3. Held(o)' BY <1>1, <1>2, <1>3, <2>1, HeldKept
  <2>4. Faithful(o)'
    BY <1>1, <1>2, <1>3, <2>1
       DEF Faithful, Unfinished, Building, CreateSteps
  <2> QED BY <1>2, <2>1, <2>2, <2>3, <2>4, ShrinkTracks DEF Shrinks
<1>5. CASE SkipBroken(o)
  <2>1. /\ OthersStay(o)
        /\ op'[o].kind = op[o].kind /\ op'[o].pc = "broken"
        /\ op'[o].inst = 0 /\ op'[o].cs = op[o].cs
        /\ op'[o].todo \subseteq op[o].todo
    BY <1>1, <1>5, SkipFields
  <2>2. Frame(o) /\ Careful BY <1>2, <2>1, StillFrame
  <2>3. Held(o)' BY <1>1, <1>2, <1>3, <2>1, HeldKept
  <2>4. Faithful(o)'
    BY <1>1, <1>2, <1>3, <2>1
       DEF Faithful, Unfinished, Building, CreateSteps
  <2> QED BY <1>2, <2>1, <2>2, <2>3, <2>4, ShrinkTracks DEF Shrinks
<1> QED BY <1>4, <1>5 DEF BrokenNetwork, RetireBrokenNetwork

\* The row of a broken instance goes when Docker has none of its containers.
LEMMA BrokenRowTracks ==
  ASSUME IndInv, TrackInv, NEW o \in Ops, BrokenRow(o)
  PROVE  TrackInv' /\ Careful
<1>1. Held(o) /\ Faithful(o) /\ Sound(op[o]) /\ Locals /\ Distinct
      /\ Recorded /\ Stores /\ op[o] \in Requests
  BY Before
<1>2. UNCHANGED <<retC, state, hold>> /\ op[o].pc = "brokenrow"
  BY DEF BrokenRow, docker, containers
<1>3. /\ op[o].kind = "recover" /\ op[o].cs = {}
      /\ op[o].inst \in Ids /\ op[o].inst # 0
  BY <1>1, <1>2 DEF Held, RecoverySteps, Sound, InstanceSteps, Ids
<1>4. /\ OthersStay(o)
      /\ op'[o].kind = op[o].kind /\ op'[o].pc = "broken"
      /\ op'[o].inst = 0 /\ op'[o].cs = op[o].cs
      /\ op'[o].todo = op[o].todo \ {op[o].inst}
  <2>1. CASE SkipBroken(o) BY <1>1, <2>1, SkipFields
  <2>2. CASE ~SkipBroken(o)
    <3>1. PICK B : op' = [op EXCEPT ![o] = [op[o] EXCEPT
             !.pc = "broken", !.todo = @ \ {op[o].inst}, !.inst = 0,
             !.restore = B]]
      BY <2>2 DEF BrokenRow, Become
    <3> QED BY <1>1, <3>1 DEF Locals, OthersStay, Requests
  <2> QED BY <2>1, <2>2
<1>5. /\ \A c \in Containers : \/ owner'[c] = owner[c]
                               \/ owner[c] = op[o].inst /\ owner'[c] = 0
      /\ \A i \in Ids : i # op[o].inst => row'[i] = row[i]
      /\ row' = row \/ \A c \in Containers : owner'[c] # op[o].inst
  BY <1>1, <1>3 DEF BrokenRow, DeleteInstance, Stores
<1>6. \A c \in Containers : owner[c] = op[o].inst => state[c] = "none"
  BY <1>1, <1>2 DEF Faithful
<1>7. Frame(o) BY <1>2, <1>4, <1>5 DEF Frame
<1>8. Careful
  BY <1>1, <1>2, <1>5, <1>6 DEF Careful, Recorded, Stores
<1>9. Held(o)' BY <1>1, <1>2, <1>3, <1>4, HeldKept
<1>10. \A i \in op'[o].todo : row'[i] # None
  BY <1>1, <1>2, <1>4, <1>5 DEF Faithful, Sound
<1>11. Faithful(o)'
  BY <1>3, <1>4, <1>10 DEF Faithful, Unfinished, Building, CreateSteps
<1> QED BY <1>2, <1>4, <1>7, <1>8, <1>9, <1>11, ShrinkTracks DEF Shrinks

\* The same for a request that enters the barrier.
LEMMA EnterTracks ==
  ASSUME IndInv, TrackInv, NEW o \in Ops, Frame(o), Careful, Distinct',
         Held(o)', Faithful(o)', NEW m \in {"shared", "exclusive"},
         Barrier!Enter(o, m)
  PROVE  TrackInv'
<1>1. \A u \in Ops : Held(u)' /\ Faithful(u)' BY OthersKept
<1>2. Alone'
  <2>1. /\ hold' = [hold EXCEPT ![o] = m] /\ hold[o] = "none"
        /\ \A u \in Ops \ {o} : hold[u] # "none"
             => m = "shared" /\ hold[u] = "shared"
    BY DEF Barrier!Enter, Barrier!Others
  <2> QED BY <2>1 DEF IndInv, Stores, TrackInv, Alone
<1>3. Recorded' BY RecordsKept DEF TrackInv
<1> QED BY <1>1, <1>2, <1>3 DEF TrackInv

\* A new instance has an identifier that no row, no container and no request
\* has.
LEMMA OpenTracks ==
  ASSUME IndInv, TrackInv, NEW o \in Ops, NEW b \in Builds,
         NEW q \in Requests, q.kind # "stop", Open(o, b, q),
         UNCHANGED <<owner, retC, state>>,
         \A u \in Ops : u # o => hold'[u] = hold[u]
  PROVE  Frame(o) /\ Careful /\ Distinct' /\ Faithful(o)'
<1>1. Locals /\ Distinct /\ Recorded /\ Stores BY Before
<1>2. NextId \in Ids /\ row' = [row EXCEPT ![NextId] = b] BY DEF Open
<1>3. row[NextId] = None BY <1>2, NextIdFree DEF Rows
<1>4. /\ OthersStay(o)
      /\ op'[o].kind = q.kind /\ op'[o].pc = "net"
      /\ op'[o].inst = NextId /\ op'[o].cs = {}
  BY <1>1, OpenFields
<1>5. \A u \in Ops : op[u].inst # NextId
  <2> TAKE u \in Ops
  <2>1. Faithful(u) BY Before
  <2>2. NextId # 0 BY <1>2 DEF Ids
  <2> QED BY <1>3, <2>1, <2>2 DEF Faithful
<1>6. \A c \in Containers : owner[c] # NextId
  <2>1. NextId # 0 BY <1>2 DEF Ids
  <2> QED BY <1>1, <1>3, <2>1 DEF Recorded
<1>7. row'[NextId] # None BY <1>1, <1>2 DEF Stores
<1> HIDE DEF NextId
<1>8. \A i \in Ids : row[i] # None => row'[i] # None
  BY <1>1, <1>2, <1>7 DEF Stores
<1>9. Frame(o) BY <1>4, <1>8 DEF Frame
<1>10. Careful BY <1>1, <1>8 DEF Careful, Recorded, Stores
<1>11. Distinct' BY <1>1, <1>4, <1>5, <1>9, DistinctKept
<1>12. Faithful(o)'
  <2>1. op'[o].inst = NextId /\ \A c \in Containers : owner'[c] # NextId
    BY <1>4, <1>6
  <2> QED BY <1>4, <1>7, <2>1 DEF Faithful
<1> QED BY <1>9, <1>10, <1>11, <1>12

\* Start.
LEMMA StartTracks ==
  ASSUME IndInv, TrackInv, NEW o \in Ops, NEW b \in Builds, Start(o, b)
  PROVE  TrackInv' /\ Careful
<1>1. Locals /\ Stores BY Before
<1>2. PICK q : q = [Idle EXCEPT !.kind = "start"] OBVIOUS
<1>3. q \in Requests /\ q.kind = "start" BY <1>2, IdleTyped DEF Requests
<1>4. Open(o, b, q) /\ Barrier!Enter(o, "shared") BY <1>2 DEF Start
<1>5. hold' = [hold EXCEPT ![o] = "shared"] BY <1>4 DEF Barrier!Enter
<1>6. hold'[o] = "shared" /\ \A u \in Ops : u # o => hold'[u] = hold[u]
  BY <1>1, <1>5 DEF Stores
<1>7. Frame(o) /\ Careful /\ Distinct' /\ Faithful(o)'
  BY <1>3, <1>4, <1>6, OpenTracks DEF Start, docker, containers
<1>8. op'[o].kind = "start" /\ op'[o].pc = "net"
  BY <1>1, <1>3, <1>4, OpenFields
<1>9. Held(o)' BY <1>6, <1>8 DEF Held, RecoverySteps
<1> QED BY <1>4, <1>7, <1>9, EnterTracks

\* Recovery opens an instance in place of a broken one, is done with a build,
\* or ends.
LEMMA RestoreTracks ==
  ASSUME IndInv, TrackInv, NEW o \in Ops, Restore(o)
  PROVE  TrackInv' /\ Careful
<1>1. Held(o) /\ Faithful(o) /\ Sound(op[o]) /\ Locals /\ Distinct
      /\ Recorded /\ Stores /\ op[o] \in Requests
  BY Before
<1>2. UNCHANGED <<owner, retC, state>> /\ op[o].pc = "restore"
  BY DEF Restore, docker, containers
<1>3. op[o].kind = "recover" /\ op[o].cs = {}
  BY <1>1, <1>2 DEF Held, RecoverySteps
<1>4. CASE \E b \in Builds : Open(o, b, op[o]) /\ UNCHANGED hold
  <2>1. PICK b \in Builds : Open(o, b, op[o]) /\ UNCHANGED hold BY <1>4
  <2>2. Frame(o) /\ Careful /\ Distinct' /\ Faithful(o)'
    BY <1>1, <1>2, <1>3, <2>1, OpenTracks
  <2>3. op'[o].kind = op[o].kind /\ op'[o].pc = "net"
    <3>1. PICK q : q = op[o] OBVIOUS
    <3>2. /\ q \in Requests /\ Open(o, b, q) /\ Locals
          /\ q.kind = "recover"
      BY <1>1, <1>3, <2>1, <3>1
    <3>3. op'[o].kind = "recover" /\ op'[o].pc = "net"
      BY <3>2, OpenFields
    <3> QED BY <1>3, <3>3
  <2>4. Held(o)' BY <1>1, <1>2, <2>1, <2>3, HeldKept DEF RecoverySteps
  <2> QED BY <2>1, <2>2, <2>4, TrackKept
<1>5. CASE \E B, fine : /\ Become(o, [op[o] EXCEPT !.restore = B,
                                                   !.clean = fine])
                        /\ UNCHANGED <<row, hold>>
  <2>1. /\ OthersStay(o)
        /\ op'[o].kind = op[o].kind /\ op'[o].pc = "restore"
        /\ op'[o].inst = op[o].inst /\ op'[o].cs = op[o].cs
    <3>1. PICK B, fine : op' = [op EXCEPT ![o] = [op[o] EXCEPT
                                   !.restore = B, !.clean = fine]]
      BY <1>5 DEF Become
    <3> QED BY <1>1, <1>2, <3>1 DEF Locals, OthersStay, Requests
  <2>2. Frame(o) /\ Careful BY <1>2, <1>5, <2>1, StillFrame
  <2>3. Held(o)' BY <1>1, <1>2, <1>3, <1>5, <2>1, HeldKept
  <2>4. Faithful(o)'
    BY <1>1, <1>2, <1>3, <1>5, <2>1
       DEF Faithful, Unfinished, Building, CreateSteps
  <2> QED BY <1>5, <2>1, <2>2, <2>3, <2>4, ShrinkTracks DEF Shrinks
<1>6. CASE Finish(o) /\ UNCHANGED row
  <2>1. Frame(o) /\ Careful BY <1>2, <1>6, Ends, StillFrame
  <2> QED BY <1>6, <2>1, Ends, ShrinkTracks
<1>7. CASE /\ UNCHANGED <<row, hold>>
           /\ \E b : Become(o, [op[o] EXCEPT !.restore = @ \ {b}])
  <2>1. PICK b : op' = [op EXCEPT ![o] = [op[o] EXCEPT !.restore = @ \ {b}]]
    BY <1>7 DEF Become
  <2>2. /\ OthersStay(o)
        /\ op'[o].kind = op[o].kind /\ op'[o].pc = "restore"
        /\ op'[o].inst = op[o].inst /\ op'[o].cs = op[o].cs
    BY <1>1, <1>2, <2>1 DEF Locals, OthersStay, Requests
  <2>3. Frame(o) /\ Careful BY <1>2, <1>7, <2>2, StillFrame
  <2>4. Held(o)' BY <1>1, <1>2, <1>3, <1>7, <2>2, HeldKept
  <2>5. Faithful(o)'
    BY <1>1, <1>2, <1>3, <1>7, <2>2
       DEF Faithful, Unfinished, Building, CreateSteps
  <2> QED BY <1>7, <2>2, <2>3, <2>4, <2>5, ShrinkTracks DEF Shrinks
<1>8. op[o].restore \subseteq Builds BY <1>1 DEF Requests
<1> QED BY <1>4, <1>5, <1>6, <1>7, <1>8 DEF Restore

\* Stop takes an instance that nobody works on.
LEMMA StopTracks ==
  ASSUME ~Overlap, IndInv, TrackInv, NEW o \in Ops, NEW i \in Ids, Stop(o, i)
  PROVE  TrackInv' /\ Careful
<1>1. Held(o) /\ Faithful(o) /\ Sound(op[o]) /\ Locals /\ Distinct
      /\ Recorded /\ Stores /\ op[o] \in Requests
  BY Before
<1>2. /\ UNCHANGED <<row, owner, retC, state>>
      /\ row[i] # None /\ \A u \in Ops : op[u].inst # i
      /\ Barrier!Enter(o, "shared")
      /\ op' = [op EXCEPT ![o] = [Idle EXCEPT
                  !.kind = "stop", !.pc = "remove", !.inst = i,
                  !.cs = ContainersOf(i), !.todo = ContainersOf(i)]]
  BY DEF Stop, Become, database, docker, containers
<1>3. /\ OthersStay(o)
      /\ op'[o].kind = "stop" /\ op'[o].pc = "remove" /\ op'[o].inst = i
      /\ op'[o].cs = ContainersOf(i) /\ op'[o].todo = ContainersOf(i)
  BY <1>1, <1>2 DEF Locals, OthersStay, Idle
<1>4. hold' = [hold EXCEPT ![o] = "shared"] BY <1>2 DEF Barrier!Enter
<1>5. hold'[o] = "shared" /\ \A u \in Ops : u # o => hold'[u] = hold[u]
  BY <1>1, <1>4 DEF Stores
<1>6. Frame(o) /\ Careful BY <1>2, <1>3, <1>5, StillFrame
<1>7. Held(o)' BY <1>3, <1>5 DEF Held, RecoverySteps
<1>8. Faithful(o)'
  BY <1>2, <1>3
     DEF Faithful, ContainersOf, Unfinished, Building, CreateSteps
<1>9. \A u \in Ops : ContainersOf(i) \cap op[u].cs = {}
  <2> TAKE u \in Ops
  <2>1. Faithful(u) BY Before
  <2>2. i # 0 BY DEF Ids
  <2> QED BY <1>2, <2>1, <2>2 DEF Faithful, ContainersOf
<1>10. Distinct' BY <1>1, <1>2, <1>3, <1>6, <1>9, DistinctKept
<1> QED BY <1>2, <1>6, <1>7, <1>8, <1>10, EnterTracks

\* Recovery begins alone.
LEMMA RecoverTracks ==
  ASSUME IndInv, TrackInv, NEW o \in Ops, Recover(o)
  PROVE  TrackInv' /\ Careful
<1>1. Locals /\ Distinct /\ Recorded /\ Stores BY Before
<1>2. /\ UNCHANGED <<row, owner, retC, state>>
      /\ Barrier!Enter(o, "exclusive")
  BY DEF Recover, database, docker, containers
<1>3. /\ OthersStay(o)
      /\ op'[o].kind = "recover" /\ op'[o].pc = "retired"
      /\ op'[o].inst = 0 /\ op'[o].cs = {}
  <2> DEFINE r == [Idle EXCEPT !.kind = "recover", !.pc = "retired"]
  <2>1. CASE op' = [op EXCEPT ![o] = [r EXCEPT !.todo = retC]]
    BY <1>1, <2>1 DEF Locals, OthersStay, Idle
  <2>2. CASE op' = [op EXCEPT ![o] = [r EXCEPT !.clean = FALSE]]
    BY <1>1, <2>2 DEF Locals, OthersStay, Idle
  <2> QED BY <2>1, <2>2 DEF Recover, Become
<1>4. hold' = [hold EXCEPT ![o] = "exclusive"] BY <1>2 DEF Barrier!Enter
<1>5. hold'[o] = "exclusive" /\ \A u \in Ops : u # o => hold'[u] = hold[u]
  BY <1>1, <1>4 DEF Stores
<1>6. Frame(o) /\ Careful BY <1>2, <1>3, <1>5, StillFrame
<1>7. Held(o)' BY <1>3, <1>5 DEF Held
<1>8. Faithful(o)'
  BY <1>3 DEF Faithful, Unfinished, Building, CreateSteps
<1>9. Distinct' BY <1>1, <1>3, <1>6, DistinctKept
<1> QED BY <1>2, <1>6, <1>7, <1>8, <1>9, EnterTracks

\* A process dies.
LEMMA CrashTracks ==
  ASSUME IndInv, TrackInv, NEW o \in Ops, Crash(o)
  PROVE  TrackInv' /\ Careful
<1>1. UNCHANGED <<row, owner, retC, state>> /\ Finish(o)
  BY DEF Crash, database, docker, containers
<1>2. Frame(o) /\ Careful BY <1>1, Ends, StillFrame
<1> QED BY <1>1, <1>2, Ends, ShrinkTracks

\* A container is lost or stops.
LEMMA EnvironmentTracks ==
  ASSUME IndInv, TrackInv, NEW c \in Containers, Lose(c) \/ Exit(c)
  PROVE  TrackInv' /\ Careful
<1>1. Recorded /\ Stores BY DEF IndInv, TrackInv
<1>2. UNCHANGED <<row, owner, retC, hold, op>>
  BY DEF Lose, Exit, database
<1>3. \A d \in Containers :
        /\ state[d] = "none" => state'[d] = "none"
        /\ state'[d] \in {"running", "exited"}
             => state[d] \in {"running", "exited"}
  BY <1>1 DEF Lose, Exit, Exists, Stores
<1>4. Careful BY <1>1, <1>2, <1>3 DEF Careful, Recorded
<1>5. Recorded' BY <1>1, <1>4, RecordsKept
<1>6. ASSUME NEW o \in Ops PROVE Held(o)' /\ Faithful(o)'
  <2>1. Held(o) /\ Faithful(o) /\ Sound(op[o]) BY Before
  <2>2. op[o].pc = "forget" => Pick(op[o].todo) \in Containers
    BY <2>1, PickIn DEF Sound
  <2>3. Faithful(o)'
    BY <1>2, <1>3, <2>1, <2>2 DEF Faithful
  <2> QED BY <1>2, <2>1, <2>3 DEF Held
<1>7. Alone' /\ Distinct' BY <1>2 DEF TrackInv, Alone, Distinct
<1> QED BY <1>4, <1>5, <1>6, <1>7 DEF TrackInv

\* Initially nobody works, and every container row has its instance row.
LEMMA InitTracks == Init => TrackInv
<1> SUFFICES ASSUME Init PROVE TrackInv OBVIOUS
<1>1. op = [o \in Ops |-> Idle] /\ hold = [o \in Ops |-> "none"]
  BY DEF Init
<1>2. \A o \in Ops : Held(o)
  BY <1>1 DEF Held, Idle, RecoverySteps
<1>3. \A o \in Ops : Faithful(o)
  BY <1>1 DEF Faithful, Idle, Unfinished, Building, CreateSteps
<1>4. Alone /\ Distinct BY <1>1 DEF Alone, Distinct, Idle
<1>5. Recorded
  <2>1. \A c \in Containers : owner[c] # 0 => row[owner[c]] # None
    BY DEF Init
  <2>2. \A c \in Containers : owner[c] = 0 => state[c] = "none"
    BY DEF Init
  <2> QED BY <2>1, <2>2 DEF Recorded
<1> QED BY <1>2, <1>3, <1>4, <1>5 DEF TrackInv

\* Every step keeps it, if nobody stops an instance that is being worked on.
LEMMA StepTracks ==
  ASSUME ~Overlap, IndInv, TrackInv, [Next]_vars
  PROVE  TrackInv' /\ Careful
<1>1. ASSUME NEW o \in Ops, Step(o) PROVE TrackInv' /\ Careful
  BY <1>1, CreateNetworkTracks, CreateContainerTracks, RetirePendingTracks,
     StartContainerTracks, FinalizeTracks, CleanupTracks, ReleaseTracks,
     RemoveTracks, ForgetTracks, LaterTracks, DeleteTracks,
     RemoveRetiredTracks, RemoveNetworkTracks, ScanTracks,
     RemoveBrokenTracks, BrokenNetworkTracks, BrokenRowTracks, RestoreTracks
     DEF Step
<1>2. CASE UNCHANGED vars
  <2>1. UNCHANGED <<row, owner, retC, state, hold, op>>
    BY <1>2 DEF vars, database, docker, containers
  <2>2. Careful BY <2>1 DEF Careful, TrackInv, Recorded
  <2>3. Alone' /\ Distinct' /\ Recorded'
    BY <2>1 DEF TrackInv, Alone, Distinct, Recorded
  <2>4. \A o \in Ops : Held(o)' /\ Faithful(o)'
    BY <2>1 DEF TrackInv, Held, Faithful
  <2> QED BY <2>2, <2>3, <2>4 DEF TrackInv
<1> QED BY <1>1, <1>2, StartTracks, StopTracks, RecoverTracks, CrashTracks,
           EnvironmentTracks DEF Next

\* The inductive invariant of the two stores together.
THEOREM TracksAlways == ~Overlap => (Spec => [](IndInv /\ TrackInv))
<1> SUFFICES ASSUME ~Overlap PROVE Spec => [](IndInv /\ TrackInv)
  OBVIOUS
<1>1. Init => IndInv /\ TrackInv BY InitInv, InitTracks
<1>2. IndInv /\ TrackInv /\ [Next]_vars => (IndInv /\ TrackInv)'
  BY StepInv, StepTracks
<1> QED BY <1>1, <1>2, PTL DEF Spec

\* Whatever fails or dies in the middle of a Start, a Stop or a recovery, a
\* container that ever ran is known to the database: a Stop or the next
\* recovery can remove it.
THEOREM RunningIsTracked == ~Overlap => (Spec => []RunningTracked)
<1> SUFFICES ASSUME ~Overlap PROVE Spec => []RunningTracked
  OBVIOUS
<1>1. TrackInv => RunningTracked
  BY DEF TrackInv, Recorded, RunningTracked, Tracked
<1> QED BY <1>1, TracksAlways, PTL

\* No Stop, roll-back, cascade or recovery forgets a container of an instance
\* that Docker still has.
THEOREM OwnershipOutlives == ~Overlap => (Spec => OwnershipOutlivesContainer)
<1> SUFFICES ASSUME ~Overlap PROVE Spec => OwnershipOutlivesContainer
  OBVIOUS
<1>1. IndInv /\ TrackInv /\ [Next]_vars =>
        [\A c \in Containers :
           owner[c] # 0 /\ owner'[c] = 0 => state'[c] = "none"]_vars
  BY StepTracks DEF Careful
<1> QED BY <1>1, TracksAlways, PTL DEF Spec, OwnershipOutlivesContainer

-----------------------------------------------------------------------------
(* Ports                                                                   *)

\* The steps between getting the port allocation lock and the commit.
LockedSteps == {"create", "retire", "start", "finalize"}

\* Who has the lock creates containers of its instance, with ports that have
\* no row until the commit; who publishes no port goes without the lock.
PortSide(o) ==
  LET r == op[o] IN
  /\ portLock = o => r.pc \in LockedSteps \cup {"cleanup", "unlock"}
  /\ r.pc \in LockedSteps => portLock = o \/ r.build \in NoPorts
  /\ r.pc \in {"net", "lock"} => r.cs = {}
  /\ r.kind # "stop" /\ r.build \in NoPorts => \A c \in r.cs : bind[c] = 0
  /\ r.kind # "stop" => \A c \in r.cs : Exists(c) => attached[c] = r.inst
  /\ portLock = o => \A c \in r.cs : owner[c] = 0 /\ bind[c] # 0
                                        => assigned[bind[c]] = 0

\* A committed container is on the network of its instance.
OnNetwork == \A c \in Containers :
               owner[c] # 0 /\ Exists(c) => attached[c] = owner[c]

PortInv == PortsRecorded /\ OnNetwork /\ \A o \in Ops : PortSide(o)

\* The request of o ends or goes on with the same instance.
Lineage(o) ==
  \/ op'[o].cs = {}
  \/ /\ op'[o].kind = op[o].kind /\ op'[o].build = op[o].build
     /\ op'[o].inst = op[o].inst /\ op'[o].cs \subseteq op[o].cs

\* It has the lock where it must, and takes it from nobody.
LockSide(o) ==
  /\ portLock' = o => op'[o].pc \in LockedSteps \cup {"cleanup", "unlock"}
  /\ op'[o].pc \in LockedSteps => portLock' = o \/ op'[o].build \in NoPorts
  /\ op'[o].pc \in {"net", "lock"} => op'[o].cs = {}
  /\ \A u \in Ops : u # o => (portLock' = u <=> portLock = u)

\* A step of o changes the port and the network of a container only when it
\* creates or removes it, adds port rows under the lock, and takes away those
\* of its own instance when none of its containers is left.
PortFrame(o) ==
  /\ OthersStay(o)
  /\ \A u \in Ops : u # o => (portLock' = u <=> portLock = u)
  /\ \A c \in Containers :
       \/ /\ bind'[c] = bind[c] /\ attached'[c] = attached[c]
          /\ state[c] = "none" => state'[c] = "none"
       \/ state'[c] = "none" /\ bind'[c] = 0
       \/ c \in Fresh
  /\ \A c \in Containers :
       \/ owner'[c] = owner[c]
       \/ owner[c] = op[o].inst /\ owner'[c] = 0
       \/ /\ c \in op[o].cs /\ owner'[c] = op[o].inst
          /\ state'[c] # "none" => attached'[c] = op[o].inst
          /\ bind'[c] # 0 => assigned'[bind'[c]] = op[o].inst
  /\ \A p \in Ports :
       \/ assigned'[p] = assigned[p]
       \/ assigned[p] = 0 /\ portLock = o
       \/ /\ assigned[p] = op[o].inst /\ assigned'[p] = 0
          /\ \A c \in Containers : owner'[c] = op[o].inst
                                     => state'[c] = "none"

\* Such a step keeps what the stores say of ports, and the other requests'
\* side of it.
LEMMA PortsKept ==
  ASSUME IndInv, TrackInv, PortInv, NEW o \in Ops, PortFrame(o)
  PROVE  /\ PortsRecorded' /\ OnNetwork'
         /\ \A u \in Ops : u # o => PortSide(u)'
<1>1. Stores BY Before
<1>2. ASSUME NEW c \in Containers, owner'[c] # 0, state'[c] # "none"
      PROVE  /\ attached'[c] = owner'[c]
             /\ bind'[c] # 0 => assigned'[bind'[c]] = owner'[c]
  <2>1. CASE owner'[c] = owner[c]
    <3>1. c \notin Fresh BY <1>2, <2>1 DEF Fresh, Referenced
    <3>2. bind'[c] = bind[c] /\ attached'[c] = attached[c] /\ Exists(c)
      BY <1>2, <3>1 DEF PortFrame, Exists
    <3>3. attached[c] = owner[c]
      BY <1>2, <2>1, <3>2 DEF PortInv, OnNetwork
    <3>4. ASSUME bind[c] # 0 PROVE assigned'[bind[c]] = owner[c]
      <4>1. assigned[bind[c]] = owner[c] /\ bind[c] \in Ports
        BY <1>1, <1>2, <2>1, <3>2, <3>4 DEF PortInv, PortsRecorded, Stores
      <4> QED BY <1>2, <2>1, <4>1 DEF PortFrame
    <3> QED BY <2>1, <3>2, <3>3, <3>4
  <2>2. CASE owner'[c] # owner[c]
    BY <1>2, <2>2 DEF PortFrame
  <2> QED BY <2>1, <2>2
<1>3. PortsRecorded' /\ OnNetwork'
  BY <1>2 DEF PortsRecorded, OnNetwork, Exists
<1>4. ASSUME NEW u \in Ops, u # o PROVE PortSide(u)'
  <2>1. op'[u] = op[u] /\ (portLock' = u <=> portLock = u)
    BY <1>4 DEF PortFrame, OthersStay
  <2>2. PortSide(u) /\ Faithful(u) /\ Sound(op[u])
    BY Before DEF PortInv
  <2>3. op[u].cs \subseteq Containers /\ \A c \in op[u].cs : c \notin Fresh
    BY <2>2 DEF Sound, Requests, Fresh, Referenced
  <2>4. \A c \in op[u].cs :
          \/ /\ bind'[c] = bind[c] /\ attached'[c] = attached[c]
             /\ state[c] = "none" => state'[c] = "none"
          \/ state'[c] = "none" /\ bind'[c] = 0
    BY <2>3 DEF PortFrame
  <2>5. /\ op[u].kind # "stop" /\ op[u].build \in NoPorts
             => \A c \in op[u].cs : bind'[c] = 0
        /\ op[u].kind # "stop"
             => \A c \in op[u].cs :
                  state'[c] # "none" => attached'[c] = op[u].inst
    BY <2>2, <2>4 DEF PortSide, Exists
  <2>6. ASSUME portLock = u, NEW c \in op[u].cs, owner'[c] = 0, bind'[c] # 0
        PROVE  assigned'[bind'[c]] = 0
    <3>1. bind'[c] = bind[c] /\ bind[c] \in Ports
      BY <1>1, <2>3, <2>4, <2>6 DEF Stores
    <3>2. op[u].inst \in Ids
      BY <2>2, <2>6 DEF PortSide, Sound, LockedSteps, InstanceSteps
    <3>3. owner[c] = 0
      <4>1. op[u].inst # op[o].inst /\ c \notin op[o].cs
        BY <1>4, <2>6, <3>2 DEF TrackInv, Distinct, Ids
      <4>2. owner[c] # 0 => owner[c] = op[u].inst BY <2>2 DEF Faithful
      <4> QED BY <2>3, <2>6, <4>1, <4>2 DEF PortFrame
    <3>4. assigned[bind[c]] = 0 BY <2>2, <2>6, <3>1, <3>3 DEF PortSide
    <3> QED BY <1>4, <2>6, <3>1, <3>4 DEF PortFrame
  <2> QED BY <2>1, <2>2, <2>5, <2>6 DEF PortSide, Exists
<1> QED BY <1>3, <1>4

\* The request's own side, when it takes no new container.
LEMMA OwnPorts ==
  ASSUME IndInv, TrackInv, PortInv, NEW o \in Ops, PortFrame(o), LockSide(o),
         Lineage(o) \/ (op'[o].kind = "stop" /\ portLock' # o),
         portLock' = o /\ op'[o].cs # {} => portLock = o,
         portLock' = o => \/ UNCHANGED <<owner, assigned>>
                          \/ \A c \in op'[o].cs : owner'[c] # 0
  PROVE  PortInv'
<1>1. /\ PortsRecorded' /\ OnNetwork'
      /\ \A u \in Ops : u # o => PortSide(u)'
  BY PortsKept
<1>2. PortSide(o) /\ Sound(op[o]) BY Before DEF PortInv
<1>3. op[o].cs \subseteq Containers /\ \A c \in op[o].cs : c \notin Fresh
  BY <1>2 DEF Sound, Requests, Fresh, Referenced
<1>4. \A c \in op[o].cs :
        \/ /\ bind'[c] = bind[c] /\ attached'[c] = attached[c]
           /\ state[c] = "none" => state'[c] = "none"
        \/ state'[c] = "none" /\ bind'[c] = 0
  BY <1>3 DEF PortFrame
<1>5. /\ op'[o].kind # "stop" /\ op'[o].build \in NoPorts
           => \A c \in op'[o].cs : bind'[c] = 0
      /\ op'[o].kind # "stop"
           => \A c \in op'[o].cs :
                state'[c] # "none" => attached'[c] = op'[o].inst
  BY <1>2, <1>4 DEF PortSide, Exists, Lineage
<1>6. portLock' = o => \A c \in op'[o].cs : owner'[c] = 0 /\ bind'[c] # 0
                                              => assigned'[bind'[c]] = 0
  BY <1>2, <1>4 DEF PortSide, Lineage
<1>7. PortSide(o)'
  BY <1>5, <1>6 DEF PortSide, Exists, LockSide
<1> QED BY <1>1, <1>7 DEF PortInv

\* How the parts of steps move a request along.
LEMMA GotoLine ==
  ASSUME NEW o \in Ops, Locals, NEW p, Goto(o, p)
  PROVE  /\ OthersStay(o) /\ Lineage(o) /\ op'[o].pc = p
         /\ op'[o].build = op[o].build /\ op'[o].cs = op[o].cs
  BY GotoFields DEF Lineage

\* An error under the lock leads to the clean-up, else to the roll-back.
LEMMA AbortLine ==
  ASSUME NEW o \in Ops, Locals, Abort(o)
  PROVE  /\ OthersStay(o) /\ Lineage(o)
         /\ \/ portLock = o /\ op'[o].pc = "cleanup"
            \/ portLock # o /\ op'[o].pc = "remove"
<1>1. CASE portLock = o BY <1>1, CleanupFields DEF Lineage
<1>2. CASE portLock # o
  <2>1. Rollback(o) BY <1>2 DEF Abort
  <2> QED BY <1>2, <2>1, RollbackFields DEF Lineage
<1> QED BY <1>1, <1>2

\* A request that ends has no containers.
LEMMA FinishLine ==
  ASSUME NEW o \in Ops, Locals, Stores, Finish(o)
  PROVE  OthersStay(o) /\ Lineage(o) /\ op'[o].pc = "idle"
  BY FinishFields DEF Lineage, Idle

\* Nor has recovery between two instances.
LEMMA DoneLine ==
  ASSUME NEW o \in Ops, Locals, Stores, NewInstanceDone(o)
  PROVE  /\ OthersStay(o) /\ Lineage(o)
         /\ op'[o].pc \in {"idle", "restore"}
<1>1. CASE op[o].kind = "start"
  BY <1>1, FinishLine DEF NewInstanceDone
<1>2. CASE op[o].kind # "start"
  BY <1>2, DoneFields DEF Lineage
<1> QED BY <1>1, <1>2

\* After stopContainers only the containers that remain are left.
LEMMA AfterStopLine ==
  ASSUME NEW o \in Ops, Locals, Stores, NEW failed, AfterStop(o, failed),
         op[o].pc \in {"remove", "ports"}
  PROVE  /\ OthersStay(o) /\ Lineage(o)
         /\ op'[o].pc \in {"rbretire", "idle", "stopnet"}
<1>1. CASE op[o].kind # "stop"
  <2>1. op[o].left \subseteq op[o].cs BY DEF Locals, Sound
  <2> QED BY <1>1, <2>1, RetainFields DEF Lineage
<1>2. CASE op[o].kind = "stop"
  BY <1>2, FinishLine, GotoLine DEF AfterStop
<1> QED BY <1>1, <1>2

\* A step that leaves ports and networks as they are.
LEMMA PortsStill ==
  ASSUME NEW o \in Ops, OthersStay(o),
         UNCHANGED <<owner, assigned, bind, attached>>,
         \A c \in Containers : state[c] = "none" => state'[c] = "none",
         \A u \in Ops : u # o => (portLock' = u <=> portLock = u)
  PROVE  PortFrame(o)
  BY DEF PortFrame

\* A step of a request that has nothing to do with the lock.
LEMMA OutsidePorts ==
  ASSUME IndInv, TrackInv, PortInv, NEW o \in Ops, PortFrame(o), Lineage(o),
         UNCHANGED portLock,
         op[o].pc \notin LockedSteps \cup {"cleanup", "unlock"},
         op'[o].pc \notin LockedSteps,
         op'[o].pc \in {"net", "lock"} => op'[o].cs = {}
  PROVE  PortInv'
<1>1. PortSide(o) BY DEF PortInv
<1>2. portLock # o BY <1>1 DEF PortSide
<1> QED BY <1>2, OwnPorts DEF LockSide

\* The steps of newInstance that touch no port.
LEMMA CreatingPorts ==
  ASSUME IndInv, TrackInv, PortInv, NEW o \in Ops,
         \/ CreateNetwork(o) \/ AcquirePortLock(o) \/ PortLockFails(o)
         \/ RetirePending(o) \/ StartContainer(o) \/ ReleasePortLock(o)
  PROVE  PortInv'
<1>1. Locals /\ Stores /\ Sound(op[o]) BY Before
<1>2. PortSide(o) BY DEF PortInv
<1>3. UNCHANGED <<owner, assigned, bind, attached>>
  BY DEF CreateNetwork, AcquirePortLock, PortLockFails, RetirePending,
         StartContainer, ReleasePortLock, database, docker, containers
<1>4. \A c \in Containers : state[c] = "none" => state'[c] = "none"
  BY <1>1 DEF CreateNetwork, AcquirePortLock, PortLockFails, RetirePending,
         StartContainer, ReleasePortLock, database, docker, containers,
         CanStart, Stores
<1>5. CASE CreateNetwork(o) \/ PortLockFails(o)
  <2>1. UNCHANGED portLock /\ op[o].pc \in {"net", "lock"}
    BY <1>5 DEF CreateNetwork, PortLockFails
  <2>2. portLock # o /\ op[o].cs = {}
    BY <1>2, <2>1 DEF PortSide, LockedSteps
  <2>3. OthersStay(o) /\ Lineage(o) /\ LockSide(o)
    <3>1. CASE Rollback(o)
      BY <1>1, <2>1, <2>2, <3>1, RollbackFields
         DEF Lineage, LockSide, LockedSteps
    <3>2. CASE Goto(o, IF op[o].build \in NoPorts THEN "create" ELSE "lock")
      BY <1>1, <2>1, <2>2, <3>2, GotoLine DEF LockSide, LockedSteps
    <3> QED BY <1>5, <3>1, <3>2 DEF CreateNetwork, PortLockFails
  <2>4. PortFrame(o) BY <1>3, <1>4, <2>1, <2>3, PortsStill
  <2> QED BY <2>1, <2>2, <2>3, <2>4, OwnPorts
<1>6. CASE AcquirePortLock(o)
  <2>1. /\ op[o].pc = "lock" /\ portLock = None /\ portLock' = o
        /\ Goto(o, "create")
    BY <1>6 DEF AcquirePortLock
  <2>2. op[o].cs = {} BY <1>2, <2>1 DEF PortSide
  <2>3. /\ OthersStay(o) /\ Lineage(o) /\ op'[o].pc = "create"
        /\ op'[o].cs = {}
    BY <1>1, <2>1, <2>2, GotoLine
  <2>4. \A u \in Ops : u # o => (portLock' = u <=> portLock = u) BY <2>1
  <2>5. PortFrame(o) BY <1>3, <1>4, <2>3, <2>4, PortsStill
  <2>6. LockSide(o) BY <2>1, <2>3, <2>4 DEF LockSide, LockedSteps
  <2> QED BY <1>3, <2>3, <2>5, <2>6, OwnPorts
<1>7. CASE RetirePending(o) \/ StartContainer(o)
  <2>1. UNCHANGED portLock /\ op[o].pc \in {"retire", "start"}
    BY <1>7 DEF RetirePending, StartContainer
  <2>2. OthersStay(o) /\ Lineage(o) /\ LockSide(o)
    <3>1. CASE Abort(o)
      BY <1>1, <2>1, <3>1, AbortLine DEF LockSide, LockedSteps
    <3>2. CASE \E p \in {"start", "finalize", "create"} : Goto(o, p)
      BY <1>1, <1>2, <2>1, <3>2, GotoLine
         DEF PortSide, LockSide, LockedSteps
    <3> QED BY <1>7, <3>1, <3>2 DEF RetirePending, StartContainer
  <2>3. PortFrame(o) BY <1>3, <1>4, <2>1, <2>2, PortsStill
  <2> QED BY <1>3, <2>1, <2>2, <2>3, OwnPorts
<1>8. CASE ReleasePortLock(o)
  <2>1. /\ op[o].pc = "unlock" /\ portLock' # o
        /\ \A u \in Ops : u # o => (portLock' = u <=> portLock = u)
    BY <1>8 DEF ReleasePortLock
  <2>2. OthersStay(o) /\ Lineage(o) /\ LockSide(o)
    <3>1. CASE NewInstanceDone(o)
      BY <1>1, <2>1, <3>1, DoneLine DEF LockSide, LockedSteps
    <3>2. CASE Rollback(o)
      BY <1>1, <2>1, <3>2, RollbackFields
         DEF Lineage, LockSide, LockedSteps
    <3> QED BY <1>8, <3>1, <3>2 DEF ReleasePortLock
  <2>3. PortFrame(o) BY <1>3, <1>4, <2>1, <2>2, PortsStill
  <2> QED BY <2>1, <2>2, <2>3, OwnPorts
<1> QED BY <1>5, <1>6, <1>7, <1>8

\* A new container gets a port without a row.
LEMMA CreateContainerPorts ==
  ASSUME IndInv, TrackInv, PortInv, NEW o \in Ops, CreateContainer(o)
  PROVE  PortInv'
<1>1. Locals /\ Stores /\ Sound(op[o]) /\ op[o] \in Requests BY Before
<1>2. PortSide(o) BY DEF PortInv
<1>3. UNCHANGED <<owner, assigned, portLock>> /\ op[o].pc = "create"
  BY DEF CreateContainer, database
<1>4. CASE Abort(o) /\ UNCHANGED containers
  <2>1. OthersStay(o) /\ Lineage(o) /\ LockSide(o)
    BY <1>1, <1>3, <1>4, AbortLine DEF LockSide, LockedSteps
  <2>2. PortFrame(o) BY <1>3, <1>4, <2>1, PortsStill DEF containers
  <2> QED BY <1>3, <2>1, <2>2, OwnPorts
<1>5. CASE ~(Abort(o) /\ UNCHANGED containers)
  <2>1. PICK c : c = Pick(Fresh) OBVIOUS
  <2>2. PICK p \in FreePorts(op[o].build) :
          /\ state' = [state EXCEPT ![c] = "created"]
          /\ attached' = [attached EXCEPT ![c] = op[o].inst]
          /\ bind' = [bind EXCEPT ![c] = p]
          /\ op' = [op EXCEPT ![o] = [op[o] EXCEPT !.pc = "retire",
                                      !.cs = @ \cup {c}, !.todo = {c}]]
    BY <1>5, <2>1 DEF CreateContainer, Become
  <2>3. c \in Fresh BY <2>1, PickIn DEF CreateContainer
  <2>4. c \in Containers /\ owner[c] = 0 /\ c \notin op[o].cs
    BY <2>3 DEF Fresh, Referenced
  <2>5. /\ OthersStay(o)
        /\ op'[o].kind = op[o].kind /\ op'[o].pc = "retire"
        /\ op'[o].build = op[o].build
        /\ op'[o].inst = op[o].inst /\ op'[o].cs = op[o].cs \cup {c}
    BY <1>1, <2>2 DEF Locals, OthersStay, Requests
  <2>6. /\ state'[c] = "created" /\ attached'[c] = op[o].inst /\ bind'[c] = p
        /\ \A d \in Containers : d # c =>
             /\ state'[d] = state[d] /\ attached'[d] = attached[d]
             /\ bind'[d] = bind[d]
    BY <1>1, <2>2, <2>4 DEF Stores
  <2>7. PortFrame(o) BY <1>3, <2>3, <2>5, <2>6 DEF PortFrame
  <2>8. /\ op[o].build \in NoPorts => p = 0
        /\ p # 0 => assigned[p] = 0
    BY <2>2 DEF FreePorts
  <2>9. op[o].cs \subseteq Containers /\ \A d \in op[o].cs : d # c
    BY <1>1, <2>4 DEF Requests
  <2>10. PortSide(o)'
    BY <1>2, <1>3, <2>5, <2>6, <2>8, <2>9 DEF PortSide, LockedSteps, Exists
  <2> QED BY <2>7, <2>10, PortsKept DEF PortInv
<1> QED BY <1>4, <1>5

\* The commit records the ports, under the lock.
LEMMA FinalizePorts ==
  ASSUME IndInv, TrackInv, PortInv, NEW o \in Ops, FinalizeInstance(o)
  PROVE  PortInv'
<1>1. Locals /\ Stores /\ Sound(op[o]) /\ op[o] \in Requests BY Before
<1>2. PortSide(o) BY DEF PortInv
<1>3. /\ UNCHANGED <<portLock, state, attached, bind>>
      /\ op[o].pc = "finalize"
  BY DEF FinalizeInstance, docker, containers
<1>4. CASE Abort(o) /\ UNCHANGED <<assigned, owner>>
  <2>1. OthersStay(o) /\ Lineage(o) /\ LockSide(o)
    BY <1>1, <1>3, <1>4, AbortLine DEF LockSide, LockedSteps
  <2>2. PortFrame(o) BY <1>3, <1>4, <2>1, PortsStill
  <2> QED BY <1>3, <1>4, <2>1, <2>2, OwnPorts
<1>5. CASE ~(Abort(o) /\ UNCHANGED <<assigned, owner>>)
  <2>1. PICK ps : ps = {bind[c] : c \in op[o].cs} \ {0} OBVIOUS
  <2>2. /\ \A p \in ps : assigned[p] = 0
        /\ assigned' = [p \in Ports |-> IF p \in ps THEN op[o].inst
                                                    ELSE assigned[p]]
        /\ owner' = [c \in Containers |->
                       IF c \in op[o].cs THEN op[o].inst ELSE owner[c]]
        /\ Goto(o, "unlock")
    BY <1>5, <2>1 DEF FinalizeInstance
  <2>3. /\ OthersStay(o) /\ Lineage(o) /\ op'[o].pc = "unlock"
        /\ op'[o].cs = op[o].cs
    BY <1>1, <2>2, GotoLine
  <2>4. /\ op[o].inst \in Ids /\ op[o].inst # 0
        /\ op[o].cs \subseteq Containers /\ op[o].kind # "stop"
    BY <1>1, <1>3 DEF Sound, InstanceSteps, CreateSteps, Ids, Requests
  <2>5. ps # {} => portLock = o
    BY <1>2, <1>3, <2>1, <2>4 DEF PortSide, LockedSteps
  <2>6. \A c \in op[o].cs :
          /\ state'[c] # "none" => attached'[c] = op[o].inst
          /\ bind'[c] # 0 => assigned'[bind'[c]] = op[o].inst
    <3>1. \A c \in op[o].cs : bind[c] # 0
                                => bind[c] \in ps /\ bind[c] \in Ports
      BY <1>1, <2>1, <2>4 DEF Stores
    <3> QED BY <1>2, <1>3, <2>2, <2>4, <3>1 DEF PortSide, Exists
  <2>7. /\ \A c \in Containers : \/ owner'[c] = owner[c]
                                 \/ c \in op[o].cs /\ owner'[c] = op[o].inst
        /\ \A p \in Ports : \/ assigned'[p] = assigned[p]
                            \/ assigned[p] = 0 /\ portLock = o
    BY <2>2, <2>5
  <2>8. PortFrame(o) BY <1>3, <2>3, <2>6, <2>7 DEF PortFrame
  <2>9. LockSide(o) BY <1>3, <2>3 DEF LockSide, LockedSteps
  <2>10. \A c \in op'[o].cs : owner'[c] # 0 BY <2>2, <2>3, <2>4
  <2> QED BY <1>3, <2>3, <2>8, <2>9, <2>10, OwnPorts
<1> QED BY <1>4, <1>5

\* Removed containers have no port.
LEMMA DiscardFrame ==
  ASSUME NEW o \in Ops, OthersStay(o), UNCHANGED <<owner, assigned, portLock>>,
         NEW gone, Discard(gone)
  PROVE  PortFrame(o)
  BY DEF Discard, PortFrame

\* The clean-up removes containers, under the lock.
LEMMA CleanupPorts ==
  ASSUME IndInv, TrackInv, PortInv, NEW o \in Ops, CleanupContainer(o)
  PROVE  PortInv'
<1>1. Locals /\ Stores /\ Sound(op[o]) /\ op[o] \in Requests BY Before
<1>2. UNCHANGED <<owner, assigned, portLock>> /\ op[o].pc = "cleanup"
  BY DEF CleanupContainer
<1>3. OthersStay(o) /\ Lineage(o) /\ op'[o].pc \in {"unlock", "cleanup"}
  <2>1. CASE Goto(o, "unlock") BY <1>1, <2>1, GotoLine
  <2>2. ASSUME NEW c, Become(o, [op[o] EXCEPT !.todo = @ \ {c}])
        PROVE  OthersStay(o) /\ Lineage(o) /\ op'[o].pc = "cleanup"
    <3>1. op' = [op EXCEPT ![o] = [op[o] EXCEPT !.todo = @ \ {c}]]
      BY <2>2 DEF Become
    <3> QED BY <1>1, <1>2, <3>1 DEF Locals, OthersStay, Lineage, Requests
  <2> QED BY <2>1, <2>2 DEF CleanupContainer
<1>4. PortFrame(o)
  <2>1. CASE UNCHANGED containers
    BY <1>2, <1>3, <2>1, PortsStill DEF containers
  <2>2. CASE \E gone : Discard(gone)
    BY <1>2, <1>3, <2>2, DiscardFrame
  <2> QED BY <2>1, <2>2 DEF CleanupContainer
<1>5. LockSide(o) BY <1>2, <1>3 DEF LockSide, LockedSteps
<1> QED BY <1>2, <1>3, <1>4, <1>5, OwnPorts

\* stopContainers, and what Stop and the roll-back do after it.
LEMMA StoppingPorts ==
  ASSUME IndInv, TrackInv, PortInv, NEW o \in Ops,
         \/ RemoveContainer(o) \/ ForgetContainer(o) \/ RemovePorts(o)
         \/ StopNetwork(o) \/ RetireRemaining(o) \/ RollbackNetwork(o)
         \/ RetireNetwork(o) \/ DeleteRow(o)
  PROVE  PortInv'
<1>1. Locals /\ Stores /\ Sound(op[o]) /\ op[o] \in Requests /\ Faithful(o)
  BY Before
<1>2. UNCHANGED portLock
  BY DEF RemoveContainer, ForgetContainer, RemovePorts, StopNetwork,
         RetireRemaining, RollbackNetwork, RetireNetwork, DeleteRow
<1>3. CASE RemoveContainer(o)
  <2>1. UNCHANGED <<owner, assigned>> /\ op[o].pc = "remove"
    BY <1>3 DEF RemoveContainer, database
  <2>2. /\ OthersStay(o) /\ Lineage(o)
        /\ op'[o].pc \in {"forget", "remove", "ports", "rbretire", "idle",
                          "stopnet"}
    <3>1. CASE \E p \in {"forget", "ports"} : Goto(o, p)
      BY <1>1, <3>1, GotoLine
    <3>2. CASE AfterStop(o, TRUE) BY <1>1, <2>1, <3>2, AfterStopLine
    <3>3. CASE Become(o, [op[o] EXCEPT !.todo = @ \ {Pick(@)},
                               !.left = @ \cup {Pick(op[o].todo)}])
      <4>1. PICK T, L : op' = [op EXCEPT ![o] = [op[o] EXCEPT
                                 !.todo = T, !.left = L]]
        BY <3>3 DEF Become
      <4> QED BY <1>1, <2>1, <4>1 DEF Locals, OthersStay, Lineage, Requests
    <3> QED BY <1>3, <3>1, <3>2, <3>3 DEF RemoveContainer
  <2>3. PortFrame(o)
    <3>1. CASE UNCHANGED containers
      BY <1>2, <2>1, <2>2, <3>1, PortsStill DEF containers
    <3>2. CASE \E gone : Discard(gone)
      BY <1>2, <2>1, <2>2, <3>2, DiscardFrame
    <3> QED BY <1>3, <3>1, <3>2 DEF RemoveContainer
  <2> QED BY <1>2, <2>1, <2>2, <2>3, OutsidePorts DEF LockedSteps
<1>4. CASE ForgetContainer(o)
  <2>1. /\ UNCHANGED <<assigned, state, attached, bind>>
        /\ op[o].pc = "forget"
    BY <1>4 DEF ForgetContainer, docker, containers
  <2>2. PICK T, L : op' = [op EXCEPT ![o] = [op[o] EXCEPT
                      !.pc = "remove", !.todo = T, !.left = L]]
    <3>1. CASE Become(o, [op[o] EXCEPT !.pc = "remove",
                            !.todo = @ \ {Pick(op[o].todo)}])
      <4>1. PICK T, L : /\ T = op[o].todo \ {Pick(op[o].todo)}
                        /\ L = op[o].left
        OBVIOUS
      <4>2. op' = [op EXCEPT ![o] = [op[o] EXCEPT
                      !.pc = "remove", !.todo = T]]
        BY <3>1, <4>1 DEF Become
      <4>3. [op[o] EXCEPT !.pc = "remove", !.todo = T]
              = [op[o] EXCEPT !.pc = "remove", !.todo = T, !.left = L]
        BY <1>1, <4>1 DEF Requests
      <4> QED BY <4>2, <4>3
    <3>2. CASE ~Become(o, [op[o] EXCEPT !.pc = "remove",
                             !.todo = @ \ {Pick(op[o].todo)}])
      BY <1>4, <3>2 DEF ForgetContainer, Become
    <3> QED BY <3>1, <3>2
  <2>3. OthersStay(o) /\ Lineage(o) /\ op'[o].pc = "remove"
    BY <1>1, <2>2 DEF Locals, OthersStay, Lineage, Requests
  <2>4. \A c \in Containers : \/ owner'[c] = owner[c]
                              \/ owner[c] = op[o].inst /\ owner'[c] = 0
    BY <1>1, <1>4 DEF ForgetContainer, Stores
  <2>5. PortFrame(o) BY <1>2, <2>1, <2>3, <2>4 DEF PortFrame
  <2> QED BY <1>2, <2>1, <2>3, <2>5, OutsidePorts DEF LockedSteps
<1>5. CASE RemovePorts(o)
  <2>1. UNCHANGED <<owner, state, attached, bind>> /\ op[o].pc = "ports"
    BY <1>5 DEF RemovePorts, docker, containers
  <2>2. /\ OthersStay(o) /\ Lineage(o)
        /\ op'[o].pc \in {"rbretire", "idle", "stopnet"}
    BY <1>1, <1>5, <2>1, AfterStopLine DEF RemovePorts
  <2>3. \A c \in Containers : owner[c] # op[o].inst
    BY <1>1, <2>1 DEF Faithful, Unfinished, Building
  <2>4. \A p \in Ports : \/ assigned'[p] = assigned[p]
                         \/ assigned[p] = op[o].inst /\ assigned'[p] = 0
    BY <1>5 DEF RemovePorts
  <2>5. PortFrame(o) BY <1>2, <2>1, <2>2, <2>3, <2>4 DEF PortFrame
  <2> QED BY <1>2, <2>1, <2>2, <2>5, OutsidePorts DEF LockedSteps
<1>6. CASE \/ StopNetwork(o) \/ RetireRemaining(o) \/ RollbackNetwork(o)
           \/ RetireNetwork(o)
  <2>1. /\ UNCHANGED <<owner, assigned, state, attached, bind>>
        /\ op[o].pc \in {"stopnet", "rbretire", "rbnet", "retnet"}
    BY <1>6 DEF StopNetwork, RetireRemaining, RollbackNetwork, RetireNetwork,
                database, docker, containers
  <2>2. /\ OthersStay(o) /\ Lineage(o)
        /\ op'[o].pc \in {"delete", "rbnet", "retnet", "idle"}
    <3>1. CASE \E p \in {"delete", "rbnet", "retnet"} : Goto(o, p)
      BY <1>1, <3>1, GotoLine
    <3>2. CASE Finish(o) BY <1>1, <3>2, FinishLine
    <3> QED BY <1>6, <3>1, <3>2
            DEF StopNetwork, RetireRemaining, RollbackNetwork, RetireNetwork
  <2>3. PortFrame(o) BY <1>2, <2>1, <2>2, PortsStill
  <2> QED BY <1>2, <2>1, <2>2, <2>3, OutsidePorts DEF LockedSteps
<1>7. CASE DeleteRow(o)
  <2>1. UNCHANGED <<state, attached, bind>> /\ op[o].pc = "delete"
    BY <1>7 DEF DeleteRow, docker, containers
  <2>2. /\ OthersStay(o) /\ Lineage(o) /\ op'[o].pc \in {"idle", "restore"}
    BY <1>1, <1>7, FinishLine, DoneLine DEF DeleteRow
  <2>3. \A c \in Containers : owner[c] # op[o].inst
    BY <1>1, <2>1 DEF Faithful, Unfinished
  <2>4. \A c \in Containers : owner'[c] = owner[c]
    BY <1>7, <2>3 DEF DeleteRow, DeleteInstance
  <2>5. \A p \in Ports : \/ assigned'[p] = assigned[p]
                         \/ assigned[p] = op[o].inst /\ assigned'[p] = 0
    BY <1>7 DEF DeleteRow, DeleteInstance
  <2>6. PortFrame(o) BY <1>2, <2>1, <2>2, <2>3, <2>4, <2>5 DEF PortFrame
  <2> QED BY <1>2, <2>1, <2>2, <2>6, OutsidePorts DEF LockedSteps
<1> QED BY <1>3, <1>4, <1>5, <1>6, <1>7

\* Recovery.
LEMMA RecoveringPorts ==
  ASSUME IndInv, TrackInv, PortInv, NEW o \in Ops,
         \/ RemoveRetiredContainer(o) \/ RemoveRetiredNetwork(o) \/ Scan(o)
         \/ RemoveBroken(o) \/ BrokenNetwork(o) \/ RetireBrokenNetwork(o)
         \/ BrokenRow(o) \/ Restore(o)
  PROVE  PortInv'
<1>1. Locals /\ Stores /\ Sound(op[o]) /\ op[o] \in Requests /\ Held(o)
      /\ Faithful(o)
  BY Before, SMTT(40)
<1>2. /\ UNCHANGED portLock
      /\ op[o].pc \in RecoverySteps
  BY DEF RemoveRetiredContainer, RemoveRetiredNetwork, Scan, RemoveBroken,
         BrokenNetwork, RetireBrokenNetwork, BrokenRow, Restore,
         RecoverySteps
<1>3. op[o].cs = {} BY <1>1, <1>2 DEF Held
<1>4. ASSUME PortFrame(o), op'[o].cs = {}, op'[o].pc \notin LockedSteps
      PROVE  PortInv'
  BY <1>2, <1>4, OutsidePorts DEF LockedSteps, RecoverySteps, Lineage
<1>5. CASE RemoveRetiredContainer(o) \/ RemoveBroken(o)
  <2>1. UNCHANGED <<owner, assigned>>
    BY <1>5, ZenonT(60) DEF RemoveRetiredContainer, RemoveBroken, database
  <2>2. OthersStay(o) /\ op'[o].cs = {} /\ op'[o].pc \notin LockedSteps
    <3>1. CASE \E c, good : good \in BOOLEAN /\ Proceed(o, c, good)
      BY <1>1, <1>2, <1>3, <3>1, ProceedFields
         DEF LockedSteps, RecoverySteps
    <3>2. CASE \E i : op' = [op EXCEPT ![o] = [op[o] EXCEPT
                                !.pc = "brokennet", !.inst = i]]
      BY <1>1, <1>3, <3>2 DEF Locals, OthersStay, Requests, LockedSteps
    <3>3. CASE Goto(o, "restore")
      BY <1>1, <1>3, <3>3, GotoLine DEF LockedSteps
    <3>4. CASE op' = [op EXCEPT ![o] = [op[o] EXCEPT !.pc = "networks",
                                                     !.todo = retN]]
      BY <1>1, <1>3, <3>4 DEF Locals, OthersStay, Requests, LockedSteps
    <3>5. CASE op' = [op EXCEPT ![o] = [op[o] EXCEPT !.pc = "scan",
                                                     !.clean = FALSE]]
      BY <1>1, <1>3, <3>5 DEF Locals, OthersStay, Requests, LockedSteps
    <3> QED BY <1>5, <3>1, <3>2, <3>3, <3>4, <3>5
            DEF RemoveRetiredContainer, RemoveBroken, Become
  <2>3. PortFrame(o)
    <3>1. CASE UNCHANGED containers
      BY <1>2, <2>1, <2>2, <3>1, PortsStill DEF containers
    <3>2. CASE \E gone : Discard(gone)
      BY <1>2, <2>1, <2>2, <3>2, DiscardFrame
    <3> QED BY <1>5, <3>1, <3>2 DEF RemoveRetiredContainer, RemoveBroken
  <2> QED BY <1>4, <2>2, <2>3
<1>6. CASE \/ RemoveRetiredNetwork(o) \/ BrokenNetwork(o)
           \/ RetireBrokenNetwork(o)
  <2>1. UNCHANGED <<owner, assigned, state, attached, bind>>
    BY <1>6 DEF RemoveRetiredNetwork, BrokenNetwork, RetireBrokenNetwork,
                database, docker, containers
  <2>2. OthersStay(o) /\ op'[o].cs = {} /\ op'[o].pc \notin LockedSteps
    <3>1. CASE \E c, good : good \in BOOLEAN /\ Proceed(o, c, good)
      BY <1>1, <1>2, <1>3, <3>1, ProceedFields
         DEF LockedSteps, RecoverySteps
    <3>2. CASE \E p \in {"scan", "brokenrow", "brokenret"} : Goto(o, p)
      BY <1>1, <1>3, <3>2, GotoLine DEF LockedSteps
    <3>3. CASE SkipBroken(o)
      BY <1>1, <1>3, <3>3, SkipFields DEF LockedSteps
    <3> QED BY <1>6, <3>1, <3>2, <3>3
            DEF RemoveRetiredNetwork, BrokenNetwork, RetireBrokenNetwork
  <2>3. PortFrame(o) BY <1>2, <2>1, <2>2, PortsStill
  <2> QED BY <1>4, <2>2, <2>3
<1>7. CASE Scan(o)
  <2>1. UNCHANGED <<owner, assigned, attached, bind>>
    BY <1>7 DEF Scan, database
  <2>2. PICK found, seen, good : Inspect(o, found, seen, good)
    BY <1>7 DEF Scan
  <2>3. \A c \in Containers : state[c] = "none" => state'[c] = "none"
    BY <2>2 DEF Inspect
  <2>4. PICK B, fine : op' = [op EXCEPT ![o] = [op[o] EXCEPT
                         !.pc = "broken", !.todo = B, !.clean = fine]]
    BY <2>2 DEF Inspect, Become
  <2>5. OthersStay(o) /\ op'[o].cs = {} /\ op'[o].pc \notin LockedSteps
    BY <1>1, <1>3, <2>4 DEF Locals, OthersStay, Requests, LockedSteps
  <2>6. PortFrame(o) BY <1>2, <2>1, <2>3, <2>5, PortsStill
  <2> QED BY <1>4, <2>5, <2>6
<1>8. CASE BrokenRow(o)
  <2>1. UNCHANGED <<state, attached, bind>> /\ op[o].pc = "brokenrow"
    BY <1>8 DEF BrokenRow, docker, containers
  <2>2. OthersStay(o) /\ op'[o].cs = {} /\ op'[o].pc \notin LockedSteps
    <3>1. CASE SkipBroken(o)
      BY <1>1, <1>3, <3>1, SkipFields DEF LockedSteps
    <3>2. CASE ~SkipBroken(o)
      <4>1. PICK B : op' = [op EXCEPT ![o] = [op[o] EXCEPT
               !.pc = "broken", !.todo = @ \ {op[o].inst}, !.inst = 0,
               !.restore = B]]
        BY <1>8, <3>2 DEF BrokenRow, Become
      <4> QED BY <1>1, <1>3, <4>1
              DEF Locals, OthersStay, Requests, LockedSteps
    <3> QED BY <3>1, <3>2
  <2>3. \A c \in Containers : owner[c] = op[o].inst => state[c] = "none"
    BY <1>1, <2>1 DEF Faithful
  <2>4. op[o].inst \in Ids /\ op[o].inst # 0
    BY <1>1, <2>1 DEF Sound, InstanceSteps, Ids
  <2>5. /\ \A c \in Containers : \/ owner'[c] = owner[c]
                                 \/ owner[c] = op[o].inst /\ owner'[c] = 0
        /\ \A p \in Ports : \/ assigned'[p] = assigned[p]
                            \/ assigned[p] = op[o].inst /\ assigned'[p] = 0
    BY <1>8, <2>4 DEF BrokenRow, DeleteInstance
  <2>6. PortFrame(o) BY <1>2, <2>1, <2>2, <2>3, <2>4, <2>5, SMTT(40)
                        DEF PortFrame
  <2> QED BY <1>4, <2>2, <2>6
<1>9. CASE Restore(o)
  <2>1. /\ UNCHANGED <<owner, assigned, state, attached, bind>>
        /\ op[o].restore \subseteq Builds
    BY <1>1, <1>9, ZenonT(60) DEF Restore, docker, containers, Requests
  <2>2. OthersStay(o) /\ op'[o].cs = {} /\ op'[o].pc \notin LockedSteps
    <3>1. CASE \E b \in Builds : Open(o, b, op[o])
      BY <1>1, <3>1, OpenFields DEF LockedSteps
    <3>2. CASE \E b : op' = [op EXCEPT ![o] = [op[o] EXCEPT
                                                 !.restore = @ \ {b}]]
      BY <1>1, <1>2, <1>3, <3>2
         DEF Locals, OthersStay, Requests, LockedSteps, RecoverySteps
    <3>3. CASE \E b : op' = [op EXCEPT ![o] = [op[o] EXCEPT
                               !.restore = @ \ {b}, !.clean = FALSE]]
      BY <1>1, <1>2, <1>3, <3>3
         DEF Locals, OthersStay, Requests, LockedSteps, RecoverySteps
    <3>4. CASE Finish(o)
      BY <1>1, <3>4, FinishFields DEF LockedSteps, Idle
    <3> QED BY <1>9, <2>1, <3>1, <3>2, <3>3, <3>4 DEF Restore, Become
  <2>3. PortFrame(o) BY <1>2, <2>1, <2>2, PortsStill
  <2> QED BY <1>4, <2>2, <2>3
<1> QED BY <1>5, <1>6, <1>7, <1>8, <1>9

\* The beginnings of requests, and a process that dies.
LEMMA BeginningPorts ==
  ASSUME IndInv, TrackInv, PortInv, NEW o \in Ops,
         \/ \E b \in Builds : Start(o, b)
         \/ \E i \in Ids : Stop(o, i)
         \/ Recover(o)
         \/ Crash(o)
  PROVE  PortInv'
<1>1. Locals /\ Stores /\ Sound(op[o]) /\ op[o] \in Requests BY Before
<1>2. PortSide(o) BY DEF PortInv
<1>3. UNCHANGED <<owner, assigned, state, attached, bind>>
  BY DEF Start, Stop, Recover, Crash, database, docker, containers
<1>4. CASE Crash(o)
  <2>1. OthersStay(o) /\ Lineage(o) /\ op'[o].pc = "idle"
    BY <1>1, <1>4, FinishLine DEF Crash
  <2>2. /\ portLock' # o
        /\ \A u \in Ops : u # o => (portLock' = u <=> portLock = u)
    BY <1>4 DEF Crash
  <2>3. PortFrame(o) BY <1>3, <2>1, <2>2, PortsStill
  <2>4. LockSide(o) BY <2>1, <2>2 DEF LockSide, LockedSteps
  <2> QED BY <2>1, <2>2, <2>3, <2>4, OwnPorts
<1>5. CASE ~Crash(o)
  <2>1. UNCHANGED portLock /\ op[o].pc = "idle"
    BY <1>5 DEF Start, Stop, Recover
  <2>2. portLock # o BY <1>2, <2>1 DEF PortSide, LockedSteps
  <2>3. /\ OthersStay(o)
        /\ \/ op'[o].cs = {} /\ op'[o].pc \in {"net", "retired"}
           \/ op'[o].kind = "stop" /\ op'[o].pc = "remove"
    <3>1. ASSUME NEW b \in Builds, Start(o, b)
          PROVE  OthersStay(o) /\ op'[o].cs = {} /\ op'[o].pc = "net"
      <4>1. PICK q : q = [Idle EXCEPT !.kind = "start"] OBVIOUS
      <4>2. q \in Requests BY <4>1, IdleTyped DEF Requests
      <4> QED BY <1>1, <3>1, <4>1, <4>2, OpenFields DEF Start
    <3>2. ASSUME NEW i \in Ids, Stop(o, i)
          PROVE  /\ OthersStay(o)
                 /\ op'[o].kind = "stop" /\ op'[o].pc = "remove"
      BY <1>1, <3>2 DEF Stop, Become, Locals, OthersStay, Idle
    <3>3. ASSUME Recover(o)
          PROVE  OthersStay(o) /\ op'[o].cs = {} /\ op'[o].pc = "retired"
      <4> DEFINE r == [Idle EXCEPT !.kind = "recover", !.pc = "retired"]
      <4>1. CASE op' = [op EXCEPT ![o] = [r EXCEPT !.todo = retC]]
        BY <1>1, <4>1 DEF Locals, OthersStay, Idle
      <4>2. CASE op' = [op EXCEPT ![o] = [r EXCEPT !.clean = FALSE]]
        BY <1>1, <4>2 DEF Locals, OthersStay, Idle
      <4> QED BY <3>3, <4>1, <4>2 DEF Recover, Become
    <3> QED BY <1>5, <3>1, <3>2, <3>3
  <2>4. PortFrame(o) BY <1>3, <2>1, <2>3, PortsStill
  <2>5. LockSide(o) BY <2>1, <2>2, <2>3 DEF LockSide, LockedSteps
  <2> QED BY <2>1, <2>2, <2>3, <2>4, <2>5, OwnPorts DEF Lineage
<1> QED BY <1>4, <1>5

\* A container is lost or stops.
LEMMA EnvironmentPorts ==
  ASSUME IndInv, TrackInv, PortInv, NEW c \in Containers, Lose(c) \/ Exit(c)
  PROVE  PortInv'
<1>1. UNCHANGED <<owner, assigned, attached, bind, portLock, op>>
  BY DEF Lose, Exit, database
<1>2. \A d \in Containers : state[d] = "none" => state'[d] = "none"
  BY DEF Lose, Exit, Exists, IndInv, Stores
<1>3. PortsRecorded' /\ OnNetwork'
  BY <1>1, <1>2 DEF PortInv, PortsRecorded, OnNetwork, Exists
<1>4. ASSUME NEW o \in Ops PROVE PortSide(o)'
  <2>1. PortSide(o) /\ op[o].cs \subseteq Containers
    BY Before DEF PortInv, Requests
  <2> QED BY <1>1, <1>2, <2>1 DEF PortSide, Exists
<1> QED BY <1>3, <1>4 DEF PortInv

\* Initially every container has the port that its number gives.
LEMMA InitPorts == Init => PortInv
<1> SUFFICES ASSUME Init PROVE PortInv OBVIOUS
<1>1. op = [o \in Ops |-> Idle] /\ portLock = None BY DEF Init
<1>2. \A o \in Ops : PortSide(o)
  BY <1>1 DEF PortSide, Idle, LockedSteps
<1>3. OnNetwork BY DEF Init, OnNetwork
<1>4. PortsRecorded
  <2> SUFFICES ASSUME NEW c \in Containers, bind[c] # 0
               PROVE  assigned[bind[c]] = owner[c]
    BY DEF PortsRecorded
  <2>1. /\ bind \in [Containers -> Ports \cup {0}]
        /\ \A d \in Containers : bind[d] # 0 => bind[d] = PortLow + d - 1
    BY DEF Init
  <2>2. bind[c] \in Ports BY <2>1
  <2>3. \A d \in Containers : bind[d] = bind[c] => d = c
    BY <2>1 DEF Containers
  <2>4. (CHOOSE d \in Containers : bind[d] = bind[c]) = c BY <2>3
  <2>5. assigned[bind[c]] =
          IF \E d \in Containers : bind[d] = bind[c]
          THEN owner[CHOOSE d \in Containers : bind[d] = bind[c]] ELSE 0
    BY <2>2 DEF Init
  <2> QED BY <2>4, <2>5
<1> QED BY <1>2, <1>3, <1>4 DEF PortInv

\* Every step keeps the ports right.
LEMMA StepPorts ==
  ASSUME IndInv, TrackInv, PortInv, [Next]_vars
  PROVE  PortInv'
<1>1. CASE UNCHANGED vars
  <2>1. UNCHANGED <<owner, assigned, state, attached, bind, portLock, op>>
    BY <1>1 DEF vars, database, docker, containers
  <2> QED BY <2>1 DEF PortInv, PortsRecorded, OnNetwork, PortSide, Exists
<1>2. ASSUME NEW o \in Ops, Step(o) PROVE PortInv'
  BY <1>2, CreatingPorts, CreateContainerPorts, FinalizePorts, CleanupPorts,
     StoppingPorts, RecoveringPorts DEF Step
<1> QED BY <1>1, <1>2, BeginningPorts, EnvironmentPorts DEF Next

\* The same invariant with the ports.
THEOREM PortsAlways == ~Overlap => (Spec => [](IndInv /\ TrackInv /\ PortInv))
<1> SUFFICES ASSUME ~Overlap
             PROVE  Spec => [](IndInv /\ TrackInv /\ PortInv)
  OBVIOUS
<1>1. Init => PortInv BY InitPorts
<1>2. IndInv /\ TrackInv /\ PortInv /\ [Next]_vars => PortInv'
  BY StepPorts
<1> QED BY <1>1, <1>2, TracksAlways, PTL DEF Spec

\* getFreePort reads the table of ports only.  It never offers the port of a
\* container that belongs to an instance: the row is there as long as the
\* container is.
THEOREM PortsAreRecorded == ~Overlap => (Spec => []PortsRecorded)
<1> SUFFICES ASSUME ~Overlap PROVE Spec => []PortsRecorded OBVIOUS
<1>1. PortInv => PortsRecorded BY DEF PortInv
<1> QED BY <1>1, PortsAlways, PTL

\* Two instances never have a published port in common while one of them is
\* being created, for any number of requests, hosts and ports.
THEOREM PortsAreExclusive == ~Overlap => (Spec => []PortsExclusive)
<1> SUFFICES ASSUME ~Overlap PROVE Spec => []PortsExclusive OBVIOUS
<1>1. IndInv /\ TrackInv /\ PortInv => PortsExclusive
  <2> SUFFICES ASSUME IndInv, TrackInv, PortInv,
                      NEW c \in Containers, NEW d \in Containers,
                      Pending(c), Exists(c), bind[c] # 0,
                      owner[d] # 0 \/ Pending(d),
                      Exists(d), attached[c] # attached[d]
               PROVE  bind[c] # bind[d]
    BY DEF PortsExclusive
  <2>1. PICK o \in Ops : portLock = o
    BY DEF Pending, IndInv, Stores
  <2>2. PortSide(o) /\ Faithful(o) /\ Sound(op[o]) BY Before DEF PortInv
  <2>3. op[o].kind # "stop"
    BY <2>1, <2>2 DEF PortSide, Sound, LockedSteps, CreateSteps
  <2>4. attached[c] = op[o].inst /\ c \in op[o].cs
    BY <2>1, <2>2, <2>3 DEF Pending, PortSide
  <2>5. ~Pending(d)
    BY <2>1, <2>2, <2>3, <2>4 DEF Pending, PortSide
  <2>6. owner[d] # 0 /\ attached[d] = owner[d] BY <2>5 DEF PortInv, OnNetwork
  <2>7. bind[d] # 0 => assigned[bind[d]] = owner[d]
    BY <2>6 DEF PortInv, PortsRecorded
  <2>8. CASE owner[c] = 0
    BY <2>1, <2>2, <2>4, <2>6, <2>7, <2>8 DEF PortSide
  <2>9. CASE owner[c] # 0
    <3>1. assigned[bind[c]] = op[o].inst
      BY <2>2, <2>4, <2>9 DEF PortInv, PortsRecorded, Faithful
    <3> QED BY <2>4, <2>6, <2>7, <3>1
  <2> QED BY <2>8, <2>9
<1> QED BY <1>1, PortsAlways, PTL

-----------------------------------------------------------------------------
(* Networks                                                                *)

\* Before the row goes, the network is gone or retired.
NetSide(o) == op[o].pc \in {"delete", "brokenrow"}
                => op[o].inst \notin nets \/ op[o].inst \in retN

NetInv == /\ \A n \in nets : row[n] # None \/ n \in retN
          /\ \A o \in Ops : NetSide(o)

\* A step of o creates the network of a row, forgets a retired network when
\* it is gone, and deletes the row of its own instance after the network.
NetFrame(o) ==
  /\ OthersStay(o)
  /\ nets' \subseteq Ids
  /\ \A n \in nets' : n \in nets \/ (n = op[o].inst /\ row'[n] # None)
  /\ \A n \in retN : n \in retN' \/ n \notin nets'
  /\ \A n \in nets' : row[n] # None => row'[n] # None \/ n \in retN'

\* Such a step keeps the networks of the others.
LEMMA NetsKept ==
  ASSUME IndInv, TrackInv, NetInv, NEW o \in Ops, NetFrame(o), NetSide(o)'
  PROVE  NetInv'
<1>1. ASSUME NEW n \in nets' PROVE row'[n] # None \/ n \in retN'
  <2>1. CASE n \in nets
    BY <1>1, <2>1 DEF NetFrame, NetInv
  <2>2. CASE n \notin nets BY <1>1, <2>2 DEF NetFrame
  <2> QED BY <2>1, <2>2
<1>2. ASSUME NEW u \in Ops, u # o PROVE NetSide(u)'
  <2>1. op'[u] = op[u] /\ NetSide(u) /\ Sound(op[u])
    BY <1>2, Before DEF NetFrame, OthersStay, NetInv
  <2>2. op[u].pc \in {"delete", "brokenrow"} => op[u].inst # op[o].inst
    BY <1>2, <2>1 DEF TrackInv, Distinct, Sound, InstanceSteps, Ids
  <2> QED BY <2>1, <2>2 DEF NetSide, NetFrame
<1> QED BY <1>1, <1>2 DEF NetInv

\* A step that touches neither rows nor networks, and is not about to.
LEMMA NetsStill ==
  ASSUME IndInv, TrackInv, NetInv, NEW o \in Ops, OthersStay(o),
         UNCHANGED <<row, nets, retN>>,
         op'[o].pc \notin {"delete", "brokenrow"}
  PROVE  NetInv'
  BY NetsKept DEF NetFrame, NetSide, IndInv, Stores

\* The steps of newInstance.
LEMMA CreatingNets ==
  ASSUME IndInv, TrackInv, NetInv, NEW o \in Ops,
         \/ CreateNetwork(o) \/ AcquirePortLock(o) \/ PortLockFails(o)
         \/ CreateContainer(o)
         \/ RetirePending(o) \/ StartContainer(o) \/ FinalizeInstance(o)
         \/ CleanupContainer(o) \/ ReleasePortLock(o)
  PROVE  NetInv'
<1>1. Locals /\ Stores /\ Sound(op[o]) /\ op[o] \in Requests /\ Faithful(o)
  BY Before
<1>2. OthersStay(o) /\ op'[o].pc \notin {"delete", "brokenrow"}
  <2>1. CASE \E p \in Steps \ {"delete", "brokenrow"} : Goto(o, p)
    BY <1>1, <2>1, GotoLine
  <2>2. CASE Rollback(o) BY <1>1, <2>2, RollbackFields
  <2>3. CASE Abort(o) BY <1>1, <2>3, AbortLine
  <2>4. CASE NewInstanceDone(o) BY <1>1, <2>4, DoneLine
  <2>5. CASE /\ op[o].pc = "cleanup"
             /\ \E c : Become(o, [op[o] EXCEPT !.todo = @ \ {c}])
    <3>1. PICK c : op' = [op EXCEPT ![o] = [op[o] EXCEPT !.todo = @ \ {c}]]
      BY <2>5 DEF Become
    <3> QED BY <1>1, <2>5, <3>1 DEF Locals, OthersStay, Requests
  <2>6. CASE Become(o, [op[o] EXCEPT !.pc = "retire",
                          !.cs = @ \cup {Pick(Fresh)}, !.todo = {Pick(Fresh)}])
    <3>1. PICK c : op' = [op EXCEPT ![o] = [op[o] EXCEPT !.pc = "retire",
                                      !.cs = @ \cup {c}, !.todo = {c}]]
      BY <2>6 DEF Become
    <3> QED BY <1>1, <3>1 DEF Locals, OthersStay, Requests
  <2> QED BY <2>1, <2>2, <2>3, <2>4, <2>5, <2>6
          DEF CreateNetwork, AcquirePortLock, PortLockFails, CreateContainer,
              RetirePending, StartContainer, FinalizeInstance,
              CleanupContainer, ReleasePortLock, Steps
<1>3. CASE CreateNetwork(o)
  <2>1. UNCHANGED <<row, retN>> /\ op[o].pc = "net"
        /\ (nets' = nets \/ nets' = nets \cup {op[o].inst})
    BY <1>3 DEF CreateNetwork, database
  <2>2. op[o].inst \in Ids /\ row[op[o].inst] # None
    BY <1>1, <2>1 DEF Sound, InstanceSteps, Ids, Faithful
  <2>3. NetFrame(o) BY <1>1, <1>2, <2>1, <2>2 DEF NetFrame, Stores
  <2> QED BY <1>2, <2>3, NetsKept DEF NetSide
<1>4. CASE ~CreateNetwork(o)
  <2>1. UNCHANGED <<row, nets, retN>>
    BY <1>4 DEF AcquirePortLock, PortLockFails, CreateContainer,
                RetirePending, StartContainer, FinalizeInstance,
                CleanupContainer, ReleasePortLock, database, docker
  <2> QED BY <1>2, <2>1, NetsStill
<1> QED BY <1>3, <1>4

\* stopContainers, and what follows it up to the networks.
LEMMA StoppingNets ==
  ASSUME IndInv, TrackInv, NetInv, NEW o \in Ops,
         \/ RemoveContainer(o) \/ ForgetContainer(o) \/ RemovePorts(o)
         \/ RetireRemaining(o)
  PROVE  NetInv'
<1>1. Locals /\ Stores /\ Sound(op[o]) /\ op[o] \in Requests BY Before
<1>2. UNCHANGED <<row, nets, retN>>
  BY DEF RemoveContainer, ForgetContainer, RemovePorts, RetireRemaining,
         database, docker
<1>3. OthersStay(o) /\ op'[o].pc \notin {"delete", "brokenrow"}
  <2>1. CASE \E p \in {"forget", "ports", "rbnet"} : Goto(o, p)
    BY <1>1, <2>1, GotoLine
  <2>2. CASE /\ op[o].pc \in {"remove", "ports"}
             /\ \E failed : AfterStop(o, failed)
    BY <1>1, <2>2, AfterStopLine
  <2>3. CASE /\ op[o].pc = "remove"
             /\ Become(o, [op[o] EXCEPT !.todo = @ \ {Pick(@)},
                                    !.left = @ \cup {Pick(op[o].todo)}])
    <3>1. PICK T, L : op' = [op EXCEPT ![o] = [op[o] EXCEPT
                               !.todo = T, !.left = L]]
      BY <2>3 DEF Become
    <3> QED BY <1>1, <2>3, <3>1 DEF Locals, OthersStay, Requests
  <2>4. CASE \E T : Become(o, [op[o] EXCEPT !.pc = "remove", !.todo = T])
    BY <1>1, <2>4 DEF Become, Locals, OthersStay, Requests
  <2>5. CASE \E T, L : Become(o, [op[o] EXCEPT !.pc = "remove", !.todo = T,
                                               !.left = L])
    BY <1>1, <2>5 DEF Become, Locals, OthersStay, Requests
  <2> QED BY <2>1, <2>2, <2>3, <2>4, <2>5
          DEF RemoveContainer, ForgetContainer, RemovePorts, RetireRemaining
<1> QED BY <1>2, <1>3, NetsStill

\* The networks of stopped and failed instances, and then their rows.
LEMMA LeavingNets ==
  ASSUME "db" \notin Faults, IndInv, TrackInv, NetInv, NEW o \in Ops,
         \/ StopNetwork(o) \/ RollbackNetwork(o) \/ RetireNetwork(o)
         \/ DeleteRow(o)
  PROVE  NetInv'
<1>1. Locals /\ Stores /\ Sound(op[o]) /\ op[o] \in Requests /\ NetSide(o)
  BY Before DEF NetInv
<1>2. CASE StopNetwork(o) \/ RollbackNetwork(o) \/ RetireNetwork(o)
  <2>1. UNCHANGED row
    BY <1>2 DEF StopNetwork, RollbackNetwork, RetireNetwork, database
  <2>2. /\ nets' \subseteq nets /\ retN \subseteq retN'
        /\ \/ OthersStay(o) /\ op'[o].pc \notin {"delete", "brokenrow"}
           \/ /\ Goto(o, "delete")
              /\ op[o].inst \notin nets' \/ op[o].inst \in retN'
    <3>1. CASE StopNetwork(o)
      BY <1>1, <3>1, FinishLine
         DEF StopNetwork, RemoveNetwork, KeepNetwork, database
    <3>2. CASE RollbackNetwork(o)
      BY <1>1, <3>2, GotoLine
         DEF RollbackNetwork, RemoveNetwork, KeepNetwork, database
    <3>3. CASE RetireNetwork(o)
      BY <3>3 DEF RetireNetwork, Fails, docker
    <3> QED BY <1>2, <3>1, <3>2, <3>3
  <2>3. OthersStay(o) /\ NetSide(o)'
    BY <1>1, <2>2, GotoFields DEF NetSide
  <2>4. NetFrame(o) BY <1>1, <2>1, <2>2, <2>3 DEF NetFrame, Stores
  <2> QED BY <2>3, <2>4, NetsKept
<1>3. CASE DeleteRow(o)
  <2>1. UNCHANGED <<nets, retN>> /\ op[o].pc = "delete"
    BY <1>3 DEF DeleteRow, docker
  <2>2. OthersStay(o) /\ op'[o].pc \notin {"delete", "brokenrow"}
    BY <1>1, <1>3, FinishLine, DoneLine DEF DeleteRow
  <2>3. \A n \in Ids : n # op[o].inst => row'[n] = row[n]
    BY <1>1, <1>3 DEF DeleteRow, DeleteInstance, Stores
  <2>4. NetFrame(o)
    BY <1>1, <2>1, <2>2, <2>3 DEF NetFrame, NetSide, Stores
  <2> QED BY <2>2, <2>4, NetsKept DEF NetSide
<1> QED BY <1>2, <1>3

\* Recovery.
LEMMA RecoveringNets ==
  ASSUME "db" \notin Faults, IndInv, TrackInv, NetInv, NEW o \in Ops,
         \/ RemoveRetiredContainer(o) \/ RemoveRetiredNetwork(o) \/ Scan(o)
         \/ RemoveBroken(o) \/ BrokenNetwork(o) \/ RetireBrokenNetwork(o)
         \/ BrokenRow(o) \/ Restore(o)
  PROVE  NetInv'
<1>1. Locals /\ Stores /\ Sound(op[o]) /\ op[o] \in Requests /\ NetSide(o)
  BY Before DEF NetInv
<1>2. CASE RemoveRetiredContainer(o) \/ RemoveBroken(o)
  <2>1. UNCHANGED <<row, nets, retN>> /\ op[o].pc \in {"retired", "broken"}
    BY <1>2, ZenonT(60) DEF RemoveRetiredContainer, RemoveBroken, database
  <2>2. OthersStay(o) /\ op'[o].pc \notin {"delete", "brokenrow"}
    <3>1. CASE \E c, good : good \in BOOLEAN /\ Proceed(o, c, good)
      BY <1>1, <2>1, <3>1, ProceedFields
    <3>2. CASE \E i : op' = [op EXCEPT ![o] = [op[o] EXCEPT
                               !.pc = "brokennet", !.inst = i]]
      BY <1>1, <3>2 DEF Locals, OthersStay, Requests
    <3>3. CASE Goto(o, "restore") BY <1>1, <3>3, GotoLine
    <3>4. CASE op' = [op EXCEPT ![o] = [op[o] EXCEPT !.pc = "networks",
                                                     !.todo = retN]]
      BY <1>1, <3>4 DEF Locals, OthersStay, Requests
    <3>5. CASE op' = [op EXCEPT ![o] = [op[o] EXCEPT !.pc = "scan",
                                                     !.clean = FALSE]]
      BY <1>1, <3>5 DEF Locals, OthersStay, Requests
    <3> QED BY <1>2, <3>1, <3>2, <3>3, <3>4, <3>5
            DEF RemoveRetiredContainer, RemoveBroken, Become
  <2> QED BY <2>1, <2>2, NetsStill, SMTT(40)
<1>3. CASE RemoveRetiredNetwork(o)
  <2>1. UNCHANGED row /\ op[o].pc = "networks"
    BY <1>3 DEF RemoveRetiredNetwork
  <2>2. OthersStay(o) /\ op'[o].pc \notin {"delete", "brokenrow"}
    <3>1. CASE \E c, good : good \in BOOLEAN /\ Proceed(o, c, good)
      BY <1>1, <2>1, <3>1, ProceedFields
    <3>2. CASE Goto(o, "scan") BY <1>1, <3>2, GotoLine
    <3> QED BY <1>3, <3>1, <3>2 DEF RemoveRetiredNetwork
  <2>3. /\ nets' \subseteq nets
        /\ \A n \in retN : n \in retN' \/ n \notin nets'
    BY <1>3 DEF RemoveRetiredNetwork, RemoveNetwork, KeepNetwork
  <2>4. NetFrame(o) BY <1>1, <2>1, <2>2, <2>3 DEF NetFrame, Stores
  <2> QED BY <2>2, <2>4, NetsKept DEF NetSide
<1>4. CASE Scan(o)
  <2>1. UNCHANGED <<row, nets, retN>> BY <1>4 DEF Scan, database
  <2>2. PICK found, seen, good : Inspect(o, found, seen, good)
    BY <1>4 DEF Scan
  <2>3. PICK B, fine : op' = [op EXCEPT ![o] = [op[o] EXCEPT
                         !.pc = "broken", !.todo = B, !.clean = fine]]
    BY <2>2 DEF Inspect, Become
  <2>4. OthersStay(o) /\ op'[o].pc \notin {"delete", "brokenrow"}
    BY <1>1, <2>3 DEF Locals, OthersStay, Requests
  <2> QED BY <2>1, <2>4, NetsStill
<1>5. CASE BrokenNetwork(o) \/ RetireBrokenNetwork(o)
  <2>1. UNCHANGED row
    BY <1>5 DEF BrokenNetwork, RetireBrokenNetwork, database
  <2>2. /\ nets' \subseteq nets /\ retN \subseteq retN'
        /\ \/ Goto(o, "brokenret")
           \/ /\ Goto(o, "brokenrow")
              /\ op[o].inst \notin nets' \/ op[o].inst \in retN'
    <3>1. CASE BrokenNetwork(o)
      BY <3>1 DEF BrokenNetwork, RemoveNetwork, KeepNetwork, database
    <3>2. CASE RetireBrokenNetwork(o)
      BY <3>2 DEF RetireBrokenNetwork, Fails, docker
    <3> QED BY <1>5, <3>1, <3>2
  <2>3. OthersStay(o) /\ NetSide(o)'
    BY <1>1, <2>2, GotoFields DEF NetSide
  <2>4. NetFrame(o) BY <1>1, <2>1, <2>2, <2>3 DEF NetFrame, Stores
  <2> QED BY <2>3, <2>4, NetsKept
<1>6. CASE BrokenRow(o)
  <2>1. UNCHANGED <<nets, retN>> /\ op[o].pc = "brokenrow"
    BY <1>6 DEF BrokenRow, docker
  <2>2. OthersStay(o) /\ op'[o].pc \notin {"delete", "brokenrow"}
    <3>1. PICK B : op' = [op EXCEPT ![o] = [op[o] EXCEPT
             !.pc = "broken", !.todo = @ \ {op[o].inst}, !.inst = 0,
             !.restore = B]]
      BY <1>6 DEF BrokenRow, Become, Fails
    <3> QED BY <1>1, <3>1 DEF Locals, OthersStay, Requests
  <2>3. \A n \in Ids : n # op[o].inst => row'[n] = row[n]
    BY <1>1, <1>6 DEF BrokenRow, DeleteInstance, Stores
  <2>4. NetFrame(o)
    BY <1>1, <2>1, <2>2, <2>3, SMTT(40) DEF NetFrame, NetSide, Stores
  <2> QED BY <2>2, <2>4, NetsKept DEF NetSide
<1>7. CASE Restore(o)
  <2>1. /\ UNCHANGED <<nets, retN>> /\ op[o].restore \subseteq Builds
        /\ op[o].pc = "restore"
    BY <1>1, <1>7, ZenonT(60) DEF Restore, docker, Requests
  <2>2. OthersStay(o) /\ op'[o].pc \notin {"delete", "brokenrow"}
    <3>1. CASE \E b \in Builds : Open(o, b, op[o])
      BY <1>1, <3>1, OpenFields
    <3>2. CASE \E b : op' = [op EXCEPT ![o] = [op[o] EXCEPT
                                                 !.restore = @ \ {b}]]
      BY <1>1, <2>1, <3>2 DEF Locals, OthersStay, Requests
    <3>3. CASE \E b : op' = [op EXCEPT ![o] = [op[o] EXCEPT
                               !.restore = @ \ {b}, !.clean = FALSE]]
      BY <1>1, <2>1, <3>3 DEF Locals, OthersStay, Requests
    <3>4. CASE Finish(o) BY <1>1, <3>4, FinishLine
    <3> QED BY <1>7, <2>1, <3>1, <3>2, <3>3, <3>4 DEF Restore, Become
  <2>3. \A n \in Ids : row[n] # None => row'[n] # None
    BY <1>1, <1>7, <2>1 DEF Restore, Open, Stores
  <2>4. NetFrame(o) BY <1>1, <2>1, <2>2, <2>3 DEF NetFrame, Stores
  <2> QED BY <2>2, <2>4, NetsKept DEF NetSide
<1> QED BY <1>2, <1>3, <1>4, <1>5, <1>6, <1>7

\* The beginnings of requests, and a process that dies.
LEMMA BeginningNets ==
  ASSUME IndInv, TrackInv, NetInv, NEW o \in Ops,
         \/ \E b \in Builds : Start(o, b)
         \/ \E i \in Ids : Stop(o, i)
         \/ Recover(o)
         \/ Crash(o)
  PROVE  NetInv'
<1>1. Locals /\ Stores /\ Sound(op[o]) /\ op[o] \in Requests BY Before
<1>2. UNCHANGED <<nets, retN>>
  BY DEF Start, Stop, Recover, Crash, database, docker
<1>3. \A n \in Ids : row[n] # None => row'[n] # None
  <2>1. ASSUME NEW b \in Builds, Start(o, b)
        PROVE  \A n \in Ids : row[n] # None => row'[n] # None
    BY <1>1, <2>1 DEF Start, Open, Stores
  <2> QED BY <2>1 DEF Stop, Recover, Crash, database
<1>4. OthersStay(o) /\ op'[o].pc \notin {"delete", "brokenrow"}
  <2>1. ASSUME NEW b \in Builds, Start(o, b)
        PROVE  OthersStay(o) /\ op'[o].pc = "net"
    <3>1. PICK q : q = [Idle EXCEPT !.kind = "start"] OBVIOUS
    <3>2. q \in Requests BY <3>1, IdleTyped DEF Requests
    <3> QED BY <1>1, <2>1, <3>1, <3>2, OpenFields DEF Start
  <2>2. ASSUME NEW i \in Ids, Stop(o, i)
        PROVE  OthersStay(o) /\ op'[o].pc = "remove"
    BY <1>1, <2>2 DEF Stop, Become, Locals, OthersStay, Idle
  <2>3. ASSUME Recover(o) PROVE OthersStay(o) /\ op'[o].pc = "retired"
    <3> DEFINE r == [Idle EXCEPT !.kind = "recover", !.pc = "retired"]
    <3>1. CASE op' = [op EXCEPT ![o] = [r EXCEPT !.todo = retC]]
      BY <1>1, <3>1 DEF Locals, OthersStay, Idle
    <3>2. CASE op' = [op EXCEPT ![o] = [r EXCEPT !.clean = FALSE]]
      BY <1>1, <3>2 DEF Locals, OthersStay, Idle
    <3> QED BY <2>3, <3>1, <3>2 DEF Recover, Become
  <2>4. ASSUME Crash(o) PROVE OthersStay(o) /\ op'[o].pc = "idle"
    BY <1>1, <2>4, FinishLine DEF Crash
  <2> QED BY <2>1, <2>2, <2>3, <2>4
<1>5. NetFrame(o) BY <1>1, <1>2, <1>3, <1>4 DEF NetFrame, Stores
<1> QED BY <1>4, <1>5, NetsKept DEF NetSide

\* Every step keeps it, when the database works.
LEMMA StepNets ==
  ASSUME "db" \notin Faults, IndInv, TrackInv, NetInv, [Next]_vars
  PROVE  NetInv'
<1>1. CASE UNCHANGED <<row, nets, retN, op>>
  BY <1>1 DEF NetInv, NetSide
<1>2. ASSUME NEW o \in Ops, Step(o) PROVE NetInv'
  BY <1>2, CreatingNets, StoppingNets, LeavingNets, RecoveringNets DEF Step
<1>3. ASSUME NEW c \in Containers, Lose(c) \/ Exit(c)
      PROVE  UNCHANGED <<row, nets, retN, op>>
  BY <1>3 DEF Lose, Exit, database
<1> QED BY <1>1, <1>2, <1>3, BeginningNets
        DEF Next, vars, database, docker

\* A network outlives its instance only as a retired one, whatever Docker
\* refuses and whoever dies.  (A database that fails to record a network as
\* retired and then deletes the row does leave one behind.)
THEOREM NetworksAreTracked ==
  ~Overlap /\ "db" \notin Faults => (Spec => []NetworksTracked)
<1> SUFFICES ASSUME ~Overlap, "db" \notin Faults
             PROVE  Spec => []NetworksTracked
  OBVIOUS
<1>1. ASSUME Init PROVE NetInv
  <2>1. \A n \in nets : row[n] # None BY <1>1 DEF Init, Rows
  <2>2. \A o \in Ops : op[o] = Idle BY <1>1 DEF Init
  <2>3. \A o \in Ops : NetSide(o) BY <2>2 DEF NetSide, Idle
  <2> QED BY <2>1, <2>3 DEF NetInv
<1>2. IndInv /\ TrackInv /\ NetInv /\ [Next]_vars => NetInv'
  BY StepNets
<1>3. NetInv => NetworksTracked BY DEF NetInv, NetworksTracked
<1> QED BY <1>1, <1>2, <1>3, TracksAlways, PTL DEF Spec

-----------------------------------------------------------------------------
(* What a recovery leaves behind                                           *)

BrokenSteps   == {"broken", "brokennet", "brokenret", "brokenrow"}
RollbackSteps == {"remove", "forget", "ports", "rbretire", "rbnet", "retnet",
                  "delete"}

\* As long as a recovery has seen no error, what it has not yet dealt with is
\* on the list it is working through: the retired containers, then the
\* incomplete instances, then the one instance that it is creating.
Tidy(o) ==
  LET r == op[o] IN
  /\ r.pc = "retired" => retC \subseteq r.todo
  /\ r.pc \in RecoverySteps \ {"retired"} => retC = {}
  /\ r.pc \in BrokenSteps => Incomplete \subseteq r.todo
  /\ r.pc = "restore" => Incomplete = {}
  /\ r.pc \in CreateSteps
       => retC \subseteq r.cs /\ Incomplete \subseteq {r.inst}
  /\ r.pc = "unlock" /\ r.ok => retC = {} /\ Incomplete = {}

\* An instance is committed with all its containers, and a recovery that
\* rolls one back has seen an error.
Settled(o) ==
  LET r == op[o] IN
  /\ r.pc = "finalize" => Cardinality(r.cs) = Hosts
  /\ r.kind = "recover" /\ r.pc \in RollbackSteps => ~r.ok
  /\ r.kind = "recover" /\ r.clean => Tidy(o)

SettleInv == \A o \in Ops : Settled(o)

\* Nothing is incomplete that was not, if rows and containers stay.
LEMMA IncompleteStays ==
  ASSUME UNCHANGED <<row, owner>> PROVE Incomplete' = Incomplete
  BY DEF Incomplete, Rows, ContainersOf

\* While a recovery is under way nobody else takes a step.
LEMMA RecoveryExcludes ==
  ASSUME IndInv, TrackInv, NEW u \in Ops, op[u].kind = "recover",
         NEW o \in Ops, o # u,
         \/ \E b \in Builds : Start(o, b)
         \/ \E i \in Ids : Stop(o, i)
         \/ Recover(o)
         \/ Step(o)
         \/ Crash(o)
  PROVE  FALSE
<1>1. op[o] = Idle BY RecoveryAlone
<1>2. op[o].pc = "idle" BY <1>1 DEF Idle
<1>3. ~Step(o)
  BY <1>2 DEF Step, CreateNetwork, AcquirePortLock, PortLockFails,
       CreateContainer, RetirePending, StartContainer, FinalizeInstance,
       CleanupContainer, ReleasePortLock, RemoveContainer, ForgetContainer,
       RemovePorts, StopNetwork, RetireRemaining, RollbackNetwork,
       RetireNetwork, DeleteRow, RemoveRetiredContainer,
       RemoveRetiredNetwork, Scan, RemoveBroken, BrokenNetwork,
       RetireBrokenNetwork, BrokenRow, Restore
<1>4. ~Crash(o) BY <1>2 DEF Crash
<1>5. hold[u] = "exclusive" BY DEF TrackInv, Held
<1>6. ASSUME NEW m, Barrier!Enter(o, m) PROVE FALSE
  <2>1. u \in Barrier!Others(o) BY <1>5 DEF Barrier!Others
  <2> QED BY <1>5, <1>6, <2>1 DEF Barrier!Enter
<1> QED BY <1>3, <1>4, <1>6 DEF Start, Stop, Recover

\* So a step of o has only its own request to look at.
LEMMA OthersSettled ==
  ASSUME IndInv, TrackInv, SettleInv, NEW o \in Ops, OthersStay(o),
         \/ \E b \in Builds : Start(o, b)
         \/ \E i \in Ids : Stop(o, i)
         \/ Recover(o)
         \/ Step(o)
         \/ Crash(o),
         Settled(o)'
  PROVE  SettleInv'
<1>1. ASSUME NEW u \in Ops, u # o PROVE Settled(u)'
  <2>1. op'[u] = op[u] /\ Settled(u) BY <1>1 DEF OthersStay, SettleInv
  <2>2. op[u].kind # "recover" BY <1>1, RecoveryExcludes
  <2> QED BY <2>1, <2>2 DEF Settled
<1> QED BY <1>1 DEF SettleInv

\* A step that fails in newInstance: what remains is rolled back.
LEMMA GivesUpUnsettled ==
  ASSUME NEW o \in Ops, Locals, Rollback(o) \/ Abort(o)
  PROVE  OthersStay(o) /\ Settled(o)'
<1>1. CASE Rollback(o)
  BY <1>1, RollbackFields
     DEF Settled, Tidy, BrokenSteps, RecoverySteps, CreateSteps
<1>2. CASE Abort(o) /\ portLock = o
  BY <1>2, CleanupFields
     DEF Settled, Tidy, BrokenSteps, RollbackSteps, RecoverySteps,
         CreateSteps
<1>3. Abort(o) /\ portLock # o => Rollback(o) BY DEF Abort
<1> QED BY <1>1, <1>2, <1>3

\* The steps of newInstance up to the commit.
LEMMA CreatingSettles ==
  ASSUME IndInv, TrackInv, SettleInv, NEW o \in Ops,
         \/ CreateNetwork(o) \/ AcquirePortLock(o) \/ PortLockFails(o)
         \/ CreateContainer(o) \/ RetirePending(o) \/ StartContainer(o)
  PROVE  OthersStay(o) /\ Settled(o)'
<1>1. Locals /\ Stores /\ Sound(op[o]) /\ op[o] \in Requests /\ Settled(o)
  BY Before DEF SettleInv
<1>2. CASE Rollback(o) \/ Abort(o) BY <1>1, <1>2, GivesUpUnsettled
<1>3. ASSUME NEW p \in CreateSteps, Goto(o, p), UNCHANGED <<row, owner>>,
             op[o].pc \in CreateSteps,
             retC' = retC \/ (op[o].pc = "retire" /\
                              retC' = retC \cup op[o].todo),
             p = "finalize" => Cardinality(op[o].cs) = Hosts
      PROVE  OthersStay(o) /\ Settled(o)'
  <2>1. /\ OthersStay(o)
        /\ op'[o].kind = op[o].kind /\ op'[o].pc = p
        /\ op'[o].inst = op[o].inst /\ op'[o].cs = op[o].cs
        /\ op'[o].clean = op[o].clean
    BY <1>1, <1>3, GotoFields
  <2>2. Incomplete' = Incomplete BY <1>3, IncompleteStays
  <2>3. op[o].kind = "recover" /\ op[o].clean =>
          retC \subseteq op[o].cs /\ Incomplete \subseteq {op[o].inst}
    BY <1>1, <1>3 DEF Settled, Tidy
  <2>4. retC' \subseteq retC \cup op[o].cs
    BY <1>1, <1>3 DEF Sound
  <2>5. p \notin RecoverySteps \cup BrokenSteps \cup RollbackSteps
        /\ p # "unlock" /\ p # "retired"
    BY <1>3 DEF CreateSteps, RecoverySteps, BrokenSteps, RollbackSteps
  <2>6. op'[o].kind = "recover" /\ op'[o].clean => Tidy(o)'
    <3> SUFFICES ASSUME op'[o].kind = "recover", op'[o].clean PROVE Tidy(o)'
      OBVIOUS
    <3>1. retC' \subseteq op'[o].cs /\ Incomplete' \subseteq {op'[o].inst}
      BY <2>1, <2>2, <2>3, <2>4
    <3> QED BY <1>3, <2>1, <3>1
            DEF Tidy, CreateSteps, RecoverySteps, BrokenSteps
  <2>7. Settled(o)'
    BY <1>3, <2>1, <2>5, <2>6 DEF Settled
  <2> QED BY <2>1, <2>7
<1>4. CASE CreateNetwork(o)
  BY <1>2, <1>3, <1>4 DEF CreateNetwork, database, CreateSteps
<1>5. CASE AcquirePortLock(o)
  BY <1>3, <1>5 DEF AcquirePortLock, database, CreateSteps
<1>6. CASE PortLockFails(o) BY <1>2, <1>6 DEF PortLockFails
<1>7. CASE RetirePending(o)
  BY <1>2, <1>3, <1>7 DEF RetirePending, CreateSteps
<1>8. CASE StartContainer(o)
  BY <1>2, <1>3, <1>8 DEF StartContainer, database, CreateSteps
<1>9. CASE CreateContainer(o) /\ ~Abort(o)
  <2>1. PICK c : op' = [op EXCEPT ![o] = [op[o] EXCEPT
                          !.pc = "retire", !.cs = @ \cup {c}, !.todo = {c}]]
    BY <1>9 DEF CreateContainer, Become
  <2>2. /\ OthersStay(o)
        /\ op'[o].kind = op[o].kind /\ op'[o].pc = "retire"
        /\ op'[o].inst = op[o].inst /\ op'[o].cs = op[o].cs \cup {c}
        /\ op'[o].clean = op[o].clean
    BY <1>1, <2>1 DEF Locals, OthersStay, Requests
  <2>3. UNCHANGED <<row, owner, retC>> /\ op[o].pc = "create"
    BY <1>9 DEF CreateContainer, database
  <2>4. Incomplete' = Incomplete BY <2>3, IncompleteStays
  <2>5. op[o].kind = "recover" /\ op[o].clean =>
          retC \subseteq op[o].cs /\ Incomplete \subseteq {op[o].inst}
    BY <1>1, <2>3 DEF Settled, Tidy, CreateSteps
  <2>6. op'[o].kind = "recover" /\ op'[o].clean => Tidy(o)'
    BY <2>2, <2>3, <2>4, <2>5
       DEF Tidy, CreateSteps, RecoverySteps, BrokenSteps
  <2>7. Settled(o)' BY <2>2, <2>6 DEF Settled, RollbackSteps
  <2> QED BY <2>2, <2>7
<1> QED BY <1>2, <1>4, <1>5, <1>6, <1>7, <1>8, <1>9

\* The commit makes the instance complete and leaves nothing retired.
LEMMA FinalizeSettles ==
  ASSUME IndInv, TrackInv, SettleInv, NEW o \in Ops, FinalizeInstance(o)
  PROVE  OthersStay(o) /\ Settled(o)'
<1>1. /\ Locals /\ Stores /\ Sound(op[o]) /\ op[o] \in Requests
      /\ Settled(o) /\ Faithful(o)
  BY Before DEF SettleInv
<1>2. CASE Abort(o) BY <1>1, <1>2, GivesUpUnsettled
<1>3. CASE ~Abort(o)
  <2>1. /\ op[o].pc = "finalize" /\ Goto(o, "unlock") /\ row' = row
        /\ retC' = retC \ op[o].cs
        /\ owner' = [c \in Containers |->
                       IF c \in op[o].cs THEN op[o].inst ELSE owner[c]]
    BY <1>3 DEF FinalizeInstance
  <2>2. /\ OthersStay(o)
        /\ op'[o].kind = op[o].kind /\ op'[o].pc = "unlock"
        /\ op'[o].clean = op[o].clean
    BY <1>1, <2>1, GotoFields
  <2>3. /\ op[o].inst \in Ids /\ op[o].cs \subseteq Containers
        /\ op[o].kind # "stop" /\ Cardinality(op[o].cs) = Hosts
    BY <1>1, <2>1
       DEF Sound, InstanceSteps, CreateSteps, Requests, Settled
  <2>4. \A c \in Containers : owner[c] # op[o].inst
    BY <1>1, <2>1, <2>3 DEF Faithful, Unfinished, Building, CreateSteps
  <2>5. {c \in Containers : owner'[c] = op[o].inst} = op[o].cs
    BY <2>1, <2>3, <2>4
  <2>6. ASSUME NEW i \in Ids, i # op[o].inst
        PROVE  {c \in Containers : owner'[c] = i}
                 = {c \in Containers : owner[c] = i}
    <3>1. \A c \in op[o].cs : owner[c] # i
      BY <1>1, <2>4, <2>6, <2>3 DEF Faithful, Ids
    <3> QED BY <2>1, <2>6, <3>1
  <2>7. ASSUME op[o].kind = "recover", op[o].clean
        PROVE  retC' = {} /\ Incomplete' = {}
    <3>1. retC \subseteq op[o].cs /\ Incomplete \subseteq {op[o].inst}
      BY <1>1, <2>1, <2>7 DEF Settled, Tidy, CreateSteps
    <3>2. ASSUME NEW i \in Ids, row[i] # None
          PROVE  Cardinality({c \in Containers : owner'[c] = i}) = Hosts
      <4>1. CASE i = op[o].inst BY <2>3, <2>5, <4>1
      <4>2. CASE i # op[o].inst
        BY <2>6, <3>1, <3>2, <4>2 DEF Incomplete, Rows, ContainersOf
      <4> QED BY <4>1, <4>2
    <3>3. Incomplete' = {}
      BY <2>1, <3>2 DEF Incomplete, Rows, ContainersOf
    <3> QED BY <2>1, <3>1, <3>3
  <2>8. Settled(o)'
    BY <2>2, <2>7 DEF Settled, Tidy, RollbackSteps, RecoverySteps,
                      BrokenSteps, CreateSteps
  <2> QED BY <2>2, <2>8
<1> QED BY <1>2, <1>3

\* The end of newInstance, and its roll-back, which is an error.
LEMMA EndingSettles ==
  ASSUME IndInv, TrackInv, SettleInv, NEW o \in Ops,
         CleanupContainer(o) \/ ReleasePortLock(o) \/ DeleteRow(o)
  PROVE  OthersStay(o) /\ Settled(o)'
<1>1. /\ Locals /\ Stores /\ Sound(op[o]) /\ op[o] \in Requests
      /\ Settled(o) /\ Held(o)
  BY Before DEF SettleInv
<1>2. CASE Rollback(o) BY <1>1, <1>2, GivesUpUnsettled
<1>3. CASE Finish(o)
  BY <1>1, <1>3, FinishFields DEF Settled, Idle
<1>4. CASE CleanupContainer(o)
  <2>1. /\ OthersStay(o) /\ op'[o].ok = op[o].ok
        /\ op'[o].pc \in {"cleanup", "unlock"}
    <3>1. CASE Goto(o, "unlock") BY <1>1, <3>1, GotoFields
    <3>2. CASE ~Goto(o, "unlock")
      <4>1. PICK c : op' = [op EXCEPT ![o] = [op[o] EXCEPT
                                                !.todo = @ \ {c}]]
        BY <1>4, <3>2 DEF CleanupContainer, Become
      <4>2. op[o].pc = "cleanup" BY <1>4 DEF CleanupContainer
      <4> QED BY <1>1, <4>1, <4>2 DEF Locals, OthersStay, Requests
    <3> QED BY <3>1, <3>2
  <2>2. ~op[o].ok BY <1>1, <1>4 DEF CleanupContainer, Sound
  <2> QED BY <2>1, <2>2 DEF Settled, Tidy, RollbackSteps, RecoverySteps,
                            BrokenSteps, CreateSteps
<1>5. ASSUME NewInstanceDone(o), op[o].kind \notin {"start", "stop"},
             op[o].pc \in {"unlock", "delete"},
             op[o].pc = "unlock" => op[o].ok /\ UNCHANGED <<row, owner, retC>>
      PROVE  OthersStay(o) /\ Settled(o)'
  <2>1. op[o].kind = "recover" BY <1>1, <1>5 DEF Held, Requests
  <2>2. /\ OthersStay(o) /\ op'[o].pc = "restore"
        /\ op'[o].clean = (op[o].clean /\ op[o].ok)
    BY <1>1, <1>5, DoneFields
  <2>3. ASSUME op[o].clean, op[o].ok PROVE retC' = {} /\ Incomplete' = {}
    <3>1. op[o].pc = "unlock"
      BY <1>1, <1>5, <2>1, <2>3 DEF Settled, RollbackSteps
    <3>2. Incomplete' = Incomplete BY <1>5, <3>1, IncompleteStays
    <3> QED BY <1>1, <1>5, <2>1, <2>3, <3>1, <3>2 DEF Settled, Tidy
  <2>4. Settled(o)'
    BY <2>2, <2>3 DEF Settled, Tidy, RollbackSteps, BrokenSteps, CreateSteps
  <2> QED BY <2>2, <2>4
<1>6. CASE ReleasePortLock(o)
  <2>1. op[o].pc = "unlock" /\ op[o].kind # "stop"
        /\ UNCHANGED <<row, owner, retC>>
    BY <1>1, <1>6 DEF ReleasePortLock, database, Sound
  <2>2. (op[o].ok /\ NewInstanceDone(o)) \/ Rollback(o)
    BY <1>6 DEF ReleasePortLock
  <2> QED BY <1>2, <1>3, <1>5, <2>1, <2>2 DEF NewInstanceDone
<1>7. CASE DeleteRow(o)
  <2>1. op[o].pc = "delete" BY <1>7 DEF DeleteRow
  <2>2. \/ Finish(o)
        \/ op[o].kind \notin {"start", "stop"} /\ NewInstanceDone(o)
    BY <1>7 DEF DeleteRow, NewInstanceDone
  <2> QED BY <1>3, <1>5, <2>1, <2>2
<1> QED BY <1>4, <1>6, <1>7

\* stopContainers and what follows it.
LEMMA StoppingSettles ==
  ASSUME IndInv, TrackInv, SettleInv, NEW o \in Ops,
         \/ RemoveContainer(o) \/ ForgetContainer(o) \/ RemovePorts(o)
         \/ StopNetwork(o) \/ RetireRemaining(o) \/ RollbackNetwork(o)
         \/ RetireNetwork(o)
  PROVE  OthersStay(o) /\ Settled(o)'
<1>1. /\ Locals /\ Stores /\ Sound(op[o]) /\ op[o] \in Requests
      /\ Settled(o) /\ Faithful(o)
  BY Before DEF SettleInv
<1>2. CASE Finish(o)
  BY <1>1, <1>2, FinishFields DEF Settled, Idle
<1>3. ASSUME OthersStay(o), op'[o].kind = op[o].kind, op'[o].ok = op[o].ok,
             op[o].pc \in RollbackSteps \cup {"stopnet"},
             op'[o].pc \in RollbackSteps \cup {"stopnet"}
      PROVE  OthersStay(o) /\ Settled(o)'
  <2>1. op[o].kind = "recover" => ~op[o].ok
    BY <1>1, <1>3 DEF Settled, Faithful
  <2> QED BY <1>3, <2>1
          DEF Settled, Tidy, RollbackSteps, RecoverySteps, BrokenSteps,
              CreateSteps
<1>4. ASSUME NEW p \in RollbackSteps \cup {"stopnet"}, Goto(o, p),
             op[o].pc \in RollbackSteps \cup {"stopnet"}
      PROVE  OthersStay(o) /\ Settled(o)'
  BY <1>1, <1>3, <1>4, GotoFields
<1>5. ASSUME NEW failed, AfterStop(o, failed), op[o].pc \in {"remove", "ports"}
      PROVE  OthersStay(o) /\ Settled(o)'
  <2>1. CASE op[o].kind # "stop"
    BY <1>1, <1>3, <1>5, <2>1, RetainFields DEF RollbackSteps
  <2>2. CASE op[o].kind = "stop"
    BY <1>2, <1>4, <1>5, <2>2 DEF AfterStop, RollbackSteps
  <2> QED BY <2>1, <2>2
<1>6. CASE RemoveContainer(o)
  <2>1. op[o].pc = "remove" BY <1>6 DEF RemoveContainer
  <2>2. CASE \E p \in {"forget", "ports"} : Goto(o, p)
    BY <1>4, <2>1, <2>2 DEF RollbackSteps
  <2>3. CASE AfterStop(o, TRUE) BY <1>5, <2>1, <2>3
  <2>4. CASE Become(o, [op[o] EXCEPT !.todo = @ \ {Pick(@)},
                                     !.left = @ \cup {Pick(op[o].todo)}])
    <3>1. PICK T, L : op' = [op EXCEPT ![o] = [op[o] EXCEPT
                               !.todo = T, !.left = L]]
      BY <2>4 DEF Become
    <3>2. /\ OthersStay(o) /\ op'[o].kind = op[o].kind
          /\ op'[o].ok = op[o].ok /\ op'[o].pc = "remove"
      BY <1>1, <2>1, <3>1 DEF Locals, OthersStay, Requests
    <3> QED BY <1>3, <2>1, <3>2 DEF RollbackSteps
  <2> QED BY <1>6, <2>2, <2>3, <2>4 DEF RemoveContainer
<1>7. CASE ForgetContainer(o)
  <2>1. op[o].pc = "forget" BY <1>7 DEF ForgetContainer
  <2>2. CASE \E T : Become(o, [op[o] EXCEPT !.pc = "remove", !.todo = T])
    BY <1>1, <1>3, <2>1, <2>2
       DEF Become, Locals, OthersStay, Requests, RollbackSteps
  <2>3. CASE \E T, L : Become(o, [op[o] EXCEPT !.pc = "remove", !.todo = T,
                                               !.left = L])
    BY <1>1, <1>3, <2>1, <2>3
       DEF Become, Locals, OthersStay, Requests, RollbackSteps
  <2> QED BY <1>7, <2>2, <2>3 DEF ForgetContainer
<1>8. CASE RemovePorts(o) BY <1>5, <1>8 DEF RemovePorts
<1>9. CASE \/ StopNetwork(o) \/ RetireRemaining(o) \/ RollbackNetwork(o)
           \/ RetireNetwork(o)
  BY <1>2, <1>4, <1>9
     DEF StopNetwork, RetireRemaining, RollbackNetwork, RetireNetwork,
         RollbackSteps
<1> QED BY <1>6, <1>7, <1>8, <1>9

\* Recovery works through the retired containers and networks, and then
\* through the incomplete instances.
LEMMA RecoveringSettles ==
  ASSUME IndInv, TrackInv, SettleInv, NEW o \in Ops,
         \/ RemoveRetiredContainer(o) \/ RemoveRetiredNetwork(o) \/ Scan(o)
         \/ RemoveBroken(o) \/ BrokenNetwork(o) \/ RetireBrokenNetwork(o)
  PROVE  OthersStay(o) /\ Settled(o)'
<1>1. /\ Locals /\ Stores /\ Sound(op[o]) /\ op[o] \in Requests
      /\ Settled(o) /\ Held(o)
  BY Before DEF SettleInv
<1>2. /\ UNCHANGED <<row, owner>> /\ op[o].pc \in RecoverySteps
      /\ op[o].kind = "recover"
  BY <1>1 DEF RemoveRetiredContainer, RemoveRetiredNetwork, Scan,
       RemoveBroken, BrokenNetwork, RetireBrokenNetwork, database,
       RecoverySteps, Held
<1>3. Incomplete' = Incomplete BY <1>2, IncompleteStays
<1>4. op[o].clean => Tidy(o) BY <1>1, <1>2 DEF Settled
<1>5. ASSUME OthersStay(o), op'[o].pc \in RecoverySteps,
             op'[o].clean => op[o].clean /\ Tidy(o)'
      PROVE  OthersStay(o) /\ Settled(o)'
  BY <1>5 DEF Settled, RecoverySteps, RollbackSteps
<1>6. ASSUME NEW x, Proceed(o, x, FALSE) PROVE OthersStay(o) /\ Settled(o)'
  <2>1. OthersStay(o) /\ op'[o].pc = op[o].pc /\ ~op'[o].clean
    BY <1>1, <1>6, ProceedFields
  <2> QED BY <1>2, <1>5, <2>1
<1>7. ASSUME NEW p \in RecoverySteps, Goto(o, p), retC' = retC,
             op[o].clean => /\ retC = {}
                            /\ p \in BrokenSteps
                                 => Incomplete \subseteq op[o].todo
                            /\ p = "restore" => Incomplete = {}
      PROVE  OthersStay(o) /\ Settled(o)'
  <2>1. /\ OthersStay(o) /\ op'[o].pc = p /\ op'[o].todo = op[o].todo
        /\ op'[o].clean = op[o].clean
    BY <1>1, <1>7, GotoFields
  <2>2. op[o].clean => Tidy(o)'
    BY <1>3, <1>7, <2>1 DEF Tidy, RecoverySteps, CreateSteps
  <2> QED BY <1>5, <1>7, <2>1, <2>2
<1>8. CASE RemoveRetiredContainer(o)
  <2>1. op[o].pc = "retired" BY <1>8 DEF RemoveRetiredContainer
  <2>2. op[o].clean => retC \subseteq op[o].todo
    BY <1>4, <2>1 DEF Tidy
  <2>3. ASSUME NEW c, Proceed(o, c, TRUE), retC' = retC \ {c}
        PROVE  OthersStay(o) /\ Settled(o)'
    <3>1. /\ OthersStay(o) /\ op'[o].pc = "retired"
          /\ op'[o].todo = op[o].todo \ {c} /\ op'[o].clean = op[o].clean
      <4>1. op[o].clean \in BOOLEAN BY <1>1 DEF Requests
      <4> QED BY <1>1, <2>1, <2>3, <4>1, ProceedFields
    <3>2. op[o].clean => Tidy(o)'
      BY <2>2, <2>3, <3>1 DEF Tidy, BrokenSteps, CreateSteps
    <3> QED BY <1>2, <1>5, <2>1, <3>1, <3>2
  <2>4. ASSUME op' = [op EXCEPT ![o] = [op[o] EXCEPT !.pc = "networks",
                                                     !.todo = retN]],
               op[o].todo = {}, retC' = retC
        PROVE  OthersStay(o) /\ Settled(o)'
    <3>1. /\ OthersStay(o) /\ op'[o].pc = "networks"
          /\ op'[o].clean = op[o].clean
      BY <1>1, <2>4 DEF Locals, OthersStay, Requests
    <3>2. op[o].clean => Tidy(o)'
      BY <2>2, <2>4, <3>1 DEF Tidy, BrokenSteps, CreateSteps
    <3> QED BY <1>5, <3>1, <3>2 DEF RecoverySteps
  <2>5. ASSUME op' = [op EXCEPT ![o] = [op[o] EXCEPT !.pc = "scan",
                                                     !.clean = FALSE]]
        PROVE  OthersStay(o) /\ Settled(o)'
    <3>1. OthersStay(o) /\ op'[o].pc = "scan" /\ ~op'[o].clean
      BY <1>1, <2>5 DEF Locals, OthersStay, Requests
    <3> QED BY <1>5, <3>1 DEF RecoverySteps
  <2> QED BY <1>6, <1>8, <2>3, <2>4, <2>5 DEF RemoveRetiredContainer, Become
<1>9. CASE RemoveRetiredNetwork(o)
  <2>1. op[o].pc = "networks" /\ retC' = retC
    BY <1>9 DEF RemoveRetiredNetwork
  <2>2. op[o].clean => retC = {} BY <1>4, <2>1 DEF Tidy, RecoverySteps
  <2>3. ASSUME NEW n, Proceed(o, n, TRUE)
        PROVE  OthersStay(o) /\ Settled(o)'
    <3>1. /\ OthersStay(o) /\ op'[o].pc = "networks"
          /\ op'[o].clean = op[o].clean
      <4>1. op[o].clean \in BOOLEAN BY <1>1 DEF Requests
      <4> QED BY <1>1, <2>1, <2>3, <4>1, ProceedFields
    <3>2. op[o].clean => Tidy(o)'
      BY <2>1, <2>2, <3>1 DEF Tidy, BrokenSteps, CreateSteps
    <3> QED BY <1>5, <3>1, <3>2 DEF RecoverySteps
  <2>4. CASE Goto(o, "scan")
    BY <1>7, <2>1, <2>2, <2>4 DEF RecoverySteps, BrokenSteps
  <2> QED BY <1>6, <1>9, <2>3, <2>4 DEF RemoveRetiredNetwork
<1>10. CASE Scan(o)
  <2>1. op[o].pc = "scan" /\ retC' = retC BY <1>10 DEF Scan, database
  <2>2. PICK found, seen, good :
          /\ Inspect(o, found, seen, good)
          /\ good \in BOOLEAN /\ (good => found = Incomplete)
    BY <1>10 DEF Scan
  <2>3. PICK B, fine :
          /\ op' = [op EXCEPT ![o] = [op[o] EXCEPT !.pc = "broken",
                                        !.todo = B, !.clean = fine]]
          /\ found \subseteq B /\ (fine => op[o].clean /\ good)
    <3>1. PICK A, same : Become(o, [op[o] EXCEPT !.pc = "broken",
                            !.todo = found \cup A,
                            !.clean = @ /\ good /\ same])
      BY <2>2 DEF Inspect
    <3>2. PICK fine : fine = (op[o].clean /\ good /\ same) OBVIOUS
    <3>3. op' = [op EXCEPT ![o] = [op[o] EXCEPT !.pc = "broken",
                                !.todo = found \cup A, !.clean = fine]]
      BY <3>1, <3>2 DEF Become
    <3>4. found \subseteq found \cup A OBVIOUS
    <3> QED BY <3>2, <3>3, <3>4, Zenon
  <2>4. /\ OthersStay(o) /\ op'[o].pc = "broken" /\ op'[o].todo = B
        /\ op'[o].clean = fine
    BY <1>1, <2>3 DEF Locals, OthersStay, Requests
  <2>5. fine => op[o].clean /\ Tidy(o)'
    BY <1>3, <1>4, <2>1, <2>2, <2>3, <2>4
       DEF Tidy, RecoverySteps, CreateSteps
  <2> QED BY <1>5, <2>4, <2>5 DEF RecoverySteps
<1>11. CASE RemoveBroken(o)
  <2>1. op[o].pc = "broken" /\ retC' = retC
    BY <1>11 DEF RemoveBroken, database
  <2>2. op[o].clean => retC = {} /\ Incomplete \subseteq op[o].todo
    BY <1>4, <2>1 DEF Tidy, RecoverySteps, BrokenSteps
  <2>3. ASSUME NEW i, op' = [op EXCEPT ![o] = [op[o] EXCEPT
                               !.pc = "brokennet", !.inst = i]]
        PROVE  OthersStay(o) /\ Settled(o)'
    <3>1. /\ OthersStay(o) /\ op'[o].pc = "brokennet"
          /\ op'[o].todo = op[o].todo /\ op'[o].clean = op[o].clean
      BY <1>1, <2>3 DEF Locals, OthersStay, Requests
    <3>2. op[o].clean => Tidy(o)'
      BY <1>3, <2>1, <2>2, <3>1 DEF Tidy, CreateSteps
    <3> QED BY <1>5, <3>1, <3>2 DEF RecoverySteps
  <2>4. CASE op[o].todo = {} /\ Goto(o, "restore")
    BY <1>7, <2>1, <2>2, <2>4 DEF RecoverySteps, BrokenSteps
  <2> QED BY <1>6, <1>11, <2>3, <2>4 DEF RemoveBroken, Become
<1>12. CASE BrokenNetwork(o) \/ RetireBrokenNetwork(o)
  <2>1. op[o].pc \in {"brokennet", "brokenret"} /\ retC' = retC
    BY <1>12 DEF BrokenNetwork, RetireBrokenNetwork, database
  <2>2. op[o].clean => retC = {} /\ Incomplete \subseteq op[o].todo
    BY <1>4, <2>1 DEF Tidy, RecoverySteps, BrokenSteps
  <2>3. CASE \E p \in {"brokenrow", "brokenret"} : Goto(o, p)
    BY <1>7, <2>1, <2>2, <2>3 DEF RecoverySteps, BrokenSteps
  <2>4. CASE SkipBroken(o)
    <3>1. OthersStay(o) /\ op'[o].pc = "broken" /\ ~op'[o].clean
      BY <1>1, <2>4, SkipFields
    <3> QED BY <1>5, <3>1 DEF RecoverySteps
  <2> QED BY <1>12, <2>3, <2>4 DEF BrokenNetwork, RetireBrokenNetwork
<1> QED BY <1>8, <1>9, <1>10, <1>11, <1>12

\* The row of a broken instance goes with its containers'; the others keep
\* theirs.
LEMMA BrokenRowSettles ==
  ASSUME IndInv, TrackInv, SettleInv, NEW o \in Ops, BrokenRow(o)
  PROVE  OthersStay(o) /\ Settled(o)'
<1>1. /\ Locals /\ Stores /\ Sound(op[o]) /\ op[o] \in Requests
      /\ Settled(o) /\ Held(o)
  BY Before DEF SettleInv
<1>2. op[o].pc = "brokenrow" /\ retC' = retC /\ op[o].inst \in Ids
  BY <1>1 DEF BrokenRow, Sound, InstanceSteps
<1>3. CASE SkipBroken(o)
  BY <1>1, <1>3, SkipFields DEF Settled, RollbackSteps
<1>4. CASE ~SkipBroken(o)
  <2>1. PICK B : op' = [op EXCEPT ![o] = [op[o] EXCEPT
           !.pc = "broken", !.todo = @ \ {op[o].inst}, !.inst = 0,
           !.restore = B]]
    BY <1>4 DEF BrokenRow, Become
  <2>2. /\ OthersStay(o) /\ op'[o].pc = "broken"
        /\ op'[o].todo = op[o].todo \ {op[o].inst}
        /\ op'[o].kind = op[o].kind /\ op'[o].clean = op[o].clean
    BY <1>1, <2>1 DEF Locals, OthersStay, Requests
  <2>3. DeleteInstance(op[o].inst) BY <1>4 DEF BrokenRow
  <2>4. row'[op[o].inst] = None
    BY <1>1, <1>2, <2>3 DEF DeleteInstance, Stores
  <2>5. ASSUME NEW i \in Ids, i # op[o].inst
        PROVE  /\ row'[i] = row[i]
               /\ {c \in Containers : owner'[c] = i}
                    = {c \in Containers : owner[c] = i}
    <3>1. i # 0 BY DEF Ids
    <3> QED BY <1>1, <2>3, <2>5, <3>1 DEF DeleteInstance, Stores
  <2>6. Incomplete' \subseteq Incomplete \ {op[o].inst}
    BY <2>4, <2>5 DEF Incomplete, Rows, ContainersOf
  <2>7. op[o].kind = "recover" /\ op[o].clean
          => retC = {} /\ Incomplete \subseteq op[o].todo
    BY <1>1, <1>2 DEF Settled, Tidy, RecoverySteps, BrokenSteps
  <2>8. Settled(o)'
    BY <1>2, <2>2, <2>6, <2>7
       DEF Settled, Tidy, RecoverySteps, CreateSteps, RollbackSteps
  <2> QED BY <2>2, <2>8
<1> QED BY <1>3, <1>4

\* The only instance that is incomplete while recovery creates one is that.
LEMMA OpenIncomplete ==
  ASSUME NEW o \in Ops, NEW b, NEW q, Open(o, b, q), Stores, owner' = owner
  PROVE  Incomplete' \subseteq Incomplete \cup {NextId}
<1>1. \A i \in Ids : i # NextId => row'[i] = row[i]
  BY DEF Open, Stores
<1> HIDE DEF NextId
<1> QED BY <1>1 DEF Incomplete, Rows, ContainersOf

\* Recovery opens an instance, is done with a build, or ends.
LEMMA RestoreSettles ==
  ASSUME IndInv, TrackInv, SettleInv, NEW o \in Ops, Restore(o)
  PROVE  OthersStay(o) /\ Settled(o)'
<1>1. /\ Locals /\ Stores /\ Sound(op[o]) /\ op[o] \in Requests
      /\ Settled(o) /\ Held(o)
  BY Before DEF SettleInv
<1>2. op[o].pc = "restore" /\ UNCHANGED <<owner, retC>>
  BY DEF Restore
<1>3. op[o].kind = "recover" BY <1>1, <1>2 DEF Held, RecoverySteps
<1>4. op[o].clean => retC = {} /\ Incomplete = {}
  BY <1>1, <1>2, <1>3 DEF Settled, Tidy, RecoverySteps
<1>5. CASE Finish(o) BY <1>1, <1>5, FinishFields DEF Settled, Idle
<1>6. CASE \E b \in Builds : Open(o, b, op[o])
  <2>0. PICK q : q = op[o] OBVIOUS
  <2>1. PICK b \in Builds : q \in Requests /\ q = op[o] /\ Open(o, b, q)
    BY <1>1, <1>6, <2>0
  <2>2. /\ OthersStay(o) /\ op'[o].pc = "net" /\ op'[o].cs = {}
        /\ op'[o].inst = NextId /\ op'[o].clean = q.clean
    <3>1. op' = [op EXCEPT ![o] = [q EXCEPT
                         !.pc = "net", !.build = b, !.inst = NextId,
                         !.cs = {}, !.todo = {}, !.left = {}, !.ok = TRUE]]
      BY <2>1 DEF Open, Become
    <3> HIDE DEF NextId
    <3> QED BY <1>1, <2>1, <3>1 DEF Locals, OthersStay, Requests
  <2>3. Incomplete' \subseteq Incomplete \cup {NextId}
    BY <1>1, <1>2, <2>1, OpenIncomplete
  <2>4. op[o].clean => Tidy(o)'
    BY <1>2, <1>4, <2>2, <2>3
       DEF Tidy, RecoverySteps, BrokenSteps, CreateSteps
  <2>5. Settled(o)' BY <2>1, <2>2, <2>4 DEF Settled, RollbackSteps
  <2> QED BY <2>2, <2>5
<1>7. ASSUME OthersStay(o), op'[o].pc = "restore", row' = row,
             op'[o].clean => op[o].clean
      PROVE  OthersStay(o) /\ Settled(o)'
  <2>1. Incomplete' = Incomplete BY <1>2, <1>7, IncompleteStays
  <2> QED BY <1>2, <1>4, <1>7, <2>1
          DEF Settled, Tidy, RollbackSteps, BrokenSteps, CreateSteps
<1>8. CASE row' = row /\ \E b : op' = [op EXCEPT ![o] = [op[o] EXCEPT
                                                   !.restore = @ \ {b}]]
  BY <1>1, <1>2, <1>7, <1>8 DEF Locals, OthersStay, Requests
<1>9. CASE row' = row /\ \E b : op' = [op EXCEPT ![o] = [op[o] EXCEPT
                                   !.restore = @ \ {b}, !.clean = FALSE]]
  BY <1>1, <1>2, <1>7, <1>9 DEF Locals, OthersStay, Requests
<1>10. op[o].restore \subseteq Builds BY <1>1 DEF Requests
<1> QED BY <1>5, <1>6, <1>8, <1>9, <1>10 DEF Restore, Become

\* The beginnings of requests, and a process that dies.
LEMMA BeginningSettles ==
  ASSUME IndInv, TrackInv, SettleInv, NEW o \in Ops,
         \/ \E b \in Builds : Start(o, b)
         \/ \E i \in Ids : Stop(o, i)
         \/ Recover(o)
         \/ Crash(o)
  PROVE  OthersStay(o) /\ Settled(o)'
<1>1. Locals /\ Stores BY Before
<1>2. ASSUME NEW b \in Builds, Start(o, b)
      PROVE  OthersStay(o) /\ Settled(o)'
  <2>1. PICK q : q = [Idle EXCEPT !.kind = "start"] OBVIOUS
  <2>2. q \in Requests /\ q.kind = "start" BY <2>1, IdleTyped DEF Requests
  <2>3. Open(o, b, q) BY <1>2, <2>1 DEF Start
  <2>4. OthersStay(o) /\ op'[o].kind = "start" /\ op'[o].pc = "net"
    BY <1>1, <2>2, <2>3, OpenFields
  <2> QED BY <2>4 DEF Settled
<1>3. ASSUME NEW i \in Ids, Stop(o, i)
      PROVE  OthersStay(o) /\ Settled(o)'
  <2>1. OthersStay(o) /\ op'[o].kind = "stop" /\ op'[o].pc = "remove"
    BY <1>1, <1>3 DEF Stop, Become, Locals, OthersStay, Idle
  <2> QED BY <2>1 DEF Settled
<1>4. ASSUME Recover(o) PROVE OthersStay(o) /\ Settled(o)'
  <2>1. retC' = retC BY <1>4 DEF Recover, database
  <2>2. /\ OthersStay(o) /\ op'[o].pc = "retired"
        /\ op'[o].clean => op'[o].todo = retC
    <3> DEFINE r == [Idle EXCEPT !.kind = "recover", !.pc = "retired"]
    <3>1. CASE op' = [op EXCEPT ![o] = [r EXCEPT !.todo = retC]]
      BY <1>1, <3>1 DEF Locals, OthersStay, Idle
    <3>2. CASE op' = [op EXCEPT ![o] = [r EXCEPT !.clean = FALSE]]
      BY <1>1, <3>2 DEF Locals, OthersStay, Idle
    <3> QED BY <1>4, <3>1, <3>2 DEF Recover, Become
  <2> QED BY <2>1, <2>2 DEF Settled, Tidy, RollbackSteps, BrokenSteps,
                            CreateSteps
<1>5. ASSUME Crash(o) PROVE OthersStay(o) /\ Settled(o)'
  BY <1>1, <1>5, FinishFields DEF Crash, Settled, Idle
<1> QED BY <1>2, <1>3, <1>4, <1>5

\* Every step of a request leaves the others alone and is settled.
LEMMA RequestSettles ==
  ASSUME IndInv, TrackInv, SettleInv, NEW o \in Ops,
         \/ \E b \in Builds : Start(o, b)
         \/ \E i \in Ids : Stop(o, i)
         \/ Recover(o)
         \/ Step(o)
         \/ Crash(o)
  PROVE  OthersStay(o) /\ Settled(o)'
<1>1. CASE Step(o)
  BY <1>1, CreatingSettles, FinalizeSettles, EndingSettles, StoppingSettles,
     RecoveringSettles, BrokenRowSettles, RestoreSettles DEF Step
<1> QED BY <1>1, BeginningSettles

\* Every step keeps recoveries tidy.
LEMMA StepSettles ==
  ASSUME IndInv, TrackInv, SettleInv, [Next]_vars PROVE SettleInv'
<1>1. CASE UNCHANGED <<row, owner, retC, op>>
  <2>1. Incomplete' = Incomplete BY <1>1, IncompleteStays
  <2> QED BY <1>1, <2>1 DEF SettleInv, Settled, Tidy
<1>2. ASSUME NEW c \in Containers, Lose(c) \/ Exit(c)
      PROVE  UNCHANGED <<row, owner, retC, op>>
  BY <1>2 DEF Lose, Exit, database
<1> QED BY <1>1, <1>2, RequestSettles, OthersSettled DEF Next, vars, database

\* A recovery ends at its last step or with its process, and neither touches
\* the stores.
LEMMA EndTouchesNothing ==
  ASSUME IndInv, TrackInv, SettleInv, [Next]_vars, NEW o \in Ops, CleanEnd(o)
  PROVE  UNCHANGED <<row, owner, retC>>
<1>1. /\ op[o].pc = "restore" /\ op'[o].pc = "idle" /\ Locals
      /\ op[o] \in Requests
  BY Before DEF CleanEnd
<1>2. CASE Crash(o) BY <1>2 DEF Crash, database
<1>3. CASE Step(o)
  <2>1. Restore(o)
    BY <1>1, <1>3 DEF Step, CreateNetwork, AcquirePortLock, PortLockFails,
       CreateContainer, RetirePending, StartContainer, FinalizeInstance,
       CleanupContainer, ReleasePortLock, RemoveContainer, ForgetContainer,
       RemovePorts, StopNetwork, RetireRemaining, RollbackNetwork,
       RetireNetwork, DeleteRow, RemoveRetiredContainer,
       RemoveRetiredNetwork, Scan, RemoveBroken, BrokenNetwork,
       RetireBrokenNetwork, BrokenRow
  <2> QED BY <2>1 DEF CleanEnd, Restore
<1>4. ASSUME NEW u \in Ops, u # o,
             \/ \E b \in Builds : Start(u, b)
             \/ \E i \in Ids : Stop(u, i)
             \/ Recover(u)
             \/ Step(u)
             \/ Crash(u)
      PROVE  FALSE
  <2>1. OthersStay(u) BY <1>4, RequestSettles
  <2> QED BY <1>1, <1>4, <2>1 DEF OthersStay
<1>5. ASSUME NEW c \in Containers, Lose(c) \/ Exit(c) PROVE FALSE
  BY <1>1, <1>5 DEF Lose, Exit
<1>6. op' # op BY <1>1
<1>7. ~\E b \in Builds : Start(o, b) BY <1>1 DEF Start
<1>8. ~\E i \in Ids : Stop(o, i) BY <1>1 DEF Stop
<1>9. ~Recover(o) BY <1>1 DEF Recover
<1> QED BY <1>2, <1>3, <1>4, <1>5, <1>6, <1>7, <1>8, <1>9 DEF Next, vars

\* A recovery that reports no error leaves nothing half done: no retired
\* container, no incomplete instance, and no container that ran and belongs
\* to none, whatever failed or died before it and whatever containers are
\* lost or stop during it.
THEOREM RecoverySettlesAlways == ~Overlap => (Spec => RecoverySettles)
<1> SUFFICES ASSUME ~Overlap PROVE Spec => RecoverySettles
  OBVIOUS
<1>1. ASSUME Init PROVE SettleInv
  <2>1. \A o \in Ops : op[o] = Idle BY <1>1 DEF Init
  <2> QED BY <2>1 DEF SettleInv, Settled, Idle
<1>2. IndInv /\ TrackInv /\ SettleInv /\ [Next]_vars => SettleInv'
  BY StepSettles
<1>3. ASSUME IndInv, TrackInv, SettleInv, [Next]_vars
      PROVE  \A o \in Ops : CleanEnd(o) =>
               /\ retC' = {} /\ Incomplete' = {}
               /\ \A c \in Containers :
                    state'[c] \in {"running", "exited"} => owner'[c] # 0
  <2> SUFFICES ASSUME NEW o \in Ops, CleanEnd(o)
               PROVE  /\ retC' = {} /\ Incomplete' = {}
                      /\ \A c \in Containers :
                           state'[c] \in {"running", "exited"}
                             => owner'[c] # 0
    OBVIOUS
  <2>1. UNCHANGED <<row, owner, retC>> BY <1>3, EndTouchesNothing
  <2>2. Settled(o) /\ Held(o) BY <1>3 DEF SettleInv, TrackInv
  <2>3. retC = {} /\ Incomplete = {}
    BY <2>2 DEF CleanEnd, Settled, Tidy, Held, RecoverySteps
  <2>4. Incomplete' = Incomplete BY <2>1, IncompleteStays
  <2>5. Recorded' BY <1>3, StepTracks DEF TrackInv
  <2> QED BY <2>1, <2>3, <2>4, <2>5 DEF Recorded
<1>4. IndInv /\ TrackInv /\ SettleInv /\ [Next]_vars =>
        [\A o \in Ops : CleanEnd(o) =>
           /\ retC' = {} /\ Incomplete' = {}
           /\ \A c \in Containers :
                state'[c] \in {"running", "exited"} => owner'[c] # 0]_vars
  BY <1>3
<1> QED BY <1>1, <1>2, <1>4, TracksAlways, PTL DEF Spec, RecoverySettles
-----------------------------------------------------------------------------
(* The ledger                                                              *)

\* The containers of a newInstance that has not committed are recorded as
\* retired, but for the one it has just created.
Logged(o) ==
  LET r == op[o] IN
  /\ r.pc \in CreateSteps \ {"retire"} => r.cs \subseteq retC
  /\ r.pc = "retire" => r.cs \ r.todo \subseteq retC

LogInv == \A o \in Ops : Logged(o)

\* A container leaves the retired ones with the request that has it, or in a
\* recovery.
Retained(o) ==
  \A c \in retC : c \in retC' \/ c \in op[o].cs \/ hold[o] = "exclusive"

\* How a step treats one container in the two stores.
Ledgered ==
  \A c \in Containers :
    /\ \/ state'[c] = state[c]
       \/ state'[c] = "none"
       \/ state[c] = "none" /\ state'[c] = "created" /\ c \in Fresh
       \/ state[c] \in {"created", "exited"} /\ state'[c] = "running"
       \/ state[c] = "running" /\ state'[c] = "exited"
    /\ c \in retC' => c \in retC \/ UNCHANGED <<owner, state>>
    /\ owner'[c] # owner[c] =>
         \/ owner'[c] = 0
         \/ owner[c] = 0 /\ c \in retC /\ state' = state

\* A step that leaves the records alone, and one that leaves both alone.
LEMMA RecordsStay ==
  ASSUME NEW o \in Ops, UNCHANGED <<owner, retC>>
  PROVE  /\ Retained(o)
         /\ state' = state => Ledgered
  BY DEF Retained, Ledgered

\* The steps that begin or end a request, and those that only touch networks,
\* ports, locks and rows without containers.
LEMMA StillLedgered ==
  ASSUME NEW o \in Ops,
         \/ CreateNetwork(o) \/ AcquirePortLock(o) \/ PortLockFails(o)
         \/ ReleasePortLock(o) \/ RemovePorts(o) \/ StopNetwork(o)
         \/ RollbackNetwork(o) \/ RetireNetwork(o)
         \/ RemoveRetiredNetwork(o) \/ BrokenNetwork(o)
         \/ RetireBrokenNetwork(o) \/ Restore(o)
         \/ \E b \in Builds : Start(o, b)
         \/ \E i \in Ids : Stop(o, i)
         \/ Recover(o) \/ Crash(o)
  PROVE  Retained(o) /\ Ledgered
<1>1. UNCHANGED <<owner, retC, state>>
  BY DEF CreateNetwork, AcquirePortLock, PortLockFails, ReleasePortLock,
         RemovePorts, StopNetwork, RollbackNetwork, RetireNetwork,
         RemoveRetiredNetwork, BrokenNetwork, RetireBrokenNetwork, Restore,
         Start, Stop, Recover, Crash, database, docker, containers
<1> QED BY <1>1, RecordsStay

\* A container that nobody mentions is created.
LEMMA CreateLedgered ==
  ASSUME IndInv, NEW o \in Ops, CreateContainer(o)
  PROVE  Retained(o) /\ Ledgered
<1>1. UNCHANGED <<owner, retC>> BY DEF CreateContainer, database
<1>2. Pick(Fresh) \in Fresh BY PickIn DEF CreateContainer
<1>3. Stores BY DEF IndInv
<1>4. \/ state' = state
      \/ state' = [state EXCEPT ![Pick(Fresh)] = "created"]
  BY DEF CreateContainer, containers
<1>5. \A c \in Fresh : state[c] = "none" BY DEF Fresh, Exists
<1>6. \A c \in Containers :
        \/ state'[c] = state[c]
        \/ state[c] = "none" /\ state'[c] = "created" /\ c \in Fresh
  BY <1>2, <1>3, <1>4, <1>5 DEF Stores
<1>7. Ledgered BY <1>1, <1>6 DEF Ledgered
<1> QED BY <1>1, <1>7, RecordsStay

\* It is recorded, or what could not be removed stays recorded.
LEMMA RetireLedgered ==
  ASSUME NEW o \in Ops, RetirePending(o) \/ RetireRemaining(o)
  PROVE  Retained(o) /\ Ledgered
<1>1. UNCHANGED <<owner, state>> /\ retC \subseteq retC'
  BY DEF RetirePending, RetireRemaining, docker, containers
<1> QED BY <1>1 DEF Retained, Ledgered

\* It is started.
LEMMA StartLedgered ==
  ASSUME IndInv, NEW o \in Ops, StartContainer(o)
  PROVE  Retained(o) /\ Ledgered
<1>1. UNCHANGED <<owner, retC>> BY DEF StartContainer, database
<1>2. PICK c : c = Pick(op[o].todo) OBVIOUS
<1>3. \/ state' = state
      \/ /\ state[c] \in {"created", "exited"}
         /\ state' = [state EXCEPT ![c] = "running"]
  BY <1>2 DEF StartContainer, CanStart
<1>4. Stores BY DEF IndInv
<1>5. Ledgered BY <1>1, <1>3, <1>4 DEF Ledgered, Stores
<1> QED BY <1>1, <1>5, RecordsStay

\* The commit takes containers from the retired ones.
LEMMA FinalizeLedgered ==
  ASSUME IndInv, TrackInv, LogInv, NEW o \in Ops, FinalizeInstance(o)
  PROVE  Retained(o) /\ Ledgered
<1>1. /\ Stores /\ Faithful(o) /\ Logged(o) /\ op[o] \in Requests
  BY Before DEF LogInv
<1>2. op[o].pc = "finalize" /\ state' = state
  BY DEF FinalizeInstance, docker, containers
<1>3. CASE UNCHANGED <<owner, retC>> BY <1>2, <1>3, RecordsStay
<1>4. CASE ~UNCHANGED <<owner, retC>>
  <2>1. /\ retC' = retC \ op[o].cs
        /\ owner' = [c \in Containers |->
                       IF c \in op[o].cs THEN op[o].inst ELSE owner[c]]
    BY <1>4 DEF FinalizeInstance
  <2>2. op[o].cs \subseteq retC BY <1>1, <1>2 DEF Logged, CreateSteps
  <2>3. \A c \in op[o].cs : owner[c] # 0 => owner[c] = op[o].inst
    BY <1>1 DEF Faithful
  <2>4. \A c \in Containers : owner'[c] # owner[c] =>
          owner[c] = 0 /\ c \in retC
    BY <2>1, <2>2, <2>3
  <2>5. Ledgered BY <1>2, <2>1, <2>4 DEF Ledgered
  <2>6. Retained(o) BY <2>1 DEF Retained
  <2> QED BY <2>5, <2>6
<1> QED BY <1>3, <1>4

\* The containers that a removal concerns disappear or stay as they are.
LEMMA DiscardStates ==
  ASSUME NEW gone, Discard(gone)
  PROVE  \A c \in Containers : state'[c] \in {state[c], "none"}
  BY DEF Discard

\* A step that removes containers and marks.
LEMMA RemovingLedgered ==
  ASSUME retC' \subseteq retC,
         \A c \in Containers : state'[c] \in {state[c], "none"},
         \A c \in Containers : owner'[c] \in {owner[c], 0}
  PROVE  Ledgered
  BY DEF Ledgered

\* Containers are removed from Docker and from the records.
LEMMA RemoveLedgered ==
  ASSUME IndInv, TrackInv, NEW o \in Ops,
         \/ CleanupContainer(o) \/ RemoveContainer(o) \/ ForgetContainer(o)
         \/ RemoveRetiredContainer(o) \/ RemoveBroken(o)
         \/ DeleteRow(o) \/ BrokenRow(o)
  PROVE  Retained(o) /\ Ledgered
<1>1. /\ Stores /\ Faithful(o) /\ op[o] \in Requests /\ Sound(op[o])
      /\ Held(o)
  BY Before
<1>2. CASE CleanupContainer(o)
  <2>1. op[o].pc = "cleanup" /\ owner' = owner
    BY <1>2 DEF CleanupContainer
  <2>2. \/ retC' = retC \/ \E c \in op[o].todo : retC' = retC \ {c}
    BY <1>2 DEF CleanupContainer
  <2>3. op[o].todo \subseteq op[o].cs BY <1>1, <2>1 DEF Faithful
  <2>4. (\E gone : Discard(gone)) \/ state' = state
    BY <1>2 DEF CleanupContainer, containers
  <2>5. \A c \in Containers : state'[c] \in {state[c], "none"}
    BY <2>4, DiscardStates
  <2>6. Retained(o) BY <2>2, <2>3 DEF Retained
  <2> QED BY <2>1, <2>2, <2>5, <2>6, RemovingLedgered
<1>3. CASE RemoveContainer(o)
  <2>1. UNCHANGED <<owner, retC>> BY <1>3 DEF RemoveContainer, database
  <2>2. (\E gone : Discard(gone)) \/ state' = state
    BY <1>3 DEF RemoveContainer, containers
  <2>3. \A c \in Containers : state'[c] \in {state[c], "none"}
    BY <2>2, DiscardStates
  <2> QED BY <2>1, <2>3, RecordsStay, RemovingLedgered
<1>4. CASE ForgetContainer(o)
  <2>1. PICK c : c = Pick(op[o].todo) OBVIOUS
  <2>2. op[o].pc = "forget" /\ state' = state
    BY <1>4 DEF ForgetContainer, docker, containers
  <2>3. c \in op[o].cs BY <1>1, <2>1, <2>2, PickIn DEF Sound
  <2>4. retC' = retC \/ retC' = retC \ {c}
    BY <1>4, <2>1 DEF ForgetContainer
  <2>5. \/ owner' = owner
        \/ owner' = [owner EXCEPT ![c] = IF @ = op[o].inst THEN 0 ELSE @]
    BY <1>4, <2>1 DEF ForgetContainer
  <2>6. \A d \in Containers : owner'[d] \in {owner[d], 0}
    BY <1>1, <2>5 DEF Stores
  <2>7. Retained(o) BY <2>3, <2>4 DEF Retained
  <2> QED BY <2>2, <2>4, <2>6, <2>7, RemovingLedgered
<1>5. CASE RemoveRetiredContainer(o)
  <2>1. op[o].pc = "retired" /\ owner' = owner
    BY <1>5 DEF RemoveRetiredContainer
  <2>2. hold[o] = "exclusive" BY <1>1, <2>1 DEF Held, RecoverySteps
  <2>3. retC' \subseteq retC BY <1>5 DEF RemoveRetiredContainer
  <2>4. (\E gone : Discard(gone)) \/ state' = state
    BY <1>5 DEF RemoveRetiredContainer, containers
  <2>5. \A c \in Containers : state'[c] \in {state[c], "none"}
    BY <2>4, DiscardStates
  <2>6. Retained(o) BY <2>2 DEF Retained
  <2> QED BY <2>1, <2>3, <2>5, <2>6, RemovingLedgered
<1>6. CASE RemoveBroken(o)
  <2>1. UNCHANGED <<owner, retC>> BY <1>6 DEF RemoveBroken, database
  <2>2. (\E gone : Discard(gone)) \/ state' = state
    BY <1>6 DEF RemoveBroken, containers
  <2>3. \A c \in Containers : state'[c] \in {state[c], "none"}
    BY <2>2, DiscardStates
  <2> QED BY <2>1, <2>3, RecordsStay, RemovingLedgered
<1>7. CASE DeleteRow(o) \/ BrokenRow(o)
  <2>1. UNCHANGED <<retC, state>>
    BY <1>7 DEF DeleteRow, BrokenRow, docker, containers
  <2>2. owner' = owner \/ DeleteInstance(op[o].inst)
    BY <1>7 DEF DeleteRow, BrokenRow
  <2>3. \A c \in Containers : owner'[c] \in {owner[c], 0}
    BY <2>2 DEF DeleteInstance
  <2>4. Retained(o) BY <2>1 DEF Retained
  <2> QED BY <2>1, <2>3, <2>4, RemovingLedgered
<1> QED BY <1>2, <1>3, <1>4, <1>5, <1>6, <1>7

\* Recovery starts stopped containers again.
LEMMA ScanLedgered ==
  ASSUME IndInv, NEW o \in Ops, Scan(o)
  PROVE  Retained(o) /\ Ledgered
<1>1. UNCHANGED <<owner, retC>> BY DEF Scan, database
<1>2. PICK found, seen, good : Inspect(o, found, seen, good) BY DEF Scan
<1>3. \A c \in Containers : \/ state'[c] = state[c]
                            \/ state[c] = "exited" /\ state'[c] = "running"
  BY <1>2 DEF Inspect
<1>4. Ledgered BY <1>1, <1>3 DEF Ledgered
<1> QED BY <1>1, <1>4, RecordsStay

\* Every step of a request treats each container that way.
LEMMA RequestLedgered ==
  ASSUME IndInv, TrackInv, LogInv, NEW o \in Ops,
         \/ \E b \in Builds : Start(o, b)
         \/ \E i \in Ids : Stop(o, i)
         \/ Recover(o)
         \/ Step(o)
         \/ Crash(o)
  PROVE  Retained(o) /\ Ledgered
<1>1. CASE Step(o)
  BY <1>1, StillLedgered, CreateLedgered, RetireLedgered, StartLedgered,
     FinalizeLedgered, RemoveLedgered, ScanLedgered DEF Step
<1> QED BY <1>1, StillLedgered

\* So does what happens behind cmgr's back.
LEMMA LossLedgered ==
  ASSUME IndInv, NEW d \in Containers, Lose(d) \/ Exit(d)
  PROVE  Ledgered /\ UNCHANGED <<op, retC>>
<1>1. UNCHANGED <<owner, retC, op>> BY DEF Lose, Exit, database
<1>2. \A c \in Containers :
        \/ state'[c] \in {state[c], "none"}
        \/ state[c] = "running" /\ state'[c] = "exited"
  BY DEF Lose, Exit, IndInv, Stores
<1> QED BY <1>1, <1>2 DEF Ledgered

\* A request that is not about to commit has nothing to show.
LEMMA Elsewhere ==
  ASSUME NEW o \in Ops, op'[o].pc \notin CreateSteps \/ op'[o].cs = {}
  PROVE  Logged(o)'
  BY DEF Logged, CreateSteps

\* These steps lead outside newInstance, or to its end.
LEMMA Leaves ==
  ASSUME IndInv, TrackInv, NEW o \in Ops,
         \/ Rollback(o) \/ Abort(o) \/ Finish(o) \/ SkipBroken(o)
         \/ \E p : Goto(o, p) /\ p \notin CreateSteps
         \/ \E failed : AfterStop(o, failed)
         \/ op[o].kind # "start" /\ NewInstanceDone(o)
  PROVE  op'[o].pc \notin CreateSteps
<1>1. Locals /\ Stores BY Before
<1>2. CASE Rollback(o) \/ Abort(o)
  BY <1>1, <1>2, RollbackFields, CleanupFields DEF Abort, CreateSteps
<1>3. CASE Finish(o) BY <1>1, <1>3, FinishFields DEF Idle, CreateSteps
<1>4. CASE SkipBroken(o) BY <1>1, <1>4, SkipFields DEF CreateSteps
<1>5. CASE \E p : Goto(o, p) /\ p \notin CreateSteps
  BY <1>1, <1>5, GotoFields
<1>6. ASSUME NEW failed, AfterStop(o, failed)
      PROVE  op'[o].pc \notin CreateSteps
  <2>1. CASE op[o].kind # "stop"
    BY <1>1, <1>6, <2>1, RetainFields DEF CreateSteps
  <2>2. CASE Finish(o) BY <1>3, <2>2
  <2>3. CASE Goto(o, "stopnet")
    BY <1>1, <2>3, GotoFields DEF CreateSteps
  <2> QED BY <1>6, <2>1, <2>2, <2>3 DEF AfterStop
<1>7. CASE op[o].kind # "start" /\ NewInstanceDone(o)
  BY <1>1, <1>7, DoneFields DEF CreateSteps
<1> QED BY <1>2, <1>3, <1>4, <1>5, <1>6, <1>7

\* The steps of newInstance up to the commit record what they create.
LEMMA CreatingLogged ==
  ASSUME IndInv, TrackInv, LogInv, NEW o \in Ops,
         \/ CreateNetwork(o) \/ AcquirePortLock(o) \/ PortLockFails(o)
         \/ CreateContainer(o) \/ RetirePending(o) \/ StartContainer(o)
  PROVE  Logged(o)'
<1>1. /\ Locals /\ Stores /\ Sound(op[o]) /\ op[o] \in Requests /\ Logged(o)
  BY Before DEF LogInv
<1>2. CASE Rollback(o) \/ Abort(o) BY <1>2, Leaves, Elsewhere
<1>3. ASSUME NEW p \in CreateSteps \ {"retire"}, Goto(o, p),
             op[o].pc \in CreateSteps,
             \/ op[o].pc # "retire" /\ retC' = retC
             \/ op[o].pc = "retire" /\ retC' = retC \cup op[o].todo
      PROVE  Logged(o)'
  <2>1. op'[o].pc = p /\ op'[o].cs = op[o].cs
    BY <1>1, <1>3, GotoFields
  <2>2. op[o].cs \subseteq retC' BY <1>1, <1>3 DEF Logged
  <2> QED BY <1>3, <2>1, <2>2 DEF Logged
<1>4. CASE CreateNetwork(o)
  BY <1>2, <1>3, <1>4 DEF CreateNetwork, database, CreateSteps
<1>5. CASE AcquirePortLock(o)
  BY <1>3, <1>5 DEF AcquirePortLock, database, CreateSteps
<1>6. CASE PortLockFails(o) BY <1>2, <1>6 DEF PortLockFails
<1>7. CASE RetirePending(o)
  BY <1>2, <1>3, <1>7 DEF RetirePending, CreateSteps
<1>8. CASE StartContainer(o)
  BY <1>2, <1>3, <1>8 DEF StartContainer, database, CreateSteps
<1>9. CASE CreateContainer(o) /\ ~Abort(o)
  <2>1. PICK c : op' = [op EXCEPT ![o] = [op[o] EXCEPT
                          !.pc = "retire", !.cs = @ \cup {c}, !.todo = {c}]]
    BY <1>9 DEF CreateContainer, Become
  <2>2. /\ op'[o].pc = "retire" /\ op'[o].cs = op[o].cs \cup {c}
        /\ op'[o].todo = {c}
    BY <1>1, <2>1 DEF Locals, Requests
  <2>3. retC' = retC /\ op[o].pc = "create"
    BY <1>9 DEF CreateContainer, database
  <2>4. op[o].cs \subseteq retC BY <1>1, <2>3 DEF Logged, CreateSteps
  <2> QED BY <2>2, <2>3, <2>4 DEF Logged
<1> QED BY <1>2, <1>4, <1>5, <1>6, <1>7, <1>8, <1>9

\* The other steps of newInstance and stopContainers.
LEMMA StoppingLogged ==
  ASSUME IndInv, TrackInv, NEW o \in Ops,
         \/ FinalizeInstance(o) \/ CleanupContainer(o) \/ ReleasePortLock(o)
         \/ RemoveContainer(o) \/ ForgetContainer(o) \/ RemovePorts(o)
         \/ StopNetwork(o) \/ RetireRemaining(o) \/ RollbackNetwork(o)
         \/ RetireNetwork(o) \/ DeleteRow(o)
  PROVE  op'[o].pc \notin CreateSteps
<1>1. Locals /\ op[o] \in Requests BY Before
<1>2. CASE FinalizeInstance(o)
  <2>1. CASE Goto(o, "unlock") BY <2>1, Leaves DEF CreateSteps
  <2>2. CASE Abort(o) BY <2>2, Leaves
  <2> QED BY <1>2, <2>1, <2>2 DEF FinalizeInstance
<1>3. CASE CleanupContainer(o)
  <2>1. op[o].pc = "cleanup" BY <1>3 DEF CleanupContainer
  <2>2. CASE \E T : op' = [op EXCEPT ![o] = [op[o] EXCEPT !.todo = T]]
    BY <1>1, <2>1, <2>2 DEF Locals, Requests, CreateSteps
  <2>3. CASE Goto(o, "unlock") BY <2>3, Leaves DEF CreateSteps
  <2> QED BY <1>3, <2>2, <2>3 DEF CleanupContainer, Become
<1>4. CASE ReleasePortLock(o)
  BY <1>4, Leaves DEF ReleasePortLock, NewInstanceDone
<1>5. CASE RemoveContainer(o)
  <2>1. op[o].pc = "remove" BY <1>5 DEF RemoveContainer
  <2>2. CASE \E T, L : op' = [op EXCEPT ![o] = [op[o] EXCEPT
                                                 !.todo = T, !.left = L]]
    BY <1>1, <2>1, <2>2 DEF Locals, Requests, CreateSteps
  <2>3. CASE Goto(o, "forget") \/ Goto(o, "ports")
    BY <2>3, Leaves DEF CreateSteps
  <2>4. CASE AfterStop(o, TRUE) BY <2>4, Leaves
  <2> QED BY <1>5, <2>2, <2>3, <2>4 DEF RemoveContainer, Become
<1>6. CASE ForgetContainer(o)
  <2>1. CASE \E T : op' = [op EXCEPT ![o] = [op[o] EXCEPT
                                               !.pc = "remove", !.todo = T]]
    BY <1>1, <2>1 DEF Locals, Requests, CreateSteps
  <2>2. CASE \E T, L : op' = [op EXCEPT ![o] = [op[o] EXCEPT
                              !.pc = "remove", !.todo = T, !.left = L]]
    BY <1>1, <2>2 DEF Locals, Requests, CreateSteps
  <2> QED BY <1>6, <2>1, <2>2 DEF ForgetContainer, Become
<1>7. CASE RemovePorts(o) BY <1>7, Leaves DEF RemovePorts
<1>8. CASE \/ StopNetwork(o) \/ RetireRemaining(o) \/ RollbackNetwork(o)
           \/ RetireNetwork(o)
  BY <1>8, Leaves
     DEF StopNetwork, RetireRemaining, RollbackNetwork, RetireNetwork,
         CreateSteps
<1>9. CASE DeleteRow(o) BY <1>9, Leaves DEF DeleteRow, NewInstanceDone
<1> QED BY <1>2, <1>3, <1>4, <1>5, <1>6, <1>7, <1>8, <1>9

\* The loops of recovery.
LEMMA RecoveringLogged ==
  ASSUME IndInv, TrackInv, NEW o \in Ops,
         \/ RemoveRetiredContainer(o) \/ RemoveRetiredNetwork(o) \/ Scan(o)
         \/ RemoveBroken(o) \/ BrokenNetwork(o) \/ RetireBrokenNetwork(o)
         \/ BrokenRow(o)
  PROVE  op'[o].pc \notin CreateSteps
<1>1. Locals /\ op[o] \in Requests BY Before
<1>2. op[o].pc \in RecoverySteps
  BY DEF RemoveRetiredContainer, RemoveRetiredNetwork, Scan, RemoveBroken,
         BrokenNetwork, RetireBrokenNetwork, BrokenRow, RecoverySteps
<1>3. op[o].pc \notin CreateSteps BY <1>2 DEF RecoverySteps, CreateSteps
<1>4. ASSUME NEW x, NEW good, Proceed(o, x, good)
      PROVE  op'[o].pc \notin CreateSteps
  <2>1. PICK T, fine : op' = [op EXCEPT ![o] = [op[o] EXCEPT
                                                 !.todo = T, !.clean = fine]]
    BY <1>4 DEF Proceed, Become
  <2> QED BY <1>1, <1>3, <2>1 DEF Locals, Requests
<1>5. CASE RemoveRetiredContainer(o)
  <2>1. CASE \E N : op' = [op EXCEPT ![o] = [op[o] EXCEPT
                                              !.pc = "networks", !.todo = N]]
    BY <1>1, <2>1 DEF Locals, Requests, CreateSteps
  <2>2. CASE op' = [op EXCEPT ![o] = [op[o] EXCEPT
                                        !.pc = "scan", !.clean = FALSE]]
    BY <1>1, <2>2 DEF Locals, Requests, CreateSteps
  <2> QED BY <1>4, <1>5, <2>1, <2>2 DEF RemoveRetiredContainer, Become
<1>6. CASE RemoveRetiredNetwork(o)
  <2>1. CASE Goto(o, "scan") BY <2>1, Leaves DEF CreateSteps
  <2>2. CASE ~Goto(o, "scan")
    <3>1. \E n : Proceed(o, n, TRUE) \/ Proceed(o, n, FALSE)
      BY <1>6, <2>2 DEF RemoveRetiredNetwork
    <3> QED BY <1>4, <3>1
  <2> QED BY <2>1, <2>2
<1>7. CASE Scan(o)
  <2>1. PICK found, seen, good : Inspect(o, found, seen, good)
    BY <1>7 DEF Scan
  <2>2. PICK T, fine : op' = [op EXCEPT ![o] = [op[o] EXCEPT
                                !.pc = "broken", !.todo = T, !.clean = fine]]
    <3>1. PICK A, same : Become(o, [op[o] EXCEPT !.pc = "broken",
                            !.todo = found \cup A,
                            !.clean = @ /\ good /\ same])
      BY <2>1 DEF Inspect
    <3>2. PICK fine : fine = (op[o].clean /\ good /\ same) OBVIOUS
    <3> QED BY <3>1, <3>2 DEF Become
  <2> QED BY <1>1, <2>2 DEF Locals, Requests, CreateSteps
<1>8. CASE RemoveBroken(o)
  <2>1. CASE \E i : op' = [op EXCEPT ![o] = [op[o] EXCEPT
                                              !.pc = "brokennet", !.inst = i]]
    BY <1>1, <2>1 DEF Locals, Requests, CreateSteps
  <2>2. CASE Goto(o, "restore") BY <2>2, Leaves DEF CreateSteps
  <2> QED BY <1>4, <1>8, <2>1, <2>2 DEF RemoveBroken, Become
<1>9. CASE BrokenNetwork(o) \/ RetireBrokenNetwork(o)
  BY <1>9, Leaves DEF BrokenNetwork, RetireBrokenNetwork, CreateSteps
<1>10. CASE BrokenRow(o)
  <2>1. CASE \E T, R : op' = [op EXCEPT ![o] = [op[o] EXCEPT
                  !.pc = "broken", !.todo = T, !.inst = 0, !.restore = R]]
    BY <1>1, <2>1 DEF Locals, Requests, CreateSteps
  <2> QED BY <1>10, <2>1, Leaves DEF BrokenRow, Become
<1> QED BY <1>5, <1>6, <1>7, <1>8, <1>9, <1>10

\* A new instance has no containers yet; the other requests that begin are
\* not in newInstance, nor is a recovery that is done with a build.
LEMMA BeginningLogged ==
  ASSUME IndInv, TrackInv, NEW o \in Ops,
         \/ Restore(o)
         \/ \E b \in Builds : Start(o, b)
         \/ \E i \in Ids : Stop(o, i)
         \/ Recover(o)
         \/ Crash(o)
  PROVE  op'[o].pc \notin CreateSteps \/ op'[o].cs = {}
<1>1. Locals /\ op[o] \in Requests BY Before
<1>2. ASSUME NEW b, NEW q, Open(o, b, q), q \in Requests
      PROVE  op'[o].cs = {}
  <2>1. op' = [op EXCEPT ![o] = [q EXCEPT
                       !.pc = "net", !.build = b, !.inst = NextId,
                       !.cs = {}, !.todo = {}, !.left = {}, !.ok = TRUE]]
    BY <1>2 DEF Open, Become
  <2> HIDE DEF NextId
  <2> QED BY <1>1, <1>2, <2>1 DEF Locals, Requests
<1>3. CASE Restore(o)
  <2>1. op[o].pc = "restore" BY <1>3 DEF Restore
  <2>2. CASE \E R : op' = [op EXCEPT ![o] = [op[o] EXCEPT !.restore = R]]
    BY <1>1, <2>1, <2>2 DEF Locals, Requests, CreateSteps
  <2>3. CASE \E R : op' = [op EXCEPT ![o] = [op[o] EXCEPT
                                           !.restore = R, !.clean = FALSE]]
    BY <1>1, <2>1, <2>3 DEF Locals, Requests, CreateSteps
  <2>4. CASE \E b : Open(o, b, op[o]) BY <1>1, <1>2, <2>4
  <2>5. CASE Finish(o) BY <2>5, Leaves
  <2> QED BY <1>3, <2>2, <2>3, <2>4, <2>5 DEF Restore, Become
<1>4. ASSUME NEW b \in Builds, Start(o, b) PROVE op'[o].cs = {}
  <2>1. PICK q : q = [Idle EXCEPT !.kind = "start"] OBVIOUS
  <2>2. q \in Requests BY <2>1, IdleTyped DEF Requests
  <2>3. Open(o, b, q) BY <1>4, <2>1 DEF Start
  <2> QED BY <1>2, <2>2, <2>3
<1>5. ASSUME NEW i \in Ids, Stop(o, i) PROVE op'[o].pc \notin CreateSteps
  <2>1. PICK C : op' = [op EXCEPT ![o] = [Idle EXCEPT
                   !.kind = "stop", !.pc = "remove", !.inst = i,
                   !.cs = C, !.todo = C]]
    BY <1>5 DEF Stop, Become
  <2> QED BY <1>1, <2>1 DEF Locals, Idle, CreateSteps
<1>6. CASE Recover(o)
  <2> DEFINE r == [Idle EXCEPT !.kind = "recover", !.pc = "retired"]
  <2>1. CASE op' = [op EXCEPT ![o] = [r EXCEPT !.todo = retC]]
    BY <1>1, <2>1 DEF Locals, Idle, CreateSteps
  <2>2. CASE op' = [op EXCEPT ![o] = [r EXCEPT !.clean = FALSE]]
    BY <1>1, <2>2 DEF Locals, Idle, CreateSteps
  <2> QED BY <1>6, <2>1, <2>2 DEF Recover, Become
<1>7. CASE Crash(o) BY <1>7, Leaves DEF Crash
<1> QED BY <1>3, <1>4, <1>5, <1>6, <1>7


\* Every step keeps the retired containers of requests recorded.
LEMMA StepLogged ==
  ASSUME IndInv, TrackInv, SettleInv, LogInv, [Next]_vars
  PROVE  LogInv' /\ Ledgered
<1>1. ASSUME NEW o \in Ops,
             \/ \E b \in Builds : Start(o, b)
             \/ \E i \in Ids : Stop(o, i)
             \/ Recover(o)
             \/ Step(o)
             \/ Crash(o)
      PROVE  LogInv' /\ Ledgered
  <2>1. Retained(o) /\ Ledgered BY <1>1, RequestLedgered
  <2>2. OthersStay(o) BY <1>1, RequestSettles
  <2>3. Logged(o)'
    <3>1. CASE Step(o)
      BY <3>1, CreatingLogged, StoppingLogged, RecoveringLogged,
         BeginningLogged, Elsewhere DEF Step
    <3> QED BY <1>1, <3>1, BeginningLogged, Elsewhere
  <2>4. ASSUME NEW u \in Ops, u # o PROVE Logged(u)'
    <3>1. op'[u] = op[u] /\ Logged(u) BY <2>2, <2>4 DEF OthersStay, LogInv
    <3>2. op[o].cs \cap op[u].cs = {} BY <2>4 DEF TrackInv, Distinct
    <3>3. CASE hold[o] = "exclusive"
      <4>1. op[u] = Idle BY <2>4, <3>3 DEF TrackInv, Alone, Held
      <4> QED BY <3>1, <4>1 DEF Logged, Idle, CreateSteps
    <3>4. CASE hold[o] # "exclusive"
      <4>1. \A c \in op[u].cs : c \in retC => c \in retC'
        BY <2>1, <3>2, <3>4 DEF Retained
      <4> QED BY <3>1, <4>1 DEF Logged
    <3> QED BY <3>3, <3>4
  <2> QED BY <2>1, <2>3, <2>4 DEF LogInv
<1>2. ASSUME NEW d \in Containers, Lose(d) \/ Exit(d)
      PROVE  LogInv' /\ Ledgered
  BY <1>2, LossLedgered DEF LogInv, Logged
<1>3. CASE UNCHANGED vars
  <2>1. UNCHANGED <<owner, retC, state, op>>
    BY <1>3 DEF vars, database, docker, containers
  <2> QED BY <2>1 DEF LogInv, Logged, Ledgered
<1> QED BY <1>1, <1>2, <1>3 DEF Next

\* The record of one container.
LEMMA RecordOf ==
  ASSUME NEW c \in Containers
  PROVE  /\ Record[c] = IF owner[c] # 0 THEN owner[c]
                        ELSE IF c \in retC THEN -1 ELSE 0
         /\ Record'[c] = IF owner'[c] # 0 THEN owner'[c]
                         ELSE IF c \in retC' THEN -1 ELSE 0
  BY DEF Record

\* A step that is careful and keeps to the records moves every container as
\* the ledger says, or not at all.
LEMMA LedgerMoves ==
  ASSUME IndInv, ActiveNotRetired', Stores', Recorded', Careful, Ledgered,
         NEW c \in Containers
  PROVE  \/ Ledger!Moves(c)
         \/ Ledger!SameRecord(c) /\ Ledger!SameState(c)
<1>1. /\ Stores /\ owner[c] \in Ids \cup {0} /\ owner'[c] \in Ids \cup {0}
      /\ state[c] \in {"none", "created", "running", "exited"}
      /\ owner[c] # 0 => c \notin retC
      /\ owner'[c] # 0 => c \notin retC'
  BY DEF IndInv, Stores, Marks, ActiveNotRetired
<1>2. /\ owner[c] # 0 /\ owner'[c] = 0 => state'[c] = "none"
      /\ c \in retC => c \in retC' \/ state'[c] = "none" \/ owner'[c] # 0
  BY DEF Careful
<1>3. state'[c] \in {"running", "exited"} => owner'[c] # 0 \/ c \in retC'
  BY DEF Recorded
<1>4. c \in Fresh => owner[c] = 0 /\ c \notin retC
  BY DEF Fresh, Referenced
<1>5. /\ \/ state'[c] = state[c]
         \/ state'[c] = "none"
         \/ state[c] = "none" /\ state'[c] = "created" /\ c \in Fresh
         \/ state[c] \in {"created", "exited"} /\ state'[c] = "running"
         \/ state[c] = "running" /\ state'[c] = "exited"
      /\ c \in retC' => c \in retC \/ UNCHANGED <<owner, state>>
      /\ owner'[c] # owner[c] =>
           \/ owner'[c] = 0
           \/ owner[c] = 0 /\ c \in retC /\ state' = state
  BY DEF Ledgered
<1>6. PICK R, S : R = Record[c] /\ S = Record'[c] OBVIOUS
<1>7. /\ R = IF owner[c] # 0 THEN owner[c] ELSE IF c \in retC THEN -1 ELSE 0
      /\ S = IF owner'[c] # 0 THEN owner'[c]
             ELSE IF c \in retC' THEN -1 ELSE 0
  BY <1>6, RecordOf
<1>8. \A i \in Ids : i # 0 /\ i # -1 BY DEF Ids
<1> USE DEF Ledger!Moves, Ledger!SameRecord, Ledger!SameState,
            Ledger!Unknown, Ledger!Retired
<1>9. CASE R = S
  <2>1. CASE state'[c] = state[c] BY <1>6, <1>9, <2>1
  <2>2. CASE state'[c] = "none" /\ state[c] # "none"
    BY <1>6, <1>9, <2>2 DEF Ledger!Remove
  <2>3. CASE state[c] = "none" /\ state'[c] = "created" /\ c \in Fresh
    BY <1>4, <1>6, <1>7, <1>9, <2>3 DEF Ledger!Create
  <2>4. CASE state[c] \in {"created", "exited"} /\ state'[c] = "running"
    <3>1. S # 0 BY <1>1, <1>3, <1>7, <1>8, <2>4
    <3> QED BY <1>6, <1>9, <2>4, <3>1 DEF Ledger!Run
  <2>5. CASE state[c] = "running" /\ state'[c] = "exited"
    BY <1>6, <1>9, <2>5 DEF Ledger!Exit
  <2> QED BY <1>5, <2>1, <2>2, <2>3, <2>4, <2>5
<1>10. CASE R # S /\ S = 0
  <2>1. owner'[c] = 0 /\ c \notin retC' BY <1>1, <1>7, <1>8, <1>10
  <2>2. state'[c] = "none" BY <1>2, <1>7, <1>10, <2>1
  <2> QED BY <1>6, <1>10, <2>2 DEF Ledger!Forget
<1>11. CASE R # S /\ S = -1
  <2>1. owner'[c] = 0 /\ c \in retC' BY <1>1, <1>7, <1>8, <1>11
  <2>2. c \notin retC BY <1>1, <1>7, <1>11, <2>1, <1>5
  <2>3. UNCHANGED <<owner, state>> BY <1>5, <2>1, <2>2
  <2>4. R = 0 BY <1>7, <2>1, <2>2, <2>3
  <2> QED BY <1>6, <1>11, <2>3, <2>4 DEF Ledger!Retire
<1>12. CASE R # S /\ S # 0 /\ S # -1
  <2>1. owner'[c] # 0 /\ S = owner'[c] /\ owner'[c] # owner[c]
    BY <1>7, <1>12
  <2>2. owner[c] = 0 /\ c \in retC /\ state' = state BY <1>5, <2>1
  <2> QED BY <1>1, <1>6, <1>7, <1>12, <2>1, <2>2 DEF Ledger!Commit
<1> QED BY <1>9, <1>10, <1>11, <1>12

\* However requests interleave, whatever fails, dies or is lost, each
\* container follows the ledger: it is recorded before Docker runs it, only
\* the commit of finalizeInstance makes a retired one an instance's, and its
\* record goes only after it.
THEOREM LedgerImplemented == ~Overlap => (Spec => FollowsLedger)
<1> SUFFICES ASSUME ~Overlap PROVE Spec => FollowsLedger
  OBVIOUS
<1>1. ASSUME Init PROVE SettleInv /\ LogInv
  <2>1. \A o \in Ops : op[o] = Idle BY <1>1 DEF Init
  <2> QED BY <2>1 DEF SettleInv, Settled, LogInv, Logged, Idle, CreateSteps
<1>2. IndInv /\ TrackInv /\ SettleInv /\ LogInv /\ [Next]_vars
        => SettleInv' /\ LogInv'
  BY StepSettles, StepLogged
<1>3. ASSUME Init PROVE Ledger!Init
  <2>1. owner \in [Containers -> Ids \cup {0}] /\ retC = {}
        /\ state = [c \in Containers |-> IF owner[c] = 0 THEN "none"
                                         ELSE "running"]
    BY <1>3 DEF Init
  <2>2. Record = [c \in Containers |-> owner[c]]
    BY <2>1 DEF Record
  <2> QED BY <2>1, <2>2 DEF Ledger!Init, Ledger!Unknown
<1>4. ASSUME IndInv, TrackInv, SettleInv, LogInv, [Next]_vars
      PROVE  [Ledger!Next]_<<Record, state>>
  <2>1. Careful /\ Recorded' BY <1>4, StepTracks DEF TrackInv
  <2>2. Ledgered BY <1>4, StepLogged
  <2>3. ActiveNotRetired' /\ Stores' BY <1>4, StepInv DEF IndInv, Marks
  <2>4. \A c \in Containers :
          \/ Ledger!Moves(c)
          \/ Ledger!SameRecord(c) /\ Ledger!SameState(c)
    BY <1>4, <2>1, <2>2, <2>3, LedgerMoves
  <2> QED BY <2>4 DEF Ledger!Next
<1> QED BY <1>1, <1>2, <1>3, <1>4, TracksAlways, PTL
        DEF Spec, FollowsLedger, Ledger!Spec

\* What the ledger is for: it never loses a container that ran.
THEOREM LedgerKeeps == FollowsLedger => []Ledger!RanIsRecorded
<1>1. Ledger!Init => Ledger!RanIsRecorded
  BY DEF Ledger!Init, Ledger!RanIsRecorded, Ledger!Unknown
<1>2. Ledger!RanIsRecorded /\ [Ledger!Next]_<<Record, state>>
        => Ledger!RanIsRecorded'
  <2> SUFFICES ASSUME Ledger!RanIsRecorded,
                      [Ledger!Next]_<<Record, state>>,
                      NEW c \in Containers,
                      state'[c] \in {"running", "exited"}
               PROVE  Record'[c] # 0
    BY DEF Ledger!RanIsRecorded, Ledger!Unknown
  <2>1. state[c] \in {"running", "exited"} => Record[c] # 0
    BY DEF Ledger!RanIsRecorded, Ledger!Unknown
  <2>2. CASE Ledger!Moves(c)
    <3>1. Ledger!Commit(c) => Record'[c] # 0
      BY DEF Ledger!Commit, Ids
    <3> QED
      BY <2>1, <2>2, <3>1
         DEF Ledger!Moves, Ledger!Create, Ledger!Retire, Ledger!Run,
             Ledger!Exit, Ledger!Remove, Ledger!Forget, Ledger!SameRecord,
             Ledger!SameState, Ledger!Unknown, Ledger!Retired
  <2>3. CASE Ledger!SameRecord(c) /\ Ledger!SameState(c)
    BY <2>1, <2>3 DEF Ledger!SameRecord, Ledger!SameState
  <2>4. CASE UNCHANGED <<Record, state>> BY <2>1, <2>4
  <2> QED BY <2>2, <2>3, <2>4 DEF Ledger!Next
<1> QED BY <1>1, <1>2, PTL DEF FollowsLedger, Ledger!Spec
=============================================================================
