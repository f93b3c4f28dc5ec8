-------------------------- MODULE InstanceLifecycle --------------------------
(***************************************************************************)
(* Instances of challenges: Start, Stop, the rollback of a failed Start    *)
(* and start-up recovery (cmgr/api.go, docker.go, database_instances.go).  *)
(*                                                                         *)
(* An instance lives in two stores that no transaction spans: rows of the  *)
(* SQLite database and containers and networks in Docker.  Every call to   *)
(* Docker and every database transaction is a step of its own; a step may  *)
(* fail, and the process may die between two steps.  Requests run under    *)
(* the operation barrier (RWBarrier, which OperationLock implements):      *)
(* Start and Stop share it, recovery is alone in it.                       *)
(***************************************************************************)
EXTENDS Integers, FiniteSets, FiniteSetsExt

CONSTANTS
  Ops,            \* requests that can be under way at once, a process each
  Builds,         \* finished builds
  Target,         \* Target[b]: builds.instancecount
  NoPorts,        \* builds of challenges that publish no port
  Hosts,          \* number of containers of an instance
  PortLow,        \* the CMGR_PORTS range
  PortHigh,
  MaxInstances,   \* bound on instance identifiers
  Reserved,       \* how many of them clients leave to recovery
  MaxContainers,  \* bound on container identifiers in use at once
  Faults,         \* kinds of failure that may happen
  MaxFaults,      \* bound on their number
  Overlap,        \* may a client stop an instance somebody works on?
  None

DYNAMIC_INSTANCES == -1

ASSUME ParametersAssumption ==
  /\ Target \in [Builds -> Int] /\ NoPorts \subseteq Builds
  /\ Hosts \in Nat \ {0} /\ PortLow \in Nat \ {0} /\ PortHigh \in Nat
  /\ MaxInstances \in Nat /\ Reserved \in Nat /\ MaxContainers \in Nat
  /\ MaxFaults \in Nat
  /\ Faults \subseteq {"docker", "db", "crash", "lose", "exit"}
  /\ Overlap \in BOOLEAN
  /\ None \notin Ops /\ None \notin Builds

VARIABLES
  \* The database
  row,        \* row[i]: the build of instance row i, None if there is no row
  owner,      \* owner[c]: the instance of containers row c, 0 if no row
  assigned,   \* assigned[p]: the instance of portAssignments row p, 0 if none
  retC,       \* retiredContainers
  retN,       \* retiredNetworks; network cmgr-i is the number i
  \* Docker
  state,      \* state[c]: "none", "created", "running", "exited"
  attached,   \* attached[c]: the network container c is attached to
  bind,       \* bind[c]: its published host port, 0 if none
  nets,       \* networks that exist
  \* cmgr
  hold,       \* hold[o]: the operation barrier
  portLock,   \* the request that has the port allocation lock
  op,         \* op[o]: the request: a program counter and local variables
  faults      \* failures so far

containers == <<state, attached, bind>>
database == <<row, owner, assigned, retC, retN>>
docker   == <<containers, nets>>
vars     == <<database, docker, hold, portLock, op, faults>>

Ids        == 1 .. MaxInstances
Containers == 1 .. MaxContainers
Ports      == PortLow .. PortHigh
Exists(c)  == state[c] # "none"
Pick(S)    == CHOOSE x \in S : TRUE

Barrier == INSTANCE RWBarrier WITH
  Users <- Ops, DatabaseOf <- [o \in Ops |-> None]

-----------------------------------------------------------------------------
(* The tables                                                              *)

Rows          == {i \in Ids : row[i] # None}
ContainersOf(i) == {c \in Containers : owner[c] = i}
BuildRows(b)  == {i \in Ids : row[i] = b}

\* instances.id is an INTEGER PRIMARY KEY without AUTOINCREMENT: SQLite
\* gives a new row the largest identifier in the table plus one, so that of
\* a deleted last row is used again.
NextId == IF Rows = {} THEN 1 ELSE Max(Rows) + 1

\* incompleteInstanceIDs
Incomplete == {i \in Rows : Cardinality(ContainersOf(i)) # Hosts}

\* ON DELETE CASCADE from instances to containers and portAssignments.
DeleteInstance(i) ==
  /\ row' = [row EXCEPT ![i] = None]
  /\ owner' = [c \in Containers |-> IF owner[c] = i THEN 0 ELSE owner[c]]
  /\ assigned' = [p \in Ports |-> IF assigned[p] = i THEN 0 ELSE assigned[p]]

-----------------------------------------------------------------------------
(* Requests                                                                *)

Idle == [kind |-> "none", pc |-> "idle", build |-> None, inst |-> 0,
         cs |-> {}, todo |-> {}, left |-> {}, restore |-> {}, ok |-> TRUE,
         clean |-> TRUE]

Steps == {"idle", "net", "lock", "create", "retire", "start", "finalize",
          "cleanup", "unlock", "remove", "forget", "ports", "rbretire",
          "rbnet", "retnet", "delete", "stopnet", "retired", "networks",
          "scan", "broken", "brokennet", "brokenret", "brokenrow", "restore"}

Requests ==
  [kind : {"none", "start", "stop", "recover"}, pc : Steps,
   build : Builds \cup {None}, inst : Ids \cup {0},
   cs : SUBSET Containers,            \* instance.Containers
   todo : SUBSET (Containers \cup Ids), \* what a loop has still to visit
   left : SUBSET Containers,          \* stopContainers: remaining
   restore : SUBSET Builds,           \* buildsToRestore
   ok : BOOLEAN,                      \* newInstance: no error so far
   clean : BOOLEAN]                   \* recovery: no error so far

Referenced(c) == \/ owner[c] # 0 \/ c \in retC
                 \/ \E o \in Ops : c \in op[o].cs \cup op[o].left \/
                      (op[o].pc \in {"cleanup", "remove", "retired"} /\
                       c \in op[o].todo)

\* Docker never gives an identifier twice.  Here one is used again when no
\* record and no request mentions it any more, which nothing can observe.
Fresh == {c \in Containers : ~Exists(c) /\ ~Referenced(c)}

TypeOK ==
  /\ row \in [Ids -> Builds \cup {None}]
  /\ owner \in [Containers -> Ids \cup {0}]
  /\ assigned \in [Ports -> Ids \cup {0}]
  /\ retC \subseteq Containers /\ retN \subseteq Ids
  /\ state \in [Containers -> {"none", "created", "running", "exited"}]
  /\ attached \in [Containers -> Ids \cup {0}]
  /\ bind \in [Containers -> Ports \cup {0}]
  /\ nets \subseteq Ids
  /\ hold \in [Ops -> Barrier!Holds]
  /\ portLock \in Ops \cup {None}
  /\ faults \in 0 .. MaxFaults
  /\ op \in [Ops -> Requests]

\* Schemas have converged: every build with a fixed number of instances has
\* them, each with its network, its running containers and their ports,
\* which the range has room for.
Managed == {b \in Builds : Target[b] > 0}

Init ==
  /\ \E f \in [Ids -> Builds \cup {None}] :
       /\ \A b \in Builds : Cardinality({i \in Ids : f[i] = b}) =
                              IF b \in Managed THEN Target[b] ELSE 0
       /\ \A i, j \in Ids : f[j] # None /\ i < j => f[i] # None
       /\ row = f
  /\ owner = [c \in Containers |->
       LET i == ((c - 1) \div Hosts) + 1
       IN  IF i \in Ids /\ row[i] # None THEN i ELSE 0]
  /\ bind = [c \in Containers |->
       IF owner[c] = 0 \/ row[owner[c]] \in NoPorts THEN 0
       ELSE PortLow + c - 1]
  /\ bind \in [Containers -> Ports \cup {0}]
  /\ assigned = [p \in Ports |->
       IF \E c \in Containers : bind[c] = p
       THEN owner[CHOOSE c \in Containers : bind[c] = p] ELSE 0]
  /\ retC = {} /\ retN = {}
  /\ state = [c \in Containers |-> IF owner[c] = 0 THEN "none" ELSE "running"]
  /\ attached = owner
  /\ nets = Rows
  /\ hold = [o \in Ops |-> "none"]
  /\ portLock = None
  /\ op = [o \in Ops |-> Idle]
  /\ faults = 0

-----------------------------------------------------------------------------
(* Failures                                                                *)

\* A failure of kind k happens, or nothing fails, in this step.
Fails(k) == k \in Faults /\ faults < MaxFaults /\ faults' = faults + 1
Works == UNCHANGED faults

\* ContainerRemove, with force, of the containers in gone.
Discard(gone) ==
  /\ state' = [c \in Containers |-> IF c \in gone THEN "none" ELSE state[c]]
  /\ attached' = [c \in Containers |-> IF c \in gone THEN 0 ELSE attached[c]]
  /\ bind' = [c \in Containers |-> IF c \in gone THEN 0 ELSE bind[c]]

\* The request of o goes on with the local variables r, or at step p.
Become(o, r) == op' = [op EXCEPT ![o] = r]
Goto(o, p)   == Become(o, [op[o] EXCEPT !.pc = p])

\* The request returns and leaves the barrier.
Finish(o) == /\ Become(o, Idle)
             /\ Barrier!Leave({o})

-----------------------------------------------------------------------------
(* newInstance: open the row, create the network, then one container per   *)
(* host, and commit.  Used by Start and by recovery.                       *)

\* openInstance, for the request r that o carries out.
Open(o, b, r) ==
  /\ NextId \in Ids
  /\ row' = [row EXCEPT ![NextId] = b]
  /\ Become(o, [r EXCEPT !.pc = "net", !.build = b, !.inst = NextId,
                         !.cs = {}, !.todo = {}, !.left = {}, !.ok = TRUE])

\* Start: only builds whose instances are the clients' to manage.
Start(o, b) ==
  /\ op[o].pc = "idle" /\ Target[b] = DYNAMIC_INSTANCES
  /\ NextId + Reserved <= MaxInstances
  /\ Cardinality(Fresh) >= Hosts * Cardinality(Ops)
  /\ Barrier!Enter(o, "shared")
  /\ Open(o, b, [Idle EXCEPT !.kind = "start"])
  /\ UNCHANGED <<owner, assigned, retC, retN, docker, portLock, faults>>

\* The deferred rollback of newInstance begins with stopContainers.
Rollback(o) ==
  Become(o, [op[o] EXCEPT !.pc = "remove", !.todo = op[o].cs, !.left = {},
                          !.ok = FALSE])

\* startContainers returns an error: under the port allocation lock the
\* containers created so far are removed first.
Abort(o) ==
  IF portLock = o
  THEN Become(o, [op[o] EXCEPT !.pc = "cleanup", !.todo = op[o].cs,
                               !.ok = FALSE])
  ELSE Rollback(o)

\* The challenge is read, then startNetwork; Docker refuses a second network
\* of the same name.
CreateNetwork(o) ==
  LET i == op[o].inst IN
  /\ op[o].pc = "net"
  /\ \/ /\ i \notin nets /\ Works
        /\ nets' = nets \cup {i}
        /\ Goto(o, IF op[o].build \in NoPorts THEN "create" ELSE "lock")
     \/ /\ i \in nets /\ Works
        /\ Rollback(o) /\ UNCHANGED nets
     \/ /\ Fails("docker") \/ Fails("db")
        /\ Rollback(o) /\ UNCHANGED nets
  /\ UNCHANGED <<database, containers, hold, portLock>>

\* startContainers reads the port names and calls acquirePortAllocationLock.
AcquirePortLock(o) ==
  /\ op[o].pc = "lock" /\ portLock = None
  /\ portLock' = o
  /\ Goto(o, "create")
  /\ UNCHANGED <<database, docker, hold, faults>>

PortLockFails(o) ==
  /\ op[o].pc = "lock" /\ Fails("db")
  /\ Rollback(o)
  /\ UNCHANGED <<database, docker, hold, portLock>>

\* Mistake: a port is offered whether or not it has a row.
AnyPort(b) == IF b \in NoPorts THEN {0} ELSE Ports

\* getFreePort: any port of the range without a row (the sweep starts at a
\* random one).
FreePorts(b) == IF b \in NoPorts THEN {0}
                ELSE {p \in Ports : assigned[p] = 0}

CreateContainer(o) ==
  LET c == Pick(Fresh) IN
  /\ op[o].pc = "create" /\ Fresh # {}
  /\ \/ \E p \in FreePorts(op[o].build) :
          /\ Works
          /\ state' = [state EXCEPT ![c] = "created"]
          /\ attached' = [attached EXCEPT ![c] = op[o].inst]
          /\ bind' = [bind EXCEPT ![c] = p]
          /\ Become(o, [op[o] EXCEPT !.pc = "retire", !.cs = @ \cup {c},
                                     !.todo = {c}])
     \/ /\ \/ FreePorts(op[o].build) = {} /\ Works
           \/ Fails("docker") \/ Fails("db")
        /\ Abort(o)
        /\ UNCHANGED containers
  /\ UNCHANGED <<database, nets, hold, portLock>>

\* Mistake: the new container is not recorded before it is started.
StartUnrecorded(o) ==
  /\ op[o].pc = "retire"
  /\ Goto(o, "start")
  /\ UNCHANGED <<database, docker, hold, portLock, faults>>

\* retireContainer: a container counts as retired until finalizeInstance.
RetirePending(o) ==
  /\ op[o].pc = "retire"
  /\ \/ /\ Works
        /\ retC' = retC \cup op[o].todo
        /\ Goto(o, "start")
     \/ Fails("db") /\ Abort(o) /\ UNCHANGED retC
  /\ UNCHANGED <<row, owner, assigned, retN, docker, hold, portLock>>

\* Docker can start a container if its network is there and no running
\* container has its port.
CanStart(c) ==
  /\ state[c] \in {"created", "exited"}
  /\ attached[c] \in nets
  /\ bind[c] # 0 => \A d \in Containers : state[d] = "running"
                                            => bind[d] # bind[c]

\* ContainerStart and the inspection of its state and ports.  The inspection
\* may fail although the container runs.
StartContainer(o) ==
  LET c == Pick(op[o].todo) IN
  /\ op[o].pc = "start"
  /\ \/ /\ CanStart(c)
        /\ state' = [state EXCEPT ![c] = "running"]
        /\ \/ /\ Works
              /\ Goto(o, IF Cardinality(op[o].cs) = Hosts THEN "finalize"
                                                          ELSE "create")
           \/ Fails("docker") /\ Abort(o)
     \/ /\ ~CanStart(c) /\ Works
        /\ Abort(o) /\ UNCHANGED state
     \/ /\ Fails("docker")
        /\ Abort(o) /\ UNCHANGED state
  /\ UNCHANGED <<database, attached, bind, nets, hold, portLock>>

\* Mistake: the commit leaves the containers marked as retired.
FinalizeStillRetired(o) ==
  /\ op[o].pc = "finalize"
  /\ assigned' = [p \in Ports |->
       IF \E c \in op[o].cs : bind[c] = p THEN op[o].inst ELSE assigned[p]]
  /\ owner' = [c \in Containers |->
       IF c \in op[o].cs THEN op[o].inst ELSE owner[c]]
  /\ Goto(o, "unlock")
  /\ UNCHANGED <<row, retC, retN, docker, hold, portLock, faults>>

\* finalizeInstance: one transaction; the foreign key needs the instance row
\* and the index a port nobody has.
FinalizeInstance(o) ==
  LET i  == op[o].inst
      ps == {bind[c] : c \in op[o].cs} \ {0}
      may == /\ row[i] # None
             /\ \A p \in ps : assigned[p] = 0
  IN
  /\ op[o].pc = "finalize"
  /\ \/ /\ may /\ Works
        /\ assigned' = [p \in Ports |-> IF p \in ps THEN i ELSE assigned[p]]
        /\ retC' = retC \ op[o].cs
        /\ owner' = [c \in Containers |->
                       IF c \in op[o].cs THEN i ELSE owner[c]]
        /\ Goto(o, "unlock")
     \/ /\ \/ ~may /\ Works
           \/ Fails("db")
        /\ Abort(o)
        /\ UNCHANGED <<assigned, retC, owner>>
  /\ UNCHANGED <<row, retN, docker, hold, portLock>>

\* removeRetiredContainerIDs(instance.Containers), still under the lock.
CleanupContainer(o) ==
  /\ op[o].pc = "cleanup"
  /\ \/ \E c \in op[o].todo :
          /\ Become(o, [op[o] EXCEPT !.todo = @ \ {c}])
          /\ \/ /\ Works
                /\ Discard({c})
                /\ retC' = retC \ {c}
             \/ Fails("docker") /\ UNCHANGED <<containers, retC>>
             \/ /\ Fails("db")
                /\ Discard({c})
                /\ UNCHANGED retC
     \/ /\ op[o].todo = {} /\ Works
        /\ Goto(o, "unlock") /\ UNCHANGED <<containers, retC>>
  /\ UNCHANGED <<row, owner, assigned, retN, nets, hold, portLock>>

\* newInstance is over: Start returns, recovery goes on with the next one
\* unless this one failed.
NewInstanceDone(o) ==
  IF op[o].kind = "start" THEN Finish(o)
  ELSE /\ Become(o, [op[o] EXCEPT
              !.pc = "restore", !.inst = 0, !.cs = {}, !.left = {},
              !.restore = IF op[o].ok THEN @ ELSE @ \ {op[o].build},
              !.clean = @ /\ op[o].ok])
       /\ UNCHANGED hold

\* Mistake: an error return keeps the port allocation lock.
ReleaseOnSuccessOnly(o) ==
  /\ op[o].pc = "unlock"
  /\ portLock' = IF portLock = o /\ op[o].ok THEN None ELSE portLock
  /\ IF op[o].ok THEN NewInstanceDone(o) ELSE Rollback(o) /\ UNCHANGED hold
  /\ UNCHANGED <<database, docker, faults>>

\* startContainers returns and its deferred release runs.
ReleasePortLock(o) ==
  /\ op[o].pc = "unlock"
  /\ portLock' = IF portLock = o THEN None ELSE portLock
  /\ IF op[o].ok THEN NewInstanceDone(o) ELSE Rollback(o) /\ UNCHANGED hold
  /\ UNCHANGED <<database, docker, faults>>

-----------------------------------------------------------------------------
(* stopContainers, and what Stop and the rollback of newInstance do after  *)
(* it.  Stop gives up at the first error, the rollback goes on.            *)

\* Stop reads the instance's containers; its build must be dynamic.
Stop(o, i) ==
  /\ op[o].pc = "idle" /\ row[i] # None /\ Target[row[i]] = DYNAMIC_INSTANCES
  /\ Overlap \/ \A u \in Ops : op[u].inst # i
  /\ Barrier!Enter(o, "shared")
  /\ Become(o, [Idle EXCEPT !.kind = "stop", !.pc = "remove", !.inst = i,
                            !.cs = ContainersOf(i),
                            !.todo = ContainersOf(i)])
  /\ UNCHANGED <<database, docker, portLock, faults>>

AfterStop(o, failed) ==
  IF op[o].kind # "stop"
  THEN /\ Become(o, [op[o] EXCEPT !.pc = "rbretire", !.cs = op[o].left])
       /\ UNCHANGED hold
  ELSE IF failed THEN Finish(o) ELSE Goto(o, "stopnet") /\ UNCHANGED hold

\* Mistake: ports are released although containers are left.
RemoveThenReleasePorts(o) ==
  /\ op[o].pc = "remove"
  /\ \/ /\ op[o].todo # {} /\ Works
        /\ Discard({Pick(op[o].todo)}) /\ Goto(o, "forget")
     \/ /\ op[o].todo # {} /\ Fails("docker")
        /\ Become(o, [op[o] EXCEPT !.todo = @ \ {Pick(@)},
                                   !.left = @ \cup {Pick(op[o].todo)}])
        /\ UNCHANGED containers
     \/ op[o].todo = {} /\ Works /\ Goto(o, "ports") /\ UNCHANGED containers
  /\ UNCHANGED <<database, nets, hold, portLock>>

\* Mistake: every error of ContainerRemove counts as "not found".
RemoveIgnoresErrors(o) ==
  /\ op[o].pc = "remove"
  /\ IF op[o].todo = {}
     THEN Works /\ Goto(o, "ports") /\ UNCHANGED containers
     ELSE /\ Goto(o, "forget")
          /\ \/ Works /\ Discard({Pick(op[o].todo)})
             \/ Fails("docker") /\ UNCHANGED containers
  /\ UNCHANGED <<database, nets, hold, portLock>>

\* One container: removed from Docker (missing is as good) ...
RemoveContainer(o) ==
  /\ op[o].pc = "remove"
  /\ \/ /\ op[o].todo # {} /\ Works
        /\ Discard({Pick(op[o].todo)})
        /\ Goto(o, "forget") /\ UNCHANGED hold
     \/ /\ op[o].todo # {} /\ Fails("docker")
        /\ Become(o, [op[o] EXCEPT !.todo = @ \ {Pick(@)},
                                   !.left = @ \cup {Pick(op[o].todo)}])
        /\ UNCHANGED <<containers, hold>>
     \/ /\ op[o].todo = {} /\ Works
        /\ IF op[o].left = {} THEN Goto(o, "ports") /\ UNCHANGED hold
                              ELSE AfterStop(o, TRUE)
        /\ UNCHANGED containers
  /\ UNCHANGED <<database, nets, portLock>>

\* ... then from containers and from retiredContainers, in two statements.
ForgetContainer(o) ==
  LET c == Pick(op[o].todo)
      unowned == [owner EXCEPT ![c] = IF @ = op[o].inst THEN 0 ELSE @]
  IN
  /\ op[o].pc = "forget"
  /\ \/ /\ Works
        /\ owner' = unowned /\ retC' = retC \ {c}
        /\ Become(o, [op[o] EXCEPT !.pc = "remove", !.todo = @ \ {c}])
     \/ /\ Fails("db")
        /\ owner' \in {owner, unowned} /\ UNCHANGED retC
        /\ Become(o, [op[o] EXCEPT !.pc = "remove", !.todo = @ \ {c},
                                   !.left = @ \cup {c}])
  /\ UNCHANGED <<row, assigned, retN, docker, hold, portLock>>

\* removeInstancePorts, once no container is left.
RemovePorts(o) ==
  /\ op[o].pc = "ports"
  /\ \/ /\ Works
        /\ assigned' = [p \in Ports |->
             IF assigned[p] = op[o].inst THEN 0 ELSE assigned[p]]
        /\ AfterStop(o, FALSE)
     \/ Fails("db") /\ AfterStop(o, TRUE) /\ UNCHANGED assigned
  /\ UNCHANGED <<row, owner, retC, retN, docker, portLock>>

\* Docker refuses to remove a network with running containers.
Removable(n) == \A c \in Containers : state[c] = "running" => attached[c] # n

\* NetworkRemove; an unknown network is as good as a removed one.
RemoveNetwork(n) == Removable(n) /\ Works /\ nets' = nets \ {n}
KeepNetwork(n)   == /\ \/ ~Removable(n) /\ Works
                       \/ Fails("docker")
                    /\ UNCHANGED nets

StopNetwork(o) ==
  /\ op[o].pc = "stopnet"
  /\ \/ RemoveNetwork(op[o].inst) /\ Goto(o, "delete") /\ UNCHANGED hold
     \/ KeepNetwork(op[o].inst) /\ Finish(o)
  /\ UNCHANGED <<database, containers, portLock>>

\* The rollback retires what it could not remove: containers ...
RetireRemaining(o) ==
  /\ op[o].pc = "rbretire"
  /\ \/ Works /\ retC' = retC \cup op[o].cs
     \/ Fails("db") /\ \E kept \in SUBSET op[o].cs : retC' = retC \cup kept
  /\ Goto(o, "rbnet")
  /\ UNCHANGED <<row, owner, assigned, retN, docker, hold, portLock>>

\* Mistake: a network that could not be removed is not retired.
RollbackDropsNetwork(o) ==
  /\ op[o].pc = "rbnet"
  /\ RemoveNetwork(op[o].inst) \/ KeepNetwork(op[o].inst)
  /\ Goto(o, "delete")
  /\ UNCHANGED <<database, containers, hold, portLock>>

\* ... and the network.
RollbackNetwork(o) ==
  /\ op[o].pc = "rbnet"
  /\ \/ RemoveNetwork(op[o].inst) /\ Goto(o, "delete")
     \/ KeepNetwork(op[o].inst) /\ Goto(o, "retnet")
  /\ UNCHANGED <<database, containers, hold, portLock>>

RetireNetwork(o) ==
  /\ op[o].pc = "retnet"
  /\ \/ Works /\ retN' = retN \cup {op[o].inst}
     \/ Fails("db") /\ UNCHANGED retN
  /\ Goto(o, "delete")
  /\ UNCHANGED <<row, owner, assigned, retC, docker, hold, portLock>>

\* removeInstanceMetadata, the last step of both.
DeleteRow(o) ==
  /\ op[o].pc = "delete"
  /\ \/ Works /\ DeleteInstance(op[o].inst)
     \/ Fails("db") /\ UNCHANGED <<row, owner, assigned>>
  /\ IF op[o].kind = "stop" THEN Finish(o) ELSE NewInstanceDone(o)
  /\ UNCHANGED <<retC, retN, docker, portLock>>

-----------------------------------------------------------------------------
(* retryRetiredResources, run by NewManager when it is alone.  Nothing     *)
(* else moves meanwhile, so one resource is one step.                      *)

\* A table that cannot be read counts as empty, and as an error.
Recover(o) ==
  LET r == [Idle EXCEPT !.kind = "recover", !.pc = "retired"] IN
  /\ op[o].pc = "idle"
  /\ Barrier!Enter(o, "exclusive")
  /\ \/ Works /\ Become(o, [r EXCEPT !.todo = retC])
     \/ Fails("db") /\ Become(o, [r EXCEPT !.clean = FALSE])
  /\ UNCHANGED <<database, docker, portLock>>

\* The loop of a recovery goes on without x, good: no error.
Proceed(o, x, good) ==
  Become(o, [op[o] EXCEPT !.todo = @ \ {x}, !.clean = @ /\ good])

\* Mistake: a removed container is not forgotten.
RemoveRetiredForever(o) ==
  /\ op[o].pc = "retired"
  /\ \/ \E c \in op[o].todo : Proceed(o, c, TRUE) /\ Discard({c})
     \/ /\ op[o].todo = {}
        /\ Become(o, [op[o] EXCEPT !.pc = "networks", !.todo = retN])
        /\ UNCHANGED containers
  /\ UNCHANGED <<database, nets, hold, portLock, faults>>

RemoveRetiredContainer(o) ==
  /\ op[o].pc = "retired"
  /\ \/ \E c \in op[o].todo :
          \/ /\ Works /\ Proceed(o, c, TRUE)
             /\ Discard({c})
             /\ retC' = retC \ {c}
          \/ /\ Fails("docker") /\ Proceed(o, c, FALSE)
             /\ UNCHANGED <<containers, retC>>
          \/ /\ Fails("db") /\ Proceed(o, c, FALSE)
             /\ Discard({c})
             /\ UNCHANGED retC
     \/ /\ op[o].todo = {}
        /\ \/ /\ Works
              /\ Become(o, [op[o] EXCEPT !.pc = "networks", !.todo = retN])
           \/ /\ Fails("db")
              /\ Become(o, [op[o] EXCEPT !.pc = "scan", !.clean = FALSE])
        /\ UNCHANGED <<containers, retC>>
  /\ UNCHANGED <<row, owner, assigned, retN, nets, hold, portLock>>

RemoveRetiredNetwork(o) ==
  /\ op[o].pc = "networks"
  /\ \/ \E n \in op[o].todo :
          \/ /\ RemoveNetwork(n) /\ Proceed(o, n, TRUE)
             /\ retN' = retN \ {n}
          \/ KeepNetwork(n) /\ Proceed(o, n, FALSE) /\ UNCHANGED retN
          \/ /\ Removable(n) /\ Fails("db") /\ Proceed(o, n, FALSE)
             /\ nets' = nets \ {n} /\ UNCHANGED retN
     \/ /\ op[o].todo = {} /\ Works
        /\ Goto(o, "scan") /\ UNCHANGED <<retN, nets>>
  /\ UNCHANGED <<row, owner, assigned, retC, containers, hold, portLock>>

\* Mistake: only missing containers make an instance broken.
ScanMissingOnly(o) ==
  /\ op[o].pc = "scan"
  /\ Become(o, [op[o] EXCEPT !.pc = "broken",
       !.todo = {owner[c] : c \in {d \in Containers : ~Exists(d)}} \ {0}])
  /\ UNCHANGED <<database, docker, hold, portLock, faults>>

\* The instances found incomplete and those of missing containers are broken;
\* stopped containers are started again.  Of all the containers with a row,
\* cmgr learns the state of the ones in seen.
Inspect(o, incomplete, seen, good) ==
  LET missing == {c \in seen : ~Exists(c)}
      stopped == {c \in seen : state[c] = "exited"}
      again   == {c \in stopped : CanStart(c)}
  IN
  /\ state' = [c \in Containers |->
                 IF c \in again THEN "running" ELSE state[c]]
  /\ Become(o, [op[o] EXCEPT !.pc = "broken",
       !.todo = incomplete \cup {owner[c] : c \in missing},
       !.clean = @ /\ good /\ again = stopped])

Scan(o) ==
  LET tracked == {c \in Containers : owner[c] # 0} IN
  /\ op[o].pc = "scan"
  /\ \/ Works /\ Inspect(o, Incomplete, tracked, TRUE)
     \/ /\ Fails("docker")
        /\ \E seen \in SUBSET tracked : Inspect(o, Incomplete, seen, FALSE)
     \/ Fails("db") /\ (\/ Inspect(o, {}, tracked, FALSE)
                        \/ Inspect(o, Incomplete, {}, FALSE))
  /\ UNCHANGED <<database, attached, bind, nets, hold, portLock>>

\* Mistake: the row goes although a container is left.
RemoveSomeBroken(o) ==
  /\ op[o].pc = "broken"
  /\ \/ \E i \in op[o].todo : \E gone \in SUBSET ContainersOf(i) :
          /\ Discard(gone)
          /\ Become(o, [op[o] EXCEPT !.pc = "brokennet", !.inst = i])
     \/ op[o].todo = {} /\ Goto(o, "restore") /\ UNCHANGED containers
  /\ UNCHANGED <<database, nets, hold, portLock, faults>>

\* removeBrokenInstance keeps every row until all the containers are gone.
RemoveBroken(o) ==
  /\ op[o].pc = "broken"
  /\ \/ \E i \in op[o].todo : \E gone \in SUBSET ContainersOf(i) :
          /\ Discard(gone)
          /\ IF gone = ContainersOf(i)
             THEN Works /\ Become(o, [op[o] EXCEPT !.pc = "brokennet",
                                                   !.inst = i])
             ELSE Fails("docker") /\ Proceed(o, i, FALSE)
     \/ /\ \E i \in op[o].todo : Fails("db") /\ Proceed(o, i, FALSE)
        /\ UNCHANGED containers
     \/ /\ op[o].todo = {} /\ Works
        /\ Goto(o, "restore") /\ UNCHANGED containers
  /\ UNCHANGED <<database, nets, hold, portLock>>

BrokenNetwork(o) ==
  /\ op[o].pc = "brokennet"
  /\ \/ RemoveNetwork(op[o].inst) /\ Goto(o, "brokenrow")
     \/ KeepNetwork(op[o].inst) /\ Goto(o, "brokenret")
  /\ UNCHANGED <<database, containers, hold, portLock>>

\* This instance stays broken; the loop goes on with the others.
SkipBroken(o) ==
  Become(o, [op[o] EXCEPT !.pc = "broken", !.todo = @ \ {op[o].inst},
                          !.inst = 0, !.clean = FALSE])

\* A network that could not be removed is left to the next recovery; that is
\* not an error.
RetireBrokenNetwork(o) ==
  /\ op[o].pc = "brokenret"
  /\ \/ Works /\ retN' = retN \cup {op[o].inst} /\ Goto(o, "brokenrow")
     \/ Fails("db") /\ SkipBroken(o) /\ UNCHANGED retN
  /\ UNCHANGED <<row, owner, assigned, retC, docker, hold, portLock>>

\* The row goes; a build with a fixed number of instances is to be restored.
BrokenRow(o) ==
  LET i == op[o].inst IN
  /\ op[o].pc = "brokenrow"
  /\ \/ /\ Works /\ DeleteInstance(i)
        /\ Become(o, [op[o] EXCEPT
             !.pc = "broken", !.todo = @ \ {i}, !.inst = 0,
             !.restore = @ \cup
                         {b \in Builds : row[i] = b /\ Target[b] >= 0}])
     \/ /\ Fails("db") /\ UNCHANGED <<row, owner, assigned>>
        /\ SkipBroken(o)
  /\ UNCHANGED <<retC, retN, docker, hold, portLock>>

\* reconcileBrokenInstances: new instances up to the build's number, unless
\* they cannot be counted or openInstance fails.
Restore(o) ==
  /\ op[o].pc = "restore"
  /\ \/ /\ UNCHANGED hold
        /\ \E b \in op[o].restore :
             \/ /\ Cardinality(BuildRows(b)) < Target[b] /\ Works
                /\ Open(o, b, op[o])
             \/ /\ Cardinality(BuildRows(b)) >= Target[b] /\ Works
                /\ Become(o, [op[o] EXCEPT !.restore = @ \ {b}])
                /\ UNCHANGED row
             \/ /\ Fails("db")
                /\ Become(o, [op[o] EXCEPT !.restore = @ \ {b},
                                           !.clean = FALSE])
                /\ UNCHANGED row
     \/ op[o].restore = {} /\ Works /\ Finish(o) /\ UNCHANGED row
  /\ UNCHANGED <<owner, assigned, retC, retN, docker, portLock>>

-----------------------------------------------------------------------------
(* The environment                                                         *)

\* The process of o dies; the kernel drops its locks.
Crash(o) ==
  /\ op[o].pc # "idle" /\ Fails("crash")
  /\ Finish(o)
  /\ portLock' = IF portLock = o THEN None ELSE portLock
  /\ UNCHANGED <<database, docker>>

\* A container is removed behind cmgr's back, or stops (a reboot).
Lose(c) ==
  /\ Exists(c) /\ Fails("lose")
  /\ state' = [state EXCEPT ![c] = "none"]
  /\ UNCHANGED <<database, attached, bind, nets, hold, portLock, op>>

Exit(c) ==
  /\ state[c] = "running" /\ Fails("exit")
  /\ state' = [state EXCEPT ![c] = "exited"]
  /\ UNCHANGED <<database, attached, bind, nets, hold, portLock, op>>

Step(o) ==
  \/ CreateNetwork(o) \/ AcquirePortLock(o) \/ PortLockFails(o)
  \/ CreateContainer(o)
  \/ RetirePending(o) \/ StartContainer(o) \/ FinalizeInstance(o)
  \/ CleanupContainer(o) \/ ReleasePortLock(o)
  \/ RemoveContainer(o) \/ ForgetContainer(o) \/ RemovePorts(o)
  \/ StopNetwork(o) \/ RetireRemaining(o) \/ RollbackNetwork(o)
  \/ RetireNetwork(o) \/ DeleteRow(o)
  \/ RemoveRetiredContainer(o) \/ RemoveRetiredNetwork(o) \/ Scan(o)
  \/ RemoveBroken(o) \/ BrokenNetwork(o) \/ RetireBrokenNetwork(o)
  \/ BrokenRow(o) \/ Restore(o)

Next ==
  \/ \E o \in Ops :
       \/ \E b \in Builds : Start(o, b)
       \/ \E i \in Ids : Stop(o, i)
       \/ Recover(o)
       \/ Step(o)
       \/ Crash(o)
  \/ \E c \in Containers : Lose(c) \/ Exit(c)

Spec == Init /\ [][Next]_vars

-----------------------------------------------------------------------------
(* Safety                                                                  *)

InFlight(c) == \E o \in Ops : c \in op[o].cs

Tracked(c) == owner[c] # 0 \/ c \in retC \/ InFlight(c)

\* Whatever fails or dies in the middle of a Start, a Stop or a recovery, a
\* container that ever ran is known to the database or to a live request, so
\* that a Stop or the next recovery can remove it.
RunningTracked ==
  \A c \in Containers : state[c] \in {"running", "exited"} => Tracked(c)

\* A container of an active instance is not marked for removal: recovery
\* never removes what finalizeInstance has committed.
ActiveNotRetired == \A c \in Containers : owner[c] # 0 => c \notin retC

\* The rows that own a container disappear only after the container: no
\* Stop, rollback or cascade forgets one that Docker still has.
OwnershipOutlivesContainer ==
  [][\A c \in Containers :
       owner[c] # 0 /\ owner'[c] = 0 => state'[c] = "none"]_vars

\* The port of every container that belongs to an instance is recorded for
\* that instance, as long as the container exists: getFreePort, which only
\* reads the table, does not offer it.
PortsRecorded ==
  \A c \in Containers :
    owner[c] # 0 /\ Exists(c) /\ bind[c] # 0 => assigned[bind[c]] = owner[c]

\* A container that is being created under the port allocation lock has no
\* port in common with another instance's, except one that a failed removal
\* or a crash left behind.
Pending(c) == portLock # None /\ c \in op[portLock].cs

PortsExclusive ==
  \A c, d \in Containers :
    /\ Pending(c) /\ Exists(c) /\ bind[c] # 0
    /\ owner[d] # 0 \/ Pending(d)
    /\ Exists(d) /\ attached[c] # attached[d]
    => bind[c] # bind[d]

\* A network outlives its instance only as a retired one.
NetworksTracked ==
  \A n \in nets : row[n] # None \/ n \in retN \/ \E o \in Ops : op[o].inst = n

\* The end of a recovery that reported no error.
CleanEnd(o) == /\ op[o].pc = "restore" /\ op[o].restore = {} /\ op[o].clean
               /\ op'[o].pc = "idle"

\* Such a recovery leaves nothing half done: no retired container, no
\* incomplete instance, and no container that ran but belongs to none.
RecoverySettles ==
  [][\A o \in Ops : CleanEnd(o) =>
       /\ retC' = {} /\ Incomplete' = {}
       /\ \A c \in Containers :
            state'[c] \in {"running", "exited"} => owner'[c] # 0]_vars

\* Such a recovery leaves every build with a fixed number of instances at
\* that number.
RecoveryRestoresCapacity ==
  [][\A o \in Ops : CleanEnd(o) =>
       \A b \in Managed : Cardinality(BuildRows(b)') >= Target[b]]_vars

-----------------------------------------------------------------------------
(* The ledger                                                              *)

\* The record the database has of each container.
Record == [c \in Containers |-> IF owner[c] # 0 THEN owner[c]
                                ELSE IF c \in retC THEN -1 ELSE 0]

Ledger == INSTANCE ContainerLedger WITH Instances <- Ids, record <- Record

\* However requests interleave and whatever fails or dies, each container
\* goes through its states and records as ContainerLedger says: a container
\* that Docker runs is recorded first, a record is passed on only by the
\* commit, and it goes only after the container.
FollowsLedger == Ledger!Spec

-----------------------------------------------------------------------------
(* Liveness                                                                *)

FairSpec ==
  /\ Spec
  /\ \A o \in Ops : WF_vars(Step(o)) /\ SF_vars(AcquirePortLock(o))
                    /\ SF_vars(Recover(o))

\* Every request returns: no combination of failures leaves one waiting for
\* the port allocation lock for ever.
RequestsEnd == \A o \in Ops : op[o].pc # "idle" ~> op[o].pc = "idle"

\* Retired containers are removed in the end, if start-ups go on to find
\* moments without other requests.
AllIdle == \A o \in Ops : op[o].pc = "idle"

RetiredRemoved ==
  []<>AllIdle => \A c \in Containers : c \in retC ~> c \notin retC
=============================================================================
