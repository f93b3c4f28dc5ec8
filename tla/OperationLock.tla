---------------------------- MODULE OperationLock ----------------------------
(***************************************************************************)
(* The operation lock of cmgr/operation_lock.go.                           *)
(*                                                                         *)
(* Every mutating API call runs between acquireOperationLock and the       *)
(* release function it returns.  An acquisition goes through three locks:  *)
(* the Manager's own sync.RWMutex (operationMu), an exclusive flock on the *)
(* gate file (the turnstile), and a shared or exclusive flock on the main  *)
(* lock file; the gate is given back as soon as the main lock is held.     *)
(* NewManager takes the lock through acquireStartupOperationLock: one      *)
(* non-blocking exclusive attempt and, when that meets contention, a       *)
(* blocking shared one.                                                    *)
(*                                                                         *)
(* A Manager is a process with its threads (goroutines); it may die at any *)
(* point, and the kernel then drops its locks.                             *)
(***************************************************************************)
CONSTANTS Managers,     \* Manager values, one per cmgr/cmgrd process
          Threads,      \* goroutines that call the API
          ManagerOf,    \* ManagerOf[t]: the Manager t belongs to
          InMemory,     \* Managers whose operationLockPath is empty
          None          \* no owner

ASSUME ConstantsAssumption ==
  /\ ManagerOf \in [Threads -> Managers]
  /\ InMemory \subseteq Managers
  /\ None \notin Threads
  /\ None \notin Managers

VARIABLES
  pc,       \* pc[t]: where thread t is in acquireOperationLockMode / release
  mode,     \* mode[t]: "shared" or "exclusive"
  try,      \* try[t]: t is in the non-blocking attempt of a start-up
  up,       \* up[m]: NewManager has returned m
  writer,   \* writer[m]: the thread that has operationMu.Lock, or waits in it
  readers,  \* readers[m]: the threads that have operationMu.RLock
  gate,     \* the owner of the exclusive flock on the gate file
  mainX,    \* the owner of an exclusive flock on the main lock file
  mainS     \* the owners of a shared flock on the main lock file

vars == <<pc, mode, try, up, writer, readers, gate, mainX, mainS>>

Steps == {"idle", "local", "drain", "gate", "main", "ungate", "held",
          "undo", "leave"}

TypeOK ==
  /\ pc \in [Threads -> Steps]
  /\ mode \in [Threads -> {"shared", "exclusive"}]
  /\ try \in [Threads -> BOOLEAN]
  /\ up \in [Managers -> BOOLEAN]
  /\ writer \in [Managers -> Threads \cup {None}]
  /\ readers \in [Managers -> SUBSET Threads]
  /\ gate \in Threads \cup {None}
  /\ mainX \in Threads \cup {None}
  /\ mainS \subseteq Threads

Init ==
  /\ pc = [t \in Threads |-> "idle"]
  /\ mode = [t \in Threads |-> "shared"]
  /\ try = [t \in Threads |-> FALSE]
  /\ up = [m \in Managers |-> FALSE]
  /\ writer = [m \in Managers |-> None]
  /\ readers = [m \in Managers |-> {}]
  /\ gate = None
  /\ mainX = None
  /\ mainS = {}

ThreadsOf(m) == {t \in Threads : ManagerOf[t] = m}

FileBacked(t) == ManagerOf[t] \notin InMemory

locals == <<writer, readers>>
files  == <<gate, mainX, mainS>>

-----------------------------------------------------------------------------
(* Plausible mistakes in the code below, each the body of one definition;  *)
(* the properties are tested against them.                                 *)

\* LockGate that lets a reader through while an exclusive waiter has it.
ReaderIgnoresGate(t) ==
  /\ pc[t] = "gate" /\ (gate = None \/ mode[t] = "shared")
  /\ gate' = IF gate = None THEN t ELSE gate
  /\ pc' = [pc EXCEPT ![t] = "main"]
  /\ UNCHANGED <<mode, try, up, locals, mainX, mainS>>

\* A failed acquisition that forgets operationMu.
UndoKeepsLocal(t) ==
  /\ pc[t] = "undo"
  /\ pc' = [pc EXCEPT ![t] = IF try[t] THEN "local" ELSE "idle"]
  /\ mode' = [mode EXCEPT ![t] = IF try[t] THEN "shared" ELSE @]
  /\ try' = [try EXCEPT ![t] = FALSE]
  /\ UNCHANGED <<up, locals, files>>

\* A main lock that does not look at the shared owners.
ExclusiveIgnoresReaders(t) == mainX = None

\* A start-up that waits for exclusive access.
BlockingStartup(t) ==
  /\ ~up[ManagerOf[t]]
  /\ \A u \in ThreadsOf(ManagerOf[t]) : pc[u] = "idle"
  /\ pc' = [pc EXCEPT ![t] = "local"]
  /\ mode' = [mode EXCEPT ![t] = "exclusive"]
  /\ UNCHANGED <<try, up, locals, files>>

-----------------------------------------------------------------------------
(* Requests                                                                *)

\* An API call of a running Manager asks for the lock.
Acquire(t, m) ==
  /\ pc[t] = "idle" /\ up[ManagerOf[t]]
  /\ pc' = [pc EXCEPT ![t] = "local"]
  /\ mode' = [mode EXCEPT ![t] = m]
  /\ UNCHANGED <<try, up, locals, files>>

\* NewManager: nothing else can use the Manager yet.
AcquireStartup(t) ==
  /\ ~up[ManagerOf[t]]
  /\ \A u \in ThreadsOf(ManagerOf[t]) : pc[u] = "idle"
  /\ pc' = [pc EXCEPT ![t] = "local"]
  /\ mode' = [mode EXCEPT ![t] = "exclusive"]
  /\ try' = [try EXCEPT ![t] = TRUE]
  /\ UNCHANGED <<up, locals, files>>

-----------------------------------------------------------------------------
(* operationMu: a pending Lock keeps new RLock calls out, and waits for    *)
(* the readers that are already in (Go's sync.RWMutex)                     *)

\* After the local lock: an in-memory database has no lock files.
AfterLocal(t) == IF FileBacked(t) THEN "gate" ELSE "held"

RLock(t) ==
  LET m == ManagerOf[t] IN
  /\ pc[t] = "local" /\ mode[t] = "shared"
  /\ writer[m] = None
  /\ readers' = [readers EXCEPT ![m] = @ \cup {t}]
  /\ pc' = [pc EXCEPT ![t] = AfterLocal(t)]
  /\ UNCHANGED <<mode, try, up, writer, files>>

Lock(t) ==
  LET m == ManagerOf[t] IN
  /\ pc[t] = "local" /\ mode[t] = "exclusive" /\ ~try[t]
  /\ writer[m] = None
  /\ writer' = [writer EXCEPT ![m] = t]
  /\ pc' = [pc EXCEPT ![t] = "drain"]
  /\ UNCHANGED <<mode, try, up, readers, files>>

Drained(t) ==
  /\ pc[t] = "drain" /\ readers[ManagerOf[t]] = {}
  /\ pc' = [pc EXCEPT ![t] = AfterLocal(t)]
  /\ UNCHANGED <<mode, try, up, locals, files>>

\* TryLock of a start-up.  The Manager is not shared yet, so it cannot fail.
TryLock(t) ==
  LET m == ManagerOf[t] IN
  /\ pc[t] = "local" /\ try[t]
  /\ writer[m] = None /\ readers[m] = {}
  /\ writer' = [writer EXCEPT ![m] = t]
  /\ pc' = [pc EXCEPT ![t] = AfterLocal(t)]
  /\ try' = [try EXCEPT ![t] = FileBacked(t)]
  /\ UNCHANGED <<mode, up, readers, files>>

Unlocked(t) ==
  /\ writer' = [m \in Managers |-> IF writer[m] = t THEN None ELSE writer[m]]
  /\ readers' = [m \in Managers |-> readers[m] \ {t}]

-----------------------------------------------------------------------------
(* The lock files                                                          *)

GateFree == gate = None

MainFree(t) == /\ mainX = None
               /\ mode[t] = "exclusive" => mainS = {}

LockGate(t) ==
  /\ pc[t] = "gate" /\ GateFree
  /\ gate' = t
  /\ pc' = [pc EXCEPT ![t] = "main"]
  /\ UNCHANGED <<mode, try, up, locals, mainX, mainS>>

\* The non-blocking flock of a start-up finds the gate taken.
GateBusy(t) ==
  /\ pc[t] = "gate" /\ try[t] /\ ~GateFree
  /\ pc' = [pc EXCEPT ![t] = "undo"]
  /\ UNCHANGED <<mode, try, up, locals, files>>

\* The gate file cannot be inspected, opened or locked.  An error is not
\* contention: a start-up does not try again.
GateError(t) ==
  /\ pc[t] = "gate"
  /\ pc' = [pc EXCEPT ![t] = "undo"]
  /\ try' = [try EXCEPT ![t] = FALSE]
  /\ UNCHANGED <<mode, up, locals, files>>

LockMain(t) ==
  /\ pc[t] = "main" /\ MainFree(t)
  /\ IF mode[t] = "exclusive"
       THEN mainX' = t /\ UNCHANGED mainS
       ELSE mainS' = mainS \cup {t} /\ UNCHANGED mainX
  /\ pc' = [pc EXCEPT ![t] = "ungate"]
  /\ try' = [try EXCEPT ![t] = FALSE]
  /\ UNCHANGED <<mode, up, locals, gate>>

MainBusy(t) ==
  /\ pc[t] = "main" /\ try[t] /\ ~MainFree(t)
  /\ pc' = [pc EXCEPT ![t] = "ungate"]
  /\ UNCHANGED <<mode, try, up, locals, files>>

MainError(t) ==
  /\ pc[t] = "main"
  /\ pc' = [pc EXCEPT ![t] = "ungate"]
  /\ try' = [try EXCEPT ![t] = FALSE]
  /\ UNCHANGED <<mode, up, locals, files>>

OwnsMain(t) == mainX = t \/ t \in mainS

\* releaseFileLock(gate), on success and on the two failures.
ReleaseGate(t) ==
  /\ pc[t] = "ungate"
  /\ gate' = None
  /\ pc' = [pc EXCEPT ![t] = IF OwnsMain(t) THEN "held" ELSE "undo"]
  /\ UNCHANGED <<mode, try, up, locals, mainX, mainS>>

\* unlockLocal on a failed acquisition.  A start-up that met contention goes
\* on with a blocking shared request; every other failure is returned.
Undo(t) ==
  /\ pc[t] = "undo"
  /\ Unlocked(t)
  /\ IF try[t] THEN /\ pc' = [pc EXCEPT ![t] = "local"]
                    /\ mode' = [mode EXCEPT ![t] = "shared"]
               ELSE /\ pc' = [pc EXCEPT ![t] = "idle"]
                    /\ UNCHANGED mode
  /\ try' = [try EXCEPT ![t] = FALSE]
  /\ UNCHANGED <<up, files>>

-----------------------------------------------------------------------------
(* The release function, and the death of a process                        *)

\* The operation ends: the main lock file first ...
ReleaseMain(t) ==
  /\ pc[t] = "held"
  /\ mainX' = IF mainX = t THEN None ELSE mainX
  /\ mainS' = mainS \ {t}
  /\ pc' = [pc EXCEPT ![t] = "leave"]
  /\ UNCHANGED <<mode, try, up, locals, gate>>

\* ... then operationMu.  After a start-up, NewManager returns the Manager
\* or an error.
ReleaseLocal(t) ==
  /\ pc[t] = "leave"
  /\ Unlocked(t)
  /\ pc' = [pc EXCEPT ![t] = "idle"]
  /\ \/ up' = [up EXCEPT ![ManagerOf[t]] = TRUE]
     \/ UNCHANGED up
  /\ UNCHANGED <<mode, try, files>>

\* The process of Manager m dies or exits; its descriptors are closed.
Crash(m) ==
  LET dead == ThreadsOf(m) IN
  /\ up[m] \/ \E t \in dead : pc[t] # "idle"
  /\ pc' = [t \in Threads |-> IF t \in dead THEN "idle" ELSE pc[t]]
  /\ try' = [t \in Threads |-> try[t] /\ t \notin dead]
  /\ up' = [up EXCEPT ![m] = FALSE]
  /\ writer' = [writer EXCEPT ![m] = None]
  /\ readers' = [readers EXCEPT ![m] = {}]
  /\ gate' = IF gate \in dead THEN None ELSE gate
  /\ mainX' = IF mainX \in dead THEN None ELSE mainX
  /\ mainS' = mainS \ dead
  /\ UNCHANGED mode

Step(t) ==
  \/ RLock(t) \/ Lock(t) \/ Drained(t) \/ TryLock(t)
  \/ LockGate(t) \/ GateBusy(t) \/ GateError(t)
  \/ LockMain(t) \/ MainBusy(t) \/ MainError(t)
  \/ ReleaseGate(t) \/ Undo(t) \/ ReleaseMain(t) \/ ReleaseLocal(t)

Next ==
  \/ \E t \in Threads :
       \/ Acquire(t, "shared") \/ Acquire(t, "exclusive")
       \/ AcquireStartup(t)
       \/ Step(t)
  \/ \E m \in Managers : Crash(m)

Spec == Init /\ [][Next]_vars

-----------------------------------------------------------------------------
(* Fairness.  A goroutine that can take its next step takes it.  The three *)
(* points where a thread competes with later arrivals need more: Go's      *)
(* RWMutex serves queued callers, and the kernel wakes the waiters of a    *)
(* flock (SF).  The main lock only needs WF: that is what the gate is for. *)

Progress(t) ==
  /\ SF_vars(RLock(t)) /\ SF_vars(Lock(t))
  /\ SF_vars(LockGate(t)) /\ WF_vars(LockGate(t) \/ GateBusy(t))
  /\ WF_vars(Drained(t)) /\ WF_vars(TryLock(t))
  /\ WF_vars(LockMain(t) \/ MainBusy(t))
  /\ WF_vars(ReleaseGate(t)) /\ WF_vars(Undo(t)) /\ WF_vars(ReleaseLocal(t))

\* An ordinary operation may take for ever; an exclusive one ends.
ReleaseExclusive(t) == mode[t] = "exclusive" /\ ReleaseMain(t)

FairSpec ==
  Spec /\ \A t \in Threads : Progress(t) /\ WF_vars(ReleaseExclusive(t))

-----------------------------------------------------------------------------
(* Properties                                                              *)

BarrierOf(t) == IF FileBacked(t) THEN None ELSE ManagerOf[t]

\* Mutual exclusion of the barrier: while an exclusive operation (update,
\* schema convergence, migration, recovery) is inside, no other operation on
\* the same database is, whichever Manager or process it came from and
\* however many acquisitions failed or processes died before.
ExclusiveAlone ==
  \A t, u \in Threads :
    /\ t # u /\ BarrierOf(t) = BarrierOf(u)
    /\ pc[t] = "held" /\ pc[u] = "held"
    => mode[t] = "shared" /\ mode[u] = "shared"

\* No lock outlives the call that took it: each of the four locks is owned
\* exactly by the threads whose position in the code says so, through every
\* error return, contention fallback and crash.
LocalOwners(m) == {t \in ThreadsOf(m) :
                     pc[t] \in {"gate", "main", "ungate", "held",
                                "undo", "leave"}}

NoLeakedLock ==
  /\ \A m \in Managers :
       /\ readers[m] = {t \in LocalOwners(m) : mode[t] = "shared"}
       /\ \A t \in Threads :
            writer[m] = t <=> /\ ManagerOf[t] = m /\ mode[t] = "exclusive"
                              /\ \/ t \in LocalOwners(m)
                                 \/ pc[t] = "drain"
  /\ \A t \in Threads :
       /\ gate = t <=> pc[t] \in {"main", "ungate"}
       /\ OwnsMain(t) => pc[t] \in {"ungate", "held"}
       /\ pc[t] = "held" /\ FileBacked(t) => OwnsMain(t)

\* The turnstile: while a blocking exclusive request waits for the main lock,
\* no other thread of any process gets the main lock, so later ordinary
\* operations cannot bypass a queued exclusive one.
QueuedExclusive(w) == pc[w] = "main" /\ mode[w] = "exclusive"

NoBypass ==
  [][\A w, t \in Threads :
       QueuedExclusive(w) /\ t # w /\ ~OwnsMain(t) => ~OwnsMain(t)']_vars

\* Every request is answered: no request starves or deadlocks behind a stream
\* of later ones, provided each operation that gets in eventually ends.
RequestsAnswered ==
  (\A t \in Threads : []<>(pc[t] # "held"))
    => \A t \in Threads : pc[t] = "local" ~> pc[t] \in {"held", "idle"}

\* No running Manager asks for exclusive access or has it.
NoExclusive == \A t \in Threads :
  up[ManagerOf[t]] /\ mode[t] = "exclusive" => pc[t] = "idle"

\* acquireStartupOperationLock does not wait for an ordinary operation that
\* is already active: even if that one never ends, the start-up gets in, as
\* long as no running Manager asks for exclusive access.
StartupDoesNotWait ==
  <>[]NoExclusive
    => \A t \in Threads :
         pc[t] = "local" /\ ~up[ManagerOf[t]] ~> pc[t] \in {"held", "idle"}

\* A thread is inside the barrier while it has the main lock; one with an
\* in-memory database, while operationMu is its own.
Hold == [t \in Threads |->
           IF OwnsMain(t) \/ (~FileBacked(t) /\ pc[t] = "held")
           THEN mode[t] ELSE "none"]

Barrier == INSTANCE RWBarrier WITH
  Users <- Threads,
  DatabaseOf <- [t \in Threads |-> BarrierOf(t)],
  hold <- Hold

\* The lock implements the barrier its callers rely on: an operation enters
\* only beside operations that are compatible with it, and leaves when it
\* ends or its process dies.
ImplementsBarrier == Barrier!Spec
=============================================================================
