------------------------- MODULE OperationLockProofs -------------------------
(***************************************************************************)
(* For any number of Managers and threads: the operation lock excludes,    *)
(* leaks nothing, lets nobody bypass a queued exclusive request, and       *)
(* implements RWBarrier.                                                   *)
(***************************************************************************)
EXTENDS OperationLock, TLAPS

\* Threads inside operationMu: past RLock, TryLock or a drained Lock.
Inside == {"gate", "main", "ungate", "held", "undo", "leave"}

\* operationMu belongs to the threads whose program counter says so ...
ReadersOwned ==
  \A m \in Managers, t \in Threads :
    t \in readers[m] <=> /\ ManagerOf[t] = m
                         /\ mode[t] = "shared" /\ pc[t] \in Inside

WriterOwned ==
  \A m \in Managers, t \in Threads :
    writer[m] = t <=> /\ ManagerOf[t] = m /\ mode[t] = "exclusive"
                      /\ pc[t] \in Inside \cup {"drain"}

\* ... a writer that is past the drain has no readers beside it ...
WriterAlone ==
  \A t \in Threads : mode[t] = "exclusive" /\ pc[t] \in Inside
                       => readers[ManagerOf[t]] = {}

\* ... and only a writer drains, or is in the first attempt of a start-up.
WriterSteps ==
  \A t \in Threads :
    /\ pc[t] = "drain" => mode[t] = "exclusive"
    /\ try[t] => /\ mode[t] = "exclusive"
                 /\ pc[t] \in {"local", "gate", "main", "ungate", "undo"}

LocalInv == ReadersOwned /\ WriterOwned /\ WriterAlone /\ WriterSteps

\* The lock files belong to the threads whose program counter says so, in the
\* mode those asked for; the main lock is exclusive or shared, never both.
FileInv ==
  /\ mainX # None => mainS = {}
  /\ \A t \in Threads :
       /\ gate = t <=> pc[t] \in {"main", "ungate"}
       /\ mainX = t => mode[t] = "exclusive" /\ pc[t] \in {"ungate", "held"}
       /\ t \in mainS => mode[t] = "shared" /\ pc[t] \in {"ungate", "held"}
       /\ pc[t] \in {"gate", "main", "ungate"} => FileBacked(t)
       /\ OwnsMain(t) => FileBacked(t) /\ ~try[t]
       /\ pc[t] = "held" /\ FileBacked(t) => OwnsMain(t)

\* The inductive invariant.
IndInv == TypeOK /\ LocalInv /\ FileInv

USE ConstantsAssumption

\* The initial states satisfy the inductive invariant.
LEMMA InitInv == Init => IndInv
  BY DEF Init, IndInv, TypeOK, LocalInv, ReadersOwned, WriterOwned, WriterAlone,
         WriterSteps, FileInv, Steps, Inside, OwnsMain

\* Types are kept by every step of the lock.
LEMMA TypeStep == TypeOK /\ [Next]_vars => TypeOK'
<1> SUFFICES ASSUME TypeOK, [Next]_vars PROVE TypeOK'
  OBVIOUS
<1> USE DEF TypeOK, Steps, locals, files
<1>1. CASE UNCHANGED vars
  BY <1>1 DEF vars
<1>2. ASSUME NEW t \in Threads, NEW m \in {"shared", "exclusive"},
             Acquire(t, m)
      PROVE  TypeOK'
  BY <1>2 DEF Acquire
<1>3. ASSUME NEW t \in Threads, AcquireStartup(t) PROVE TypeOK'
  BY <1>3 DEF AcquireStartup, ThreadsOf
<1>4. ASSUME NEW t \in Threads, Step(t) PROVE TypeOK'
  <2>1. CASE RLock(t)
    BY <2>1 DEF RLock, AfterLocal
  <2>2. CASE Lock(t)
    BY <2>2 DEF Lock
  <2>3. CASE Drained(t)
    BY <2>3 DEF Drained, AfterLocal
  <2>4. CASE TryLock(t)
    BY <2>4 DEF TryLock, AfterLocal, FileBacked
  <2>5. CASE LockGate(t)
    BY <2>5 DEF LockGate
  <2>6. CASE GateBusy(t)
    BY <2>6 DEF GateBusy
  <2>7. CASE GateError(t)
    BY <2>7 DEF GateError
  <2>8. CASE LockMain(t)
    BY <2>8 DEF LockMain
  <2>9. CASE MainBusy(t)
    BY <2>9 DEF MainBusy
  <2>10. CASE MainError(t)
    BY <2>10 DEF MainError
  <2>11. CASE ReleaseGate(t)
    BY <2>11 DEF ReleaseGate
  <2>12. CASE Undo(t)
    BY <2>12 DEF Undo, Unlocked
  <2>13. CASE ReleaseMain(t)
    BY <2>13 DEF ReleaseMain
  <2>14. CASE ReleaseLocal(t)
    BY <2>14 DEF ReleaseLocal, Unlocked
  <2> QED
    BY <1>4, <2>1, <2>2, <2>3, <2>4, <2>5, <2>6, <2>7,
       <2>8, <2>9, <2>10, <2>11, <2>12, <2>13, <2>14 DEF Step
<1>5. ASSUME NEW m \in Managers, Crash(m) PROVE TypeOK'
  BY <1>5 DEF Crash, ThreadsOf
<1> QED
  BY <1>1, <1>2, <1>3, <1>4, <1>5 DEF Next

\* operationMu is never leaked nor shared with a writer.
LEMMA LocalStep == IndInv /\ [Next]_vars => LocalInv'
<1> SUFFICES ASSUME IndInv, [Next]_vars PROVE LocalInv'
  OBVIOUS
<1> USE DEF IndInv, TypeOK, Steps, LocalInv, ReadersOwned, WriterOwned,
            WriterAlone, WriterSteps, Inside, locals, files
<1>1. CASE UNCHANGED vars
  BY <1>1 DEF vars
<1>2. ASSUME NEW t \in Threads, NEW m \in {"shared", "exclusive"},
             Acquire(t, m)
      PROVE  LocalInv'
  BY <1>2 DEF Acquire
<1>3. ASSUME NEW t \in Threads, AcquireStartup(t) PROVE LocalInv'
  BY <1>3 DEF AcquireStartup, ThreadsOf
<1>4. ASSUME NEW t \in Threads, Step(t) PROVE LocalInv'
  <2>1. CASE RLock(t)
    BY <2>1 DEF RLock, AfterLocal
  <2>2. CASE Lock(t)
    BY <2>2 DEF Lock
  <2>3. CASE Drained(t)
    <3>1. ReadersOwned'
      BY <2>3 DEF Drained, AfterLocal
    <3>2. WriterOwned'
      BY <2>3 DEF Drained, AfterLocal
    <3>3. WriterAlone'
      BY <2>3 DEF Drained, AfterLocal
    <3>4. WriterSteps'
      BY <2>3 DEF Drained, AfterLocal
    <3> QED
      BY <3>1, <3>2, <3>3, <3>4
  <2>4. CASE TryLock(t)
    <3>1. ReadersOwned'
      BY <2>4 DEF TryLock, AfterLocal, FileBacked
    <3>2. WriterOwned'
      BY <2>4 DEF TryLock, AfterLocal, FileBacked
    <3>3. WriterAlone'
      BY <2>4 DEF TryLock, AfterLocal, FileBacked
    <3>4. WriterSteps'
      <4>1. CASE FileBacked(t)
        BY <2>4, <4>1 DEF TryLock, AfterLocal
      <4>2. CASE ~FileBacked(t)
        <5>1. try'[t] = FALSE
          BY <2>4, <4>2 DEF TryLock
        <5> QED
          BY <2>4, <4>2, <5>1 DEF TryLock, AfterLocal
      <4> QED
        BY <4>1, <4>2
    <3> QED
      BY <3>1, <3>2, <3>3, <3>4
  <2>5. CASE LockGate(t)
    BY <2>5 DEF LockGate, GateFree
  <2>6. CASE GateBusy(t)
    BY <2>6 DEF GateBusy
  <2>7. CASE GateError(t)
    BY <2>7 DEF GateError
  <2>8. CASE LockMain(t)
    BY <2>8 DEF LockMain, MainFree
  <2>9. CASE MainBusy(t)
    BY <2>9 DEF MainBusy
  <2>10. CASE MainError(t)
    BY <2>10 DEF MainError
  <2>11. CASE ReleaseGate(t)
    BY <2>11 DEF ReleaseGate, FileInv
  <2>12. CASE Undo(t)
    <3>1. ReadersOwned'
      BY <2>12 DEF Undo, Unlocked
    <3>2. WriterOwned'
      BY <2>12 DEF Undo, Unlocked
    <3>3. WriterAlone'
      BY <2>12 DEF Undo, Unlocked
    <3>4. WriterSteps'
      BY <2>12 DEF Undo, Unlocked
    <3> QED
      BY <3>1, <3>2, <3>3, <3>4
  <2>13. CASE ReleaseMain(t)
    <3>1. ReadersOwned'
      BY <2>13 DEF ReleaseMain
    <3>2. WriterOwned'
      BY <2>13 DEF ReleaseMain
    <3>3. WriterAlone'
      BY <2>13 DEF ReleaseMain
    <3>4. WriterSteps'
      BY <2>13 DEF ReleaseMain
    <3> QED
      BY <3>1, <3>2, <3>3, <3>4
  <2>14. CASE ReleaseLocal(t)
    BY <2>14 DEF ReleaseLocal, Unlocked
  <2> QED
    BY <1>4, <2>1, <2>2, <2>3, <2>4, <2>5, <2>6, <2>7,
       <2>8, <2>9, <2>10, <2>11, <2>12, <2>13, <2>14 DEF Step
<1>5. ASSUME NEW m \in Managers, Crash(m) PROVE LocalInv'
  <2>1. ReadersOwned'
    BY <1>5 DEF Crash, ThreadsOf
  <2>2. WriterOwned'
    BY <1>5 DEF Crash, ThreadsOf
  <2>3. WriterAlone'
    BY <1>5 DEF Crash, ThreadsOf
  <2>4. WriterSteps'
    BY <1>5 DEF Crash, ThreadsOf
  <2> QED
    BY <2>1, <2>2, <2>3, <2>4
<1> QED
  BY <1>1, <1>2, <1>3, <1>4, <1>5 DEF Next

\* Neither is a lock file.
LEMMA FileStep == IndInv /\ [Next]_vars => FileInv'
<1> SUFFICES ASSUME IndInv, [Next]_vars PROVE FileInv'
  OBVIOUS
<1> USE DEF IndInv, TypeOK, Steps, FileInv, OwnsMain, FileBacked, locals, files
<1>1. CASE UNCHANGED vars
  BY <1>1 DEF vars
<1>2. ASSUME NEW t \in Threads, NEW m \in {"shared", "exclusive"},
             Acquire(t, m)
      PROVE  FileInv'
  BY <1>2 DEF Acquire
<1>3. ASSUME NEW t \in Threads, AcquireStartup(t) PROVE FileInv'
  BY <1>3 DEF AcquireStartup, ThreadsOf
<1>4. ASSUME NEW t \in Threads, Step(t) PROVE FileInv'
  <2>1. CASE RLock(t)
    BY <2>1 DEF RLock, AfterLocal
  <2>2. CASE Lock(t)
    BY <2>2 DEF Lock
  <2>3. CASE Drained(t)
    BY <2>3 DEF Drained, AfterLocal
  <2>4. CASE TryLock(t)
    BY <2>4 DEF TryLock, AfterLocal
  <2>5. CASE LockGate(t)
    BY <2>5 DEF LockGate, GateFree
  <2>6. CASE GateBusy(t)
    BY <2>6 DEF GateBusy
  <2>7. CASE GateError(t)
    BY <2>7 DEF GateError
  <2>8. CASE LockMain(t)
    BY <2>8 DEF LockMain, MainFree
  <2>9. CASE MainBusy(t)
    BY <2>9 DEF MainBusy
  <2>10. CASE MainError(t)
    BY <2>10 DEF MainError
  <2>11. CASE ReleaseGate(t)
    BY <2>11 DEF ReleaseGate
  <2>12. CASE Undo(t)
    BY <2>12 DEF Undo, Unlocked
  <2>13. CASE ReleaseMain(t)
    BY <2>13 DEF ReleaseMain
  <2>14. CASE ReleaseLocal(t)
    BY <2>14 DEF ReleaseLocal, Unlocked
  <2> QED
    BY <1>4, <2>1, <2>2, <2>3, <2>4, <2>5, <2>6, <2>7,
       <2>8, <2>9, <2>10, <2>11, <2>12, <2>13, <2>14 DEF Step
<1>5. ASSUME NEW m \in Managers, Crash(m) PROVE FileInv'
  BY <1>5 DEF Crash, ThreadsOf
<1> QED
  BY <1>1, <1>2, <1>3, <1>4, <1>5 DEF Next

-----------------------------------------------------------------------------

\* The inductive invariant holds throughout.
THEOREM Inductive == Spec => []IndInv
<1>1. Init => IndInv
  BY InitInv
<1>2. IndInv /\ [Next]_vars => IndInv'
  BY TypeStep, LocalStep, FileStep DEF IndInv
<1> QED
  BY <1>1, <1>2, PTL DEF Spec

\* Every variable of the lock keeps its type.
THEOREM TypeCorrect == Spec => []TypeOK
<1>1. IndInv => TypeOK
  BY DEF IndInv
<1> QED
  BY <1>1, Inductive, PTL

\* operationMu, the gate and the main lock are owned only by calls that are
\* still inside: nothing leaks through the error, contention and crash paths.
THEOREM LocksNotLeaked == Spec => []NoLeakedLock
<1>1. ASSUME IndInv PROVE NoLeakedLock
  <2>1. ASSUME NEW m \in Managers
        PROVE  readers[m] = {t \in LocalOwners(m) : mode[t] = "shared"}
    BY <1>1 DEF IndInv, TypeOK, LocalInv, ReadersOwned, Inside, LocalOwners,
                ThreadsOf
  <2>2. ASSUME NEW m \in Managers, NEW t \in Threads
        PROVE  writer[m] = t <=> /\ ManagerOf[t] = m /\ mode[t] = "exclusive"
                                 /\ t \in LocalOwners(m) \/ pc[t] = "drain"
    BY <1>1 DEF IndInv, LocalInv, WriterOwned, Inside, LocalOwners, ThreadsOf
  <2>3. ASSUME NEW t \in Threads
        PROVE  /\ gate = t <=> pc[t] \in {"main", "ungate"}
               /\ OwnsMain(t) => pc[t] \in {"ungate", "held"}
               /\ pc[t] = "held" /\ FileBacked(t) => OwnsMain(t)
    BY <1>1 DEF IndInv, FileInv, OwnsMain
  <2> QED
    BY <2>1, <2>2, <2>3 DEF NoLeakedLock
<1> QED
  BY <1>1, Inductive, PTL

\* An exclusive operation is alone on its database.
THEOREM Exclusion == Spec => []ExclusiveAlone
<1>1. ASSUME IndInv PROVE ExclusiveAlone
  <2> SUFFICES ASSUME NEW t \in Threads, NEW u \in Threads, t # u,
                      BarrierOf(t) = BarrierOf(u),
                      pc[t] = "held", pc[u] = "held"
               PROVE  mode[t] = "shared"
    BY DEF ExclusiveAlone
  <2> USE <1>1 DEF IndInv, TypeOK
  <2>1. CASE FileBacked(t)
    <3>1. FileBacked(u)
      BY <2>1 DEF BarrierOf, FileBacked
    <3> QED
      BY <2>1, <3>1 DEF FileInv, OwnsMain
  <2>2. CASE ~FileBacked(t)
    <3>1. ManagerOf[u] = ManagerOf[t]
      BY <2>2 DEF BarrierOf, FileBacked
    <3>2. ManagerOf[t] \in Managers
      OBVIOUS
    <3> QED
      BY <3>1, <3>2 DEF LocalInv, ReadersOwned, WriterOwned, WriterAlone,
                        Inside
  <2> QED
    BY <2>1, <2>2
<1> QED
  BY <1>1, Inductive, PTL

\* Nobody gets the main lock past a queued exclusive request.
THEOREM Turnstile == Spec => NoBypass
<1>1. ASSUME IndInv, [Next]_vars,
             NEW w \in Threads, NEW t \in Threads,
             QueuedExclusive(w), t # w, ~OwnsMain(t)
      PROVE  ~OwnsMain(t)'
  <2>1. CASE UNCHANGED vars
    BY <1>1, <2>1 DEF vars, OwnsMain
  <2>2. pc[t] # "main"
    BY <1>1 DEF IndInv, FileInv, QueuedExclusive
  <2>3. ASSUME NEW u \in Threads, Step(u) PROVE ~OwnsMain(t)'
    <3>1. CASE LockMain(u)
      BY <1>1, <2>2, <3>1 DEF LockMain, OwnsMain, IndInv, TypeOK
    <3>2. CASE ReleaseMain(u)
      BY <1>1, <3>2 DEF ReleaseMain, OwnsMain
    <3>3. CASE ~LockMain(u) /\ ~ReleaseMain(u)
      BY <1>1, <2>3, <3>3
         DEF Step, RLock, Lock, Drained, TryLock, LockGate, GateBusy,
             GateError, MainBusy, MainError, ReleaseGate, Undo, ReleaseLocal,
             OwnsMain, locals, files
    <3> QED
      BY <3>1, <3>2, <3>3
  <2>4. ASSUME NEW u \in Threads, NEW m \in {"shared", "exclusive"},
               Acquire(u, m) \/ AcquireStartup(u)
        PROVE  ~OwnsMain(t)'
    BY <1>1, <2>4 DEF Acquire, AcquireStartup, OwnsMain, locals, files
  <2>5. ASSUME NEW m \in Managers, Crash(m) PROVE ~OwnsMain(t)'
    BY <1>1, <2>5 DEF Crash, OwnsMain
  <2> QED
    BY <1>1, <2>1, <2>3, <2>4, <2>5 DEF Next
<1>2. IndInv /\ [Next]_vars =>
        [\A w, t \in Threads :
           QueuedExclusive(w) /\ t # w /\ ~OwnsMain(t) => ~OwnsMain(t)']_vars
  BY <1>1
<1> QED
  BY <1>2, Inductive, PTL DEF Spec, NoBypass

-----------------------------------------------------------------------------
(* Refinement.  A thread enters the abstract barrier when it gets the main  *)
(* lock (an in-memory one: when operationMu is its own) and leaves it in    *)
(* ReleaseMain or when its process dies; every other step is a stutter.     *)

\* A step that changes neither the owners of the main lock nor who is inside,
\* nor the mode of one that is inside, is invisible in the barrier.
LEMMA Stutter ==
  ASSUME TypeOK, TypeOK',
         \A t \in Threads : /\ OwnsMain(t)' <=> OwnsMain(t)
                            /\ ~FileBacked(t) =>
                                 (pc'[t] = "held" <=> pc[t] = "held")
                            /\ OwnsMain(t) \/ pc[t] = "held"
                                 => mode'[t] = mode[t]
  PROVE  Hold' = Hold
<1>1. ASSUME NEW t \in Threads PROVE Hold'[t] = Hold[t]
  BY DEF Hold, FileBacked
<1> QED
  BY <1>1 DEF Hold

\* A thread that gets in does so beside compatible threads only.
LEMMA EnterBarrier ==
  ASSUME IndInv, TypeOK', NEW t \in Threads, Hold[t] = "none",
         Hold' = [Hold EXCEPT ![t] = mode[t]],
         \/ FileBacked(t) /\ MainFree(t)
         \/ /\ ~FileBacked(t)
            /\ \A u \in ThreadsOf(ManagerOf[t]) \ {t} :
                 pc[u] = "held" => mode[t] = "shared" /\ mode[u] = "shared"
  PROVE  Barrier!Next
<1> USE DEF IndInv, TypeOK
<1>1. ASSUME NEW v \in Threads \ {t}, BarrierOf(v) = BarrierOf(t),
             Hold[v] # "none"
      PROVE  mode[t] = "shared" /\ Hold[v] = "shared"
  <2>1. CASE FileBacked(t)
    <3>1. FileBacked(v)
      BY <1>1, <2>1 DEF BarrierOf, FileBacked
    <3>2. OwnsMain(v)
      BY <1>1, <3>1 DEF Hold
    <3>3. MainFree(t)
      BY <2>1
    <3>4. mainX = None /\ v \in mainS
      BY <3>2, <3>3 DEF MainFree, OwnsMain
    <3>5. mode[t] = "shared"
      BY <3>3, <3>4 DEF MainFree
    <3>6. mode[v] = "shared"
      BY <3>4 DEF FileInv
    <3> QED
      BY <3>2, <3>5, <3>6 DEF Hold
  <2>2. CASE ~FileBacked(t)
    <3>1. ManagerOf[v] = ManagerOf[t] /\ ~FileBacked(v)
      BY <1>1, <2>2 DEF BarrierOf, FileBacked
    <3>2. pc[v] = "held" /\ Hold[v] = mode[v]
      BY <1>1, <3>1 DEF Hold, FileInv
    <3>3. v \in ThreadsOf(ManagerOf[t]) \ {t}
      BY <1>1, <3>1 DEF ThreadsOf
    <3> QED
      BY <2>2, <3>2, <3>3
  <2> QED
    BY <2>1, <2>2
<1>2. Barrier!Enter(t, mode[t])
  BY <1>1 DEF Barrier!Enter, Barrier!Others
<1> QED
  BY <1>2 DEF Barrier!Next

\* Each step of the lock is a step of the barrier or invisible in it.
LEMMA RefinementStep ==
  ASSUME IndInv, TypeOK', [Next]_vars
  PROVE  [Barrier!Next]_Hold
<1> USE DEF IndInv, TypeOK, Steps, locals, files
<1>1. CASE UNCHANGED vars
  <2>1. Hold' = Hold
    BY <1>1 DEF vars, Hold, OwnsMain
  <2> QED
    BY <2>1
<1>2. ASSUME NEW t \in Threads, NEW m \in {"shared", "exclusive"},
             Acquire(t, m) \/ AcquireStartup(t)
      PROVE  Hold' = Hold
  <2>1. pc[t] = "idle"
    BY <1>2 DEF Acquire, AcquireStartup, ThreadsOf
  <2> QED
    BY <1>2, <2>1, Stutter DEF Acquire, AcquireStartup, OwnsMain, FileInv
<1>3. ASSUME NEW t \in Threads,
             \/ LockGate(t) \/ GateBusy(t) \/ GateError(t)
             \/ MainBusy(t) \/ MainError(t) \/ Lock(t)
      PROVE  Hold' = Hold
  BY <1>3, Stutter DEF LockGate, GateBusy, GateError, MainBusy, MainError,
                       Lock, OwnsMain
<1>4. ASSUME NEW t \in Threads, ReleaseGate(t) PROVE Hold' = Hold
  BY <1>4, Stutter DEF ReleaseGate, OwnsMain, FileInv
<1>5. ASSUME NEW t \in Threads, Undo(t) PROVE Hold' = Hold
  BY <1>5, Stutter DEF Undo, OwnsMain, FileInv
<1>6. ASSUME NEW t \in Threads, ReleaseLocal(t) PROVE Hold' = Hold
  BY <1>6, Stutter DEF ReleaseLocal, OwnsMain
<1>7. ASSUME NEW t \in Threads, RLock(t) \/ TryLock(t) \/ Drained(t)
      PROVE  Hold' = Hold \/ Barrier!Next
  <2>1. ~OwnsMain(t) /\ pc[t] # "held"
    BY <1>7 DEF RLock, TryLock, Drained, FileInv, OwnsMain
  <2>2. /\ UNCHANGED <<mode, files>>
        /\ pc' = [pc EXCEPT ![t] = AfterLocal(t)]
    BY <1>7 DEF RLock, TryLock, Drained
  <2>3. CASE FileBacked(t)
    BY <2>1, <2>2, <2>3, Stutter DEF AfterLocal, OwnsMain
  <2>4. CASE ~FileBacked(t)
    <3>1. Hold' = [Hold EXCEPT ![t] = mode[t]]
      BY <2>1, <2>2, <2>4 DEF Hold, AfterLocal, OwnsMain, FileBacked
    <3>2. Hold[t] = "none"
      BY <2>1 DEF Hold
    <3>3. ASSUME NEW u \in ThreadsOf(ManagerOf[t]) \ {t}, pc[u] = "held"
          PROVE  mode[t] = "shared" /\ mode[u] = "shared"
      <4>1. u \in Threads /\ ManagerOf[u] = ManagerOf[t]
                          /\ ManagerOf[t] \in Managers
        BY <3>3 DEF ThreadsOf
      <4>2. CASE RLock(t)
        BY <3>3, <4>1, <4>2 DEF RLock, LocalInv, WriterOwned, Inside
      <4>3. CASE TryLock(t)
        BY <3>3, <4>1, <4>3 DEF TryLock, LocalInv, WriterOwned, ReadersOwned,
                                Inside
      <4>4. CASE Drained(t)
        <5>1. writer[ManagerOf[t]] = t /\ readers[ManagerOf[t]] = {}
          BY <4>1, <4>4 DEF Drained, LocalInv, WriterOwned, WriterSteps
        <5> QED
          BY <3>3, <4>1, <5>1 DEF LocalInv, WriterOwned, ReadersOwned, Inside
      <4> QED
        BY <1>7, <4>2, <4>3, <4>4
    <3> QED
      BY <2>4, <3>1, <3>2, <3>3, EnterBarrier
  <2> QED
    BY <2>3, <2>4
<1>8. ASSUME NEW t \in Threads, LockMain(t) PROVE Barrier!Next
  <2>1. FileBacked(t) /\ MainFree(t) /\ ~OwnsMain(t)
    BY <1>8 DEF LockMain, FileInv, OwnsMain
  <2>2. Hold[t] = "none"
    BY <2>1 DEF Hold
  <2>3. ASSUME NEW u \in Threads
        PROVE  /\ OwnsMain(u)' <=> OwnsMain(u) \/ u = t
               /\ ~FileBacked(u) => pc'[u] = pc[u]
    <3>1. CASE u = t
      BY <1>8, <2>1, <3>1 DEF LockMain, OwnsMain
    <3>2. CASE u # t
      BY <1>8, <2>1, <3>2 DEF LockMain, OwnsMain, MainFree
    <3> QED
      BY <3>1, <3>2
  <2>4. mode' = mode
    BY <1>8 DEF LockMain
  <2>5. ASSUME NEW u \in Threads
        PROVE  Hold'[u] = [Hold EXCEPT ![t] = mode[t]][u]
    BY <2>1, <2>3, <2>4 DEF Hold, FileBacked
  <2>6. Hold' = [Hold EXCEPT ![t] = mode[t]]
    BY <2>5 DEF Hold
  <2> QED
    BY <2>1, <2>2, <2>6, EnterBarrier
<1>9. ASSUME NEW t \in Threads, ReleaseMain(t) PROVE Barrier!Next
  <2>1. ASSUME NEW u \in Threads
        PROVE  Hold'[u] = IF u = t THEN "none" ELSE Hold[u]
    <3>1. CASE u = t
      BY <1>9, <3>1 DEF ReleaseMain, Hold, OwnsMain
    <3>2. CASE u # t
      <4>1. OwnsMain(u)' <=> OwnsMain(u)
        BY <1>9, <3>2 DEF ReleaseMain, OwnsMain
      <4>2. mode' = mode /\ pc'[u] = pc[u]
        BY <1>9, <3>2 DEF ReleaseMain
      <4> QED
        BY <3>2, <4>1, <4>2 DEF Hold, FileBacked
    <3> QED
      BY <3>1, <3>2
  <2>2. Hold' = [u \in Threads |-> IF u \in {t} THEN "none" ELSE Hold[u]]
    BY <2>1 DEF Hold
  <2>3. Barrier!Leave({t})
    BY <2>2 DEF Barrier!Leave
  <2>4. {t} \in SUBSET Threads
    OBVIOUS
  <2> QED
    BY <2>3, <2>4 DEF Barrier!Next
<1>10. ASSUME NEW m \in Managers, Crash(m) PROVE Barrier!Next
  <2>1. ASSUME NEW u \in Threads
        PROVE  Hold'[u] = IF u \in ThreadsOf(m) THEN "none" ELSE Hold[u]
    <3>1. CASE u \in ThreadsOf(m)
      BY <1>10, <3>1 DEF Crash, Hold, OwnsMain
    <3>2. CASE u \notin ThreadsOf(m)
      <4>1. OwnsMain(u)' <=> OwnsMain(u)
        BY <1>10, <3>2 DEF Crash, OwnsMain
      <4>2. mode' = mode /\ pc'[u] = pc[u]
        BY <1>10, <3>2 DEF Crash
      <4> QED
        BY <3>2, <4>1, <4>2 DEF Hold, FileBacked
    <3> QED
      BY <3>1, <3>2
  <2>2. Hold' = [u \in Threads |-> IF u \in ThreadsOf(m) THEN "none"
                                                         ELSE Hold[u]]
    BY <2>1 DEF Hold
  <2>3. Barrier!Leave(ThreadsOf(m))
    BY <2>2 DEF Barrier!Leave
  <2>4. ThreadsOf(m) \in SUBSET Threads
    BY DEF ThreadsOf
  <2> QED
    BY <2>3, <2>4 DEF Barrier!Next
<1> QED
  BY <1>1, <1>2, <1>3, <1>4, <1>5, <1>6, <1>7, <1>8, <1>9, <1>10
     DEF Next, Step

\* The operation lock is a shared/exclusive barrier, for any number of
\* processes and goroutines.
THEOREM Refinement == Spec => ImplementsBarrier
<1>1. Init => Barrier!Init
  BY DEF Init, Barrier!Init, Hold, OwnsMain
<1>2. IndInv /\ IndInv' /\ [Next]_vars => [Barrier!Next]_Hold
  BY RefinementStep DEF IndInv
<1> QED
  BY <1>1, <1>2, Inductive, PTL DEF Spec, ImplementsBarrier, Barrier!Spec
=============================================================================
