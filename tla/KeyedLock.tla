----------------------------- MODULE KeyedLock -----------------------------
(***************************************************************************)
(* A mutex for each key, made when a goroutine first asks for the key and  *)
(* dropped with its last reference: acquireBuildLock (docker.go) and       *)
(* acquireLocalPortLock (operation_lock.go).                               *)
(*                                                                         *)
(* The map from keys to mutexes has a mutex of its own, held only to count *)
(* a reference up or down; the wait for the key's mutex is outside of it.  *)
(* So acquiring is two steps and releasing is two steps, and the goroutine *)
(* keeps the pointer it got in the first of them.                          *)
(***************************************************************************)
EXTENDS Integers, FiniteSets

CONSTANTS
  Threads,  \* goroutines of one process
  Keys,     \* build keys, paths of port lock files
  Locks,    \* mutexes in memory
  None

ASSUME LocksAssumption ==
  None \notin Locks /\ None \notin Threads /\ IsFiniteSet(Threads)

VARIABLES
  locks,   \* locks[k]: the map's entry, or None
  refs,    \* refs[l]: the counter beside the mutex
  holder,  \* holder[l]: who has locked the mutex, or None
  ref      \* ref[t]: the goroutine's key, its pointer and its next step

lockVars == <<locks, refs, holder, ref>>

NoRef == [key |-> None, lock |-> None, at |-> "out"]

\* A goroutine is outside, waits for the mutex, holds it, or has unlocked it
\* and not yet dropped its reference.
Refs == [key : Keys, lock : Locks, at : {"wait", "hold", "drop"}] \cup {NoRef}

LockInit ==
  /\ locks = [k \in Keys |-> None]
  /\ refs = [l \in Locks |-> 0]
  /\ holder = [l \in Locks |-> None]
  /\ ref = [t \in Threads |-> NoRef]

\* Memory that nothing points to: new may return it.
Unused(l) ==
  /\ \A k \in Keys : locks[k] # l
  /\ \A t \in Threads : ref[t].lock # l

\* buildLocksMu held: find or make the key's mutex, count the reference.
Reference(t, k) ==
  /\ ref[t] = NoRef
  /\ \E l \in Locks :
       /\ IF locks[k] = None
          THEN Unused(l) /\ refs' = [refs EXCEPT ![l] = 1]
          ELSE l = locks[k] /\ refs' = [refs EXCEPT ![l] = @ + 1]
       /\ locks' = [locks EXCEPT ![k] = l]
       /\ ref' = [ref EXCEPT ![t] = [key |-> k, lock |-> l, at |-> "wait"]]
  /\ UNCHANGED holder

LockKey(t) ==
  /\ ref[t].at = "wait" /\ holder[ref[t].lock] = None
  /\ holder' = [holder EXCEPT ![ref[t].lock] = t]
  /\ ref' = [ref EXCEPT ![t].at = "hold"]
  /\ UNCHANGED <<locks, refs>>

UnlockKey(t) ==
  /\ ref[t].at = "hold"
  /\ holder' = [holder EXCEPT ![ref[t].lock] = None]
  /\ ref' = [ref EXCEPT ![t].at = "drop"]
  /\ UNCHANGED <<locks, refs>>

\* Mistake: the entry goes with the first reference.
DereferenceAlways(t) ==
  /\ ref[t].at = "drop"
  /\ refs' = [refs EXCEPT ![ref[t].lock] = @ - 1]
  /\ locks' = [locks EXCEPT ![ref[t].key] = None]
  /\ ref' = [ref EXCEPT ![t] = NoRef]
  /\ UNCHANGED holder

\* buildLocksMu held again: the last reference deletes the entry.
Dereference(t) ==
  /\ ref[t].at = "drop"
  /\ LET l == ref[t].lock
     IN  /\ refs' = [refs EXCEPT ![l] = @ - 1]
         /\ locks' = IF refs[l] = 1 THEN [locks EXCEPT ![ref[t].key] = None] ELSE locks
  /\ ref' = [ref EXCEPT ![t] = NoRef]
  /\ UNCHANGED holder

LockStep(t) ==
  \/ \E k \in Keys : Reference(t, k)
  \/ LockKey(t) \/ UnlockKey(t) \/ Dereference(t)

LockNext == \E t \in Threads : LockStep(t)
LockSpec == LockInit /\ [][LockNext]_lockVars

-----------------------------------------------------------------------------

\* The type of the lock's state.
LockTypeOK ==
  /\ locks \in [Keys -> Locks \cup {None}]
  /\ refs \in [Locks -> Nat]
  /\ holder \in [Locks -> Threads \cup {None}]
  /\ ref \in [Threads -> Refs]

Holding(t, k) == ref[t].at = "hold" /\ ref[t].key = k

\* acquireBuildLock and acquireLocalPortLock: two goroutines are never inside
\* for the same key, however the map's entry was dropped and made anew
\* between their calls, and goroutines of different keys never share a mutex.
KeyExclusive ==
  \A t, u \in Threads :
    t # u => /\ \A k \in Keys : ~(Holding(t, k) /\ Holding(u, k))
             /\ ref[t].lock = ref[u].lock => ref[t].key = ref[u].key
=============================================================================
