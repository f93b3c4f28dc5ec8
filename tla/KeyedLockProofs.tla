-------------------------- MODULE KeyedLockProofs --------------------------
(***************************************************************************)
(* Proofs about KeyedLock, for any number of goroutines, keys and mutexes. *)
(*                                                                         *)
(* The argument: whoever has a reference points to the mutex that the map  *)
(* has for its key, because the counter beside the mutex is the number of  *)
(* goroutines that point to it and the entry goes with the last of them.   *)
(* Entries of different keys are different mutexes, because a new one is   *)
(* memory that nothing points to.  So a key has one mutex at any time, and *)
(* the one goroutine that locked it is inside.                             *)
(***************************************************************************)
EXTENDS KeyedLock, FiniteSetTheorems, TLAPS

Users(l) == {t \in Threads : ref[t].lock = l}

\* A goroutine's pointer is the map's entry.
PointsToEntry ==
  \A t \in Threads : ref[t].at # "out" => locks[ref[t].key] = ref[t].lock

\* No two keys have the same mutex.
EntriesDiffer ==
  \A j, k \in Keys : locks[j] = locks[k] /\ locks[k] # None => j = k

\* The counter is the number of goroutines that point to the mutex.
Counted == \A l \in Locks : refs[l] = Cardinality(Users(l))

\* A goroutine inside has locked the mutex it points to.
HoldersHold ==
  \A t \in Threads : ref[t].at = "hold" => holder[ref[t].lock] = t

LockInv == LockTypeOK /\ PointsToEntry /\ EntriesDiffer /\ Counted /\ HoldersHold

-----------------------------------------------------------------------------
\* Only finitely many goroutines point to a mutex.
LEMMA UsersFinite ==
  ASSUME NEW l
  PROVE  IsFiniteSet(Users(l)) /\ Cardinality(Users(l)) \in Nat
<1>1. Users(l) \in SUBSET Threads
  BY DEF Users
<1>2. IsFiniteSet(Users(l))
  BY <1>1, FS_Subset, LocksAssumption
<1>. QED BY <1>2, FS_CardinalityType

\* A goroutine outside points to no mutex.
LEMMA RefKinds ==
  ASSUME LockTypeOK, NEW t \in Threads
  PROVE  /\ ref[t] = NoRef => ref[t].at = "out" /\ ref[t].lock = None
         /\ ref[t].at # "out" => /\ ref[t].key \in Keys /\ ref[t].lock \in Locks
                                 /\ ref[t].at \in {"wait", "hold", "drop"}
         /\ ref[t].at = "out" => ref[t] = NoRef
BY DEF LockTypeOK, Refs, NoRef

\* An empty map, counters at zero and no goroutine inside.
LEMMA LockInitInv == LockInit => LockInv
<1>. SUFFICES ASSUME LockInit PROVE LockInv
  OBVIOUS
<1>1. LockTypeOK
  BY DEF LockInit, LockTypeOK, Refs
<1>2. PointsToEntry /\ HoldersHold
  BY DEF LockInit, PointsToEntry, HoldersHold, NoRef
<1>3. EntriesDiffer
  BY DEF LockInit, EntriesDiffer
<1>4. Counted
  <2>. SUFFICES ASSUME NEW l \in Locks PROVE refs[l] = Cardinality(Users(l))
    BY DEF Counted
  <2>1. Users(l) = {}
    BY LocksAssumption DEF LockInit, Users, NoRef
  <2>. QED BY <2>1, FS_EmptySet DEF LockInit
<1>. QED BY <1>1, <1>2, <1>3, <1>4 DEF LockInv

\* The first half of acquiring.
LEMMA ReferenceInv ==
  ASSUME LockInv, NEW t \in Threads, NEW k \in Keys, Reference(t, k)
  PROVE  LockInv'
<1>. USE DEF LockInv
<1>. PICK l \in Locks :
       /\ IF locks[k] = None
          THEN Unused(l) /\ refs' = [refs EXCEPT ![l] = 1]
          ELSE l = locks[k] /\ refs' = [refs EXCEPT ![l] = @ + 1]
       /\ locks' = [locks EXCEPT ![k] = l]
       /\ ref' = [ref EXCEPT ![t] = [key |-> k, lock |-> l, at |-> "wait"]]
  BY DEF Reference
<1>0. ref[t] = NoRef /\ holder' = holder
  BY DEF Reference
<1>1. LockTypeOK'
  BY <1>0 DEF LockTypeOK, Refs
<1>2. \A u \in Threads : u # t => ref'[u] = ref[u]
  BY DEF LockTypeOK
<1>3. ref'[t] = [key |-> k, lock |-> l, at |-> "wait"]
  BY DEF LockTypeOK
<1>4. PointsToEntry'
  <2>. SUFFICES ASSUME NEW u \in Threads, ref'[u].at # "out"
               PROVE  locks'[ref'[u].key] = ref'[u].lock
    BY DEF PointsToEntry
  <2>1. CASE u = t
    BY <2>1, <1>3 DEF LockTypeOK
  <2>2. CASE u # t
    BY <2>2, <1>2, RefKinds, LocksAssumption DEF LockTypeOK, PointsToEntry
  <2>. QED BY <2>1, <2>2
<1>5. EntriesDiffer'
  <2>1. \A j \in Keys : j # k => locks'[j] = locks[j] /\ locks[j] # l
    BY LocksAssumption DEF LockTypeOK, EntriesDiffer, Unused
  <2>2. locks'[k] = l
    BY DEF LockTypeOK
  <2>. QED BY <2>1, <2>2 DEF EntriesDiffer
<1>6. HoldersHold'
  BY <1>0, <1>2, <1>3 DEF HoldersHold
<1>7. Counted'
  <2>. SUFFICES ASSUME NEW m \in Locks
               PROVE  refs'[m] = Cardinality(Users(m)')
    BY DEF Counted
  <2>1. CASE m # l
    <3>1. Users(m)' = Users(m)
      BY <2>1, <1>0, <1>2, <1>3, LocksAssumption DEF Users, NoRef
    <3>2. refs'[m] = refs[m]
      BY <2>1 DEF LockTypeOK
    <3>. QED BY <3>1, <3>2 DEF Counted
  <2>2. CASE m = l
    <3>1. Users(m)' = Users(m) \cup {t}
      BY <2>2, <1>2, <1>3 DEF Users
    <3>2. t \notin Users(m)
      BY <2>2, <1>0, LocksAssumption DEF Users, NoRef
    <3>3. Cardinality(Users(m)') = Cardinality(Users(m)) + 1
      BY <3>1, <3>2, FS_AddElement, UsersFinite
    <3>4. CASE locks[k] = None
      <4>1. Users(m) = {}
        BY <3>4, <2>2 DEF Users, Unused
      <4>2. Cardinality(Users(m)) = 0
        BY <4>1, FS_EmptySet
      <4>. QED BY <4>2, <3>3, <3>4, <2>2 DEF LockTypeOK
    <3>5. CASE locks[k] # None
      BY <3>3, <3>5, <2>2 DEF Counted, LockTypeOK
    <3>. QED BY <3>4, <3>5
  <2>. QED BY <2>1, <2>2
<1>. QED BY <1>1, <1>4, <1>5, <1>6, <1>7

\* A step that moves a goroutine and leaves its key and pointer as they are.
LEMMA MoveInv ==
  ASSUME LockInv, NEW t \in Threads, NEW p \in {"hold", "drop"},
         ref[t].at # "out", ref' = [ref EXCEPT ![t].at = p],
         UNCHANGED <<locks, refs>>
  PROVE  /\ ref' \in [Threads -> Refs]
         /\ PointsToEntry' /\ EntriesDiffer' /\ Counted'
         /\ ref'[t].lock = ref[t].lock /\ ref'[t].at = p
         /\ \A u \in Threads : u # t => ref'[u] = ref[u]
<1>. USE DEF LockInv
<1>1. ref[t].key \in Keys /\ ref[t].lock \in Locks
  BY RefKinds
<1>2. /\ ref'[t].lock = ref[t].lock /\ ref'[t].at = p /\ ref'[t].key = ref[t].key
      /\ \A u \in Threads : u # t => ref'[u] = ref[u]
  BY DEF LockTypeOK, Refs, NoRef
<1>3. ref' \in [Threads -> Refs]
  BY <1>1 DEF LockTypeOK, Refs, NoRef
<1>4. PointsToEntry' /\ EntriesDiffer'
  BY <1>2 DEF PointsToEntry, EntriesDiffer
<1>5. \A l : Users(l)' = Users(l)
  BY <1>2 DEF Users
<1>6. Counted'
  BY <1>5 DEF Counted
<1>. QED BY <1>2, <1>3, <1>4, <1>6

\* The second half of acquiring.
LEMMA LockKeyInv ==
  ASSUME LockInv, NEW t \in Threads, LockKey(t)
  PROVE  LockInv'
<1>. USE DEF LockInv
<1>1. ref[t].at = "wait" /\ holder[ref[t].lock] = None /\ ref[t].lock \in Locks
  BY RefKinds DEF LockKey
<1>2. /\ PointsToEntry' /\ EntriesDiffer' /\ Counted'
      /\ ref' \in [Threads -> Refs]
      /\ ref'[t].lock = ref[t].lock /\ ref'[t].at = "hold"
      /\ \A u \in Threads : u # t => ref'[u] = ref[u]
  BY <1>1, MoveInv DEF LockKey
<1>3. LockTypeOK'
  BY <1>2 DEF LockTypeOK, LockKey
<1>4. HoldersHold'
  BY <1>1, <1>2, LocksAssumption DEF HoldersHold, LockKey, LockTypeOK
<1>. QED BY <1>2, <1>3, <1>4

\* The first half of releasing.
LEMMA UnlockKeyInv ==
  ASSUME LockInv, NEW t \in Threads, UnlockKey(t)
  PROVE  LockInv'
<1>. USE DEF LockInv
<1>1. ref[t].at = "hold" /\ ref[t].lock \in Locks
  BY RefKinds DEF UnlockKey
<1>2. /\ PointsToEntry' /\ EntriesDiffer' /\ Counted'
      /\ ref' \in [Threads -> Refs]
      /\ ref'[t].lock = ref[t].lock /\ ref'[t].at = "drop"
      /\ \A u \in Threads : u # t => ref'[u] = ref[u]
  BY <1>1, MoveInv DEF UnlockKey
<1>3. LockTypeOK'
  BY <1>2 DEF LockTypeOK, UnlockKey
<1>4. HoldersHold'
  BY <1>1, <1>2 DEF HoldersHold, UnlockKey, LockTypeOK
<1>. QED BY <1>2, <1>3, <1>4

\* The second half of releasing: with the last reference the entry goes, and
\* then nobody else points to it.
LEMMA DereferenceInv ==
  ASSUME LockInv, NEW t \in Threads, Dereference(t)
  PROVE  LockInv'
<1>. USE DEF LockInv
<1>0. PICK l : l = ref[t].lock
  OBVIOUS
<1>1. ref[t].at = "drop" /\ l \in Locks /\ ref[t].key \in Keys
  BY <1>0, RefKinds DEF Dereference
<1>2. /\ refs' = [refs EXCEPT ![l] = @ - 1] /\ holder' = holder
      /\ locks' = IF refs[l] = 1 THEN [locks EXCEPT ![ref[t].key] = None] ELSE locks
      /\ ref'[t] = NoRef
      /\ \A u \in Threads : u # t => ref'[u] = ref[u]
      /\ ref' = [ref EXCEPT ![t] = NoRef]
  BY <1>0 DEF Dereference, LockTypeOK
<1>3. t \in Users(l) /\ refs[l] = Cardinality(Users(l))
  BY <1>0, <1>1 DEF Users, Counted
<1>4. Users(l)' = Users(l) \ {t}
  BY <1>0, <1>1, <1>2, LocksAssumption DEF Users, NoRef
<1>5. Cardinality(Users(l)') = Cardinality(Users(l)) - 1
  BY <1>3, <1>4, UsersFinite, FS_RemoveElement
<1>6. refs[l] = 1 => Users(l) = {t}
  <2>1. Cardinality(Users(l)) = 1 => \E x : Users(l) = {x}
    BY UsersFinite, FS_Singleton
  <2>. QED BY <1>3, <2>1
<1>7. refs[l] # 0
  BY <1>3, UsersFinite, FS_EmptySet
<1>8. LockTypeOK'
  <2>1. refs' \in [Locks -> Nat]
    BY <1>1, <1>2, <1>7 DEF LockTypeOK
  <2>2. ref' \in [Threads -> Refs]
    BY <1>2 DEF LockTypeOK, Refs
  <2>. QED BY <1>1, <1>2, <2>1, <2>2 DEF LockTypeOK
<1>9. PointsToEntry'
  <2>. SUFFICES ASSUME NEW u \in Threads, ref'[u].at # "out"
               PROVE  locks'[ref'[u].key] = ref'[u].lock
    BY DEF PointsToEntry
  <2>1. u # t /\ ref'[u] = ref[u] /\ locks[ref[u].key] = ref[u].lock
    BY <1>2 DEF NoRef, PointsToEntry
  <2>2. CASE refs[l] = 1
    <3>1. ref[u].lock # l
      BY <2>1, <2>2, <1>6 DEF Users
    <3>2. ref[u].key # ref[t].key
      BY <3>1, <2>1, <1>0, <1>1 DEF PointsToEntry
    <3>. QED BY <3>2, <2>1, <1>2, RefKinds DEF LockTypeOK
  <2>3. CASE refs[l] # 1
    BY <2>3, <2>1, <1>2
  <2>. QED BY <2>2, <2>3
<1>10. EntriesDiffer'
  BY <1>1, <1>2 DEF EntriesDiffer, LockTypeOK
<1>11. HoldersHold'
  BY <1>2 DEF HoldersHold, NoRef
<1>12. Counted'
  <2>. SUFFICES ASSUME NEW m \in Locks
               PROVE  refs'[m] = Cardinality(Users(m)')
    BY DEF Counted
  <2>1. CASE m = l
    BY <2>1, <1>1, <1>2, <1>3, <1>5 DEF LockTypeOK
  <2>2. CASE m # l
    <3>1. Users(m)' = Users(m)
      BY <2>2, <1>0, <1>2, LocksAssumption DEF Users, NoRef
    <3>. QED BY <2>2, <3>1, <1>2 DEF Counted, LockTypeOK
  <2>. QED BY <2>1, <2>2
<1>. QED BY <1>8, <1>9, <1>10, <1>11, <1>12

\* Nothing happened to the locks.
LEMMA LockStutter ==
  ASSUME LockInv, UNCHANGED lockVars
  PROVE  LockInv'
BY DEF LockInv, lockVars, LockTypeOK, PointsToEntry, EntriesDiffer, Counted, Users,
       HoldersHold

\* The invariant excludes: the two goroutines would have locked one mutex.
LEMMA LockInvExcludes == LockInv => KeyExclusive
<1>. SUFFICES ASSUME LockInv, NEW t \in Threads, NEW u \in Threads, t # u
              PROVE  /\ \A k \in Keys : ~(Holding(t, k) /\ Holding(u, k))
                     /\ ref[t].lock = ref[u].lock => ref[t].key = ref[u].key
  BY DEF KeyExclusive
<1>1. \A k \in Keys : ~(Holding(t, k) /\ Holding(u, k))
  BY DEF Holding, LockInv, PointsToEntry, HoldersHold
<1>2. ref[t].lock = ref[u].lock => ref[t].key = ref[u].key
  <2>1. CASE ref[t].at = "out" \/ ref[u].at = "out"
    BY <2>1, RefKinds, LocksAssumption DEF LockInv, NoRef
  <2>2. CASE ref[t].at # "out" /\ ref[u].at # "out"
    BY <2>2, RefKinds, LocksAssumption DEF LockInv, PointsToEntry, EntriesDiffer
  <2>. QED BY <2>1, <2>2
<1>. QED BY <1>1, <1>2

\* The reference-counted locks of acquireBuildLock and acquireLocalPortLock
\* exclude per key, whoever uses them and in whatever order.
THEOREM LocksExclude == LockSpec => []KeyExclusive
<1>1. LockInv /\ [LockNext]_lockVars => LockInv'
  BY ReferenceInv, LockKeyInv, UnlockKeyInv, DereferenceInv, LockStutter
     DEF LockNext, LockStep
<1>. QED BY <1>1, LockInitInv, LockInvExcludes, PTL DEF LockSpec
=============================================================================
