------------------------------ MODULE RWBarrier ------------------------------
(***************************************************************************)
(* What cmgr's operations may rely on when they take the operation lock    *)
(* (cmgr/operation_lock.go): a shared/exclusive barrier.  Any number of    *)
(* ordinary operations on one database may be inside together, an          *)
(* exclusive one is inside alone.  The barrier says nothing about how      *)
(* a waiter is held back; OperationLock, which does, implements it.        *)
(***************************************************************************)
CONSTANTS Users,        \* the goroutines that run operations
          DatabaseOf    \* DatabaseOf[u]: the database whose barrier u uses

VARIABLE hold           \* hold[u]: "none", "shared" or "exclusive"

Holds == {"none", "shared", "exclusive"}

Init == hold = [u \in Users |-> "none"]

\* The users that are inside the barrier of u's database, u left out.
Others(u) == {v \in Users \ {u} : /\ DatabaseOf[v] = DatabaseOf[u]
                                  /\ hold[v] # "none"}

\* u enters alone, or together with shared users only.
Enter(u, m) == /\ hold[u] = "none"
               /\ \A v \in Others(u) : m = "shared" /\ hold[v] = "shared"
               /\ hold' = [hold EXCEPT ![u] = m]

\* The users of gone leave: one whose operation ends, or all of a process
\* that dies.
Leave(gone) ==
  hold' = [u \in Users |-> IF u \in gone THEN "none" ELSE hold[u]]

Next == \/ \E u \in Users, m \in {"shared", "exclusive"} : Enter(u, m)
        \/ \E gone \in SUBSET Users : Leave(gone)

Spec == Init /\ [][Next]_hold

=============================================================================
