--------------------------- MODULE MCOperationLock ---------------------------
(* Two processes on one database file, one of them with two goroutines.     *)
EXTENDS OperationLock, TLC

CONSTANTS p, q,        \* Managers
          p1, p2, q1   \* threads

MCManagerOf == (p1 :> p) @@ (p2 :> p) @@ (q1 :> q)
=============================================================================
