------------------------ MODULE MCInstanceLifecycle ------------------------
(* One build whose instances clients start and stop, one with a fixed       *)
(* number of instances.                                                     *)
EXTENDS InstanceLifecycle, TLC

CONSTANTS dyn, fixed,   \* builds
          a, b          \* requests

MCTarget == (dyn :> DYNAMIC_INSTANCES) @@ (fixed :> 1)
\* The requests are interchangeable.
RequestSymmetry == Permutations(Ops)
=============================================================================
