----------------------- MODULE MCRuntimeRegistration -----------------------
(* Two register commands with different executables on a host whose other  *)
(* settings are fine, or rejected with a runtime, or not JSON, and where    *)
(* the name may be taken by an older interceptor or by another program.     *)
EXTENDS RuntimeRegistration, TLC

CONSTANTS c1, c2,                      \* commands
          i1, i2, runc,                \* executables
          empty, clashing, broken  \* other settings

OldRelease == [exe |-> i1, args |-> <<"path">>]
OtherProgram == [exe |-> runc, args |-> <<>>]
MCForeign == {OldRelease, OtherProgram}
CommandSymmetry == Permutations(Commands)
=============================================================================
