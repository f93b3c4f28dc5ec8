-------------------------- MODULE MCChallengeUpdate --------------------------
(* Small instances of ChallengeUpdate for TLC.                             *)
EXTENDS ChallengeUpdate, TLC

CONSTANTS b1, b2, i1, i2

TwoEach == i1 :> b1 @@ i2 :> b2
=============================================================================
