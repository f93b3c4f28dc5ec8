------------------------- MODULE MCSchemaConvergence -------------------------
(* Small instances of SchemaConvergence for TLC.                           *)
EXTENDS SchemaConvergence, TLC

CONSTANTS a, b, c

OneFixed   == a :> 1
Bigger     == a :> 2 @@ b :> DYNAMIC_INSTANCES
Moved      == b :> 1 @@ c :> 1

ThreeDefinitions == {OneFixed, Bigger, Moved}
OnlyBigger       == {Bigger}
OnlyDynamic      == {b :> DYNAMIC_INSTANCES}
DynamicOrNot     == {OneFixed, b :> DYNAMIC_INSTANCES}
=============================================================================
