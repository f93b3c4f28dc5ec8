----------------------- MODULE SchemaConvergenceProofs -----------------------
(***************************************************************************)
(* For any definitions, builds, failures and crashes: the state is well    *)
(* typed, staged builds never serve, the builds in force are those of one  *)
(* whole definition, a request that reports no error has converged on its  *)
(* definition, and before the activation builds in force lose nothing.     *)
(***************************************************************************)
EXTENDS SchemaConvergence, SequenceTheorems, FiniteSetTheorems, TLAPS

\* Steps of convergeSchema up to the activation
Planning == {"stage", "generate", "finalize", "discard", "drop", "scale",
             "start", "undo", "activate"}

\* What the request has established so far: rows first, then finished builds.
Plan ==
  /\ At("idle") => req.todo = {}
  /\ req.pc \in Planning \cup {"reduce"} => req.todo \subseteq DOMAIN req.def
  /\ req.pc \in Planning => req.def \in Definitions
  /\ At("stage") => DOMAIN req.def \ req.todo \subseteq Existing
  /\ req.pc \in {"generate", "finalize", "discard", "drop"} =>
       /\ DOMAIN req.def \subseteq Existing
       /\ \A k \in DOMAIN req.def \ req.todo : flag[k]
  /\ req.pc \in {"finalize", "discard", "drop"} =>
       req.todo # {} /\ ~flag[Current]
  /\ req.pc \in {"scale", "start", "undo", "activate"} =>
       \A k \in DOMAIN req.def : flag[k]
  /\ req.pc \in {"start", "undo"} => req.todo # {} /\ insts[Current] # <<>>
  /\ At("erase") => Locked # {}

\* The instances it has created, in the order of their positions: until the
\* activation, or until they are rolled back, they are there.
Creation ==
  /\ req.pc \notin {"scale", "start", "undo", "activate", "rollback"} =>
       req.made = <<>>
  /\ \A j \in DOMAIN req.made :
       /\ flag[req.made[j][1]]
       /\ req.made[j][2] <= Len(insts[req.made[j][1]])
       /\ req.pc \in {"start", "undo"} /\ req.made[j][1] = Current =>
            req.made[j][2] < Len(insts[Current])
  /\ \A i, j \in DOMAIN req.made :
       i < j /\ req.made[i][1] = req.made[j][1] =>
         req.made[i][2] < req.made[j][2]

\* Only rows carry a flag.
FlagsOnRows == \A k \in Keys : flag[k] => k \in Existing

IndInv ==
  /\ TypeOK /\ Plan /\ Creation /\ FlagsOnRows
  /\ OnlyFinishedServe /\ WholeDefinition

-----------------------------------------------------------------------------
(* Choices and sequences                                                   *)

\* The build in hand is one the loop has still to visit.
LEMMA CurrentInTodo == ASSUME req.todo # {} PROVE Current \in req.todo
BY DEF Current

\* destroyImages is called for a locked build.
LEMMA DoomedLocked == ASSUME Locked # {} PROVE Doomed \in Locked
BY DEF Doomed

\* A locked build with instances is in hand while there is one.
LEMMA CrowdedChosen ==
  ASSUME Crowded # {} PROVE (CHOOSE k \in Crowded : TRUE) \in Crowded
OBVIOUS

\* A removed instance shortens the list by one.
LEMMA RemoveAtProperties ==
  ASSUME NEW S, NEW s \in Seq(S), NEW i \in 1 .. Len(s)
  PROVE  /\ RemoveAt(s, i) \in Seq(S)
         /\ Len(RemoveAt(s, i)) = Len(s) - 1
<1>1. /\ SubSeq(s, 1, i - 1) \in Seq(S) /\ SubSeq(s, i + 1, Len(s)) \in Seq(S)
      /\ Len(SubSeq(s, 1, i - 1)) = i - 1
      /\ Len(SubSeq(s, i + 1, Len(s))) = Len(s) - i
  BY SubSeqProperties, LenProperties
<1>2. Len(s) \in Nat
  BY LenProperties
<1>3. SubSeq(s, 1, i - 1) \o SubSeq(s, i + 1, Len(s)) \in Seq(S)
  BY <1>1, ConcatProperties, Zenon
<1>4. Len(SubSeq(s, 1, i - 1) \o SubSeq(s, i + 1, Len(s)))
        = Len(SubSeq(s, 1, i - 1)) + Len(SubSeq(s, i + 1, Len(s)))
  BY <1>1, ConcatProperties, Zenon
<1>5. (i - 1) + (Len(s) - i) = Len(s) - 1
  BY <1>2
<1> QED BY <1>1, <1>3, <1>4, <1>5, Zenon DEF RemoveAt

\* So does Front, which keeps the others.
LEMMA FrontProperties ==
  ASSUME NEW S, NEW s \in Seq(S), s # <<>>
  PROVE  /\ Front(s) \in Seq(S) /\ Len(Front(s)) = Len(s) - 1
         /\ DOMAIN Front(s) = 1 .. Len(s) - 1
         /\ \A j \in 1 .. Len(s) - 1 : Front(s)[j] = s[j]
         /\ Len(s) \in Nat \ {0} /\ Last(s) \in S
<1>1. Len(s) \in Nat \ {0} /\ s \in [1 .. Len(s) -> S]
  BY EmptySeq, LenProperties
<1>2. SubSeq(s, 1, Len(s) - 1) \in Seq(S)
      /\ Len(SubSeq(s, 1, Len(s) - 1)) = Len(s) - 1
      /\ \A j \in 1 .. Len(s) - 1 : SubSeq(s, 1, Len(s) - 1)[j] = s[j]
  BY <1>1, SubSeqProperties
<1> QED BY <1>1, <1>2, LenProperties DEF Front, Last

-----------------------------------------------------------------------------
(* Shared steps                                                            *)

\* In a definition every count is a number that is neither LOCKED nor None.
LEMMA DefinitionCounts ==
  ASSUME NEW d \in Definitions \cup Deployed
  PROVE  /\ DOMAIN d \subseteq Keys
         /\ \A k \in DOMAIN d : /\ d[k] \in Int /\ d[k] >= DYNAMIC_INSTANCES
                                /\ d[k] # LOCKED /\ d[k] # None
BY SchemaAssumption DEF Valid, DYNAMIC_INSTANCES, LOCKED

\* A step that leaves the active builds and their counts alone leaves one
\* definition in force.
LEMMA SameForce ==
  ASSUME WholeDefinition, Active' = Active,
         \A k \in Active : count'[k] = count[k]
  PROVE  WholeDefinition'
<1>1. CASE Active = {}
  BY <1>1 DEF WholeDefinition
<1>2. CASE \E d \in Definitions \cup Deployed : InForce(d)
  <2>1. PICK d \in Definitions \cup Deployed : InForce(d)
    BY <1>2
  <2>2. \A k \in DOMAIN d : k \in Active
    BY <2>1, DefinitionCounts DEF InForce, Active, Existing, Locked
  <2>3. InForce(d)'
    BY <2>1, <2>2 DEF InForce
  <2> QED BY <2>3 DEF WholeDefinition
<1> QED BY <1>1, <1>2 DEF WholeDefinition

\* A step that changes no row and no list of instances
LEMMA RowsKept ==
  ASSUME IndInv, UNCHANGED <<count, flag, insts>>
  PROVE  FlagsOnRows' /\ OnlyFinishedServe' /\ WholeDefinition'
<1>1. Active' = Active /\ Existing' = Existing
  BY DEF Active, Existing, Locked
<1> QED BY <1>1, SameForce DEF IndInv, FlagsOnRows, OnlyFinishedServe

\* The loops visit builds of the definition, and the one in hand is visited.
LEMMA DefinitionTyped ==
  ASSUME TypeOK
  PROVE  /\ DOMAIN req.def \subseteq Keys
         /\ \A k \in DOMAIN req.def : /\ req.def[k] \in Int
                                      /\ req.def[k] >= DYNAMIC_INSTANCES
                                      /\ req.def[k] # LOCKED
                                      /\ req.def[k] # None
<1>1. req.def \in Definitions \/ req.def = Empty
  BY DEF TypeOK, Requests
<1>2. DOMAIN Empty = {}
  BY DEF Empty
<1> QED BY <1>1, <1>2, DefinitionCounts

LEMMA FaultsTyped ==
  ASSUME TypeOK, NEW kind, Fails(kind)
  PROVE  faults' \in 0 .. MaxFaults
BY SchemaAssumption DEF TypeOK, Fails

LEMMA VisitedCurrent ==
  ASSUME Visited
  PROVE  req' = [req EXCEPT !.todo = req.todo \ {Current}, !.at = 0]
BY DEF Visited, Current

LEMMA VisitedRequest ==
  ASSUME TypeOK, Visited
  PROVE  /\ req' \in Requests
         /\ req'.todo = req.todo \ {Current} /\ req'.at = 0
         /\ req'.pc = req.pc /\ req'.def = req.def /\ req'.made = req.made
         /\ req'.errs = req.errs /\ req'.after = req.after
<1>1. req.todo \ {Current} \in SUBSET Keys /\ req \in Requests
  BY DEF TypeOK, Requests
<1>2. PICK t \in SUBSET Keys : t = req.todo \ {Current}
  BY <1>1
<1>3. req' = [req EXCEPT !.todo = t, !.at = 0]
  BY <1>2, VisitedCurrent
<1>4. req' \in Requests
  BY <1>1, <1>3 DEF Requests
<1> QED BY <1>1, <1>2, <1>3, <1>4 DEF Requests

LEMMA SameCurrent == ASSUME req'.todo = req.todo PROVE Current' = Current
BY DEF Current

LEMMA GotoRequest ==
  ASSUME TypeOK, NEW p \in Steps, Goto(p)
  PROVE  /\ req' \in Requests /\ req'.pc = p
         /\ req'.todo = req.todo /\ req'.def = req.def
         /\ req'.made = req.made
         /\ req'.errs = req.errs /\ req'.after = req.after
BY DEF TypeOK, Requests, Goto

LEMMA LoopRequest ==
  ASSUME TypeOK, NEW p \in Steps, Loop(p)
  PROVE  /\ req' \in Requests /\ req'.pc = p
         /\ req'.todo = DOMAIN req.def /\ req'.def = req.def
         /\ req'.made = req.made
         /\ req'.errs = req.errs /\ req'.after = req.after
BY DefinitionTyped DEF TypeOK, Requests, Loop

LEMMA FailRequest ==
  ASSUME TypeOK, FailBeforeActivation
  PROVE  /\ req' \in Requests /\ req'.pc = "rollback"
         /\ req'.made = req.made /\ req'.errs = TRUE
BY DEF TypeOK, Requests, FailBeforeActivation, Steps

LEMMA IdleRequest ==
  Idle \in Requests /\ Idle.pc = "idle" /\ Idle.todo = {} /\ Idle.made = <<>>
<1>1. <<>> \in Seq(Keys \X (Nat \ {0}))
  BY EmptySeq
<1> QED BY <1>1 DEF Idle, Requests, Steps

\* A created instance is a build and a position.
LEMMA MadeTyped ==
  ASSUME TypeOK
  PROVE  /\ Len(req.made) \in Nat /\ DOMAIN req.made = 1 .. Len(req.made)
         /\ \A j \in DOMAIN req.made : /\ req.made[j][1] \in Keys
                                       /\ req.made[j][2] \in Nat \ {0}
<1>1. req.made \in Seq(Keys \X (Nat \ {0}))
  BY DEF TypeOK, Requests
<1>2. /\ Len(req.made) \in Nat /\ DOMAIN req.made = 1 .. Len(req.made)
      /\ \A j \in DOMAIN req.made : req.made[j] \in Keys \X (Nat \ {0})
  BY <1>1, LenProperties, ElementOfSeq
<1> QED BY <1>2

\* After a failure nothing is planned any more.
LEMMA FailPlan ==
  ASSUME TypeOK, FailBeforeActivation PROVE Plan'
BY FailRequest DEF Plan, At, Planning

\* Once the request is idle nothing is planned or created.
LEMMA IdlePlan ==
  ASSUME req' = Idle PROVE Plan' /\ Creation'
BY IdleRequest DEF Plan, At, Planning, Creation

-----------------------------------------------------------------------------
(* The steps of convergeSchema                                             *)

\* stageBuild turns missing rows into locked ones, which are not active.
LEMMA StageBuildStep == ASSUME IndInv, StageBuild PROVE IndInv'
<1>1. TypeOK /\ Plan /\ Creation /\ OnlyFinishedServe
  BY DEF IndInv
<1>2. "generate" \in Steps
  BY DEF Steps
<1>3. req.todo # {} => Current \in req.todo /\ Current \in Keys
  BY <1>1, CurrentInTodo DEF TypeOK, Requests
<1>4. count' \in [Keys -> Int \cup {None}]
  BY <1>1, <1>3 DEF TypeOK, StageBuild, LOCKED
<1>5. faults' \in 0 .. MaxFaults
  BY <1>1, FaultsTyped DEF StageBuild, Works, TypeOK
<1>6. req' \in Requests
  BY <1>1, <1>2, VisitedRequest, LoopRequest, FailRequest DEF StageBuild
<1>7. TypeOK'
  BY <1>1, <1>4, <1>5, <1>6 DEF StageBuild, TypeOK
<1>8. Existing \subseteq Existing' /\ Active' = Active
  BY <1>1, <1>3 DEF TypeOK, StageBuild, Existing, Active, Locked
<1>9. FlagsOnRows' /\ OnlyFinishedServe'
  BY <1>8 DEF IndInv, FlagsOnRows, OnlyFinishedServe, StageBuild
<1>10. WholeDefinition'
  BY <1>1, <1>3, <1>8, SameForce DEF IndInv, TypeOK, StageBuild, Active, Existing
<1>11. Plan'
  <2>1. CASE /\ req.todo # {} /\ Visited
             /\ count' = [count EXCEPT ![Current] = IF @ = None THEN LOCKED
                                                   ELSE @]
    <3>1. Current \in Existing'
      BY <1>1, <1>3, <2>1, SchemaAssumption DEF Existing, TypeOK, LOCKED
    <3> QED BY <1>1, <1>8, <2>1, <3>1, VisitedRequest
      DEF Plan, At, Planning, StageBuild
  <2>2. CASE FailBeforeActivation
    BY <1>1, <2>2, FailPlan
  <2>3. CASE req.todo = {} /\ Loop("generate")
    BY <1>1, <1>2, <1>8, <2>3, LoopRequest DEF Plan, StageBuild, At, Planning
  <2> QED BY <2>1, <2>2, <2>3 DEF StageBuild
<1>12. Creation'
  BY <1>1, <1>2, VisitedRequest, LoopRequest, FailRequest, ZenonT(60)
     DEF Creation, StageBuild, At
<1> QED BY <1>7, <1>9, <1>10, <1>11, <1>12 DEF IndInv

\* generateBuilds changes no row: it goes on with finished builds only.
LEMMA GenerateBuildStep == ASSUME IndInv, GenerateBuild PROVE IndInv'
<1>1. TypeOK /\ Plan /\ Creation
  BY DEF IndInv
<1>2. {"finalize", "discard", "scale"} \subseteq Steps
  BY DEF Steps
<1>3. req.todo # {} => Current \in req.todo /\ Current \in Keys
  BY <1>1, CurrentInTodo DEF TypeOK, Requests
<1>4. UNCHANGED <<schema, count, flag, insts>>
  BY DEF GenerateBuild
<1>5. FlagsOnRows' /\ OnlyFinishedServe' /\ WholeDefinition'
  BY <1>4, RowsKept
<1>6. image' \in [Keys -> BOOLEAN]
  BY <1>1, <1>3 DEF TypeOK, GenerateBuild
<1>7. faults' \in 0 .. MaxFaults
  BY <1>1, FaultsTyped DEF GenerateBuild, Works, TypeOK
<1>8. \/ req.todo # {} /\ flag[Current] /\ Visited
      \/ req.todo # {} /\ ~flag[Current] /\ (Goto("finalize") \/ Goto("discard"))
      \/ FailBeforeActivation
      \/ req.todo = {} /\ Loop("scale")
  BY DEF GenerateBuild
<1>9. req' \in Requests
  BY <1>1, <1>2, <1>8, VisitedRequest, GotoRequest, LoopRequest, FailRequest
<1>10. TypeOK'
  BY <1>1, <1>4, <1>6, <1>7, <1>9 DEF TypeOK
<1>11. At("generate") /\ Existing' = Existing
  BY <1>4 DEF GenerateBuild, Existing
<1>12. Plan'
  <2>1. CASE req.todo # {} /\ flag[Current] /\ Visited
    BY <1>1, <1>4, <1>11, <2>1, VisitedRequest DEF Plan, At, Planning
  <2>2. CASE req.todo # {} /\ ~flag[Current]
             /\ (Goto("finalize") \/ Goto("discard"))
    <3>1. /\ req'.pc \in {"finalize", "discard"} /\ req'.todo = req.todo
          /\ req'.def = req.def
      BY <1>1, <1>2, <2>2, GotoRequest
    <3> QED BY <1>1, <1>4, <1>11, <2>2, <3>1, SameCurrent DEF Plan, At, Planning
  <2>3. CASE FailBeforeActivation
    BY <1>1, <2>3, FailPlan
  <2>4. CASE req.todo = {} /\ Loop("scale")
    BY <1>1, <1>2, <1>4, <1>11, <2>4, LoopRequest DEF Plan, At, Planning
  <2> QED BY <1>8, <2>1, <2>2, <2>3, <2>4
<1>13. Creation'
  <2>1. req'.made = <<>>
    BY <1>1, <1>2, <1>8, <1>11, VisitedRequest, GotoRequest, LoopRequest,
      FailRequest DEF Creation, At
  <2> QED BY <2>1 DEF Creation
<1> QED BY <1>5, <1>10, <1>12, <1>13 DEF IndInv

\* finalizeBuild flags the build in hand.
LEMMA FinalizeBuildStep == ASSUME IndInv, FinalizeBuild PROVE IndInv'
<1>1. TypeOK /\ Plan /\ Creation /\ At("finalize")
  BY DEF IndInv, FinalizeBuild
<1>2. {"generate", "discard"} \subseteq Steps
  BY DEF Steps
<1>3. Current \in req.todo /\ Current \in Keys /\ Current \in Existing
  BY <1>1, CurrentInTodo DEF TypeOK, Requests, Plan, At, Planning
<1>4. UNCHANGED <<schema, count, image, insts>>
  BY DEF FinalizeBuild
<1>5. flag' = [flag EXCEPT ![Current] = TRUE] \/ flag' = flag
  BY DEF FinalizeBuild
<1>6. faults' \in 0 .. MaxFaults
  BY <1>1, FaultsTyped DEF FinalizeBuild, Works, TypeOK
<1>7. \/ flag' = [flag EXCEPT ![Current] = TRUE] /\ Goto("generate")
      \/ flag' = flag /\ Goto("discard")
  BY DEF FinalizeBuild
<1>8. /\ req' \in Requests /\ req'.todo = req.todo /\ req'.def = req.def
      /\ req'.made = req.made /\ req'.pc \in {"generate", "discard"}
      /\ flag' = flag \/ req'.pc = "generate"
  BY <1>1, <1>2, <1>7, GotoRequest
<1>9. TypeOK'
  BY <1>1, <1>3, <1>4, <1>5, <1>6, <1>8 DEF TypeOK
<1>10. Existing' = Existing /\ Active' = Active
  BY <1>4 DEF Existing, Active, Locked
<1>11. FlagsOnRows' /\ OnlyFinishedServe'
  BY <1>1, <1>3, <1>4, <1>5, <1>10 DEF IndInv, FlagsOnRows, OnlyFinishedServe,
    TypeOK
<1>12. WholeDefinition'
  BY <1>4, <1>10, SameForce DEF IndInv
<1>13. \A k \in Keys : flag[k] => flag'[k]
  BY <1>1, <1>3, <1>5 DEF TypeOK
<1>14. Plan'
  <2>1. DOMAIN req.def \subseteq Keys
    BY <1>1, DefinitionTyped
  <2> QED BY <1>1, <1>7, <1>8, <1>10, <1>13, <2>1, SameCurrent
        DEF Plan, At, Planning
<1>15. Creation'
  BY <1>1, <1>8 DEF Creation, At
<1> QED BY <1>9, <1>11, <1>12, <1>14, <1>15 DEF IndInv

\* discardStagedBuild changes no row.
LEMMA DiscardBuildStep == ASSUME IndInv, DiscardBuild PROVE IndInv'
<1>1. TypeOK /\ Plan /\ Creation /\ At("discard")
  BY DEF IndInv, DiscardBuild
<1>2. UNCHANGED <<schema, count, flag, insts>>
  BY DEF DiscardBuild
<1>3. FlagsOnRows' /\ OnlyFinishedServe' /\ WholeDefinition'
  BY <1>2, RowsKept
<1>4. image' \in [Keys -> BOOLEAN] /\ faults' \in 0 .. MaxFaults
  BY <1>1, FaultsTyped DEF TypeOK, DiscardBuild, Works
<1>5. /\ req' \in Requests /\ req'.todo = req.todo /\ req'.def = req.def
      /\ req'.made = req.made /\ req'.pc = "drop"
  BY <1>1, GotoRequest DEF DiscardBuild, Steps
<1>6. Existing' = Existing /\ Current' = Current
  BY <1>2, <1>5, SameCurrent DEF Existing
<1>7. Plan' /\ Creation'
  BY <1>1, <1>2, <1>5, <1>6 DEF Plan, Creation, At, Planning
<1> QED BY <1>1, <1>2, <1>3, <1>4, <1>5, <1>7 DEF IndInv, TypeOK

\* A build that is not active loses its row: no definition is affected.
LEMMA RemoveRow ==
  ASSUME TypeOK, FlagsOnRows, OnlyFinishedServe, WholeDefinition,
         NEW k \in Keys, k \notin Active, RemoveBuildMetadata(k),
         UNCHANGED insts
  PROVE  /\ count' \in [Keys -> Int \cup {None}] /\ flag' \in [Keys -> BOOLEAN]
         /\ FlagsOnRows' /\ OnlyFinishedServe' /\ WholeDefinition'
<1>1. /\ count' = [count EXCEPT ![k] = None]
      /\ flag' = [flag EXCEPT ![k] = FALSE] /\ insts[k] = <<>>
  BY DEF RemoveBuildMetadata
<1>2. count' \in [Keys -> Int \cup {None}] /\ flag' \in [Keys -> BOOLEAN]
  BY <1>1 DEF TypeOK
<1>3. Existing' = Existing \ {k}
  BY <1>1 DEF Existing, TypeOK
<1>4. Active' = Active
  BY <1>1, <1>3 DEF Active, Locked, Existing, TypeOK
<1>5. FlagsOnRows' /\ OnlyFinishedServe'
  BY <1>1, <1>3, <1>4 DEF FlagsOnRows, OnlyFinishedServe, TypeOK
<1>6. WholeDefinition'
  BY <1>1, <1>4, SameForce DEF TypeOK, Active, Existing
<1> QED BY <1>2, <1>5, <1>6

\* The row of a failed build was never finished, so it is not active.
LEMMA DropBuildStep == ASSUME IndInv, DropBuild PROVE IndInv'
<1>1. TypeOK /\ Plan /\ Creation /\ At("drop")
  BY DEF IndInv, DropBuild
<1>2. Current \in Keys /\ Current \notin Active
  BY <1>1, CurrentInTodo DEF TypeOK, Requests, Plan, At, IndInv,
    OnlyFinishedServe
<1>3. UNCHANGED <<schema, image, insts>> /\ FailBeforeActivation
  BY DEF DropBuild
<1>4. /\ count' \in [Keys -> Int \cup {None}] /\ flag' \in [Keys -> BOOLEAN]
      /\ FlagsOnRows' /\ OnlyFinishedServe' /\ WholeDefinition'
  <2>1. CASE RemoveBuildMetadata(Current)
    BY <1>2, <1>3, <2>1, RemoveRow DEF IndInv
  <2>2. CASE UNCHANGED <<count, flag>>
    BY <1>1, <1>3, <2>2, RowsKept DEF TypeOK
  <2> QED BY <2>1, <2>2 DEF DropBuild
<1>5. faults' \in 0 .. MaxFaults
  BY <1>1, FaultsTyped DEF DropBuild, Works, TypeOK
<1>6. Plan' /\ Creation' /\ req' \in Requests
  BY <1>1, <1>3, FailPlan, FailRequest DEF Creation, At
<1> QED BY <1>1, <1>3, <1>4, <1>5, <1>6 DEF IndInv, TypeOK

\* openInstance lengthens the list of a finished build.
LEMMA ScaleUpStep == ASSUME IndInv, ScaleUp PROVE IndInv'
<1>1. TypeOK /\ Plan /\ Creation /\ At("scale") /\ FlagsOnRows
  BY DEF IndInv, ScaleUp
<1>2. {"start", "activate"} \subseteq Steps
  BY DEF Steps
<1>3. req.todo # {} =>
        /\ Current \in req.todo /\ Current \in Keys /\ flag[Current]
        /\ insts[Current] \in Seq({"up", "part"})
  BY <1>1, CurrentInTodo DEF TypeOK, Requests, Plan, At, Planning
<1>4. UNCHANGED <<schema, count, flag, image>>
  BY DEF ScaleUp, builds
<1>5. faults' \in 0 .. MaxFaults
  BY <1>1, FaultsTyped DEF ScaleUp, Works, TypeOK
<1>6. Existing' = Existing /\ Active' = Active
  BY <1>4 DEF Existing, Active, Locked
<1>7. CASE /\ req.todo # {} /\ Goto("start")
           /\ insts' = [insts EXCEPT ![Current] = Append(@, "part")]
  <2>1. /\ Append(insts[Current], "part") \in Seq({"up", "part"})
        /\ Len(Append(insts[Current], "part")) = Len(insts[Current]) + 1
        /\ Len(insts[Current]) \in Nat
    BY <1>3, <1>7, AppendProperties, LenProperties
  <2>2. Append(insts[Current], "part") # <<>>
    BY <2>1, EmptySeq
  <2>3. /\ req' \in Requests /\ req'.todo = req.todo /\ req'.def = req.def
        /\ req'.made = req.made /\ req'.pc = "start" /\ Current' = Current
    BY <1>1, <1>2, <1>7, GotoRequest, SameCurrent
  <2>4. /\ insts' \in [Keys -> Seq({"up", "part"})]
        /\ insts'[Current] = Append(insts[Current], "part")
        /\ \A k \in Keys : k # Current => insts'[k] = insts[k]
    BY <1>1, <1>3, <1>7, <2>1 DEF TypeOK
  <2>5. TypeOK'
    BY <1>1, <1>4, <1>5, <2>3, <2>4 DEF TypeOK
  <2>6. FlagsOnRows' /\ OnlyFinishedServe'
    BY <1>3, <1>4, <1>6, <1>7, <2>4 DEF IndInv, FlagsOnRows, OnlyFinishedServe
  <2>7. WholeDefinition'
    BY <1>4, <1>6, SameForce DEF IndInv
  <2>8. Plan'
    BY <1>1, <1>3, <1>4, <1>7, <2>2, <2>3, <2>4 DEF Plan, At, Planning
  <2>9. Creation'
    <3>1. \A j \in DOMAIN req.made :
            /\ req.made[j][1] \in Keys /\ req.made[j][2] \in Nat
            /\ flag[req.made[j][1]]
            /\ req.made[j][2] <= Len(insts[req.made[j][1]])
      BY <1>1, MadeTyped DEF Creation
    <3>2. \A j \in DOMAIN req.made :
            /\ req.made[j][1] # Current =>
                 req.made[j][2] <= Len(insts'[req.made[j][1]])
            /\ req.made[j][1] = Current =>
                 req.made[j][2] < Len(insts'[Current])
      BY <2>1, <2>4, <3>1
    <3>3. Len(insts'[Current]) \in Nat
      BY <2>1, <2>4
    <3> QED BY <1>1, <1>4, <2>3, <3>1, <3>2, <3>3 DEF Creation, At
  <2> QED BY <2>5, <2>6, <2>7, <2>8, <2>9 DEF IndInv
<1>8. CASE /\ UNCHANGED insts
           /\ \/ req.todo # {} /\ Visited
              \/ FailBeforeActivation
              \/ req.todo = {} /\ Goto("activate")
  <2>1. /\ req' \in Requests /\ req'.made = req.made
        /\ req'.pc \notin {"start", "undo"}
        /\ req'.pc \in {"scale", "activate", "rollback"}
    BY <1>1, <1>2, <1>8, VisitedRequest, FailRequest, GotoRequest DEF At
  <2>2. FlagsOnRows' /\ OnlyFinishedServe' /\ WholeDefinition'
    BY <1>4, <1>8, RowsKept
  <2>3. TypeOK'
    BY <1>1, <1>4, <1>5, <1>8, <2>1 DEF TypeOK
  <2>4. Plan'
    <3>1. CASE req.todo # {} /\ Visited
      BY <1>1, <1>4, <3>1, VisitedRequest DEF Plan, At, Planning
    <3>2. CASE FailBeforeActivation
      BY <1>1, <3>2, FailPlan
    <3>3. CASE req.todo = {} /\ Goto("activate")
      BY <1>1, <1>2, <1>4, <3>3, GotoRequest DEF Plan, At, Planning
    <3> QED BY <1>8, <3>1, <3>2, <3>3
  <2>5. Creation'
    BY <1>1, <1>4, <1>8, <2>1 DEF Creation
  <2> QED BY <2>2, <2>3, <2>4, <2>5 DEF IndInv
<1> QED BY <1>7, <1>8 DEF ScaleUp

\* A started instance is in the list and the request remembers its position.
LEMMA StartInstanceStep == ASSUME IndInv, StartInstance PROVE IndInv'
<1>1. TypeOK /\ Plan /\ Creation /\ At("start")
  BY DEF IndInv, StartInstance
<1>2. {"scale", "undo"} \subseteq Steps
  BY DEF Steps
<1> DEFINE k == Current
           n == Len(insts[k])
<1>3. /\ req.todo # {} /\ k \in req.todo /\ k \in Keys /\ flag[k]
      /\ k \in DOMAIN req.def
      /\ insts[k] \in Seq({"up", "part"}) /\ n \in Nat \ {0}
  <2>1. req.todo # {} /\ k \in req.todo /\ k \in Keys /\ flag[k]
        /\ k \in DOMAIN req.def /\ insts[k] # <<>>
    BY <1>1, CurrentInTodo DEF TypeOK, Requests, Plan, At, Planning
  <2> QED BY <1>1, <2>1, EmptySeq DEF TypeOK
<1>4. UNCHANGED <<schema, count, flag, image>>
  BY DEF StartInstance, builds
<1>5. faults' \in 0 .. MaxFaults
  BY <1>1, FaultsTyped DEF StartInstance, Works, TypeOK
<1>6. Existing' = Existing /\ Active' = Active
  BY <1>4 DEF Existing, Active, Locked
<1> HIDE DEF k
<1>7. CASE /\ insts' = [insts EXCEPT ![k] = [insts[k] EXCEPT ![n] = "up"]]
           /\ req' = [req EXCEPT !.pc = "scale", !.made = Append(@, <<k, n>>)]
  <2>1. /\ [insts[k] EXCEPT ![n] = "up"] \in Seq({"up", "part"})
        /\ Len([insts[k] EXCEPT ![n] = "up"]) = n
    BY <1>3, ExceptSeq
  <2>2. /\ insts' \in [Keys -> Seq({"up", "part"})]
        /\ \A j \in Keys : Len(insts'[j]) = Len(insts[j])
        /\ \A j \in Keys : j # k => insts'[j] = insts[j]
    BY <1>1, <1>3, <1>7, <2>1 DEF TypeOK
  <2>3. /\ req.made \in Seq(Keys \X (Nat \ {0}))
        /\ Append(req.made, <<k, n>>) \in Seq(Keys \X (Nat \ {0}))
        /\ Len(Append(req.made, <<k, n>>)) = Len(req.made) + 1
        /\ Append(req.made, <<k, n>>)[Len(req.made) + 1] = <<k, n>>
        /\ \A j \in 1 .. Len(req.made) :
             Append(req.made, <<k, n>>)[j] = req.made[j]
        /\ Len(req.made) \in Nat
    <3>1. req.made \in Seq(Keys \X (Nat \ {0}))
      BY <1>1 DEF TypeOK, Requests
    <3>2. <<k, n>> \in Keys \X (Nat \ {0})
      BY <1>3
    <3> HIDE DEF n
    <3> QED BY <3>1, <3>2, AppendProperties, LenProperties
  <2>4. /\ req' \in Requests /\ req'.todo = req.todo /\ req'.def = req.def
        /\ req'.made = Append(req.made, <<k, n>>) /\ req'.pc = "scale"
    BY <1>1, <1>2, <1>7, <2>3 DEF TypeOK, Requests
  <2>5. TypeOK'
    BY <1>1, <1>4, <1>5, <2>2, <2>4 DEF TypeOK
  <2>6. FlagsOnRows' /\ OnlyFinishedServe'
    BY <1>3, <1>4, <1>6, <2>2 DEF IndInv, FlagsOnRows, OnlyFinishedServe
  <2>7. WholeDefinition'
    BY <1>4, <1>6, SameForce DEF IndInv
  <2>8. Plan'
    BY <1>1, <1>4, <2>4 DEF Plan, At, Planning
  <2>9. Creation'
    <3>1. \A j \in 1 .. Len(req.made) :
            /\ req.made[j][1] \in Keys /\ req.made[j][2] \in Nat
            /\ flag[req.made[j][1]]
            /\ req.made[j][2] <= Len(insts[req.made[j][1]])
            /\ req.made[j][1] = k => req.made[j][2] < n
      BY <1>1, <1>3, MadeTyped DEF Creation, At, k
    <3>2. \A i, j \in 1 .. Len(req.made) :
            i < j /\ req.made[i][1] = req.made[j][1] =>
              req.made[i][2] < req.made[j][2]
      BY <1>1, MadeTyped DEF Creation
    <3>3. DOMAIN req'.made = 1 .. Len(req.made) + 1
      BY <2>3, <2>4, LenProperties
    <3> DEFINE m == Len(req.made)
               new == req'.made
    <3>6. /\ new[m + 1][1] = k /\ new[m + 1][2] = n
          /\ \A j \in 1 .. m : new[j] = req.made[j]
      BY <2>3, <2>4
    <3>7. \A j \in 1 .. m + 1 : j = m + 1 \/ j \in 1 .. m
      BY <2>3
    <3>8. /\ flag'[k] /\ n <= Len(insts'[k])
          /\ \A j \in 1 .. m : /\ flag'[req.made[j][1]]
                              /\ req.made[j][2] <= Len(insts'[req.made[j][1]])
      <4>1. flag' = flag
        BY <1>4
      <4>2. Len(insts'[k]) = n /\ n \in Nat
        BY <1>3, <2>2
      <4>3. flag'[k] /\ n <= Len(insts'[k])
        BY <1>3, <4>1, <4>2
      <4>4. \A j \in 1 .. m : /\ flag'[req.made[j][1]]
                             /\ req.made[j][2] <= Len(insts'[req.made[j][1]])
        BY <2>2, <3>1, <4>1
      <4> QED BY <4>3, <4>4
    <3>9. m \in Nat
      BY <2>3
    <3> HIDE DEF n, m, new
    <3>4. \A j \in 1 .. m + 1 : /\ flag'[new[j][1]]
                               /\ new[j][2] <= Len(insts'[new[j][1]])
      BY <3>6, <3>7, <3>8
    <3>5. ASSUME NEW i \in 1 .. m + 1, NEW j \in 1 .. m + 1,
                 i < j, new[i][1] = new[j][1]
          PROVE  new[i][2] < new[j][2]
      <4>1. i \in 1 .. m
        BY <3>5, <3>9
      <4>2. CASE j = m + 1
        BY <3>1, <3>5, <3>6, <4>1, <4>2 DEF m
      <4>3. CASE j \in 1 .. m
        BY <3>2, <3>5, <3>6, <4>1, <4>3 DEF m
      <4> QED BY <3>7, <4>2, <4>3
    <3> QED BY <2>4, <3>3, <3>4, <3>5 DEF Creation, m, new
  <2> QED BY <2>5, <2>6, <2>7, <2>8, <2>9 DEF IndInv
<1>8. CASE UNCHANGED insts /\ Goto("undo")
  <2>1. /\ req' \in Requests /\ req'.todo = req.todo /\ req'.def = req.def
        /\ req'.made = req.made /\ req'.pc = "undo" /\ Current' = Current
    BY <1>1, <1>2, <1>8, GotoRequest, SameCurrent
  <2>2. FlagsOnRows' /\ OnlyFinishedServe' /\ WholeDefinition'
    BY <1>4, <1>8, RowsKept
  <2>3. TypeOK'
    BY <1>1, <1>4, <1>5, <1>8, <2>1 DEF TypeOK
  <2>4. Plan' /\ Creation'
    BY <1>1, <1>4, <1>8, <2>1 DEF Plan, Creation, At, Planning
  <2> QED BY <2>2, <2>3, <2>4 DEF IndInv
<1> QED BY <1>7, <1>8 DEF StartInstance, k

\* A step that only changes lists of instances, and gives none to a build
\* that has neither instances nor a flag.
LEMMA ListsChanged ==
  ASSUME IndInv, UNCHANGED <<count, flag>>,
         \A k \in Keys : insts'[k] # <<>> => insts[k] # <<>> \/ flag[k]
  PROVE  FlagsOnRows' /\ OnlyFinishedServe' /\ WholeDefinition'
<1>1. Active' = Active /\ Existing' = Existing
  BY DEF Active, Existing, Locked
<1>2. FlagsOnRows'
  BY <1>1 DEF IndInv, FlagsOnRows
<1>3. OnlyFinishedServe'
  BY <1>1 DEF IndInv, FlagsOnRows, OnlyFinishedServe
<1>4. WholeDefinition'
  BY <1>1, SameForce DEF IndInv
<1> QED BY <1>2, <1>3, <1>4

\* The roll-back of newInstance removes the last position, which the request
\* has not recorded.
LEMMA UndoInstanceStep == ASSUME IndInv, UndoInstance PROVE IndInv'
<1>1. TypeOK /\ Plan /\ Creation /\ At("undo")
  BY DEF IndInv, UndoInstance
<1>2. /\ Current \in Keys /\ insts[Current] # <<>>
      /\ insts[Current] \in Seq({"up", "part"})
  BY <1>1, CurrentInTodo DEF TypeOK, Requests, Plan, At
<1>3. UNCHANGED <<schema, count, flag, image>> /\ FailBeforeActivation
  BY DEF UndoInstance, builds
<1>4. faults' \in 0 .. MaxFaults
  BY <1>1, FaultsTyped DEF UndoInstance, Works, TypeOK
<1>5. /\ Front(insts[Current]) \in Seq({"up", "part"})
      /\ Len(Front(insts[Current])) = Len(insts[Current]) - 1
      /\ Len(insts[Current]) \in Nat
  BY <1>2, FrontProperties, Zenon
<1>6. insts' = insts \/ insts' = [insts EXCEPT ![Current] = Front(@)]
  BY DEF UndoInstance
<1>7. /\ insts' \in [Keys -> Seq({"up", "part"})]
      /\ \A k \in Keys : k # Current => insts'[k] = insts[k]
      /\ \/ insts'[Current] = insts[Current]
         \/ insts'[Current] = Front(insts[Current])
  BY <1>1, <1>2, <1>5, <1>6 DEF TypeOK
<1>8. FlagsOnRows' /\ OnlyFinishedServe' /\ WholeDefinition'
  BY <1>2, <1>3, <1>7, ListsChanged
<1>9. Len(insts'[Current]) >= Len(insts[Current]) - 1
  BY <1>5, <1>7
<1>10. Creation'
  <2>1. /\ req'.made = req.made /\ req'.pc = "rollback" /\ flag' = flag
    BY <1>1, <1>3, FailRequest
  <2>2. ASSUME NEW j \in DOMAIN req.made
        PROVE  /\ flag[req.made[j][1]]
               /\ req.made[j][2] <= Len(insts'[req.made[j][1]])
    <3>1. /\ req.made[j][1] \in Keys /\ req.made[j][2] \in Nat
          /\ flag[req.made[j][1]]
          /\ req.made[j][2] <= Len(insts[req.made[j][1]])
          /\ req.made[j][1] = Current => req.made[j][2] < Len(insts[Current])
      BY <1>1, MadeTyped DEF Creation, At
    <3>2. CASE req.made[j][1] = Current
      <4>1. req.made[j][2] < Len(insts[Current])
        BY <3>1, <3>2
      <4>2. Len(insts'[Current]) \in Nat
        BY <1>2, <1>7, LenProperties
      <4>3. req.made[j][2] <= Len(insts'[Current])
        BY <1>5, <1>9, <3>1, <4>1, <4>2
      <4> QED BY <3>1, <3>2, <4>3
    <3>3. CASE req.made[j][1] # Current
      BY <1>7, <3>1, <3>3
    <3> QED BY <3>2, <3>3
  <2> QED BY <1>1, <2>1, <2>2 DEF Creation
<1>11. Plan' /\ req' \in Requests
  BY <1>1, <1>3, FailPlan, FailRequest
<1>12. TypeOK'
  BY <1>1, <1>3, <1>4, <1>7, <1>11 DEF TypeOK
<1> QED BY <1>8, <1>10, <1>11, <1>12 DEF IndInv

\* The activation puts the definition of the request in force.
LEMMA ActivateBuildsStep == ASSUME IndInv, ActivateBuilds PROVE IndInv'
<1>1. TypeOK /\ Plan /\ Creation /\ At("activate") /\ FlagsOnRows
  BY DEF IndInv, ActivateBuilds
<1>2. UNCHANGED <<schema, flag, image, insts>>
  BY DEF ActivateBuilds
<1>3. faults' \in 0 .. MaxFaults
  BY <1>1, FaultsTyped DEF ActivateBuilds, Works, TypeOK
<1>4. CASE UNCHANGED count /\ FailBeforeActivation
  <2>1. FlagsOnRows' /\ OnlyFinishedServe' /\ WholeDefinition'
    BY <1>2, <1>4, RowsKept
  <2>2. Plan' /\ req' \in Requests /\ req'.made = req.made
        /\ req'.pc = "rollback"
    BY <1>1, <1>4, FailPlan, FailRequest
  <2>3. Creation'
    BY <1>1, <1>2, <2>2 DEF Creation
  <2> QED BY <1>1, <1>2, <1>3, <1>4, <2>1, <2>2, <2>3 DEF IndInv, TypeOK
<1>5. CASE /\ count' = [k \in Keys |->
                IF k \in DOMAIN req.def THEN req.def[k]
                ELSE IF count[k] = None THEN None ELSE LOCKED]
           /\ req' = [req EXCEPT !.pc = "cleanup", !.made = <<>>]
  <2>1. /\ DOMAIN req.def \subseteq Keys /\ req.def \in Definitions
        /\ \A k \in DOMAIN req.def : /\ req.def[k] \in Int /\ flag[k]
                                     /\ req.def[k] # LOCKED
                                     /\ req.def[k] # None
    BY <1>1, DefinitionTyped DEF Plan, At, Planning
  <2>2. /\ \A k \in DOMAIN req.def : count'[k] = req.def[k]
        /\ \A k \in Keys \ DOMAIN req.def :
             count'[k] = IF count[k] = None THEN None ELSE LOCKED
    BY <1>5, <2>1
  <2>3. LOCKED \in Int /\ LOCKED # None
    BY SchemaAssumption DEF LOCKED
  <2>4. count' \in [Keys -> Int \cup {None}]
    BY <1>5, <2>1, <2>3
  <2>5. Active' = DOMAIN req.def /\ Existing \subseteq Existing'
    BY <2>1, <2>2, <2>3 DEF Active, Existing, Locked
  <2>6. InForce(req.def)'
    BY <2>1, <2>2, <2>5, <1>5 DEF InForce
  <2>7. WholeDefinition'
    <3>1. req'.def \in Definitions
      BY <1>1, <1>5, <2>1 DEF TypeOK, Requests
    <3> QED BY <2>6, <3>1 DEF WholeDefinition
  <2>8. FlagsOnRows'
    BY <1>1, <1>2, <2>5 DEF FlagsOnRows
  <2>9. OnlyFinishedServe'
    BY <1>2, <2>1, <2>5, <2>8 DEF IndInv, OnlyFinishedServe, FlagsOnRows
  <2>10. /\ req' \in Requests /\ req'.pc = "cleanup" /\ req'.made = <<>>
    BY <1>1, <1>5, EmptySeq DEF TypeOK, Requests, Steps
  <2>11. Plan' /\ Creation'
    BY <2>10 DEF Plan, Creation, At, Planning
  <2> QED BY <1>1, <1>2, <1>3, <2>4, <2>7, <2>8, <2>9, <2>10, <2>11
        DEF IndInv, TypeOK
<1> QED BY <1>4, <1>5 DEF ActivateBuilds

-----------------------------------------------------------------------------
(* stopInstance                                                            *)

\* The instance in hand is in the list of its build.
LEMMA StoppingPlace ==
  ASSUME IndInv, NEW x \in Stopping
  PROVE  x[1] \in Keys /\ x[2] \in 1 .. Len(insts[x[1]])
<1>1. TypeOK /\ Plan /\ Creation
  BY DEF IndInv
<1>2. CASE At("rollback") /\ req.made # <<>>
  <2>1. x = Last(req.made)
    BY <1>2 DEF Stopping, At
  <2>2. req.made \in Seq(Keys \X (Nat \ {0}))
    BY <1>1 DEF TypeOK, Requests
  <2>3. Len(req.made) \in DOMAIN req.made
    BY <1>2, <2>2, EmptySeq, LenProperties
  <2>4. x = req.made[Len(req.made)]
    BY <2>1 DEF Last
  <2>5. x[1] \in Keys /\ x[2] \in Nat \ {0} /\ x[2] <= Len(insts[x[1]])
    BY <1>1, <2>3, <2>4, MadeTyped DEF Creation
  <2>6. Len(insts[x[1]]) \in Nat
    BY <1>1, <2>5, LenProperties DEF TypeOK
  <2> QED BY <2>5, <2>6
<1>3. CASE At("cleanup") /\ Crowded # {}
  <2>1. x = <<CHOOSE k \in Crowded : TRUE, 1>>
    BY <1>3 DEF Stopping, At
  <2>2. x[1] \in Crowded /\ x[2] = 1
    BY <1>3, <2>1, CrowdedChosen
  <2>3. x[1] \in Keys /\ insts[x[1]] # <<>>
    BY <2>2 DEF Crowded, Locked
  <2>4. Len(insts[x[1]]) \in Nat \ {0}
    BY <1>1, <2>3, EmptySeq, LenProperties DEF TypeOK
  <2> QED BY <2>2, <2>3, <2>4
<1>4. CASE At("reduce") /\ req.todo # {} /\ Surplus(Current)
  <2>1. x = <<Current, req.def[Current] + req.at + 1>>
    BY <1>4 DEF Stopping, At
  <2>2. Current \in DOMAIN req.def
    BY <1>1, <1>4, CurrentInTodo DEF Plan, At
  <2>3. /\ Current \in Keys /\ req.def[Current] \in Int
        /\ req.def[Current] >= -1 /\ req.def[Current] # -1
        /\ req.def[Current] + req.at < Len(insts[Current])
    BY <1>1, <1>4, <2>2, DefinitionTyped DEF Surplus, DYNAMIC_INSTANCES
  <2>4. req.at \in Nat /\ Len(insts[Current]) \in Nat
    BY <1>1, <2>3, LenProperties DEF TypeOK, Requests
  <2>5. req.def[Current] + req.at + 1 \in 1 .. Len(insts[Current])
    BY <2>3, <2>4
  <2> QED BY <2>1, <2>3, <2>5
<1> QED BY <1>2, <1>3, <1>4 DEF Stopping

\* Stopping it, or failing to, shortens that list by at most one and changes
\* no other.
LEMMA StopTouches ==
  ASSUME TypeOK, NEW x, x[1] \in Keys, x[2] \in 1 .. Len(insts[x[1]]),
         Stopped(x) \/ insts' \in {insts, Halved(x)}
  PROVE  /\ insts' \in [Keys -> Seq({"up", "part"})]
         /\ \A k \in Keys : /\ k # x[1] => insts'[k] = insts[k]
                            /\ insts'[k] # <<>> => insts[k] # <<>>
         /\ Len(insts'[x[1]]) >= Len(insts[x[1]]) - 1
         /\ Len(insts[x[1]]) \in Nat /\ Len(insts'[x[1]]) \in Nat
<1> DEFINE s == insts[x[1]]
           t == [s EXCEPT ![x[2]] = "part"]
<1>1. s \in Seq({"up", "part"}) /\ Len(s) \in Nat /\ s # <<>>
  BY EmptySeq, LenProperties DEF TypeOK
<1>2. /\ RemoveAt(s, x[2]) \in Seq({"up", "part"})
      /\ Len(RemoveAt(s, x[2])) = Len(s) - 1
  BY <1>1, RemoveAtProperties
<1>3. t \in Seq({"up", "part"}) /\ Len(t) = Len(s)
  BY <1>1, ExceptSeq
<1>4. \/ insts' = [insts EXCEPT ![x[1]] = RemoveAt(s, x[2])]
      \/ insts' = insts
      \/ insts' = [insts EXCEPT ![x[1]] = t]
  BY DEF Stopped, Halved
<1>5. /\ insts'[x[1]] \in {RemoveAt(s, x[2]), s, t}
      /\ \A k \in Keys : k # x[1] => insts'[k] = insts[k]
      /\ insts' \in [Keys -> Seq({"up", "part"})]
  <2> HIDE DEF t
  <2> QED BY <1>1, <1>2, <1>3, <1>4, ZenonT(60) DEF TypeOK
<1>6. Len(insts'[x[1]]) >= Len(s) - 1 /\ Len(insts'[x[1]]) \in Nat
  <2>1. Len(insts'[x[1]]) \in Nat
    BY <1>5, LenProperties
  <2>2. Len(insts'[x[1]]) \in {Len(s) - 1, Len(s)}
    BY <1>2, <1>3, <1>5
  <2> QED BY <1>1, <2>1, <2>2
<1> QED BY <1>1, <1>5, <1>6

\* Instances come and go, but only of builds that have them.
LEMMA StopRows ==
  ASSUME IndInv, NEW x, x[1] \in Keys, x[2] \in 1 .. Len(insts[x[1]]),
         Stopped(x) \/ insts' \in {insts, Halved(x)},
         UNCHANGED <<count, flag>>
  PROVE  FlagsOnRows' /\ OnlyFinishedServe' /\ WholeDefinition'
<1>1. \A k \in Keys : insts'[k] # <<>> => insts[k] # <<>>
  BY StopTouches DEF IndInv
<1> QED BY <1>1, ListsChanged

\* failBeforeActivation stops the last instance created: the earlier ones of
\* the same build have smaller positions.
LEMMA RollBackStep == ASSUME IndInv, RollBack PROVE IndInv'
<1>1. TypeOK /\ Plan /\ Creation /\ At("rollback")
  BY DEF IndInv, RollBack
<1>2. UNCHANGED <<schema, count, flag, image>>
  BY DEF RollBack, builds
<1>3. CASE /\ \E x \in Stopping : Stopped(x) \/ StopFails(x)
           /\ req' = [req EXCEPT !.made = Front(@)]
  <2>1. PICK x \in Stopping : Stopped(x) \/ StopFails(x)
    BY <1>3
  <2>2. x[1] \in Keys /\ x[2] \in 1 .. Len(insts[x[1]])
    BY StoppingPlace
  <2>3. Stopped(x) \/ insts' \in {insts, Halved(x)}
    BY <2>1 DEF StopFails
  <2>4. FlagsOnRows' /\ OnlyFinishedServe' /\ WholeDefinition'
    BY <1>2, <2>2, <2>3, StopRows
  <2>5. faults' \in 0 .. MaxFaults
    BY <1>1, <2>1, FaultsTyped DEF Stopped, StopFails, Works, TypeOK
  <2>6. req.made # <<>> /\ x = Last(req.made)
    BY <1>1 DEF Stopping, At
  <2>7. req.made \in Seq(Keys \X (Nat \ {0}))
    BY <1>1 DEF TypeOK, Requests
  <2> DEFINE m == Len(req.made)
             f == Front(req.made)
  <2>8. /\ f \in Seq(Keys \X (Nat \ {0})) /\ DOMAIN f = 1 .. m - 1
        /\ \A j \in 1 .. m - 1 : f[j] = req.made[j]
        /\ m \in Nat \ {0}
    BY <2>6, <2>7, FrontProperties
  <2>9. x = req.made[m]
    BY <2>6 DEF Last
  <2> HIDE DEF f
  <2>10. req' \in Requests /\ req'.pc = "rollback" /\ req'.made = f
    BY <1>1, <1>3, <2>8 DEF TypeOK, Requests, f, At
  <2>11. /\ insts' \in [Keys -> Seq({"up", "part"})]
         /\ \A k \in Keys : k # x[1] => insts'[k] = insts[k]
         /\ Len(insts'[x[1]]) >= Len(insts[x[1]]) - 1
         /\ Len(insts[x[1]]) \in Nat /\ Len(insts'[x[1]]) \in Nat
    BY <1>1, <2>2, <2>3, StopTouches
  <2>12. DOMAIN req.made = 1 .. m
    BY <1>1, MadeTyped
  <2>13. ASSUME NEW j \in 1 .. m - 1
         PROVE  /\ flag[f[j][1]] /\ f[j][2] <= Len(insts'[f[j][1]])
    <3>1. /\ j \in DOMAIN req.made /\ m \in DOMAIN req.made /\ j < m
          /\ f[j] = req.made[j]
      BY <2>8, <2>12
    <3>2. /\ f[j][1] \in Keys /\ f[j][2] \in Nat /\ flag[f[j][1]]
          /\ f[j][2] <= Len(insts[f[j][1]])
      BY <1>1, <3>1, MadeTyped DEF Creation
    <3>3. CASE f[j][1] = x[1]
      <4>1. f[j][2] < x[2]
        BY <1>1, <2>9, <3>1, <3>3 DEF Creation
      <4>2. f[j][2] <= Len(insts'[x[1]])
        BY <2>2, <2>11, <3>2, <4>1, SMTT(40)
      <4> QED BY <3>2, <3>3, <4>2
    <3>4. CASE f[j][1] # x[1]
      BY <2>11, <3>2, <3>4
    <3> QED BY <3>3, <3>4
  <2>14. Creation'
    <3>1. \A i, j \in 1 .. m - 1 :
            i < j /\ f[i][1] = f[j][1] => f[i][2] < f[j][2]
      <4>1. 1 .. m - 1 \subseteq DOMAIN req.made
        BY <2>8, <2>12
      <4> QED BY <1>1, <2>8, <4>1 DEF Creation
    <3>2. flag' = flag
      BY <1>2
    <3> QED BY <2>8, <2>10, <2>13, <3>1, <3>2 DEF Creation
  <2>15. Plan'
    BY <2>10 DEF Plan, At, Planning
  <2>16. TypeOK'
    BY <1>1, <1>2, <2>5, <2>10, <2>11 DEF TypeOK
  <2> QED BY <2>4, <2>14, <2>15, <2>16 DEF IndInv
<1>4. CASE req.made = <<>> /\ Works /\ Goto("end") /\ UNCHANGED insts
  <2>1. req' \in Requests /\ req'.pc = "end" /\ req'.made = <<>>
    BY <1>1, <1>4, GotoRequest DEF Steps
  <2>2. FlagsOnRows' /\ OnlyFinishedServe' /\ WholeDefinition'
    BY <1>2, <1>4, RowsKept
  <2>3. Plan' /\ Creation'
    BY <2>1 DEF Plan, Creation, At, Planning
  <2> QED BY <1>1, <1>2, <1>4, <2>1, <2>2, <2>3 DEF IndInv, TypeOK, Works
<1> QED BY <1>3, <1>4 DEF RollBack

-----------------------------------------------------------------------------
(* After the activation                                                    *)

\* The clean-up is followed by the reductions, the record or nothing.
LEMMA CleanedUpRequest ==
  ASSUME TypeOK, req.made = <<>>, NEW good \in BOOLEAN, CleanedUp(good)
  PROVE  req' \in Requests /\ Plan' /\ Creation'
<1>1. CASE req' = Idle
  BY <1>1, IdlePlan, IdleRequest
<1>2. CASE Goto("record")
  <2>1. req' \in Requests /\ req'.pc = "record" /\ req'.made = <<>>
    BY <1>2, GotoRequest DEF Steps
  <2> QED BY <2>1 DEF Plan, Creation, At, Planning
<1>3. CASE req' = [req EXCEPT !.pc = "reduce", !.todo = DOMAIN req.def,
                              !.at = 0, !.errs = @ \/ ~good]
  <2>1. DOMAIN req.def \subseteq Keys
    BY DefinitionTyped
  <2>2. /\ req' \in Requests /\ req'.pc = "reduce" /\ req'.made = <<>>
        /\ req'.todo = DOMAIN req'.def
    BY <1>3, <2>1 DEF TypeOK, Requests, Steps
  <2> QED BY <2>2 DEF Plan, Creation, At, Planning
<1> QED BY <1>1, <1>2, <1>3 DEF CleanedUp

\* Nothing is changed but the request, the images and the failures.
LEMMA CleanUpStep == ASSUME IndInv, CleanUp PROVE IndInv'
<1>1. TypeOK /\ Plan /\ Creation /\ At("cleanup") /\ req.made = <<>>
  BY DEF IndInv, CleanUp, Creation, At
<1>2. UNCHANGED <<schema, count, flag>>
  BY DEF CleanUp
<1>3. Locked # {} => Doomed \in Keys
  BY DoomedLocked DEF Locked
<1>4. image' \in [Keys -> BOOLEAN]
  BY <1>1, <1>3 DEF TypeOK, CleanUp
<1>5. faults' \in 0 .. MaxFaults
  BY <1>1, FaultsTyped DEF CleanUp, Stopped, StopFails, Works, TypeOK
<1>6. /\ insts' \in [Keys -> Seq({"up", "part"})]
      /\ FlagsOnRows' /\ OnlyFinishedServe' /\ WholeDefinition'
  <2>1. CASE \E x \in Stopping : Stopped(x) \/ StopFails(x)
    <3>1. PICK x \in Stopping : Stopped(x) \/ StopFails(x)
      BY <2>1
    <3>2. x[1] \in Keys /\ x[2] \in 1 .. Len(insts[x[1]])
      BY StoppingPlace
    <3>3. Stopped(x) \/ insts' \in {insts, Halved(x)}
      BY <3>1 DEF StopFails
    <3>4. insts' \in [Keys -> Seq({"up", "part"})]
      BY <1>1, <3>2, <3>3, StopTouches
    <3> QED BY <1>2, <3>2, <3>3, <3>4, StopRows
  <2>2. CASE UNCHANGED insts
    BY <1>1, <1>2, <2>2, RowsKept DEF TypeOK
  <2> QED BY <2>1, <2>2 DEF CleanUp
<1>7. req' \in Requests /\ Plan' /\ Creation'
  <2>1. CASE CleanedUp(TRUE) \/ CleanedUp(FALSE)
    BY <1>1, <2>1, CleanedUpRequest
  <2>2. CASE UNCHANGED req
    BY <1>1, <2>2 DEF TypeOK, Plan, Creation, At, Planning
  <2>3. CASE Locked # {} /\ Goto("erase")
    <3>1. req' \in Requests /\ req'.pc = "erase" /\ req'.made = <<>>
      BY <1>1, <2>3, GotoRequest DEF Steps
    <3>2. Locked' = Locked
      BY <1>2 DEF Locked
    <3> QED BY <2>3, <3>1, <3>2 DEF Plan, Creation, At, Planning
  <2> QED BY <2>1, <2>2, <2>3 DEF CleanUp
<1> QED BY <1>1, <1>2, <1>4, <1>5, <1>6, <1>7 DEF IndInv, TypeOK

\* destroyImages removes the row of a locked build.
LEMMA EraseBuildStep == ASSUME IndInv, EraseBuild PROVE IndInv'
<1>1. TypeOK /\ Plan /\ Creation /\ At("erase") /\ req.made = <<>>
  BY DEF IndInv, EraseBuild, Creation, At
<1>2. Doomed \in Keys /\ Doomed \notin Active
  BY <1>1, DoomedLocked DEF Plan, At, Locked, Active
<1>3. UNCHANGED <<schema, image, insts>>
  BY DEF EraseBuild
<1>4. faults' \in 0 .. MaxFaults
  BY <1>1, FaultsTyped DEF EraseBuild, Works, TypeOK
<1>5. /\ count' \in [Keys -> Int \cup {None}] /\ flag' \in [Keys -> BOOLEAN]
      /\ FlagsOnRows' /\ OnlyFinishedServe' /\ WholeDefinition'
  <2>1. CASE RemoveBuildMetadata(Doomed)
    BY <1>2, <1>3, <2>1, RemoveRow DEF IndInv
  <2>2. CASE UNCHANGED <<count, flag>>
    BY <1>1, <1>3, <2>2, RowsKept DEF TypeOK
  <2> QED BY <2>1, <2>2 DEF EraseBuild
<1>6. req' \in Requests /\ Plan' /\ Creation'
  <2>1. CASE Goto("cleanup")
    <3>1. req' \in Requests /\ req'.pc = "cleanup" /\ req'.made = <<>>
      BY <1>1, <2>1, GotoRequest DEF Steps
    <3> QED BY <3>1 DEF Plan, Creation, At, Planning
  <2>2. CASE CleanedUp(FALSE)
    BY <1>1, <2>2, CleanedUpRequest
  <2> QED BY <2>1, <2>2 DEF EraseBuild
<1> QED BY <1>1, <1>3, <1>4, <1>5, <1>6 DEF IndInv, TypeOK

\* The reductions change no row.
LEMMA ReduceStep == ASSUME IndInv, Reduce PROVE IndInv'
<1>1. TypeOK /\ Plan /\ Creation /\ At("reduce") /\ req.made = <<>>
  BY DEF IndInv, Reduce, Creation, At
<1>2. UNCHANGED <<schema, count, flag, image>>
  BY DEF Reduce, builds
<1>3. faults' \in 0 .. MaxFaults
  BY <1>1, FaultsTyped DEF Reduce, Stopped, StopFails, Works, TypeOK
<1>4. /\ insts' \in [Keys -> Seq({"up", "part"})]
      /\ FlagsOnRows' /\ OnlyFinishedServe' /\ WholeDefinition'
  <2>1. CASE \E x \in Stopping : Stopped(x) \/ StopFails(x)
    <3>1. PICK x \in Stopping : Stopped(x) \/ StopFails(x)
      BY <2>1
    <3>2. x[1] \in Keys /\ x[2] \in 1 .. Len(insts[x[1]])
      BY StoppingPlace
    <3>3. Stopped(x) \/ insts' \in {insts, Halved(x)}
      BY <3>1 DEF StopFails
    <3>4. insts' \in [Keys -> Seq({"up", "part"})]
      BY <1>1, <3>2, <3>3, StopTouches
    <3> QED BY <1>2, <3>2, <3>3, <3>4, StopRows
  <2>2. CASE UNCHANGED insts
    BY <1>1, <1>2, <2>2, RowsKept DEF TypeOK
  <2> QED BY <2>1, <2>2 DEF Reduce
<1>5. req' \in Requests /\ Plan' /\ Creation'
  <2>1. \/ UNCHANGED req
        \/ req' = [req EXCEPT !.at = @ + 1, !.errs = TRUE]
        \/ Visited
        \/ req' = [req EXCEPT !.todo = @ \ {Current}, !.at = 0, !.errs = TRUE]
        \/ Goto("end")
    BY DEF Reduce
  <2>2. CASE Goto("end")
    <3>1. req' \in Requests /\ req'.pc = "end" /\ req'.made = <<>>
      BY <1>1, <2>2, GotoRequest DEF Steps
    <3> QED BY <3>1 DEF Plan, Creation, At, Planning
  <2>3. CASE ~Goto("end")
    <3>1. /\ req' \in Requests /\ req'.pc = "reduce" /\ req'.made = <<>>
          /\ req'.def = req.def /\ req'.todo \subseteq req.todo
      <4>1. CASE Visited
        BY <1>1, <4>1, VisitedRequest DEF At
      <4>2. CASE UNCHANGED req
        BY <1>1, <4>2 DEF TypeOK, At
      <4>3. CASE req' = [req EXCEPT !.at = @ + 1, !.errs = TRUE]
        <5>1. PICK a \in Nat : a = req.at + 1
          BY <1>1 DEF TypeOK, Requests
        <5>2. req' = [req EXCEPT !.at = a, !.errs = TRUE] /\ req \in Requests
          BY <1>1, <4>3, <5>1 DEF TypeOK
        <5> QED BY <1>1, <5>2 DEF Requests, At
      <4>4. CASE req' = [req EXCEPT !.todo = @ \ {Current}, !.at = 0,
                                    !.errs = TRUE]
        <5>1. req.todo \ {Current} \in SUBSET Keys
          BY <1>1 DEF TypeOK, Requests
        <5> QED BY <1>1, <4>4, <5>1 DEF TypeOK, Requests, At
      <4> QED BY <2>1, <2>3, <4>1, <4>2, <4>3, <4>4
    <3> QED BY <1>1, <3>1 DEF Plan, Creation, At, Planning
  <2> QED BY <2>2, <2>3
<1> QED BY <1>1, <1>2, <1>3, <1>4, <1>5 DEF IndInv, TypeOK

\* The end of a request changes no row.
LEMMA EndStep == ASSUME IndInv, End PROVE IndInv'
<1>1. TypeOK /\ At("end") /\ req.made = <<>>
  BY DEF IndInv, End, Creation, At
<1>2. UNCHANGED <<schema, count, flag, image, insts>>
  BY DEF End, builds
<1>3. faults' \in 0 .. MaxFaults
  BY <1>1, FaultsTyped DEF End, Works, TypeOK
<1>4. FlagsOnRows' /\ OnlyFinishedServe' /\ WholeDefinition'
  BY <1>2, RowsKept
<1>5. req' \in Requests /\ Plan' /\ Creation'
  <2>1. CASE req' = Idle
    BY <2>1, IdlePlan, IdleRequest
  <2>2. CASE req' = [req EXCEPT !.pc = "cleanup", !.after = "record"]
    <3>1. req' \in Requests /\ req'.pc = "cleanup" /\ req'.made = <<>>
      BY <1>1, <2>2 DEF TypeOK, Requests, Steps
    <3> QED BY <3>1 DEF Plan, Creation, At, Planning
  <2> QED BY <2>1, <2>2 DEF End
<1> QED BY <1>1, <1>2, <1>3, <1>4, <1>5 DEF IndInv, TypeOK

LEMMA DeleteRecordStep == ASSUME IndInv, DeleteRecord PROVE IndInv'
<1>1. TypeOK /\ UNCHANGED <<count, flag, image, insts>> /\ req' = Idle
  BY DEF IndInv, DeleteRecord, builds
<1>2. faults' \in 0 .. MaxFaults /\ schema' \in BOOLEAN
  BY <1>1, FaultsTyped DEF DeleteRecord, Works, TypeOK
<1>3. FlagsOnRows' /\ OnlyFinishedServe' /\ WholeDefinition'
  BY <1>1, RowsKept
<1>4. req' \in Requests /\ Plan' /\ Creation'
  BY <1>1, IdlePlan, IdleRequest
<1> QED BY <1>1, <1>2, <1>3, <1>4 DEF IndInv, TypeOK

-----------------------------------------------------------------------------
(* Requests, clients and recovery                                          *)

\* CreateSchema and UpdateSchema begin by staging, with no row changed.
LEMMA AskStep ==
  ASSUME IndInv, NEW d \in Definitions, CreateSchema(d) \/ UpdateSchema(d)
  PROVE  IndInv'
<1>1. TypeOK /\ UNCHANGED <<count, flag, image, insts, faults>>
  BY DEF IndInv, CreateSchema, UpdateSchema, builds
<1>2. schema' \in BOOLEAN
  BY <1>1 DEF CreateSchema, UpdateSchema, TypeOK
<1>3. FlagsOnRows' /\ OnlyFinishedServe' /\ WholeDefinition'
  BY <1>1, RowsKept
<1>4. DOMAIN d \subseteq Keys
  BY DefinitionCounts
<1>5. PICK kind \in {"create", "update"} : Ask(kind, d)
  BY DEF CreateSchema, UpdateSchema
<1>6. /\ req' \in Requests /\ req'.pc = "stage" /\ req'.made = <<>>
      /\ req'.def = d /\ req'.todo = DOMAIN d
  <2>1. <<>> \in Seq(Keys \X (Nat \ {0}))
    BY EmptySeq
  <2> QED BY <1>4, <1>5, <2>1 DEF Ask, Idle, Requests, Steps
<1>7. Plan' /\ Creation'
  BY <1>6 DEF Plan, Creation, At, Planning
<1> QED BY <1>1, <1>2, <1>3, <1>6, <1>7 DEF IndInv, TypeOK

\* lockSchema leaves nothing in force.
LEMMA DeleteSchemaStep == ASSUME IndInv, DeleteSchema PROVE IndInv'
<1>1. TypeOK /\ UNCHANGED <<schema, flag, image, insts, faults>> /\ LockAll
  BY DEF IndInv, DeleteSchema
<1>2. LOCKED \in Int /\ LOCKED # None
  BY SchemaAssumption DEF LOCKED
<1>3. count' \in [Keys -> Int \cup {None}]
  BY <1>1, <1>2 DEF LockAll
<1>4. Existing' = Existing /\ Active' = {}
  BY <1>1, <1>2 DEF LockAll, Existing, Active, Locked
<1>5. FlagsOnRows' /\ OnlyFinishedServe' /\ WholeDefinition'
  BY <1>1, <1>4 DEF IndInv, FlagsOnRows, OnlyFinishedServe, WholeDefinition
<1>6. req' \in Requests /\ req'.pc = "cleanup" /\ req'.made = <<>>
  <2>1. <<>> \in Seq(Keys \X (Nat \ {0}))
    BY EmptySeq
  <2> QED BY <2>1 DEF DeleteSchema, Idle, Requests, Steps
<1>7. Plan' /\ Creation'
  BY <1>6 DEF Plan, Creation, At, Planning
<1> QED BY <1>1, <1>3, <1>5, <1>6, <1>7 DEF IndInv, TypeOK

\* Between requests nothing is planned or created, whatever happens to the
\* lists of instances.
LEMMA BetweenRequests ==
  ASSUME Plan, Creation, At("idle"), UNCHANGED req
  PROVE  Plan' /\ Creation'
BY DEF Plan, Creation, At, Planning

\* Clients start instances of builds in force, which are finished.
LEMMA ClientStartStep ==
  ASSUME IndInv, NEW k \in Keys, ClientStart(k) PROVE IndInv'
<1>1. /\ TypeOK /\ Plan /\ Creation /\ At("idle")
      /\ UNCHANGED <<schema, count, flag, image, req>>
  BY DEF IndInv, ClientStart, builds
<1>2. faults' \in 0 .. MaxFaults
  BY <1>1, FaultsTyped DEF ClientStart, Works, TypeOK
<1>3. PICK s \in {"up", "part"} : insts' = [insts EXCEPT ![k] = Append(@, s)]
  BY DEF ClientStart
<1>4. Append(insts[k], s) \in Seq({"up", "part"})
  BY <1>1, AppendProperties DEF TypeOK
<1>5. /\ insts' \in [Keys -> Seq({"up", "part"})]
      /\ \A i \in Keys : i # k => insts'[i] = insts[i]
  BY <1>1, <1>3, <1>4 DEF TypeOK
<1>6. k \in Active
  BY SchemaAssumption
    DEF ClientStart, Active, Existing, Locked, LOCKED, DYNAMIC_INSTANCES
<1>7. flag[k]
  BY <1>6 DEF IndInv, OnlyFinishedServe
<1>8. FlagsOnRows' /\ OnlyFinishedServe' /\ WholeDefinition'
  BY <1>1, <1>5, <1>7, ListsChanged
<1>9. Plan' /\ Creation'
  BY <1>1, BetweenRequests
<1> QED BY <1>1, <1>2, <1>5, <1>8, <1>9 DEF IndInv, TypeOK

LEMMA ClientStopStep ==
  ASSUME IndInv, NEW k \in Keys, NEW j \in 1 .. MaxInstances, ClientStop(k, j)
  PROVE  IndInv'
<1>1. /\ TypeOK /\ Plan /\ Creation /\ At("idle")
      /\ UNCHANGED <<schema, count, flag, image, req>>
  BY DEF IndInv, ClientStop, builds
<1> DEFINE x == <<k, j>>
<1>2. Stopped(x) \/ StopFails(x)
  BY DEF ClientStop
<1>3. Stopped(x) \/ insts' \in {insts, Halved(x)}
  BY <1>2 DEF StopFails
<1>4. faults' \in 0 .. MaxFaults
  BY <1>1, <1>2, FaultsTyped DEF Stopped, StopFails, Works, TypeOK
<1>5. x[1] \in Keys /\ x[2] \in 1 .. Len(insts[x[1]])
  <2>1. Len(insts[k]) \in Nat /\ j <= Len(insts[k])
    BY <1>1, LenProperties DEF TypeOK, ClientStop
  <2> QED BY <2>1, SchemaAssumption
<1> HIDE DEF x
<1>6. insts' \in [Keys -> Seq({"up", "part"})]
  BY <1>1, <1>3, <1>5, StopTouches
<1>7. FlagsOnRows' /\ OnlyFinishedServe' /\ WholeDefinition'
  BY <1>1, <1>3, <1>5, StopRows
<1>8. Plan' /\ Creation'
  BY <1>1, BetweenRequests
<1> QED BY <1>1, <1>4, <1>6, <1>7, <1>8 DEF IndInv, TypeOK

\* A list of running instances
LEMMA AllUp ==
  ASSUME NEW n \in Nat
  PROVE  /\ [j \in 1 .. n |-> "up"] \in Seq({"up", "part"})
         /\ n = 0 => [j \in 1 .. n |-> "up"] = <<>>
<1> DEFINE s == [j \in 1 .. n |-> "up"]
<1>1. s \in [1 .. n -> {"up", "part"}]
  OBVIOUS
<1>2. s \in Seq({"up", "part"})
  BY <1>1, SeqDef
<1>3. Len(s) = n
  BY <1>1, <1>2, LenProperties
<1> QED BY <1>2, <1>3, EmptySeq

\* Start-up recovery gives instances only to a build that had some.
LEMMA RecoveredList ==
  ASSUME TypeOK, OnlyFinishedServe, NEW k \in Keys, NEW failed
  PROVE  /\ Recovered(k, failed) \in Seq({"up", "part"})
         /\ Recovered(k, failed) # <<>> => insts[k] # <<>>
<1> DEFINE U == {j \in DOMAIN insts[k] : insts[k][j] = "up"}
           up == Cardinality(U)
           size == IF up # Len(insts[k]) /\ k \notin failed /\ image[k]
                      /\ count[k] > up
                   THEN count[k] ELSE up
<1>1. insts[k] \in Seq({"up", "part"})
  BY DEF TypeOK
<1>2. Len(insts[k]) \in Nat /\ DOMAIN insts[k] = 1 .. Len(insts[k])
  BY <1>1, LenProperties
<1>3. up \in Nat
  <2>1. IsFiniteSet(1 .. Len(insts[k]))
    BY <1>2, FS_Interval
  <2>2. IsFiniteSet(U)
    BY <1>2, <2>1, FS_Subset
  <2> QED BY <2>2, FS_CardinalityType
<1>4. insts[k] = <<>> => up = 0 /\ Len(insts[k]) = 0
  <2>1. SUFFICES ASSUME insts[k] = <<>> PROVE up = 0 /\ Len(insts[k]) = 0
    OBVIOUS
  <2>2. Len(insts[k]) = 0
    BY <1>1, <2>1, EmptySeq
  <2>3. U = {}
    BY <1>2, <2>2
  <2> QED BY <2>2, <2>3, FS_EmptySet
<1>5. insts[k] # <<>> => count[k] \in Int
  BY DEF OnlyFinishedServe, Existing, TypeOK
<1>6. Recovered(k, failed) = [j \in 1 .. size |-> "up"]
  BY DEF Recovered
<1> HIDE DEF up
<1>7. size \in Nat /\ (insts[k] = <<>> => size = 0)
  BY <1>2, <1>3, <1>4, <1>5
<1> HIDE DEF size
<1> QED BY <1>6, <1>7, AllUp

LEMMA RecoverStep == ASSUME IndInv, Recover PROVE IndInv'
<1>1. /\ TypeOK /\ Plan /\ Creation /\ At("idle") /\ OnlyFinishedServe
      /\ UNCHANGED <<schema, count, flag, image, req>>
  BY DEF IndInv, Recover, builds
<1>2. faults' \in 0 .. MaxFaults
  BY <1>1, FaultsTyped DEF Recover, Works, TypeOK
<1>3. \E spared, failed :
        insts' = [k \in Keys |-> IF k \in spared THEN insts[k]
                                 ELSE Recovered(k, failed)]
  <2>1. CASE insts' = [k \in Keys |-> Recovered(k, {})]
    <3>1. insts' = [k \in Keys |-> IF k \in {} THEN insts[k]
                                   ELSE Recovered(k, {})]
      BY <2>1
    <3> QED BY <3>1
  <2>2. CASE \E spared, failed \in SUBSET Existing :
               insts' = [k \in Keys |-> IF k \in spared THEN insts[k]
                                        ELSE Recovered(k, failed)]
    BY <2>2
  <2> QED BY <2>1, <2>2 DEF Recover
<1>4. PICK spared, failed :
        insts' = [k \in Keys |-> IF k \in spared THEN insts[k]
                                 ELSE Recovered(k, failed)]
  BY <1>3
<1>5. \A k \in Keys : /\ insts[k] \in Seq({"up", "part"})
                      /\ Recovered(k, failed) \in Seq({"up", "part"})
                      /\ Recovered(k, failed) # <<>> => insts[k] # <<>>
  BY <1>1, RecoveredList DEF TypeOK
<1>6. insts' \in [Keys -> Seq({"up", "part"})]
  BY <1>4, <1>5
<1>7. \A k \in Keys : insts'[k] # <<>> => insts[k] # <<>>
  BY <1>4, <1>5
<1>8. FlagsOnRows' /\ OnlyFinishedServe' /\ WholeDefinition'
  BY <1>1, <1>7, ListsChanged
<1>9. Plan' /\ Creation'
  BY <1>1, BetweenRequests
<1> QED BY <1>1, <1>2, <1>6, <1>8, <1>9 DEF IndInv, TypeOK

\* A crash forgets the request and leaves the rows.
LEMMA CrashStep == ASSUME IndInv, Crash PROVE IndInv'
<1>1. TypeOK /\ UNCHANGED <<schema, count, flag, image>> /\ req' = Idle
  BY DEF IndInv, Crash, builds
<1>2. faults' \in 0 .. MaxFaults
  BY <1>1, FaultsTyped DEF Crash
<1>3. /\ insts' \in [Keys -> Seq({"up", "part"})]
      /\ FlagsOnRows' /\ OnlyFinishedServe' /\ WholeDefinition'
  <2>1. CASE \E x \in Stopping : insts' = Halved(x)
    <3>1. PICK x \in Stopping : insts' = Halved(x)
      BY <2>1
    <3>2. x[1] \in Keys /\ x[2] \in 1 .. Len(insts[x[1]])
      BY StoppingPlace
    <3>3. insts' \in [Keys -> Seq({"up", "part"})]
      BY <1>1, <3>1, <3>2, StopTouches
    <3> QED BY <1>1, <3>1, <3>2, <3>3, StopRows
  <2>2. CASE UNCHANGED insts
    BY <1>1, <2>2, RowsKept DEF TypeOK
  <2> QED BY <2>1, <2>2 DEF Crash
<1>4. req' \in Requests /\ Plan' /\ Creation'
  BY <1>1, IdlePlan, IdleRequest
<1> QED BY <1>1, <1>2, <1>3, <1>4 DEF IndInv, TypeOK

-----------------------------------------------------------------------------
(* The invariant                                                           *)

\* The program starts without the schema, or with one it converged on before.
LEMMA InitInv == Init => IndInv
<1> SUFFICES ASSUME Init PROVE IndInv
  OBVIOUS
<1>1. /\ flag = [k \in Keys |-> count[k] # None] /\ image = flag
      /\ req = Idle /\ faults = 0 /\ schema \in BOOLEAN
      /\ insts = [k \in Keys |->
           IF count[k] # None /\ count[k] > 0 THEN [j \in 1 .. count[k] |-> "up"]
           ELSE <<>>]
  BY DEF Init
<1>2. count \in [Keys -> Int \cup {None}] /\ WholeDefinition
  <2>1. CASE count = [k \in Keys |-> None]
    BY <2>1 DEF WholeDefinition, Active, Existing
  <2>2. CASE \E d \in Deployed :
               count = [k \in Keys |-> IF k \in DOMAIN d THEN d[k] ELSE None]
    <3>1. PICK d \in Deployed :
            count = [k \in Keys |-> IF k \in DOMAIN d THEN d[k] ELSE None]
      BY <2>2
    <3>2. DOMAIN d \subseteq Keys /\ \A k \in DOMAIN d : d[k] \in Int
      BY DefinitionCounts
    <3>3. count \in [Keys -> Int \cup {None}]
      BY <3>1, <3>2
    <3>4. InForce(d)
      BY <3>1, <3>2 DEF InForce, Active, Existing
    <3> QED BY <3>3, <3>4 DEF WholeDefinition
  <2> QED BY <2>1, <2>2 DEF Init
<1>3. \A k \in Keys : insts[k] \in Seq({"up", "part"})
  <2>1. SUFFICES ASSUME NEW k \in Keys PROVE insts[k] \in Seq({"up", "part"})
    OBVIOUS
  <2>2. CASE count[k] # None /\ count[k] > 0
    <3>1. count[k] \in Nat
      BY <1>2, <2>2
    <3>2. insts[k] = [j \in 1 .. count[k] |-> "up"]
      BY <1>1, <2>2
    <3> QED BY <3>1, <3>2, AllUp
  <2>3. CASE ~(count[k] # None /\ count[k] > 0)
    <3>1. insts[k] = <<>>
      BY <1>1, <2>3
    <3> QED BY <3>1, EmptySeq
  <2> QED BY <2>2, <2>3
<1>4. insts \in [Keys -> Seq({"up", "part"})]
  BY <1>1, <1>3
<1>5. flag \in [Keys -> BOOLEAN] /\ faults \in 0 .. MaxFaults
  BY <1>1, SchemaAssumption
<1>6. TypeOK
  BY <1>1, <1>2, <1>4, <1>5, IdleRequest DEF TypeOK
<1>7. \A k \in Keys : flag[k] <=> k \in Existing
  BY <1>1 DEF Existing
<1>8. \A k \in Keys : insts[k] # <<>> => k \in Existing
  BY <1>1 DEF Existing
<1>9. FlagsOnRows /\ OnlyFinishedServe
  BY <1>7, <1>8 DEF FlagsOnRows, OnlyFinishedServe, Active
<1>10. Plan /\ Creation
  BY <1>1, IdleRequest DEF Plan, Creation, At, Planning
<1> QED BY <1>2, <1>6, <1>9, <1>10 DEF IndInv

\* Every step of the program, and stuttering, preserves the invariant.
LEMMA NextInv == IndInv /\ [Next]_vars => IndInv'
<1> SUFFICES ASSUME IndInv, [Next]_vars PROVE IndInv'
  OBVIOUS
<1>1. CASE \E d \in Definitions : CreateSchema(d) \/ UpdateSchema(d)
  BY <1>1, AskStep
<1>2. CASE DeleteSchema
  BY <1>2, DeleteSchemaStep
<1>3. CASE Step
  BY <1>3, StageBuildStep, GenerateBuildStep, FinalizeBuildStep,
    DiscardBuildStep, DropBuildStep, ScaleUpStep, StartInstanceStep,
    UndoInstanceStep, ActivateBuildsStep, RollBackStep, CleanUpStep,
    EraseBuildStep, ReduceStep, EndStep, DeleteRecordStep, Zenon DEF Step
<1>4. CASE \E k \in Keys : ClientStart(k)
  BY <1>4, ClientStartStep
<1>5. CASE \E k \in Keys : \E j \in 1 .. MaxInstances : ClientStop(k, j)
  BY <1>5, ClientStopStep
<1>6. CASE Recover
  BY <1>6, RecoverStep
<1>7. CASE Crash
  BY <1>7, CrashStep
<1>8. CASE UNCHANGED vars
  <2>1. FlagsOnRows' /\ OnlyFinishedServe' /\ WholeDefinition'
    BY <1>8, RowsKept DEF vars, builds
  <2>2. TypeOK'
    BY <1>8 DEF IndInv, TypeOK, vars, builds
  <2>3. Plan' /\ Creation'
    <3>1. Existing' = Existing /\ Locked' = Locked /\ Current' = Current
      BY <1>8 DEF Existing, Locked, Current, vars, builds
    <3> QED BY <1>8, <3>1 DEF IndInv, Plan, Creation, At, Planning, vars, builds
  <2> QED BY <2>1, <2>2, <2>3 DEF IndInv
<1> QED BY <1>1, <1>2, <1>3, <1>4, <1>5, <1>6, <1>7, <1>8 DEF Next

LEMMA Invariance == Spec => []IndInv
BY InitInv, NextInv, PTL DEF Spec

\* The rows, lists and local variables of convergeSchema keep their types.
THEOREM TypeCorrect == Spec => []TypeOK
<1>1. IndInv => TypeOK
  BY DEF IndInv
<1> QED BY <1>1, Invariance, PTL

\* However requests fail, crash and are retried, a build that stageBuild
\* created and finalizeBuild never finished is not put in force by
\* activateSchemaBuilds and has no instances.
THEOREM StagedNeverServe == Spec => []OnlyFinishedServe
<1>1. IndInv => OnlyFinishedServe
  BY DEF IndInv
<1> QED BY <1>1, Invariance, PTL

\* Whatever fails and wherever the process dies, the builds in force are those
\* of one definition that was deployed or asked for, or there are none:
\* activateSchemaBuilds replaces the whole and no step changes a part.
THEOREM OneDefinition == Spec => []WholeDefinition
<1>1. IndInv => WholeDefinition
  BY DEF IndInv
<1> QED BY <1>1, Invariance, PTL

-----------------------------------------------------------------------------
(* What a request that reports no error has achieved                       *)

\* The build has the instances the definition asks for, or more.
Filled(k) == req.def[k] = DYNAMIC_INSTANCES \/ Len(insts[k]) >= req.def[k]

\* It has as many as the definition asks for.
Exact(k) == req.def[k] = DYNAMIC_INSTANCES \/ Len(insts[k]) = req.def[k]

\* Instances are created first, the definition is put in force, the other
\* builds go, and what is left too many goes last.  After an error only the
\* error is known.
Progress ==
  /\ req.pc \in Planning => ~req.errs /\ req.after = "reduce"
  /\ At("rollback") => req.errs
  /\ req.pc \in {"scale", "start", "undo"} =>
       \A k \in DOMAIN req.def \ req.todo : Filled(k)
  /\ At("activate") => \A k \in DOMAIN req.def : Filled(k)
  /\ req.pc \in {"cleanup", "erase"} /\ req.after = "reduce" =>
       InForce(req.def) /\ \A k \in DOMAIN req.def : Filled(k)
  /\ At("reduce") /\ ~req.errs =>
       /\ InForce(req.def) /\ Locked = {} /\ req.at = 0
       /\ \A k \in DOMAIN req.def : Filled(k)
       /\ \A k \in DOMAIN req.def \ req.todo : Exact(k)
  /\ ConvergedExactly

\* The row that openInstance added for the instance being started, or being
\* taken back, is the last one and does not run.
FreshLast ==
  req.pc \in {"start", "undo"} =>
    insts[Current] # <<>> /\ insts[Current][Len(insts[Current])] = "part"

ProgressInv == IndInv /\ Progress /\ FreshLast

\* Nothing is claimed of a request that is over.
LEMMA RestProgress ==
  ASSUME req'.pc \in {"idle", "record"} PROVE Progress' /\ FreshLast'
BY DEF Progress, ConvergedExactly, FreshLast, At, Planning

LEMMA IdleProgress ==
  ASSUME req' = Idle PROVE Progress' /\ FreshLast'
BY RestProgress, IdleRequest

\* Nor of one that failed, but that it did.
LEMMA FailProgress ==
  ASSUME TypeOK, FailBeforeActivation PROVE Progress' /\ FreshLast'
BY FailRequest DEF Progress, ConvergedExactly, FreshLast, At, Planning

\* Staging and generating begin before anything is filled.
LEMMA EarlyProgress ==
  ASSUME ProgressInv, req.pc \in Planning,
         req'.pc \in {"stage", "generate", "finalize", "discard", "drop"},
         req'.errs = req.errs, req'.after = req.after
  PROVE  Progress' /\ FreshLast'
BY DEF ProgressInv, Progress, ConvergedExactly, FreshLast, At, Planning

LEMMA StageBuildProgress ==
  ASSUME ProgressInv, StageBuild PROVE Progress' /\ FreshLast'
<1>1. TypeOK /\ At("stage") /\ req.pc \in Planning
  BY DEF ProgressInv, IndInv, StageBuild, At, Planning
<1>2. CASE Visited
  BY <1>1, <1>2, VisitedRequest, EarlyProgress DEF At
<1>3. CASE FailBeforeActivation
  BY <1>1, <1>3, FailProgress
<1>4. CASE Loop("generate")
  BY <1>1, <1>4, LoopRequest, EarlyProgress DEF Steps
<1> QED BY <1>2, <1>3, <1>4 DEF StageBuild

LEMMA GenerateBuildProgress ==
  ASSUME ProgressInv, GenerateBuild PROVE Progress' /\ FreshLast'
<1>1. TypeOK /\ At("generate") /\ req.pc \in Planning
  BY DEF ProgressInv, IndInv, GenerateBuild, At, Planning
<1>2. CASE Visited
  BY <1>1, <1>2, VisitedRequest, EarlyProgress DEF At
<1>3. CASE FailBeforeActivation
  BY <1>1, <1>3, FailProgress
<1>4. CASE Goto("finalize") \/ Goto("discard")
  <2>1. /\ req'.pc \in {"finalize", "discard"}
        /\ req'.errs = req.errs /\ req'.after = req.after
    BY <1>1, <1>4, GotoRequest DEF Steps
  <2> QED BY <1>1, <2>1, EarlyProgress
<1>5. CASE Loop("scale")
  <2>1. /\ req'.pc = "scale" /\ req'.todo = DOMAIN req'.def
        /\ req'.errs = req.errs /\ req'.after = req.after
    BY <1>1, <1>5, LoopRequest DEF Steps
  <2> QED BY <1>1, <2>1
        DEF ProgressInv, Progress, ConvergedExactly, FreshLast, At, Planning
<1> QED BY <1>2, <1>3, <1>4, <1>5 DEF GenerateBuild

LEMMA FinalizeBuildProgress ==
  ASSUME ProgressInv, FinalizeBuild PROVE Progress' /\ FreshLast'
<1>1. TypeOK /\ req.pc \in Planning
  BY DEF ProgressInv, IndInv, FinalizeBuild, At, Planning
<1>2. Goto("generate") \/ Goto("discard")
  BY DEF FinalizeBuild
<1>3. /\ req'.pc \in {"generate", "discard"}
      /\ req'.errs = req.errs /\ req'.after = req.after
  BY <1>1, <1>2, GotoRequest DEF Steps
<1> QED BY <1>1, <1>3, EarlyProgress

LEMMA DiscardBuildProgress ==
  ASSUME ProgressInv, DiscardBuild PROVE Progress' /\ FreshLast'
<1>1. TypeOK /\ req.pc \in Planning /\ Goto("drop")
  BY DEF ProgressInv, IndInv, DiscardBuild, At, Planning
<1>2. req'.pc = "drop" /\ req'.errs = req.errs /\ req'.after = req.after
  BY <1>1, GotoRequest DEF Steps
<1> QED BY <1>1, <1>2, EarlyProgress

\* A list that has not become shorter is as full as it was.
LEMMA StillFilled ==
  ASSUME TypeOK, NEW k \in DOMAIN req.def, Filled(k), req'.def = req.def,
         Len(insts'[k]) \in Nat, Len(insts'[k]) >= Len(insts[k])
  PROVE  Filled(k)'
<1>1. req.def[k] \in Int /\ k \in Keys
  BY DefinitionTyped
<1>2. Len(insts[k]) \in Nat
  BY <1>1, LenProperties DEF TypeOK
<1> QED BY <1>1, <1>2 DEF Filled

\* A build is left when it has enough instances, and one whose instance is
\* being created is not left before that.
LEMMA ScaleUpProgress ==
  ASSUME ProgressInv, ScaleUp PROVE Progress' /\ FreshLast'
<1>1. TypeOK /\ Plan /\ Progress /\ At("scale")
  BY DEF ProgressInv, IndInv, ScaleUp
<1>2. /\ ~req.errs /\ req.after = "reduce"
      /\ \A k \in DOMAIN req.def \ req.todo : Filled(k)
  BY <1>1 DEF Progress, At, Planning
<1>3. /\ DOMAIN req.def \subseteq Keys
      /\ \A k \in DOMAIN req.def : req.def[k] \in Int
      /\ \A k \in Keys : insts[k] \in Seq({"up", "part"})
                         /\ Len(insts[k]) \in Nat
  BY <1>1, DefinitionTyped, LenProperties DEF TypeOK
<1>4. req.todo # {} => /\ Current \in req.todo /\ Current \in DOMAIN req.def
                       /\ Current \in Keys
  BY <1>1, <1>3, CurrentInTodo DEF Plan, At, Planning
<1>5. CASE FailBeforeActivation
  BY <1>1, <1>5, FailProgress
<1>6. CASE /\ req.todo # {} /\ Goto("start")
           /\ insts' = [insts EXCEPT ![Current] = Append(@, "part")]
  <2>1. /\ req'.pc = "start" /\ req'.todo = req.todo /\ req'.def = req.def
        /\ ~req'.errs /\ req'.after = "reduce" /\ Current' = Current
    BY <1>1, <1>2, <1>6, GotoRequest, SameCurrent DEF Steps
  <2> DEFINE s == insts[Current]
             t == Append(s, "part")
  <2>2. /\ t \in Seq({"up", "part"}) /\ Len(t) = Len(s) + 1
        /\ t[Len(s) + 1] = "part" /\ t # <<>>
    BY <1>3, <1>4, <1>6, AppendProperties, EmptySeq
  <2>3. insts'[Current] = t /\ \A k \in Keys : k # Current => insts'[k] = insts[k]
    BY <1>1, <1>4, <1>6 DEF TypeOK
  <2>4. \A k \in DOMAIN req.def \ req.todo : Filled(k)'
    BY <1>1, <1>2, <1>3, <1>4, <1>6, <2>1, <2>3, StillFilled
  <2>5. FreshLast'
    <3>1. insts'[Current] # <<>> /\ insts'[Current][Len(insts'[Current])] = "part"
      BY <2>2, <2>3
    <3> QED BY <2>1, <3>1 DEF FreshLast
  <2> QED BY <2>1, <2>4, <2>5 DEF Progress, ConvergedExactly, At, Planning
<1>7. CASE req.todo # {} /\ ~Short(Current) /\ Visited /\ UNCHANGED insts
  <2>1. /\ req'.pc = "scale" /\ req'.todo = req.todo \ {Current}
        /\ req'.def = req.def /\ ~req'.errs /\ req'.after = "reduce"
    BY <1>1, <1>2, <1>7, VisitedRequest DEF At
  <2>2. Filled(Current)
    BY <1>3, <1>4, <1>7 DEF Short, Filled
  <2>3. \A k \in DOMAIN req.def \ req'.todo : Filled(k)
    BY <1>2, <2>1, <2>2
  <2>4. \A k \in DOMAIN req.def \ req'.todo : Filled(k)'
    BY <1>7, <2>1, <2>3 DEF Filled
  <2> QED BY <2>1, <2>4 DEF Progress, ConvergedExactly, FreshLast, At, Planning
<1>8. CASE req.todo = {} /\ Goto("activate") /\ UNCHANGED insts
  <2>1. /\ req'.pc = "activate" /\ req'.def = req.def
        /\ ~req'.errs /\ req'.after = "reduce"
    BY <1>1, <1>2, <1>8, GotoRequest DEF Steps
  <2>2. \A k \in DOMAIN req.def : Filled(k)'
    BY <1>2, <1>8, <2>1 DEF Filled
  <2> QED BY <2>1, <2>2 DEF Progress, ConvergedExactly, FreshLast, At, Planning
<1> QED BY <1>5, <1>6, <1>7, <1>8 DEF ScaleUp

LEMMA StartInstanceProgress ==
  ASSUME ProgressInv, StartInstance PROVE Progress' /\ FreshLast'
<1>1. TypeOK /\ Plan /\ Progress /\ FreshLast /\ At("start")
  BY DEF ProgressInv, IndInv, StartInstance
<1>2. /\ ~req.errs /\ req.after = "reduce"
      /\ \A k \in DOMAIN req.def \ req.todo : Filled(k)
  BY <1>1 DEF Progress, At, Planning
<1>3. /\ Current \in req.todo /\ Current \in Keys
      /\ DOMAIN req.def \subseteq Keys
  BY <1>1, CurrentInTodo, DefinitionTyped DEF TypeOK, Requests, Plan, At
<1>4. CASE /\ insts' = [insts EXCEPT ![Current][Len(insts[Current])] = "up"]
           /\ req' = [req EXCEPT !.pc = "scale",
                        !.made = Append(@, <<Current, Len(insts[Current])>>)]
  <2>1. /\ req'.pc = "scale" /\ req'.todo = req.todo /\ req'.def = req.def
        /\ ~req'.errs /\ req'.after = "reduce"
    BY <1>1, <1>2, <1>4 DEF TypeOK, Requests
  <2>2. \A k \in Keys : k # Current => insts'[k] = insts[k]
    BY <1>1, <1>3, <1>4 DEF TypeOK
  <2>3. \A k \in DOMAIN req.def \ req.todo : Filled(k)'
    BY <1>2, <1>3, <2>1, <2>2 DEF Filled
  <2> QED BY <2>1, <2>3 DEF Progress, ConvergedExactly, FreshLast, At, Planning
<1>5. CASE Goto("undo") /\ UNCHANGED insts
  <2>1. /\ req'.pc = "undo" /\ req'.todo = req.todo /\ req'.def = req.def
        /\ ~req'.errs /\ req'.after = "reduce" /\ Current' = Current
    BY <1>1, <1>2, <1>5, GotoRequest, SameCurrent DEF Steps
  <2>2. \A k \in DOMAIN req.def \ req.todo : Filled(k)'
    BY <1>2, <1>5, <2>1 DEF Filled
  <2>3. FreshLast'
    BY <1>1, <1>5, <2>1 DEF FreshLast, At
  <2> QED BY <2>1, <2>2, <2>3 DEF Progress, ConvergedExactly, At, Planning
<1> QED BY <1>4, <1>5 DEF StartInstance

\* The activation puts in force a definition whose builds are filled.
LEMMA ActivateBuildsProgress ==
  ASSUME ProgressInv, ActivateBuilds PROVE Progress' /\ FreshLast'
<1>1. TypeOK /\ Plan /\ Progress /\ At("activate") /\ UNCHANGED insts
  BY DEF ProgressInv, IndInv, ActivateBuilds
<1>2. CASE FailBeforeActivation
  BY <1>1, <1>2, FailProgress
<1>3. CASE /\ count' = [k \in Keys |->
                IF k \in DOMAIN req.def THEN req.def[k]
                ELSE IF count[k] = None THEN None ELSE LOCKED]
           /\ req' = [req EXCEPT !.pc = "cleanup", !.made = <<>>]
  <2>1. req'.pc = "cleanup" /\ req'.def = req.def
    BY <1>1, <1>3 DEF TypeOK, Requests
  <2>2. \A k \in DOMAIN req.def : Filled(k)'
    BY <1>1, <2>1 DEF Progress, At, Filled
  <2>3. /\ \A k \in Keys : k \in DOMAIN req.def => count'[k] = req.def[k]
        /\ \A k \in Keys : k \notin DOMAIN req.def => count'[k] \in {None, LOCKED}
    BY <1>3
  <2>4. \A k \in Keys : k \notin DOMAIN req.def => k \notin Active'
    BY <2>3 DEF Active, Existing, Locked
  <2>5. InForce(req.def)'
    BY <2>1, <2>3, <2>4 DEF InForce
  <2> QED BY <2>1, <2>2, <2>5 DEF Progress, ConvergedExactly, FreshLast, At,
        Planning
<1> QED BY <1>2, <1>3 DEF ActivateBuilds

\* The roll-back ends with the error that began it.
LEMMA RollBackProgress ==
  ASSUME ProgressInv, RollBack PROVE Progress' /\ FreshLast'
<1>1. TypeOK /\ req.pc = "rollback" /\ req.errs
  BY DEF ProgressInv, IndInv, RollBack, Progress, At
<1>2. CASE req' = [req EXCEPT !.made = Front(@)]
  <2>1. req'.pc = "rollback" /\ req'.errs
    BY <1>1, <1>2 DEF TypeOK, Requests
  <2> QED BY <2>1 DEF Progress, ConvergedExactly, FreshLast, At, Planning
<1>3. CASE Goto("end")
  <2>1. req'.pc = "end" /\ req'.errs
    BY <1>1, <1>3, GotoRequest DEF Steps
  <2> QED BY <2>1 DEF Progress, ConvergedExactly, FreshLast, At, Planning
<1> QED BY <1>2, <1>3 DEF RollBack

\* A definition in force has no locked builds.
LEMMA ForceUnlocked ==
  ASSUME TypeOK, InForce(req.def)
  PROVE  \A k \in DOMAIN req.def : k \in Active /\ k \notin Locked
BY DefinitionTyped DEF InForce, Active, Existing, Locked

\* While locked builds are removed, the builds in force keep their rows and
\* their instances.
LEMMA CleanUpKeeps ==
  ASSUME TypeOK, InForce(req.def), \A k \in DOMAIN req.def : Filled(k),
         NEW x \in Keys, x \in Locked,
         req'.def = req.def, count' \in {count, [count EXCEPT ![x] = None]},
         \A k \in Keys : k # x => insts'[k] = insts[k]
  PROVE  InForce(req.def)' /\ \A k \in DOMAIN req.def : Filled(k)'
<1>1. x \notin DOMAIN req.def /\ DOMAIN req.def \subseteq Keys
  BY ForceUnlocked, DefinitionTyped
<1>2. \A k \in DOMAIN req.def : Filled(k)'
  BY <1>1 DEF Filled
<1>3. \A k \in Keys : k # x => count'[k] = count[k]
  BY DEF TypeOK
<1>4. x \notin Active'
  BY DEF TypeOK, Active, Existing, Locked
<1>5. Active' \subseteq Active
  BY <1>3, <1>4 DEF Active, Existing, Locked
<1> QED BY <1>1, <1>2, <1>3, <1>5 DEF InForce

\* After an error of cleanupSchemaResources the request reports one.
LEMMA CleanUpFailed ==
  ASSUME TypeOK, CleanedUp(FALSE) PROVE Progress' /\ FreshLast'
<1>1. CASE req' = Idle
  BY <1>1, IdleProgress
<1>2. CASE req' = [req EXCEPT !.pc = "reduce", !.todo = DOMAIN req.def,
                              !.at = 0, !.errs = @ \/ ~FALSE]
  <2>1. req'.pc = "reduce" /\ req'.errs
    BY <1>2 DEF TypeOK, Requests
  <2> QED BY <2>1 DEF Progress, ConvergedExactly, FreshLast, At, Planning
<1> QED BY <1>1, <1>2 DEF CleanedUp

LEMMA CleanUpProgress ==
  ASSUME ProgressInv, CleanUp PROVE Progress' /\ FreshLast'
<1>1. TypeOK /\ Plan /\ Progress /\ At("cleanup") /\ UNCHANGED count
  BY DEF ProgressInv, IndInv, CleanUp
<1>2. req.after = "reduce" =>
        InForce(req.def) /\ \A k \in DOMAIN req.def : Filled(k)
  BY <1>1 DEF Progress, At
<1>3. CASE CleanedUp(FALSE)
  BY <1>1, <1>3, CleanUpFailed
<1>4. CASE \E x \in Stopping : Stopped(x) /\ UNCHANGED req
  <2>1. PICK x \in Stopping : Stopped(x) /\ UNCHANGED req
    BY <1>4
  <2>2. Crowded # {} /\ x = <<CHOOSE k \in Crowded : TRUE, 1>>
    BY <1>1 DEF Stopping, At
  <2>3. x[1] \in Locked /\ x[1] \in Keys
    BY <2>2, CrowdedChosen DEF Crowded, Locked
  <2>4. \A k \in Keys : k # x[1] => insts'[k] = insts[k]
    BY <1>1, <2>1, <2>3 DEF Stopped, TypeOK
  <2>5. req.after = "reduce" =>
          InForce(req.def)' /\ \A k \in DOMAIN req.def : Filled(k)'
    BY <1>1, <1>2, <2>1, <2>3, <2>4, CleanUpKeeps
  <2> QED BY <1>1, <2>1, <2>5 DEF Progress, ConvergedExactly, FreshLast, At,
        Planning
<1>5. CASE Locked # {} /\ Goto("erase") /\ UNCHANGED insts
  <2>1. /\ req'.pc = "erase" /\ req'.def = req.def /\ req'.after = req.after
    BY <1>1, <1>5, GotoRequest DEF Steps
  <2>2. Doomed \in Locked /\ Doomed \in Keys
    BY <1>5, DoomedLocked DEF Locked
  <2>3. req.after = "reduce" =>
          InForce(req.def)' /\ \A k \in DOMAIN req.def : Filled(k)'
    BY <1>1, <1>2, <1>5, <2>1, <2>2, CleanUpKeeps
  <2> QED BY <2>1, <2>3 DEF Progress, ConvergedExactly, FreshLast, At, Planning
<1>6. CASE Locked = {} /\ CleanedUp(TRUE) /\ UNCHANGED insts
  <2>1. CASE req.after # "reduce"
    <3>1. Goto("record")
      BY <1>6, <2>1 DEF CleanedUp
    <3> QED BY <1>1, <3>1, GotoRequest, RestProgress DEF Steps
  <2>2. CASE req.after = "reduce"
    <3>1. req' = [req EXCEPT !.pc = "reduce", !.todo = DOMAIN req.def, !.at = 0,
                             !.errs = @ \/ ~TRUE]
      BY <1>6, <2>2 DEF CleanedUp
    <3>2. /\ req'.pc = "reduce" /\ req'.todo = DOMAIN req.def /\ req'.at = 0
          /\ req'.def = req.def
      BY <1>1, <3>1 DEF TypeOK, Requests
    <3>3. /\ Locked' = {} /\ InForce(req.def)'
          /\ \A k \in DOMAIN req.def : Filled(k)'
      BY <1>1, <1>2, <1>6, <2>2, <3>2
        DEF Locked, InForce, Active, Existing, Filled
    <3> QED BY <3>2, <3>3 DEF Progress, ConvergedExactly, FreshLast, At, Planning
  <2> QED BY <2>1, <2>2
<1> QED BY <1>3, <1>4, <1>5, <1>6 DEF CleanUp

LEMMA EraseBuildProgress ==
  ASSUME ProgressInv, EraseBuild PROVE Progress' /\ FreshLast'
<1>1. TypeOK /\ Plan /\ Progress /\ At("erase") /\ UNCHANGED insts
  BY DEF ProgressInv, IndInv, EraseBuild
<1>2. CASE CleanedUp(FALSE)
  BY <1>1, <1>2, CleanUpFailed
<1>3. CASE RemoveBuildMetadata(Doomed) /\ Goto("cleanup")
  <2>1. req'.pc = "cleanup" /\ req'.def = req.def /\ req'.after = req.after
    BY <1>1, <1>3, GotoRequest DEF Steps
  <2>2. Doomed \in Locked /\ Doomed \in Keys
    BY <1>1, DoomedLocked DEF Plan, At, Locked
  <2>3. count' = [count EXCEPT ![Doomed] = None]
    BY <1>3 DEF RemoveBuildMetadata
  <2>4. req.after = "reduce" =>
          InForce(req.def) /\ \A k \in DOMAIN req.def : Filled(k)
    BY <1>1 DEF Progress, At
  <2>5. req.after = "reduce" =>
          InForce(req.def)' /\ \A k \in DOMAIN req.def : Filled(k)'
    BY <1>1, <2>1, <2>2, <2>3, <2>4, CleanUpKeeps
  <2> QED BY <2>1, <2>5 DEF Progress, ConvergedExactly, FreshLast, At, Planning
<1> QED BY <1>2, <1>3 DEF EraseBuild

\* Without locked builds and surplus instances the definition is settled.
LEMMA ReducedSettled ==
  ASSUME TypeOK, InForce(req.def), Locked = {},
         \A k \in DOMAIN req.def : Exact(k)
  PROVE  Settled(req.def)
<1>1. DOMAIN req.def \subseteq Keys
  BY DefinitionTyped
<1>2. Existing = DOMAIN req.def
  BY <1>1, ForceUnlocked DEF InForce, Active, Existing
<1> QED BY <1>1, <1>2 DEF Settled, InForce, Exact

\* The reductions stop what is beyond the count of the build in hand, and
\* leave it when nothing is.
LEMMA ReduceProgress ==
  ASSUME ProgressInv, Reduce PROVE Progress' /\ FreshLast'
<1>1. /\ TypeOK /\ Plan /\ Progress /\ At("reduce") /\ IndInv
      /\ UNCHANGED count
  BY DEF ProgressInv, IndInv, Reduce, builds
<1>2. ~req.errs =>
        /\ InForce(req.def) /\ Locked = {} /\ req.at = 0
        /\ \A k \in DOMAIN req.def : Filled(k)
        /\ \A k \in DOMAIN req.def \ req.todo : Exact(k)
  BY <1>1 DEF Progress, At
<1>3. /\ DOMAIN req.def \subseteq Keys /\ req.todo \subseteq DOMAIN req.def
      /\ \A k \in DOMAIN req.def : req.def[k] \in Int
      /\ \A k \in Keys : Len(insts[k]) \in Nat
  BY <1>1, DefinitionTyped, LenProperties DEF TypeOK, Plan, At
<1>4. req.todo # {} => Current \in req.todo
  BY CurrentInTodo
<1>5. ASSUME req'.def = req.def, ~req.errs
      PROVE  InForce(req.def)' /\ Locked' = {}
  BY <1>1, <1>2, <1>5 DEF InForce, Locked, Active, Existing
<1>6. CASE \E x \in Stopping : Stopped(x) /\ UNCHANGED req
  <2>1. PICK x \in Stopping : Stopped(x) /\ UNCHANGED req
    BY <1>6
  <2>2. CASE req.errs
    BY <1>1, <2>1, <2>2
      DEF Progress, ConvergedExactly, FreshLast, At, Planning
  <2>3. CASE ~req.errs
    <3>1. /\ x[1] \in Keys /\ x[2] \in 1 .. Len(insts[x[1]])
      BY <1>1, StoppingPlace
    <3>2. /\ req.todo # {} /\ Surplus(Current) /\ x[1] = Current
      BY <1>1 DEF Stopping, At
    <3>3. /\ \A k \in Keys : k # Current => insts'[k] = insts[k]
          /\ Len(insts'[Current]) >= Len(insts[Current]) - 1
          /\ Len(insts'[Current]) \in Nat
      BY <1>1, <2>1, <3>1, <3>2, StopTouches
    <3>4. req.def[Current] < Len(insts[Current])
      BY <1>2, <1>3, <1>4, <2>3, <3>2 DEF Surplus
    <3>5. \A k \in DOMAIN req.def : Filled(k)'
      BY <1>2, <1>3, <1>4, <2>1, <2>3, <3>2, <3>3, <3>4 DEF Filled
    <3>6. \A k \in DOMAIN req.def \ req.todo : Exact(k)'
      BY <1>2, <1>3, <1>4, <2>1, <2>3, <3>2, <3>3 DEF Exact
    <3> QED BY <1>1, <1>2, <1>5, <2>1, <2>3, <3>5, <3>6
          DEF Progress, ConvergedExactly, FreshLast, At, Planning
  <2> QED BY <2>2, <2>3
<1>7. CASE \/ req' = [req EXCEPT !.at = @ + 1, !.errs = TRUE]
           \/ req' = [req EXCEPT !.todo = @ \ {Current}, !.at = 0, !.errs = TRUE]
  <2>1. req'.pc = "reduce" /\ req'.errs
    <3>1. req \in Requests /\ req.pc = "reduce"
      BY <1>1 DEF TypeOK, At
    <3>2. CASE req' = [req EXCEPT !.at = @ + 1, !.errs = TRUE]
      BY <3>1, <3>2 DEF Requests
    <3>3. CASE req' = [req EXCEPT !.todo = @ \ {Current}, !.at = 0,
                                  !.errs = TRUE]
      BY <3>1, <3>3 DEF Requests
    <3> QED BY <1>7, <3>2, <3>3
  <2> QED BY <2>1 DEF Progress, ConvergedExactly, FreshLast, At, Planning
<1>8. CASE req.todo # {} /\ ~Surplus(Current) /\ Visited /\ UNCHANGED insts
  <2>1. /\ req'.pc = "reduce" /\ req'.todo = req.todo \ {Current}
        /\ req'.at = 0 /\ req'.def = req.def /\ req'.errs = req.errs
    BY <1>1, <1>8, VisitedRequest DEF At
  <2>2. ~req.errs => Exact(Current)
    BY <1>2, <1>3, <1>4, <1>8 DEF Surplus, Filled, Exact
  <2>3. ~req.errs =>
          /\ \A k \in DOMAIN req.def : Filled(k)'
          /\ \A k \in DOMAIN req.def \ req'.todo : Exact(k)'
    BY <1>2, <1>8, <2>1, <2>2 DEF Filled, Exact
  <2> QED BY <1>5, <2>1, <2>3
        DEF Progress, ConvergedExactly, FreshLast, At, Planning
<1>9. CASE req.todo = {} /\ Goto("end") /\ UNCHANGED insts
  <2>1. req'.pc = "end" /\ req'.def = req.def /\ req'.errs = req.errs
    BY <1>1, <1>9, GotoRequest DEF Steps
  <2>2. ~req.errs => Settled(req.def)
    BY <1>1, <1>2, <1>9, ReducedSettled
  <2>3. ~req.errs => Settled(req.def)'
    BY <1>1, <1>9, <2>1, <2>2 DEF Settled, InForce, Active, Existing, Locked
  <2> QED BY <2>1, <2>3 DEF Progress, ConvergedExactly, FreshLast, At, Planning
<1> QED BY <1>6, <1>7, <1>8, <1>9 DEF Reduce

LEMMA EndProgress == ASSUME ProgressInv, End PROVE Progress' /\ FreshLast'
<1>1. CASE req' = Idle
  BY <1>1, IdleProgress
<1>2. CASE req' = [req EXCEPT !.pc = "cleanup", !.after = "record"]
  <2>1. req'.pc = "cleanup" /\ req'.after = "record"
    BY <1>2 DEF ProgressInv, IndInv, TypeOK, Requests
  <2> QED BY <2>1 DEF Progress, ConvergedExactly, FreshLast, At, Planning
<1> QED BY <1>1, <1>2 DEF End

LEMMA AskProgress ==
  ASSUME NEW d \in Definitions, CreateSchema(d) \/ UpdateSchema(d)
  PROVE  Progress' /\ FreshLast'
<1>1. PICK kind \in {"create", "update"} : Ask(kind, d)
  BY DEF CreateSchema, UpdateSchema
<1>2. req'.pc = "stage" /\ ~req'.errs /\ req'.after = "reduce"
  BY <1>1 DEF Ask, Idle
<1> QED BY <1>2 DEF Progress, ConvergedExactly, FreshLast, At, Planning

LEMMA DeleteSchemaProgress ==
  ASSUME DeleteSchema PROVE Progress' /\ FreshLast'
<1>1. req'.pc = "cleanup" /\ req'.after = "record"
  BY DEF DeleteSchema, Idle
<1> QED BY <1>1 DEF Progress, ConvergedExactly, FreshLast, At, Planning

\* Every step of the program preserves it.
LEMMA NextProgress == ProgressInv /\ [Next]_vars => ProgressInv'
<1> SUFFICES ASSUME ProgressInv, [Next]_vars PROVE Progress' /\ FreshLast'
  BY NextInv DEF ProgressInv
<1>1. TypeOK
  BY DEF ProgressInv, IndInv
<1>2. CASE \E d \in Definitions : CreateSchema(d) \/ UpdateSchema(d)
  BY <1>2, AskProgress
<1>3. CASE DeleteSchema
  BY <1>3, DeleteSchemaProgress
<1>4. CASE Step
  <2>1. CASE DropBuild \/ UndoInstance
    BY <1>1, <2>1, FailProgress DEF DropBuild, UndoInstance
  <2>2. CASE DeleteRecord
    BY <2>2, IdleProgress DEF DeleteRecord
  <2> QED BY <1>4, <2>1, <2>2, StageBuildProgress, GenerateBuildProgress,
        FinalizeBuildProgress, DiscardBuildProgress, ScaleUpProgress,
        StartInstanceProgress, ActivateBuildsProgress, RollBackProgress,
        CleanUpProgress, EraseBuildProgress, ReduceProgress, EndProgress,
        Zenon DEF Step
<1>5. CASE At("idle") /\ UNCHANGED req
  BY <1>5, RestProgress DEF At
<1>6. CASE Crash
  BY <1>6, IdleProgress DEF Crash
<1>7. CASE UNCHANGED vars
  BY <1>7 DEF ProgressInv, Progress, ConvergedExactly, FreshLast, At, Filled,
    Exact, Settled, InForce, Active, Existing, Locked, Current, vars, builds
<1> QED BY <1>2, <1>3, <1>4, <1>5, <1>6, <1>7
      DEF Next, ClientStart, ClientStop, Recover

LEMMA ProgressInvariance == Spec => []ProgressInv
<1>1. Init => ProgressInv
  <2> SUFFICES ASSUME Init PROVE Progress /\ FreshLast
    BY InitInv DEF ProgressInv
  <2>1. req.pc = "idle"
    BY IdleRequest DEF Init
  <2> QED BY <2>1 DEF Progress, ConvergedExactly, FreshLast, At, Planning
<1> QED BY <1>1, NextProgress, PTL DEF Spec

\* For any definitions, failures and crashes: a CreateSchema or UpdateSchema
\* that reports no error leaves exactly the builds of its definition, each
\* with as many instances as it asks for, whatever earlier attempts left.
THEOREM SuccessIsExact == Spec => []ConvergedExactly
<1>1. ProgressInv => ConvergedExactly
  BY DEF ProgressInv, Progress
<1> QED BY <1>1, ProgressInvariance, PTL

-----------------------------------------------------------------------------
(* What runs, position by position                                         *)

\* The instances that run, and those the request created of one build
Ups(s)   == {j \in DOMAIN s : s[j] = "up"}
Of(m, k) == {j \in DOMAIN m : m[j][1] = k}

LEMMA PriorCounts ==
  ASSUME NEW k
  PROVE  Prior(k) = Cardinality(Ups(insts[k])) - Cardinality(Of(req.made, k))
BY DEF Prior, Made, Ups, Of

LEMMA CountsFinite ==
  ASSUME NEW S, NEW s \in Seq(S), NEW T \in SUBSET DOMAIN s
  PROVE  IsFiniteSet(T) /\ Cardinality(T) \in Nat
<1>1. DOMAIN s = 1 .. Len(s) /\ Len(s) \in Nat
  BY LenProperties
<1>2. IsFiniteSet(1 .. Len(s))
  BY <1>1, FS_Interval
<1>3. IsFiniteSet(T)
  BY <1>1, <1>2, FS_Subset
<1> QED BY <1>3, FS_CardinalityType

LEMMA OneLess ==
  ASSUME NEW S, IsFiniteSet(S), NEW x
  PROVE  /\ Cardinality(S \ {x}) \in Nat
         /\ Cardinality(S \ {x}) >= Cardinality(S) - 1
         /\ x \in S => Cardinality(S \ {x}) = Cardinality(S) - 1
<1>1. /\ IsFiniteSet(S \ {x})
      /\ Cardinality(S \ {x}) =
           IF x \in S THEN Cardinality(S) - 1 ELSE Cardinality(S)
  BY FS_RemoveElement, Zenon
<1>2. Cardinality(S) \in Nat /\ Cardinality(S \ {x}) \in Nat
  BY <1>1, FS_CardinalityType
<1> QED BY <1>1, <1>2

\* The last position and the others
LEMMA LastApart ==
  ASSUME NEW n \in Nat \ {0}
  PROVE  /\ \A j \in 1 .. n : j \in 1 .. n - 1 \/ j = n
         /\ 1 .. n - 1 \subseteq 1 .. n
         /\ n \in 1 .. n /\ n \notin 1 .. n - 1
OBVIOUS

\* A row without containers does not run, whether it is added or removed.
LEMMA UpsAppend ==
  ASSUME NEW s \in Seq({"up", "part"})
  PROVE  Ups(Append(s, "part")) = Ups(s)
<1> DEFINE t == Append(s, "part")
<1>1. /\ t \in Seq({"up", "part"}) /\ Len(t) = Len(s) + 1 /\ Len(s) \in Nat
      /\ \A j \in 1 .. Len(s) : t[j] = s[j]
      /\ t[Len(s) + 1] = "part"
  BY AppendProperties, LenProperties
<1>2. DOMAIN t = 1 .. Len(s) + 1 /\ DOMAIN s = 1 .. Len(s)
  BY <1>1, LenProperties
<1> HIDE DEF t
<1>3. \A j \in 1 .. Len(s) + 1 : j \in 1 .. Len(s) \/ j = Len(s) + 1
  BY <1>1
<1>4. 1 .. Len(s) \subseteq 1 .. Len(s) + 1
  BY <1>1
<1>5. Ups(t) = Ups(s)
  BY <1>1, <1>2, <1>3, <1>4, SMTT(40) DEF Ups
<1> QED BY <1>5 DEF t

LEMMA UpsFront ==
  ASSUME NEW s \in Seq({"up", "part"}), s # <<>>, s[Len(s)] = "part"
  PROVE  Ups(Front(s)) = Ups(s)
<1>1. /\ DOMAIN Front(s) = 1 .. Len(s) - 1
      /\ \A j \in 1 .. Len(s) - 1 : Front(s)[j] = s[j]
      /\ Len(s) \in Nat \ {0} /\ DOMAIN s = 1 .. Len(s)
  BY FrontProperties, LenProperties
<1>2. \A j \in 1 .. Len(s) : j \in 1 .. Len(s) - 1 \/ j = Len(s)
  BY <1>1, LastApart, Zenon
<1>3. 1 .. Len(s) - 1 \subseteq 1 .. Len(s)
  BY <1>1, LastApart, Zenon
<1> QED BY <1>1, <1>2, <1>3 DEF Ups

\* An instance that has been started runs.
LEMMA UpsStarted ==
  ASSUME NEW s \in Seq({"up", "part"}), s # <<>>, s[Len(s)] = "part"
  PROVE  Cardinality(Ups([s EXCEPT ![Len(s)] = "up"])) = Cardinality(Ups(s)) + 1
<1>1. DOMAIN s = 1 .. Len(s) /\ Len(s) \in DOMAIN s
  BY EmptySeq, LenProperties
<1>2. Len(s) \notin Ups(s)
  BY DEF Ups
<1>3. Ups([s EXCEPT ![Len(s)] = "up"]) = Ups(s) \cup {Len(s)}
  BY <1>1 DEF Ups
<1>4. IsFiniteSet(Ups(s))
  BY CountsFinite DEF Ups
<1> QED BY <1>2, <1>3, <1>4, FS_AddElement

\* A failed stop takes at most one running instance away.
LEMMA UpsHalved ==
  ASSUME NEW s \in Seq({"up", "part"}), NEW i \in DOMAIN s
  PROVE  Cardinality(Ups([s EXCEPT ![i] = "part"])) >= Cardinality(Ups(s)) - 1
<1>1. Ups([s EXCEPT ![i] = "part"]) = Ups(s) \ {i}
  BY DEF Ups
<1>2. IsFiniteSet(Ups(s)) /\ Cardinality(Ups(s)) \in Nat
  BY CountsFinite DEF Ups
<1> QED BY <1>1, <1>2, OneLess

\* So does a stop that succeeds: the others move up and stay in order.
LEMMA UpsRemoved ==
  ASSUME NEW s \in Seq({"up", "part"}), NEW i \in 1 .. Len(s)
  PROVE  Cardinality(Ups(RemoveAt(s, i))) >= Cardinality(Ups(s)) - 1
<1> DEFINE t == RemoveAt(s, i)
           n == Len(s)
           low == SubSeq(s, 1, i - 1)
           high == SubSeq(s, i + 1, n)
           S == {"up", "part"}
           f == [j \in Ups(s) \ {i} |-> IF j < i THEN j ELSE j - 1]
<1>1. n \in Nat /\ i \in Nat /\ 1 <= i /\ i <= n /\ DOMAIN s = 1 .. n
      /\ \A j \in 1 .. n : s[j] \in S
  BY LenProperties, ElementOfSeq
<1>2. t \in Seq(S) /\ Len(t) = n - 1 /\ DOMAIN t = 1 .. n - 1
  <2>1. t \in Seq(S) /\ Len(t) = n - 1
    BY RemoveAtProperties
  <2> QED BY <2>1, LenProperties
<1>3. /\ low \in Seq(S) /\ Len(low) = i - 1
      /\ \A j \in 1 .. i - 1 : low[j] = s[j]
  <2>1. \A j \in 1 .. i - 1 : s[j] \in S
    BY <1>1
  <2> QED BY <1>1, <2>1, SubSeqProperties
<1>4. /\ high \in Seq(S) /\ Len(high) = n - i
      /\ \A j \in 1 .. n - i : high[j] = s[i + j]
  <2>1. \A j \in i + 1 .. n : s[j] \in S
    BY <1>1
  <2>2. /\ high \in Seq(S)
        /\ Len(high) = IF i + 1 <= n THEN n - (i + 1) + 1 ELSE 0
        /\ \A j \in 1 .. n - (i + 1) + 1 : high[j] = s[(i + 1) + j - 1]
    BY <1>1, <2>1, SubSeqProperties
  <2> HIDE DEF high, n, S
  <2>3. n - (i + 1) + 1 = n - i /\ (~(i + 1 <= n) => n - i = 0)
    BY <1>1
  <2>4. \A j \in 1 .. n - i : (i + 1) + j - 1 = i + j
    BY <1>1
  <2> QED BY <2>2, <2>3, <2>4
<1>5. \A j \in 1 .. n - 1 : t[j] = IF j < i THEN s[j] ELSE s[j + 1]
  <2>1. t = low \o high
    BY DEF RemoveAt
  <2> HIDE DEF t, low, high, S
  <2>2. \A j \in 1 .. (i - 1) + (n - i) :
          t[j] = IF j <= i - 1 THEN low[j] ELSE high[j - (i - 1)]
    BY <1>3, <1>4, <2>1, ConcatProperties
  <2>3. SUFFICES ASSUME NEW j \in 1 .. n - 1
                 PROVE  t[j] = IF j < i THEN s[j] ELSE s[j + 1]
    OBVIOUS
  <2>4. t[j] = IF j <= i - 1 THEN low[j] ELSE high[j - (i - 1)]
    BY <1>1, <2>2
  <2>5. CASE j < i
    BY <1>1, <1>3, <2>4, <2>5
  <2>6. CASE ~(j < i)
    <3>1. j - (i - 1) \in 1 .. n - i /\ i + (j - (i - 1)) = j + 1
          /\ ~(j <= i - 1)
      BY <1>1, <2>6
    <3>2. high[j - (i - 1)] = s[i + (j - (i - 1))]
      BY <1>4, <3>1
    <3> QED BY <2>4, <2>6, <3>1, <3>2
  <2> QED BY <2>5, <2>6
<1> HIDE DEF t, n, low, high, S
<1>6. \A j \in Ups(s) \ {i} : f[j] \in Ups(t)
  <2>1. SUFFICES ASSUME NEW j \in Ups(s) \ {i} PROVE f[j] \in Ups(t)
    OBVIOUS
  <2>2. j \in 1 .. n /\ j # i /\ s[j] = "up"
    BY <1>1 DEF Ups
  <2>3. CASE j < i
    <3>1. f[j] = j /\ j \in 1 .. n - 1
      BY <1>1, <2>2, <2>3
    <3> QED BY <1>2, <1>5, <2>2, <2>3, <3>1 DEF Ups
  <2>4. CASE ~(j < i)
    <3>1. f[j] = j - 1
      BY <2>4
    <3>2. j - 1 \in 1 .. n - 1 /\ ~(j - 1 < i) /\ (j - 1) + 1 = j
      BY <1>1, <2>2, <2>4
    <3> QED BY <1>2, <1>5, <2>2, <3>1, <3>2 DEF Ups
  <2> QED BY <2>3, <2>4
<1>7. f \in Injection(Ups(s) \ {i}, Ups(t))
  <2>1. f \in [Ups(s) \ {i} -> Ups(t)]
    BY <1>6
  <2>2. ASSUME NEW a \in DOMAIN f, NEW b \in DOMAIN f, f[a] = f[b]
        PROVE  a = b
    <3>1. /\ a \in 1 .. n /\ a # i /\ b \in 1 .. n /\ b # i
      BY <1>1 DEF Ups
    <3>2. (IF a < i THEN a ELSE a - 1) = (IF b < i THEN b ELSE b - 1)
      BY <2>2
    <3> QED BY <1>1, <3>1, <3>2
  <2> QED BY <2>1, <2>2 DEF Injection, IsInjective
<1>8. /\ IsFiniteSet(Ups(s)) /\ Cardinality(Ups(s)) \in Nat
      /\ IsFiniteSet(Ups(t)) /\ Cardinality(Ups(t)) \in Nat
  BY <1>2, CountsFinite DEF Ups
<1>9. Cardinality(Ups(s) \ {i}) <= Cardinality(Ups(t))
  BY <1>7, <1>8, FS_Injection
<1>10. Cardinality(Ups(s) \ {i}) >= Cardinality(Ups(s)) - 1
  BY <1>8, OneLess
<1>11. Cardinality(Ups(s) \ {i}) \in Nat
  BY <1>8, OneLess
<1> QED BY <1>8, <1>9, <1>10, <1>11 DEF t

\* The request remembers one instance more, or forgets the last one.
LEMMA OfAppend ==
  ASSUME NEW m \in Seq(Keys \X (Nat \ {0})), NEW k \in Keys,
         NEW n \in Nat \ {0}
  PROVE  /\ Cardinality(Of(Append(m, <<k, n>>), k)) = Cardinality(Of(m, k)) + 1
         /\ \A i \in Keys : i # k => Of(Append(m, <<k, n>>), i) = Of(m, i)
<1> DEFINE t == Append(m, <<k, n>>)
<1>1. <<k, n>> \in Keys \X (Nat \ {0})
  OBVIOUS
<1>2. /\ t \in Seq(Keys \X (Nat \ {0})) /\ Len(t) = Len(m) + 1
      /\ \A j \in 1 .. Len(m) : t[j] = m[j]
      /\ t[Len(m) + 1] = <<k, n>> /\ Len(m) \in Nat
  BY <1>1, AppendProperties, LenProperties
<1>3. DOMAIN t = 1 .. Len(m) + 1 /\ DOMAIN m = 1 .. Len(m)
  BY <1>2, LenProperties
<1> HIDE DEF t
<1>4. /\ \A j \in 1 .. Len(m) + 1 : j \in 1 .. Len(m) \/ j = Len(m) + 1
      /\ 1 .. Len(m) \subseteq 1 .. Len(m) + 1
      /\ Len(m) + 1 \in 1 .. Len(m) + 1 /\ Len(m) + 1 \notin 1 .. Len(m)
  BY <1>2
<1>5. t[Len(m) + 1][1] = k
  BY <1>2
<1>6. Of(t, k) = Of(m, k) \cup {Len(m) + 1} /\ Len(m) + 1 \notin Of(m, k)
  BY <1>2, <1>3, <1>4, <1>5 DEF Of
<1>7. \A i \in Keys : i # k => Of(t, i) = Of(m, i)
  BY <1>2, <1>3, <1>4, <1>5 DEF Of
<1>8. IsFiniteSet(Of(m, k))
  BY CountsFinite DEF Of
<1>9. Cardinality(Of(t, k)) = Cardinality(Of(m, k)) + 1
  BY <1>6, <1>8, FS_AddElement
<1> QED BY <1>7, <1>9 DEF t

LEMMA OfFront ==
  ASSUME NEW m \in Seq(Keys \X (Nat \ {0})), m # <<>>
  PROVE  /\ Cardinality(Of(Front(m), Last(m)[1]))
              = Cardinality(Of(m, Last(m)[1])) - 1
         /\ \A i \in Keys : i # Last(m)[1] => Of(Front(m), i) = Of(m, i)
<1>1. /\ DOMAIN Front(m) = 1 .. Len(m) - 1
      /\ \A j \in 1 .. Len(m) - 1 : Front(m)[j] = m[j]
      /\ Len(m) \in Nat \ {0} /\ DOMAIN m = 1 .. Len(m)
  BY FrontProperties, LenProperties
<1>2. /\ \A j \in 1 .. Len(m) : j \in 1 .. Len(m) - 1 \/ j = Len(m)
      /\ 1 .. Len(m) - 1 \subseteq 1 .. Len(m)
      /\ Len(m) \in 1 .. Len(m) /\ Len(m) \notin 1 .. Len(m) - 1
  BY <1>1, LastApart, Zenon
<1>3. Last(m) = m[Len(m)]
  BY DEF Last
<1>4. Of(Front(m), Last(m)[1]) = Of(m, Last(m)[1]) \ {Len(m)}
      /\ Len(m) \in Of(m, Last(m)[1])
  BY <1>1, <1>2, <1>3, ZenonT(60) DEF Of
<1>5. \A i \in Keys : i # Last(m)[1] => Of(Front(m), i) = Of(m, i)
  BY <1>1, <1>2, <1>3 DEF Of
<1>6. IsFiniteSet(Of(m, Last(m)[1]))
  BY CountsFinite DEF Of
<1>7. Cardinality(Of(Front(m), Last(m)[1])) = Cardinality(Of(m, Last(m)[1])) - 1
  BY <1>4, <1>6, OneLess
<1> QED BY <1>5, <1>7

-----------------------------------------------------------------------------
(* Builds in force until the activation                                    *)

\* What a build in force keeps
Kept(k) == count'[k] = count[k] /\ Prior(k)' >= Prior(k)

LEMMA PriorTyped ==
  ASSUME TypeOK, NEW k \in Keys
  PROVE  /\ Cardinality(Ups(insts[k])) \in Nat
         /\ Cardinality(Of(req.made, k)) \in Nat
<1>1. /\ insts[k] \in Seq({"up", "part"})
      /\ req.made \in Seq(Keys \X (Nat \ {0}))
  BY DEF TypeOK, Requests
<1>2. /\ Ups(insts[k]) \in SUBSET DOMAIN insts[k]
      /\ Of(req.made, k) \in SUBSET DOMAIN req.made
  BY DEF Ups, Of
<1> QED BY <1>1, <1>2, CountsFinite

\* A step that stops nothing of the build and creates nothing
LEMMA Untouched ==
  ASSUME TypeOK, NEW k \in Keys, count'[k] = count[k],
         Ups(insts'[k]) = Ups(insts[k]), Of(req'.made, k) = Of(req.made, k)
  PROVE  Kept(k)
<1>1. Prior(k)' = Cardinality(Ups(insts'[k])) - Cardinality(Of(req'.made, k))
  BY DEF Prior, Made, Ups, Of
<1> QED BY <1>1, PriorCounts, PriorTyped DEF Kept

\* The steps of convergeSchema that change no list of instances
LEMMA QuietKept ==
  ASSUME ProgressInv,
         \/ StageBuild \/ GenerateBuild \/ FinalizeBuild \/ DiscardBuild
         \/ DropBuild
  PROVE  \A k \in Active : Kept(k)
<1>1. TypeOK /\ Plan /\ UNCHANGED insts
  BY DEF ProgressInv, IndInv, StageBuild, GenerateBuild, FinalizeBuild,
    DiscardBuild, DropBuild
<1>2. req'.made = req.made
  <2>1. \/ Visited \/ FailBeforeActivation
        \/ \E p \in Steps : Loop(p) \/ Goto(p)
    BY DEF StageBuild, GenerateBuild, FinalizeBuild, DiscardBuild, DropBuild,
      Steps
  <2> QED BY <1>1, <2>1, VisitedRequest, FailRequest, LoopRequest, GotoRequest
<1>3. \A k \in Active : k \in Keys /\ count[k] # None /\ flag[k]
  BY DEF ProgressInv, IndInv, OnlyFinishedServe, Active, Existing
<1>4. \A k \in Active : count'[k] = count[k]
  <2>1. CASE StageBuild
    <3>1. req.todo # {} => Current \in Keys
      BY <1>1, CurrentInTodo DEF TypeOK, Requests
    <3> QED BY <1>1, <1>3, <2>1, <3>1 DEF StageBuild, TypeOK
  <2>2. CASE DropBuild
    <3>1. Current \in Keys /\ ~flag[Current]
      BY <1>1, <2>2, CurrentInTodo DEF DropBuild, Plan, At, TypeOK, Requests
    <3> QED BY <1>1, <1>3, <2>2, <3>1 DEF DropBuild, RemoveBuildMetadata, TypeOK
  <2>3. CASE GenerateBuild \/ FinalizeBuild \/ DiscardBuild
    BY <2>3 DEF GenerateBuild, FinalizeBuild, DiscardBuild
  <2> QED BY <2>1, <2>2, <2>3
<1> QED BY <1>1, <1>2, <1>3, <1>4, Untouched

\* A new row does not run before it is counted as created, and neither does
\* one that is taken back.
LEMMA ScaleUpKept ==
  ASSUME ProgressInv, ScaleUp PROVE \A k \in Active : Kept(k)
<1>1. TypeOK /\ UNCHANGED count
  BY DEF ProgressInv, IndInv, ScaleUp, builds
<1>2. req'.made = req.made
  BY <1>1, VisitedRequest, FailRequest, GotoRequest DEF ScaleUp, Steps
<1>3. req.todo # {} => Current \in Keys
  BY <1>1, CurrentInTodo DEF TypeOK, Requests
<1>4. \A k \in Keys : Ups(insts'[k]) = Ups(insts[k])
  <2>1. CASE /\ req.todo # {}
             /\ insts' = [insts EXCEPT ![Current] = Append(@, "part")]
    <3>1. /\ insts'[Current] = Append(insts[Current], "part")
          /\ insts[Current] \in Seq({"up", "part"})
          /\ \A k \in Keys : k # Current => insts'[k] = insts[k]
      BY <1>1, <1>3, <2>1 DEF TypeOK
    <3> QED BY <3>1, UpsAppend
  <2>2. CASE UNCHANGED insts
    BY <2>2
  <2> QED BY <2>1, <2>2 DEF ScaleUp
<1> QED BY <1>1, <1>2, <1>4, Untouched DEF Active, Existing

LEMMA UndoInstanceKept ==
  ASSUME ProgressInv, UndoInstance PROVE \A k \in Active : Kept(k)
<1>1. TypeOK /\ Plan /\ FreshLast /\ At("undo") /\ UNCHANGED count
  BY DEF ProgressInv, IndInv, UndoInstance, builds
<1>2. req'.made = req.made
  BY <1>1, FailRequest DEF UndoInstance
<1>3. /\ Current \in Keys /\ insts[Current] \in Seq({"up", "part"})
      /\ insts[Current] # <<>> /\ insts[Current][Len(insts[Current])] = "part"
  BY <1>1, CurrentInTodo DEF TypeOK, Requests, Plan, FreshLast, At
<1>4. \A k \in Keys : Ups(insts'[k]) = Ups(insts[k])
  <2>1. CASE insts' = [insts EXCEPT ![Current] = Front(@)]
    <3>1. /\ insts'[Current] = Front(insts[Current])
          /\ \A k \in Keys : k # Current => insts'[k] = insts[k]
      BY <1>1, <1>3, <2>1 DEF TypeOK
    <3> QED BY <1>3, <3>1, UpsFront
  <2>2. CASE UNCHANGED insts
    BY <2>2
  <2> QED BY <2>1, <2>2 DEF UndoInstance
<1> QED BY <1>1, <1>2, <1>4, Untouched DEF Active, Existing

\* A started instance is one more that runs and one more created.
LEMMA StartInstanceKept ==
  ASSUME ProgressInv, StartInstance PROVE \A k \in Active : Kept(k)
<1>1. TypeOK /\ Plan /\ FreshLast /\ At("start") /\ UNCHANGED count
  BY DEF ProgressInv, IndInv, StartInstance, builds
<1> DEFINE s == insts[Current]
           n == Len(s)
<1>2. /\ Current \in Keys /\ s \in Seq({"up", "part"})
      /\ s # <<>> /\ s[n] = "part"
      /\ req.made \in Seq(Keys \X (Nat \ {0}))
  BY <1>1, CurrentInTodo DEF TypeOK, Requests, Plan, FreshLast, At
<1>3. n \in Nat \ {0}
  BY <1>2, EmptySeq, LenProperties
<1>4. CASE UNCHANGED insts /\ Goto("undo")
  <2>1. req'.made = req.made
    BY <1>1, <1>4, GotoRequest DEF Steps
  <2> QED BY <1>1, <1>4, <2>1, Untouched DEF Active, Existing
<1>5. CASE /\ insts' = [insts EXCEPT ![Current][n] = "up"]
           /\ req' = [req EXCEPT !.pc = "scale",
                                 !.made = Append(@, <<Current, n>>)]
  <2>1. /\ insts'[Current] = [s EXCEPT ![n] = "up"]
        /\ \A k \in Keys : k # Current => insts'[k] = insts[k]
    BY <1>1, <1>2, <1>5 DEF TypeOK
  <2>2. req'.made = Append(req.made, <<Current, n>>)
    BY <1>1, <1>5 DEF TypeOK, Requests
  <2> HIDE DEF n
  <2>3. /\ Cardinality(Of(req'.made, Current))
             = Cardinality(Of(req.made, Current)) + 1
        /\ \A k \in Keys : k # Current => Of(req'.made, k) = Of(req.made, k)
    <3> DEFINE t == Append(req.made, <<Current, n>>)
    <3>1. /\ Cardinality(Of(t, Current)) = Cardinality(Of(req.made, Current)) + 1
          /\ \A k \in Keys : k # Current => Of(t, k) = Of(req.made, k)
      BY <1>2, <1>3, OfAppend, Zenon
    <3> QED BY <2>2, <3>1
  <2>4. Cardinality(Ups(insts'[Current])) = Cardinality(Ups(s)) + 1
    BY <1>2, <2>1, UpsStarted DEF n
  <2>5. ASSUME NEW k \in Active PROVE Kept(k)
    <3>1. k \in Keys
      BY DEF Active, Existing
    <3>2. CASE k # Current
      BY <1>1, <2>1, <2>3, <3>1, <3>2, Untouched
    <3>3. CASE k = Current
      <4>1. Prior(k)' = Cardinality(Ups(insts'[k]))
                          - Cardinality(Of(req'.made, k))
        BY DEF Prior, Made, Ups, Of
      <4>2. /\ Cardinality(Ups(insts'[k])) = Cardinality(Ups(insts[k])) + 1
            /\ Cardinality(Of(req'.made, k)) = Cardinality(Of(req.made, k)) + 1
        BY <2>3, <2>4, <3>3
      <4> QED BY <1>1, <3>1, <4>1, <4>2, PriorCounts, PriorTyped DEF Kept
    <3> QED BY <3>2, <3>3
  <2> QED BY <2>5
<1> QED BY <1>4, <1>5 DEF StartInstance

\* What the roll-back stops is an instance the request created.
LEMMA RollBackKept ==
  ASSUME ProgressInv, RollBack PROVE \A k \in Active : Kept(k)
<1>1. TypeOK /\ IndInv /\ At("rollback") /\ UNCHANGED count
  BY DEF ProgressInv, IndInv, RollBack, builds
<1>2. CASE req.made = <<>> /\ Goto("end") /\ UNCHANGED insts
  <2>1. req'.made = req.made
    BY <1>1, <1>2, GotoRequest DEF Steps
  <2> QED BY <1>1, <1>2, <2>1, Untouched DEF Active, Existing
<1>3. CASE /\ \E x \in Stopping : Stopped(x) \/ StopFails(x)
           /\ req' = [req EXCEPT !.made = Front(@)]
  <2>1. PICK x \in Stopping : Stopped(x) \/ StopFails(x)
    BY <1>3
  <2>2. x[1] \in Keys /\ x[2] \in 1 .. Len(insts[x[1]])
    BY <1>1, StoppingPlace
  <2>3. req.made # <<>> /\ x = Last(req.made)
    BY <1>1 DEF Stopping, At
  <2>4. /\ req'.made = Front(req.made)
        /\ req.made \in Seq(Keys \X (Nat \ {0}))
    BY <1>1, <1>3 DEF TypeOK, Requests
  <2>5. /\ Cardinality(Of(req'.made, x[1])) = Cardinality(Of(req.made, x[1])) - 1
        /\ \A k \in Keys : k # x[1] => Of(req'.made, k) = Of(req.made, k)
    BY <2>3, <2>4, OfFront
  <2> DEFINE s == insts[x[1]]
  <2>6. s \in Seq({"up", "part"}) /\ x[2] \in DOMAIN s
    BY <1>1, <2>2, LenProperties DEF TypeOK
  <2>7. /\ insts'[x[1]] \in {s, RemoveAt(s, x[2]), [s EXCEPT ![x[2]] = "part"]}
        /\ \A k \in Keys : k # x[1] => insts'[k] = insts[k]
    BY <1>1, <2>1, <2>2 DEF Stopped, StopFails, Halved, TypeOK
  <2>8. Cardinality(Ups(s)) \in Nat
    BY <1>1, <2>2, PriorTyped
  <2>9. Cardinality(Ups(insts'[x[1]])) >= Cardinality(Ups(s)) - 1
    <3>1. CASE insts'[x[1]] = s
      BY <2>8, <3>1
    <3>2. CASE insts'[x[1]] = RemoveAt(s, x[2])
      BY <2>2, <2>6, <3>2, UpsRemoved
    <3>3. CASE insts'[x[1]] = [s EXCEPT ![x[2]] = "part"]
      BY <2>6, <3>3, UpsHalved
    <3> QED BY <2>7, <3>1, <3>2, <3>3
  <2>10. Cardinality(Ups(insts'[x[1]])) \in Nat
    <3>1. insts'[x[1]] \in Seq({"up", "part"})
      BY <1>1, <2>1, <2>2, StopTouches DEF StopFails
    <3>2. Ups(insts'[x[1]]) \in SUBSET DOMAIN insts'[x[1]]
      BY DEF Ups
    <3> QED BY <3>1, <3>2, CountsFinite
  <2>11. ASSUME NEW k \in Active PROVE Kept(k)
    <3>1. k \in Keys
      BY DEF Active, Existing
    <3>2. CASE k # x[1]
      BY <1>1, <2>5, <2>7, <3>1, <3>2, Untouched
    <3>3. CASE k = x[1]
      <4>1. Prior(k)' = Cardinality(Ups(insts'[k]))
                          - Cardinality(Of(req'.made, k))
        BY DEF Prior, Made, Ups, Of
      <4>2. /\ Cardinality(Ups(insts'[k])) >= Cardinality(Ups(insts[k])) - 1
            /\ Cardinality(Ups(insts'[k])) \in Nat
            /\ Cardinality(Of(req'.made, k)) = Cardinality(Of(req.made, k)) - 1
        BY <2>5, <2>9, <2>10, <3>3
      <4> QED BY <1>1, <3>1, <4>1, <4>2, PriorCounts, PriorTyped DEF Kept
    <3> QED BY <3>2, <3>3
  <2> QED BY <2>11
<1> QED BY <1>2, <1>3 DEF RollBack

\* An activation that fails changes nothing; one that succeeds ends the staging.
LEMMA ActivateKept ==
  ASSUME ProgressInv, ActivateBuilds, req'.pc \in Staging \cup {"end"}
  PROVE  \A k \in Active : Kept(k)
<1>1. TypeOK /\ UNCHANGED insts
  BY DEF ProgressInv, IndInv, ActivateBuilds
<1>2. ~(req' = [req EXCEPT !.pc = "cleanup", !.made = <<>>])
  <2>1. SUFFICES ASSUME req' = [req EXCEPT !.pc = "cleanup", !.made = <<>>]
                 PROVE  req'.pc = "cleanup"
    BY DEF Staging
  <2> QED BY <1>1, <2>1 DEF TypeOK, Requests
<1>3. FailBeforeActivation /\ UNCHANGED count
  BY <1>2 DEF ActivateBuilds
<1>4. req'.made = req.made
  BY <1>1, <1>3, FailRequest
<1> QED BY <1>1, <1>3, <1>4, Untouched DEF Active, Existing

LEMMA StagingKeeps ==
  ASSUME ProgressInv, Next, req.pc \in Staging, req'.pc \in Staging \cup {"end"}
  PROVE  \A k \in Active : Kept(k)
<1>1. ~At("idle") /\ req.pc \notin {"cleanup", "erase", "reduce", "end", "record"}
  BY DEF Staging, At
<1>2. ~Crash
  BY IdleRequest DEF Crash, Staging
<1>3. Step
  BY <1>1, <1>2 DEF Next, CreateSchema, UpdateSchema, DeleteSchema, ClientStart,
    ClientStop, Recover
<1>4. \/ StageBuild \/ GenerateBuild \/ FinalizeBuild \/ DiscardBuild
      \/ DropBuild \/ ScaleUp \/ StartInstance \/ UndoInstance
      \/ ActivateBuilds \/ RollBack
  BY <1>1, <1>3 DEF Step, CleanUp, EraseBuild, Reduce, End, DeleteRecord, At
<1> QED BY <1>4, QuietKept, ScaleUpKept, StartInstanceKept, UndoInstanceKept,
      ActivateKept, RollBackKept

\* For any definitions, failures and lists of instances: until the activation,
\* and while failBeforeActivation rolls a failed attempt back, no build in
\* force loses its target or an instance that ran before the request.
THEOREM CapacityIsKept == Spec => PriorCapacityKept
<1>1. ProgressInv /\ [Next]_vars =>
        [req.pc \in Staging /\ req'.pc \in Staging \cup {"end"} =>
           \A k \in Active : count'[k] = count[k] /\ Prior(k)' >= Prior(k)]_vars
  BY StagingKeeps DEF Kept
<1> QED BY <1>1, ProgressInvariance, PTL DEF Spec, PriorCapacityKept

=============================================================================
