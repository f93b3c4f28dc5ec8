------------------------ MODULE BuildRequestsProofs ------------------------
(***************************************************************************)
(* Proofs about BuildRequests, for any number of requests, builds,         *)
(* instances and temporary containers, and any number of failed calls and  *)
(* crashes.                                                                *)
(*                                                                         *)
(* The argument: the name of a Build's schema is its own, so the rows of   *)
(* that schema are touched by nobody else; a request that destroys a build *)
(* has it alone; and neither works on a build that a Start or a check      *)
(* uses.  A number therefore has at most one request that writes what      *)
(* bears it, and the row, the image and the archive of the number are what *)
(* the program counter of that request says.                               *)
(***************************************************************************)
EXTENDS BuildRequests, KeyedLockProofs, WellFoundedInduction

Executing  == {"images", "create", "retire", "copy", "remove"}
Generating == Executing \cup {"slot", "finalize", "discard", "forget"}
Removal    == {"artifacts", "untag", "row"}
Destroying == Removal \cup {"destroy"}
WithTemp   == {"retire", "copy", "start", "wait", "remove"}
Using      == {"start", "check"}

\* The steps of each kind of request.
BuildSteps == Generating \cup Destroying \cup
              {"reference", "lock", "open", "unlock", "drop", "collect", "schema"}
StartSteps == {"instance", "reference", "lock", "launch", "unlock", "drop", "undo"}
CheckSteps == {"solver", "create", "retire", "start", "wait", "remove", "clear"}

\* Requests that have the number of a build in hand.
Generates(r) == req[r].op = "build" /\ req[r].pc \in Generating
Removes(r)   == req[r].pc \in Removal

\* What the program counter says of a request's own variables.
RequestOK(r) ==
  /\ req[r].op = "none" => req[r] = Idle
  /\ req[r].op # "none" => up /\ req[r].pc # "idle"
  /\ req[r].op = "build" => req[r].pc \in BuildSteps
  /\ req[r].op = "destroy" => req[r].pc \in Destroying \cup {"schema"}
  /\ req[r].op = "start" => req[r].pc \in StartSteps
  /\ req[r].op = "check" => req[r].pc \in CheckSteps
  /\ req[r].op \in {"build", "destroy"} => req[r].schema \in Schemas
  /\ req[r].op \in Using => req[r].schema = None /\ req[r].id \in BuildIds
  /\ req[r].op = "build" => req[r].seed \in 1..MaxSeeds
  /\ Generates(r) => req[r].id \in BuildIds
  /\ Removes(r) => req[r].id \in req[r].doomed
  /\ req[r].pc \in WithTemp => req[r].temp \in Temps
  /\ req[r].op = "start" /\ req[r].pc # "instance" => req[r].inst \in InstanceIds

RequestsOK == \A r \in Threads : RequestOK(r)

\* A Build's schema is its own.
SchemasApart == \A r, q \in Threads :
  r # q /\ req[r].op = "build" => req[q].schema # req[r].schema

\* The row of the number in a Build's hands.
Owned == \A r \in Threads :
  Generates(r) => rows[req[r].id] = [key |-> KeyOf(r), flag |-> None]

\* Builds to be destroyed exist and belong to the request's schema ...
Doomed == \A r \in Threads : req[r].pc \in Destroying =>
  \A n \in req[r].doomed : rows[n] # NoRow /\ SchemaOf(n) = req[r].schema

\* ... and to no other request.
DoomedApart == \A r, q \in Threads :
  r # q /\ req[r].pc \in Destroying /\ req[q].pc \in Destroying
    => req[r].doomed \cap req[q].doomed = {}

\* Builds that are used exist and are neither generated nor destroyed.
Used == \A q \in Threads : req[q].op \in Using =>
  /\ rows[req[q].id] # NoRow
  /\ \A r \in Threads :
       /\ req[r].op = "build" => SchemaOf(req[q].id) # req[r].schema
       /\ req[r].pc \in Destroying => req[q].id \notin req[r].doomed

\* The foreign key of instances ...
ForeignKey == \A i \in InstanceIds : instances[i] # NoInstance =>
  instances[i].build \in BuildIds /\ rows[instances[i].build] # NoRow

\* ... which stay away from a number in hand.
NoInstances == \A r \in Threads :
  Generates(r) \/ Removes(r) => InstancesOf(req[r].id) = {}

\* A Start has its instance until it ends.
Starting(r) == req[r].op = "start" /\ req[r].pc # "instance"

Starts == \A r \in Threads : Starting(r) =>
  /\ instances[req[r].inst] # NoInstance
  /\ \A q \in Threads : q # r /\ Starting(q) => req[q].inst # req[r].inst

Ownership == /\ SchemasApart /\ Owned /\ Doomed /\ DoomedApart /\ Used
             /\ ForeignKey /\ NoInstances /\ Starts

\* The image and the archive of the number in a Build's hands.
FilledAt(r) == req[r].op = "build" =>
  /\ req[r].pc \in {"create", "retire", "copy", "remove", "finalize"}
       => images[req[r].id] = KeyOf(r)
  /\ req[r].pc = "finalize" \/ (req[r].pc = "remove" /\ ~req[r].err)
       => files[req[r].id] = KeyOf(r)

Filled == \A r \in Threads : FilledAt(r)

\* A temporary container that may run is recorded, and is of one request.
TempsOK == \A r \in Threads :
  /\ req[r].pc \in {"copy", "start", "wait", "remove"} => req[r].temp \in retired
  /\ req[r].pc \in WithTemp => temps[req[r].temp] # NoTemp
  /\ \A q \in Threads :
       r # q /\ req[r].pc \in WithTemp /\ req[q].pc \in WithTemp
         => req[r].temp # req[q].temp

Slotted == {r \in Threads : req[r].op = "build" /\ req[r].pc \in Executing}

SlotsCounted == slots = Cardinality(Slotted)

\* The record of a schema outlives its builds and its Build.
Recorded ==
  /\ \A n \in BuildIds : rows[n] # NoRow => SchemaOf(n) \in schemas
  /\ \A r \in Threads : req[r].op = "build" => req[r].schema \in schemas

\* Without failed calls ... every temporary container is in some request's
\* hands,
Holds(r, t) == /\ req[r].pc \in WithTemp /\ req[r].temp = t
               /\ temps[t].image = req[r].op /\ temps[t].id = req[r].id

TempsHeld == \A t \in Temps : temps[t] # NoTemp => \E r \in Threads : Holds(r, t)

\* every number is free and clean, finished, or in some Build's hands,
Settled == \A n \in BuildIds :
  /\ rows[n] = NoRow => images[n] = None /\ files[n] = None
  /\ rows[n] # NoRow /\ rows[n].flag = None =>
       \E r \in Threads : Generates(r) /\ req[r].id = n

\* and what is removed is removed completely.
EmptiedAt(r) ==
  /\ Removes(r) => req[r].listed
  /\ req[r].pc \in {"forget", "row"} => images[req[r].id] = None
  /\ req[r].pc \in {"forget", "untag", "row"} => files[req[r].id] = None

Emptied == \A r \in Threads : EmptiedAt(r)

Undisturbed == faults = 0 => TempsHeld /\ Settled /\ Emptied

BuildsInv == /\ LockInv /\ TypeOK /\ RequestsOK /\ Ownership /\ Filled /\ FinishedIntact
             /\ TempsOK /\ SolversTracked /\ SlotsCounted /\ Recorded /\ Undisturbed

-----------------------------------------------------------------------------
(* What the steps do to a request.                                         *)

\* Only request r changes, and it stays well typed.
Only(r) ==
  /\ req' \in [Threads -> Requests]
  /\ \A q \in Threads : q # r => req'[q] = req[q]

\* The variables of a request that most steps leave alone.
Same(r) ==
  /\ req'[r].op = req[r].op /\ req'[r].schema = req[r].schema
  /\ req'[r].seeds = req[r].seeds

\* The type of a request in hand.
LEMMA RequestType ==
  ASSUME TypeOK, NEW r \in Threads
  PROVE  req[r] \in Requests
BY DEF TypeOK

\* Numbers of rows are numbers of requests.
LEMMA Numbers ==
  /\ 0 \in 0..MaxBuilds /\ \A n \in BuildIds : n \in 0..MaxBuilds
  /\ 0 \in 0..MaxInstances /\ \A i \in InstanceIds : i \in 0..MaxInstances
BY BuildsAssumption DEF BuildIds, InstanceIds

LEMMA Replaced ==
  ASSUME TypeOK, NEW r \in Threads, NEW x \in Requests, req' = [req EXCEPT ![r] = x]
  PROVE  Only(r) /\ req'[r] = x
BY DEF TypeOK, Only

\* Goto.
LEMMA GotoEffect ==
  ASSUME TypeOK, NEW r \in Threads, NEW p \in Steps,
         Goto(r, p)
  PROVE  /\ Only(r) /\ Same(r)
         /\ req'[r].pc = p /\ req'[r].seed = req[r].seed
         /\ req'[r].id = req[r].id /\ req'[r].err = req[r].err
         /\ req'[r].temp = req[r].temp /\ req'[r].inst = req[r].inst
         /\ req'[r].listed = req[r].listed /\ req'[r].doomed = req[r].doomed
<1>. DEFINE x == [req[r] EXCEPT !.pc = p]
<1>1. req[r] \in Requests
  BY RequestType
<1>2. x \in Requests
  BY <1>1, Numbers DEF Requests, Steps
<1>3. x.pc = p /\ x.seed = req[r].seed /\ x.id = req[r].id /\ x.err =
      req[r].err /\ x.temp = req[r].temp /\ x.inst = req[r].inst /\ x.listed
      = req[r].listed /\ x.doomed = req[r].doomed /\ x.op = req[r].op /\
      x.schema = req[r].schema /\ x.seeds = req[r].seeds
  BY <1>1 DEF Requests
<1>4. req' = [req EXCEPT ![r] = x]
  BY DEF TypeOK, Requests, Goto
<1>5. Only(r) /\ req'[r] = x
  <2>. HIDE DEF x
  <2>. QED BY <1>2, <1>4, Replaced
<1>. QED BY <1>3, <1>5 DEF Same

\* Fail.
LEMMA FailEffect ==
  ASSUME TypeOK, NEW r \in Threads, NEW p \in Steps,
         Fail(r, p)
  PROVE  /\ Only(r) /\ Same(r)
         /\ req'[r].pc = p /\ req'[r].seed = req[r].seed
         /\ req'[r].id = req[r].id /\ req'[r].err = TRUE
         /\ req'[r].temp = req[r].temp /\ req'[r].inst = req[r].inst
         /\ req'[r].listed = req[r].listed /\ req'[r].doomed = req[r].doomed
<1>. DEFINE x == [req[r] EXCEPT !.pc = p, !.err = TRUE]
<1>1. req[r] \in Requests
  BY RequestType
<1>2. x \in Requests
  BY <1>1 DEF Requests
<1>3. x.pc = p /\ x.seed = req[r].seed /\ x.id = req[r].id /\ x.err = TRUE
      /\ x.temp = req[r].temp /\ x.inst = req[r].inst /\ x.listed =
      req[r].listed /\ x.doomed = req[r].doomed /\ x.op = req[r].op /\
      x.schema = req[r].schema /\ x.seeds = req[r].seeds
  BY <1>1 DEF Requests
<1>4. req' = [req EXCEPT ![r] = x]
  BY DEF TypeOK, Requests, Fail
<1>5. Only(r) /\ req'[r] = x
  <2>. HIDE DEF x
  <2>. QED BY <1>2, <1>4, Replaced
<1>. QED BY <1>3, <1>5 DEF Same

LEMMA IdleType == Idle \in Requests
BY BuildsAssumption DEF Idle, Requests

LEMMA EndEffect ==
  ASSUME TypeOK, NEW r \in Threads, End(r)
  PROVE  Only(r) /\ req'[r] = Idle
BY IdleType, Replaced DEF End

\* OpenBuild has the number.
LEMMA OpenedEffect ==
  ASSUME TypeOK, NEW r \in Threads, NEW n \in BuildIds,
         req' = [req EXCEPT ![r].id = n, ![r].pc = "slot"]
  PROVE  /\ Only(r) /\ Same(r)
         /\ req'[r].pc = "slot" /\ req'[r].seed = req[r].seed
         /\ req'[r].id = n /\ req'[r].err = req[r].err
         /\ req'[r].temp = req[r].temp /\ req'[r].inst = req[r].inst
         /\ req'[r].listed = req[r].listed /\ req'[r].doomed = req[r].doomed
<1>. DEFINE x == [req[r] EXCEPT !.pc = "slot", !.id = n]
<1>1. req[r] \in Requests
  BY RequestType
<1>2. x \in Requests
  BY <1>1, Numbers DEF Requests, Steps
<1>3. x.pc = "slot" /\ x.seed = req[r].seed /\ x.id = n /\ x.err =
      req[r].err /\ x.temp = req[r].temp /\ x.inst = req[r].inst /\ x.listed
      = req[r].listed /\ x.doomed = req[r].doomed /\ x.op = req[r].op /\
      x.schema = req[r].schema /\ x.seeds = req[r].seeds
  BY <1>1 DEF Requests
<1>4. req' = [req EXCEPT ![r] = x]
  BY DEF TypeOK, Requests
<1>5. Only(r) /\ req'[r] = x
  <2>. HIDE DEF x
  <2>. QED BY <1>2, <1>4, Replaced
<1>. QED BY <1>3, <1>5 DEF Same

\* executeBuild has returned.
LEMMA ExecutedEffect ==
  ASSUME TypeOK, NEW r \in Threads, NEW failed \in BOOLEAN,
         Executed(r, failed)
  PROVE  /\ Only(r) /\ Same(r)
         /\ req'[r].pc = (IF failed THEN "discard" ELSE "finalize") /\ req'[r].seed = req[r].seed
         /\ req'[r].id = req[r].id /\ req'[r].err = failed
         /\ req'[r].temp = None /\ req'[r].inst = req[r].inst
         /\ req'[r].listed = req[r].listed /\ req'[r].doomed = req[r].doomed
<1>. DEFINE x == [req[r] EXCEPT !.pc = (IF failed THEN "discard" ELSE "finalize"), !.err = failed, !.temp = None]
<1>1. req[r] \in Requests
  BY RequestType
<1>2. x \in Requests
  <2>1. PICK p \in Steps : p = IF failed THEN "discard" ELSE "finalize"
    BY DEF Steps
  <2>2. x = [req[r] EXCEPT !.pc = p, !.err = failed, !.temp = None]
    BY <2>1
  <2>. HIDE DEF x
  <2>. QED BY <1>1, <2>1, <2>2 DEF Requests
<1>3. x.pc = (IF failed THEN "discard" ELSE "finalize") /\ x.seed =
      req[r].seed /\ x.id = req[r].id /\ x.err = failed /\ x.temp = None /\
      x.inst = req[r].inst /\ x.listed = req[r].listed /\ x.doomed =
      req[r].doomed /\ x.op = req[r].op /\ x.schema = req[r].schema /\
      x.seeds = req[r].seeds
  BY <1>1 DEF Requests
<1>4. req' = [req EXCEPT ![r] = x]
  BY DEF TypeOK, Requests, Executed
<1>5. Only(r) /\ req'[r] = x
  <2>. HIDE DEF x
  <2>. QED BY <1>2, <1>4, Replaced
<1>. QED BY <1>3, <1>5 DEF Same

\* The solver is gone.
LEMMA ClearEffect ==
  ASSUME TypeOK, NEW r \in Threads,
         req' = [req EXCEPT ![r].pc = "clear", ![r].temp = None]
  PROVE  /\ Only(r) /\ Same(r)
         /\ req'[r].pc = "clear" /\ req'[r].seed = req[r].seed
         /\ req'[r].id = req[r].id /\ req'[r].err = req[r].err
         /\ req'[r].temp = None /\ req'[r].inst = req[r].inst
         /\ req'[r].listed = req[r].listed /\ req'[r].doomed = req[r].doomed
<1>. DEFINE x == [req[r] EXCEPT !.pc = "clear", !.temp = None]
<1>1. req[r] \in Requests
  BY RequestType
<1>2. x \in Requests
  BY <1>1, Numbers DEF Requests, Steps
<1>3. x.pc = "clear" /\ x.seed = req[r].seed /\ x.id = req[r].id /\ x.err =
      req[r].err /\ x.temp = None /\ x.inst = req[r].inst /\ x.listed =
      req[r].listed /\ x.doomed = req[r].doomed /\ x.op = req[r].op /\
      x.schema = req[r].schema /\ x.seeds = req[r].seeds
  BY <1>1 DEF Requests
<1>4. req' = [req EXCEPT ![r] = x]
  BY DEF TypeOK, Requests
<1>5. Only(r) /\ req'[r] = x
  <2>. HIDE DEF x
  <2>. QED BY <1>2, <1>4, Replaced
<1>. QED BY <1>3, <1>5 DEF Same

\* A temporary container was made.
LEMMA CreatedEffect ==
  ASSUME TypeOK, NEW r \in Threads, NEW t \in Temps,
         req' = [req EXCEPT ![r].temp = t, ![r].pc = "retire"]
  PROVE  /\ Only(r) /\ Same(r)
         /\ req'[r].pc = "retire" /\ req'[r].seed = req[r].seed
         /\ req'[r].id = req[r].id /\ req'[r].err = req[r].err
         /\ req'[r].temp = t /\ req'[r].inst = req[r].inst
         /\ req'[r].listed = req[r].listed /\ req'[r].doomed = req[r].doomed
<1>. DEFINE x == [req[r] EXCEPT !.pc = "retire", !.temp = t]
<1>1. req[r] \in Requests
  BY RequestType
<1>2. x \in Requests
  BY <1>1, Numbers DEF Requests, Steps
<1>3. x.pc = "retire" /\ x.seed = req[r].seed /\ x.id = req[r].id /\ x.err =
      req[r].err /\ x.temp = t /\ x.inst = req[r].inst /\ x.listed =
      req[r].listed /\ x.doomed = req[r].doomed /\ x.op = req[r].op /\
      x.schema = req[r].schema /\ x.seeds = req[r].seeds
  BY <1>1 DEF Requests
<1>4. req' = [req EXCEPT ![r] = x]
  BY DEF TypeOK, Requests
<1>5. Only(r) /\ req'[r] = x
  <2>. HIDE DEF x
  <2>. QED BY <1>2, <1>4, Replaced
<1>. QED BY <1>3, <1>5 DEF Same

\* The next seed of a Build.
LEMMA NextSeedEffect ==
  ASSUME TypeOK, NEW r \in Threads,
         req[r].seed + 1 \in 0..MaxSeeds,
         req' = [req EXCEPT ![r].seed = @ + 1, ![r].id = 0, ![r].pc = "reference"]
  PROVE  /\ Only(r) /\ Same(r)
         /\ req'[r].pc = "reference" /\ req'[r].seed = (req[r].seed + 1)
         /\ req'[r].id = 0 /\ req'[r].err = req[r].err
         /\ req'[r].temp = req[r].temp /\ req'[r].inst = req[r].inst
         /\ req'[r].listed = req[r].listed /\ req'[r].doomed = req[r].doomed
<1>. DEFINE x == [req[r] EXCEPT !.pc = "reference", !.seed = (req[r].seed + 1), !.id = 0]
<1>1. req[r] \in Requests
  BY RequestType
<1>2. x \in Requests
  BY <1>1, Numbers DEF Requests, Steps
<1>3. x.pc = "reference" /\ x.seed = (req[r].seed + 1) /\ x.id = 0 /\ x.err
      = req[r].err /\ x.temp = req[r].temp /\ x.inst = req[r].inst /\
      x.listed = req[r].listed /\ x.doomed = req[r].doomed /\ x.op =
      req[r].op /\ x.schema = req[r].schema /\ x.seeds = req[r].seeds
  BY <1>1 DEF Requests
<1>4. req' = [req EXCEPT ![r] = x]
  BY DEF TypeOK, Requests
<1>5. Only(r) /\ req'[r] = x
  <2>. HIDE DEF x
  <2>. QED BY <1>2, <1>4, Replaced
<1>. QED BY <1>3, <1>5 DEF Same

\* A failed Build has its list.
LEMMA CollectEffect ==
  ASSUME TypeOK, NEW r \in Threads, NEW d \in SUBSET BuildIds,
         req' = [req EXCEPT ![r].doomed = d, ![r].id = 0, ![r].pc = "destroy"]
  PROVE  /\ Only(r) /\ Same(r)
         /\ req'[r].pc = "destroy" /\ req'[r].seed = req[r].seed
         /\ req'[r].id = 0 /\ req'[r].err = req[r].err
         /\ req'[r].temp = req[r].temp /\ req'[r].inst = req[r].inst
         /\ req'[r].listed = req[r].listed /\ req'[r].doomed = d
<1>. DEFINE x == [req[r] EXCEPT !.pc = "destroy", !.id = 0, !.doomed = d]
<1>1. req[r] \in Requests
  BY RequestType
<1>2. x \in Requests
  BY <1>1, Numbers DEF Requests, Steps
<1>3. x.pc = "destroy" /\ x.seed = req[r].seed /\ x.id = 0 /\ x.err =
      req[r].err /\ x.temp = req[r].temp /\ x.inst = req[r].inst /\ x.listed
      = req[r].listed /\ x.doomed = d /\ x.op = req[r].op /\ x.schema =
      req[r].schema /\ x.seeds = req[r].seeds
  BY <1>1 DEF Requests
<1>4. req' = [req EXCEPT ![r] = x]
  BY DEF TypeOK, Requests
<1>5. Only(r) /\ req'[r] = x
  <2>. HIDE DEF x
  <2>. QED BY <1>2, <1>4, Replaced
<1>. QED BY <1>3, <1>5 DEF Same

\* A failed Build is done with a number.
LEMMA PassedEffect ==
  ASSUME TypeOK, NEW r \in Threads, NEW d \in SUBSET BuildIds,
         req' = [req EXCEPT ![r].id = 0, ![r].doomed = d, ![r].pc = "destroy"]
  PROVE  /\ Only(r) /\ Same(r)
         /\ req'[r].pc = "destroy" /\ req'[r].seed = req[r].seed
         /\ req'[r].id = 0 /\ req'[r].err = req[r].err
         /\ req'[r].temp = req[r].temp /\ req'[r].inst = req[r].inst
         /\ req'[r].listed = req[r].listed /\ req'[r].doomed = d
<1>. DEFINE x == [req[r] EXCEPT !.pc = "destroy", !.id = 0, !.doomed = d]
<1>1. req[r] \in Requests
  BY RequestType
<1>2. x \in Requests
  BY <1>1, Numbers DEF Requests, Steps
<1>3. x.pc = "destroy" /\ x.seed = req[r].seed /\ x.id = 0 /\ x.err =
      req[r].err /\ x.temp = req[r].temp /\ x.inst = req[r].inst /\ x.listed
      = req[r].listed /\ x.doomed = d /\ x.op = req[r].op /\ x.schema =
      req[r].schema /\ x.seeds = req[r].seeds
  BY <1>1 DEF Requests
<1>4. req' = [req EXCEPT ![r] = x]
  BY DEF TypeOK, Requests
<1>5. Only(r) /\ req'[r] = x
  <2>. HIDE DEF x
  <2>. QED BY <1>2, <1>4, Replaced
<1>. QED BY <1>3, <1>5 DEF Same

\* destroyImages has read a row.
LEMMA ReadEffect ==
  ASSUME TypeOK, NEW r \in Threads, NEW n \in BuildIds, NEW l \in BOOLEAN,
         req' = [req EXCEPT ![r].id = n, ![r].listed = l, ![r].pc = "artifacts"]
  PROVE  /\ Only(r) /\ Same(r)
         /\ req'[r].pc = "artifacts" /\ req'[r].seed = req[r].seed
         /\ req'[r].id = n /\ req'[r].err = req[r].err
         /\ req'[r].temp = req[r].temp /\ req'[r].inst = req[r].inst
         /\ req'[r].listed = l /\ req'[r].doomed = req[r].doomed
<1>. DEFINE x == [req[r] EXCEPT !.pc = "artifacts", !.id = n, !.listed = l]
<1>1. req[r] \in Requests
  BY RequestType
<1>2. x \in Requests
  BY <1>1, Numbers DEF Requests, Steps
<1>3. x.pc = "artifacts" /\ x.seed = req[r].seed /\ x.id = n /\ x.err =
      req[r].err /\ x.temp = req[r].temp /\ x.inst = req[r].inst /\ x.listed
      = l /\ x.doomed = req[r].doomed /\ x.op = req[r].op /\ x.schema =
      req[r].schema /\ x.seeds = req[r].seeds
  BY <1>1 DEF Requests
<1>4. req' = [req EXCEPT ![r] = x]
  BY DEF TypeOK, Requests
<1>5. Only(r) /\ req'[r] = x
  <2>. HIDE DEF x
  <2>. QED BY <1>2, <1>4, Replaced
<1>. QED BY <1>3, <1>5 DEF Same

\* destroyImages was refused.
LEMMA SkippedEffect ==
  ASSUME TypeOK, NEW r \in Threads, NEW n,
         req' = [req EXCEPT ![r].doomed = @ \ {n}]
  PROVE  /\ Only(r) /\ Same(r)
         /\ req'[r].pc = req[r].pc /\ req'[r].seed = req[r].seed
         /\ req'[r].id = req[r].id /\ req'[r].err = req[r].err
         /\ req'[r].temp = req[r].temp /\ req'[r].inst = req[r].inst
         /\ req'[r].listed = req[r].listed /\ req'[r].doomed = (req[r].doomed \ {n})
<1>. DEFINE x == [req[r] EXCEPT !.doomed = (req[r].doomed \ {n})]
<1>1. req[r] \in Requests
  BY RequestType
<1>2. x \in Requests
  BY <1>1, Numbers DEF Requests, Steps
<1>3. x.pc = req[r].pc /\ x.seed = req[r].seed /\ x.id = req[r].id /\ x.err
      = req[r].err /\ x.temp = req[r].temp /\ x.inst = req[r].inst /\
      x.listed = req[r].listed /\ x.doomed = (req[r].doomed \ {n}) /\ x.op =
      req[r].op /\ x.schema = req[r].schema /\ x.seeds = req[r].seeds
  BY <1>1 DEF Requests
<1>4. req' = [req EXCEPT ![r] = x]
  BY DEF TypeOK, Requests
<1>5. Only(r) /\ req'[r] = x
  <2>. HIDE DEF x
  <2>. QED BY <1>2, <1>4, Replaced
<1>. QED BY <1>3, <1>5 DEF Same

\* openInstance has the number.
LEMMA InstanceEffect ==
  ASSUME TypeOK, NEW r \in Threads, NEW i \in InstanceIds,
         req' = [req EXCEPT ![r].inst = i, ![r].pc = "reference"]
  PROVE  /\ Only(r) /\ Same(r)
         /\ req'[r].pc = "reference" /\ req'[r].seed = req[r].seed
         /\ req'[r].id = req[r].id /\ req'[r].err = req[r].err
         /\ req'[r].temp = req[r].temp /\ req'[r].inst = i
         /\ req'[r].listed = req[r].listed /\ req'[r].doomed = req[r].doomed
<1>. DEFINE x == [req[r] EXCEPT !.pc = "reference", !.inst = i]
<1>1. req[r] \in Requests
  BY RequestType
<1>2. x \in Requests
  BY <1>1, Numbers DEF Requests, Steps
<1>3. x.pc = "reference" /\ x.seed = req[r].seed /\ x.id = req[r].id /\
      x.err = req[r].err /\ x.temp = req[r].temp /\ x.inst = i /\ x.listed =
      req[r].listed /\ x.doomed = req[r].doomed /\ x.op = req[r].op /\
      x.schema = req[r].schema /\ x.seeds = req[r].seeds
  BY <1>1 DEF Requests
<1>4. req' = [req EXCEPT ![r] = x]
  BY DEF TypeOK, Requests
<1>5. Only(r) /\ req'[r] = x
  <2>. HIDE DEF x
  <2>. QED BY <1>2, <1>4, Replaced
<1>. QED BY <1>3, <1>5 DEF Same

-----------------------------------------------------------------------------
(* What a step must leave alone for each part of the invariant.            *)

\* The row of the number in a Build's hands is there, and of its schema.
LEMMA GeneratedRow ==
  ASSUME RequestsOK, Ownership, NEW r \in Threads, Generates(r)
  PROVE  /\ KeyOf(r) = <<req[r].schema, req[r].seed>> /\ KeyOf(r) \in BuildKeys
         /\ rows[req[r].id] # NoRow /\ rows[req[r].id].key = KeyOf(r)
         /\ rows[req[r].id].flag = None
         /\ SchemaOf(req[r].id) = req[r].schema
<1>1. KeyOf(r) = <<req[r].schema, req[r].seed>>
  BY DEF KeyOf, Generates
<1>2. req[r].schema \in Schemas /\ req[r].seed \in 1..MaxSeeds
  BY DEF RequestsOK, RequestOK, Generates
<1>3. KeyOf(r) \in BuildKeys /\ None \notin BuildKeys
  BY <1>1, <1>2, BuildsAssumption DEF BuildKeys
<1>4. rows[req[r].id] = [key |-> KeyOf(r), flag |-> None]
  BY DEF Ownership, Owned
<1>5. rows[req[r].id].key = KeyOf(r) /\ rows[req[r].id].flag = None
  BY <1>4
<1>6. NoRow.key = None
  BY DEF NoRow
<1>7. rows[req[r].id] # NoRow
  BY <1>3, <1>5, <1>6
<1>8. SchemaOf(req[r].id) = req[r].schema
  BY <1>1, <1>5 DEF SchemaOf
<1>. QED BY <1>1, <1>3, <1>5, <1>7, <1>8

\* Nobody else works on a number in hand.
LEMMA Alone ==
  ASSUME TypeOK, RequestsOK, Ownership, NEW r \in Threads, NEW q \in Threads,
         q # r, Generates(r) \/ Removes(r)
  PROVE  /\ req[r].id \in BuildIds
         /\ Generates(q) => req[q].id # req[r].id
         /\ req[q].pc \in Destroying => req[r].id \notin req[q].doomed
         /\ Removes(q) => req[q].id # req[r].id
         /\ req[q].op \in Using => req[q].id # req[r].id
<1>0. req[r] \in Requests /\ req[q] \in Requests /\ RequestOK(r) /\ RequestOK(q)
  BY RequestType DEF RequestsOK
<1>1. req[r].id \in BuildIds
  BY <1>0 DEF RequestOK, Requests
<1>2. rows[req[r].id] # NoRow /\ SchemaOf(req[r].id) = req[r].schema
  <2>1. CASE Generates(r)
    BY <2>1, GeneratedRow
  <2>2. CASE Removes(r)
    BY <2>2, <1>0 DEF Ownership, Doomed, Removes, Destroying, RequestOK
  <2>. QED BY <2>1, <2>2
<1>3. req[r].op \in {"build", "destroy"}
  BY <1>0 DEF RequestOK, Generates, Removes, Removal, StartSteps, CheckSteps, Idle, Requests
<1>4. ASSUME Generates(q) PROVE req[q].id # req[r].id
  <2>1. SchemaOf(req[q].id) = req[q].schema
    BY <1>4, GeneratedRow
  <2>2. req[q].schema # req[r].schema
    BY <1>4 DEF Ownership, SchemasApart, Generates
  <2>. QED BY <1>2, <2>1, <2>2
<1>5. ASSUME req[q].pc \in Destroying PROVE req[r].id \notin req[q].doomed
  <2>1. CASE Generates(r)
    BY <2>1, <1>2, <1>5 DEF Ownership, Doomed, SchemasApart, Generates
  <2>2. CASE Removes(r)
    BY <2>2, <1>0, <1>5 DEF Ownership, DoomedApart, Removes, Destroying, RequestOK
  <2>. QED BY <2>1, <2>2
<1>6. Removes(q) => req[q].id # req[r].id
  BY <1>0, <1>5 DEF RequestOK, Removes, Destroying
<1>7. ASSUME req[q].op \in Using PROVE req[q].id # req[r].id
  <2>1. CASE Generates(r)
    BY <2>1, <1>2, <1>7 DEF Ownership, Used, Generates
  <2>2. CASE Removes(r)
    BY <2>2, <1>0, <1>7 DEF Ownership, Used, Removes, Destroying, RequestOK
  <2>. QED BY <2>1, <2>2
<1>. QED BY <1>1, <1>4, <1>5, <1>6, <1>7

\* A step of r takes no build from others ...
Keeps(r) ==
  /\ req'[r] = Idle \/ Same(r)
  /\ Generates(r)' => /\ Generates(r) /\ req'[r].id = req[r].id
                      /\ req'[r].seed = req[r].seed
  /\ req'[r].pc \in Destroying =>
       req[r].pc \in Destroying /\ req'[r].doomed \subseteq req[r].doomed
  /\ req'[r].op \in Using => req'[r].id = req[r].id

\* ... and no number that an instance is of.
Stays(r) ==
  /\ Keeps(r)
  /\ Removes(r)' => \/ Removes(r) /\ req'[r].id = req[r].id
                    \/ InstancesOf(req'[r].id) = {}
  /\ Starting(r)' => Starting(r) /\ req'[r].inst = req[r].inst

\* A request that ends is in no phase.
LEMMA IdleParts ==
  /\ Idle.op = "none" /\ Idle.pc = "idle" /\ Idle.schema = None
  /\ Idle.pc \notin Generating \cup Destroying \cup WithTemp
BY DEF Idle, Generating, Executing, Destroying, Removal, WithTemp

\* Who takes no number in hand and changes no row takes nothing from anybody.
LEMMA RowsKept ==
  ASSUME TypeOK, RequestsOK, Ownership, NEW r \in Threads, Only(r), Keeps(r), rows' = rows
  PROVE  SchemasApart' /\ Owned' /\ Doomed' /\ DoomedApart' /\ Used'
<1>. USE DEF Ownership
<1>0. /\ req'[r].op # "none" => /\ req'[r].op = req[r].op
                                /\ req'[r].schema = req[r].schema
      /\ req'[r].op = "none" => req'[r].schema = None
  <2>1. CASE req'[r] = Idle
    BY <2>1, IdleParts
  <2>2. CASE Same(r)
    BY <2>2 DEF Same, RequestsOK, RequestOK, Idle
  <2>. QED BY <2>1, <2>2 DEF Keeps
<1>1. SchemasApart'
  <2>. SUFFICES ASSUME NEW p \in Threads, NEW q \in Threads, p # q, req'[p].op = "build"
               PROVE  req'[q].schema # req'[p].schema
    BY DEF SchemasApart
  <2>1. req[p].op = "build" /\ req'[p].schema = req[p].schema /\ req[p].schema \in Schemas
    BY <1>0 DEF Only, RequestsOK, RequestOK
  <2>2. req'[q].schema \in {req[q].schema, None}
    BY <1>0 DEF Only, Keeps, Same, Idle
  <2>. QED BY <2>1, <2>2, BuildsAssumption DEF SchemasApart
<1>2. Owned'
  <2>. SUFFICES ASSUME NEW q \in Threads, Generates(q)'
               PROVE  rows'[req'[q].id] = [key |-> KeyOf(q)', flag |-> None]
    BY DEF Owned
  <2>1. Generates(q) /\ req'[q].id = req[q].id /\ KeyOf(q)' = KeyOf(q)
    BY <1>0 DEF Only, Keeps, KeyOf, Generates
  <2>. QED BY <2>1 DEF Owned
<1>3. Doomed'
  <2>. SUFFICES ASSUME NEW q \in Threads, req'[q].pc \in Destroying, NEW n \in req'[q].doomed
               PROVE  rows'[n] # NoRow /\ SchemaOf(n)' = req'[q].schema
    BY DEF Doomed
  <2>1. req[q].pc \in Destroying /\ n \in req[q].doomed
    BY DEF Only, Keeps
  <2>2. req'[q].schema = req[q].schema
    BY IdleParts DEF Only, Keeps, Same
  <2>. QED BY <2>1, <2>2 DEF Doomed, SchemaOf
<1>4. DoomedApart'
  BY DEF DoomedApart, Only, Keeps
<1>5. Used'
  <2>. SUFFICES ASSUME NEW q \in Threads, req'[q].op \in Using, NEW p \in Threads
               PROVE  /\ rows'[req'[q].id] # NoRow
                      /\ req'[p].op = "build" => SchemaOf(req[q].id)' # req'[p].schema
                      /\ req'[p].pc \in Destroying => req'[q].id \notin req'[p].doomed
    BY DEF Used, SchemaOf
  <2>1. req[q].op \in Using /\ req'[q].id = req[q].id
    BY <1>0 DEF Only, Keeps, Using
  <2>2. /\ req'[p].op = "build" => req[p].op = "build" /\ req'[p].schema = req[p].schema
        /\ req'[p].pc \in Destroying =>
             req[p].pc \in Destroying /\ req'[p].doomed \subseteq req[p].doomed
    BY <1>0 DEF Only, Keeps
  <2>. QED BY <2>1, <2>2 DEF Used, SchemaOf
<1>. QED BY <1>1, <1>2, <1>3, <1>4, <1>5

LEMMA OwnershipKept ==
  ASSUME TypeOK, RequestsOK, Ownership, NEW r \in Threads, Only(r), Stays(r),
         UNCHANGED <<rows, instances>>
  PROVE  Ownership'
<1>. USE DEF Ownership
<1>5. SchemasApart' /\ Owned' /\ Doomed' /\ DoomedApart' /\ Used'
  BY RowsKept DEF Stays
<1>6. ForeignKey'
  BY DEF ForeignKey
<1>7. NoInstances'
  <2>. SUFFICES ASSUME NEW q \in Threads, (Generates(q) \/ Removes(q))'
               PROVE  InstancesOf(req[q].id)' = {}
    BY DEF NoInstances, InstancesOf
  <2>1. \/ (Generates(q) \/ Removes(q)) /\ req'[q].id = req[q].id
        \/ InstancesOf(req'[q].id) = {}
    BY DEF Only, Stays, Keeps, Generates, Removes
  <2>. QED BY <2>1 DEF NoInstances, InstancesOf
<1>8. Starts'
  <2>1. \A q \in Threads : Starting(q)' => Starting(q) /\ req'[q].inst = req[q].inst
    BY DEF Only, Stays, Starting
  <2>. QED BY <2>1 DEF Starts
<1>. QED BY <1>5, <1>6, <1>7, <1>8

\* Who writes no row, image or archive and does not leave a removal half way.
LEMMA ContentKept ==
  ASSUME Filled, FinishedIntact, NEW r \in Threads, Only(r),
         UNCHANGED <<rows, images, files, damaged>>, FilledAt(r)',
         req[r].pc \in {"untag", "row"} =>
           req'[r].pc \in {"untag", "row"} /\ req'[r].id = req[r].id
  PROVE  Filled' /\ FinishedIntact'
<1>1. Filled'
  BY DEF Filled, FilledAt, Only, KeyOf
<1>2. \A n \in BuildIds : Removing(n) => Removing(n)'
  BY DEF Removing, Only
<1>3. FinishedIntact'
  BY <1>2 DEF FinishedIntact
<1>. QED BY <1>1, <1>3

\* Who makes no temporary container.
LEMMA TempsKept ==
  ASSUME TempsOK, SolversTracked, NEW r \in Threads, Only(r),
         UNCHANGED <<temps, retired>>,
         req'[r].pc \in WithTemp =>
           /\ req[r].pc \in WithTemp /\ req'[r].temp = req[r].temp
           /\ req[r].pc # "retire" /\ req'[r].pc # "retire"
  PROVE  TempsOK' /\ SolversTracked'
<1>1. SolversTracked'
  BY DEF SolversTracked
<1>2. TempsOK'
  BY DEF TempsOK, Only, WithTemp
<1>. QED BY <1>1, <1>2

\* Who neither starts nor ends executeBuild.
LEMMA SlotsKept ==
  ASSUME SlotsCounted, NEW r \in Threads, Only(r), slots' = slots,
         (req'[r].op = "build" /\ req'[r].pc \in Executing) <=>
           (req[r].op = "build" /\ req[r].pc \in Executing)
  PROVE  SlotsCounted'
<1>1. Slotted' = Slotted
  BY DEF Slotted, Only
<1>. QED BY <1>1 DEF SlotsCounted

\* Who ends executeBuild gives the slot back.
LEMMA SlotsReturned ==
  ASSUME TypeOK, SlotsCounted, NEW r \in Threads, Only(r), slots' = slots - 1,
         req'[r].pc \notin Executing, req[r].op = "build", req[r].pc \in Executing
  PROVE  SlotsCounted' /\ slots' \in 0..MaxConcurrentBuilds
<1>1. Slotted' = Slotted \ {r} /\ r \in Slotted /\ Slotted \in SUBSET Threads
  BY DEF Slotted, Only
<1>2. IsFiniteSet(Slotted)
  BY <1>1, FS_Subset, LocksAssumption
<1>3. Cardinality(Slotted') = Cardinality(Slotted) - 1
  BY <1>1, <1>2, FS_RemoveElement
<1>4. Cardinality(Slotted) \in Nat /\ Cardinality(Slotted) # 0
  BY <1>1, <1>2, FS_CardinalityType, FS_EmptySet
<1>5. SlotsCounted' /\ slots \in Nat \ {0}
  BY <1>3, <1>4 DEF SlotsCounted
<1>6. slots \in 0..MaxConcurrentBuilds
  BY DEF TypeOK
<1>7. slots' \in 0..MaxConcurrentBuilds
  BY <1>5, <1>6, BuildsAssumption
<1>. QED BY <1>5, <1>7

\* Who changes neither rows nor records of schemas.
LEMMA RecordedKept ==
  ASSUME Recorded, NEW r \in Threads, Only(r), UNCHANGED <<rows, schemas>>,
         req'[r] = Idle \/ Same(r)
  PROVE  Recorded'
<1>1. req'[r].op = "build" => req[r].op = "build" /\ req'[r].schema = req[r].schema
  BY IdleParts DEF Same
<1>. QED BY <1>1 DEF Recorded, Only, SchemaOf

\* Who keeps what it has in hand and empties what it removes.
LEMMA UndisturbedKept ==
  ASSUME Undisturbed, NEW r \in Threads, Only(r),
         UNCHANGED <<temps, rows, images, files, faults>>,
         req[r].pc \in WithTemp =>
           /\ req'[r].pc \in WithTemp /\ req'[r].temp = req[r].temp
           /\ req'[r].op = req[r].op /\ req'[r].id = req[r].id,
         Generates(r) => Generates(r)' /\ req'[r].id = req[r].id,
         faults = 0 => EmptiedAt(r)'
  PROVE  Undisturbed'
<1>. SUFFICES ASSUME faults = 0 PROVE TempsHeld' /\ Settled' /\ Emptied'
  BY DEF Undisturbed
<1>0. TempsHeld /\ Settled /\ Emptied
  BY DEF Undisturbed
<1>1. TempsHeld'
  <2>. SUFFICES ASSUME NEW t \in Temps, temps'[t] # NoTemp
               PROVE  \E q \in Threads : Holds(q, t)'
    BY DEF TempsHeld
  <2>1. PICK q \in Threads : Holds(q, t)
    BY <1>0 DEF TempsHeld
  <2>2. Holds(q, t)'
    BY <2>1 DEF Holds, Only
  <2>. QED BY <2>2
<1>2. Settled'
  <2>. SUFFICES ASSUME NEW n \in BuildIds
               PROVE  /\ rows'[n] = NoRow => images'[n] = None /\ files'[n] = None
                      /\ rows'[n] # NoRow /\ rows'[n].flag = None =>
                           \E q \in Threads : Generates(q)' /\ req'[q].id = n
    BY DEF Settled
  <2>1. \A q \in Threads : Generates(q) => Generates(q)' /\ req'[q].id = req[q].id
    BY DEF Only, Generates
  <2>. QED BY <1>0, <2>1 DEF Settled
<1>3. Emptied'
  BY <1>0 DEF Emptied, EmptiedAt, Removes, Only
<1>. QED BY <1>1, <1>2, <1>3

\* A failed call or a crash is the end of what holds without one.
LEMMA Disturbed ==
  ASSUME TypeOK, Fault
  PROVE  Undisturbed' /\ faults' \in 0..MaxFaults
BY BuildsAssumption DEF TypeOK, Fault, Undisturbed

\* Only request r changes, and is still what its program counter says.
LEMMA RequestsKept ==
  ASSUME RequestsOK, NEW r \in Threads, Only(r), up' = up, RequestOK(r)'
  PROVE  RequestsOK'
BY DEF RequestsOK, RequestOK, Only, Generates, Removes

\* Steps outside of all phases: only the request, the locks and
\* the images of solvers change.
Outer == (Steps \cup {"idle"}) \ (Generating \cup Destroying \cup WithTemp)

LEMMA OuterRest ==
  ASSUME BuildsInv, LockInv', NEW r \in Threads, Only(r),
         req[r].pc \in Outer \cup {"destroy"}, req'[r].pc \in Outer \cup {"destroy"},
         UNCHANGED <<images, temps, files, rows, retired, slots, up, damaged>>,
         solvers' \subseteq BuildIds, schemas' \subseteq Schemas,
         instances' \in [InstanceIds -> [build : 0..MaxBuilds, live : BOOLEAN]],
         faults' = faults \/ Fault, RequestOK(r)'
  PROVE  /\ TypeOK' /\ RequestsOK' /\ Filled' /\ FinishedIntact' /\ TempsOK'
         /\ SolversTracked' /\ SlotsCounted' /\ Undisturbed'
<1>. USE DEF BuildsInv
<1>0. /\ req[r].pc \notin Generating \cup WithTemp \cup Executing \cup Removal
      /\ req'[r].pc \notin Generating \cup WithTemp \cup Executing \cup Removal
  BY DEF Outer, Generating, Destroying, Executing, Removal, WithTemp
<1>1. TypeOK'
  BY Disturbed DEF TypeOK, LockInv, Only
<1>2. RequestsOK'
  BY RequestsKept
<1>3. Filled' /\ FinishedIntact'
  <2>1. FilledAt(r)'
    BY <1>0 DEF FilledAt, Generating, Executing
  <2>2. req[r].pc \notin {"untag", "row"}
    BY <1>0 DEF Removal
  <2>. QED BY <2>1, <2>2, ContentKept
<1>4. TempsOK' /\ SolversTracked'
  BY <1>0, TempsKept
<1>5. SlotsCounted'
  BY <1>0, SlotsKept
<1>6. Undisturbed'
  <2>1. CASE Fault
    BY <2>1, Disturbed
  <2>2. CASE faults' = faults
    <3>1. EmptiedAt(r)'
      BY <1>0 DEF EmptiedAt, Removes, Generating, Removal
    <3>2. ~Generates(r)
      BY <1>0 DEF Generates
    <3>. QED BY <2>2, <3>1, <3>2, <1>0, UndisturbedKept
  <2>. QED BY <2>1, <2>2
<1>. QED BY <1>1, <1>2, <1>3, <1>4, <1>5, <1>6

LEMMA OuterStep ==
  ASSUME BuildsInv, LockInv', NEW r \in Threads, Only(r),
         req'[r] = Idle \/ Same(r), req'[r].op \in Using => req'[r].id = req[r].id,
         Starting(r)' => Starting(r) /\ req'[r].inst = req[r].inst,
         req[r].pc \in Outer, req'[r].pc \in Outer,
         UNCHANGED <<images, temps, files, database, slots, up, damaged>>,
         solvers' \subseteq BuildIds,
         faults' = faults \/ Fault, RequestOK(r)'
  PROVE  BuildsInv'
<1>. USE DEF BuildsInv
<1>0. /\ req[r].pc \notin Generating \cup Destroying /\ req'[r].pc \notin Generating \cup Destroying
      /\ UNCHANGED <<rows, retired, instances, schemas>>
  BY DEF Outer, database
<1>1. /\ TypeOK' /\ RequestsOK' /\ Filled' /\ FinishedIntact' /\ TempsOK'
      /\ SolversTracked' /\ SlotsCounted' /\ Undisturbed'
  BY <1>0, OuterRest DEF TypeOK
<1>2. Ownership'
  <2>1. Stays(r)
    BY <1>0 DEF Stays, Keeps, Generates, Removes, Destroying
  <2>. QED BY <1>0, <2>1, OwnershipKept
<1>3. Recorded'
  BY <1>0, RecordedKept
<1>. QED BY <1>1, <1>2, <1>3

LEMMA QuietStep ==
  ASSUME BuildsInv, LockInv', NEW r \in Threads, Only(r),
         req'[r] = Idle \/ Same(r), req'[r].op \in Using => req'[r].id = req[r].id,
         Starting(r)' => Starting(r) /\ req'[r].inst = req[r].inst,
         req[r].pc \in Outer, req'[r].pc \in Outer,
         UNCHANGED <<docker, files, database, slots, up, damaged>>,
         faults' = faults \/ Fault, RequestOK(r)'
  PROVE  BuildsInv'
<1>1. UNCHANGED <<images, temps>> /\ solvers' \subseteq BuildIds
  BY DEF docker, BuildsInv, TypeOK
<1>. QED BY <1>1, OuterStep

\* The key of a request is one of the keys.
LEMMA KeyType ==
  ASSUME RequestsOK, NEW r \in Threads
  PROVE  KeyOf(r) \in Keys
BY BuildsAssumption DEF KeyOf, RequestsOK, RequestOK, BuildKeys

LEMMA ReferenceLockInv ==
  ASSUME BuildsInv, NEW r \in Threads, ReferenceLock(r)
  PROVE  BuildsInv'
<1>1. /\ Goto(r, "lock") /\ req[r].pc = "reference" /\ Reference(r, KeyOf(r))
      /\ UNCHANGED <<docker, files, database, slots, up, faults, damaged>>
  BY DEF ReferenceLock, At
<1>2. LockInv'
  BY <1>1, KeyType, ReferenceInv DEF BuildsInv
<1>3. /\ Only(r) /\ Same(r) /\ req'[r].pc = "lock" /\ req'[r].id = req[r].id
      /\ req'[r].seed = req[r].seed /\ req'[r].inst = req[r].inst
  BY <1>1, GotoEffect DEF BuildsInv, Steps
<1>4. RequestOK(r)'
  BY <1>1, <1>3 DEF BuildsInv, RequestsOK, RequestOK, Same, Generates, Removes,
     BuildSteps, StartSteps, CheckSteps, Generating, Executing, Destroying, Removal,
     WithTemp, Idle
<1>5. req[r].pc \in Outer /\ req'[r].pc \in Outer
  BY <1>1, <1>3 DEF Outer, Steps, Generating, Executing, Destroying, Removal, WithTemp
<1>6. Starting(r)' => Starting(r) /\ req'[r].inst = req[r].inst
  BY <1>1, <1>3 DEF Starting, Same
<1>. QED BY <1>1, <1>2, <1>3, <1>4, <1>5, <1>6, QuietStep

LEMMA WaitForLockInv ==
  ASSUME BuildsInv, NEW r \in Threads, WaitForLock(r)
  PROVE  BuildsInv'
<1>. DEFINE p == IF req[r].op = "build" THEN "open" ELSE "launch"
<1>1. /\ Goto(r, p) /\ req[r].pc = "lock" /\ LockKey(r)
      /\ UNCHANGED <<docker, files, database, slots, up, faults, damaged>>
  BY DEF WaitForLock, At
<1>2. LockInv'
  BY <1>1, LockKeyInv DEF BuildsInv
<1>3. /\ Only(r) /\ Same(r) /\ req'[r].pc = p /\ req'[r].id = req[r].id
      /\ req'[r].seed = req[r].seed /\ req'[r].inst = req[r].inst
  BY <1>1, GotoEffect DEF BuildsInv, Steps
<1>4. RequestOK(r)'
  BY <1>1, <1>3 DEF BuildsInv, RequestsOK, RequestOK, Same, Generates, Removes,
     BuildSteps, StartSteps, CheckSteps, Generating, Executing, Destroying, Removal,
     WithTemp, Idle
<1>5. req[r].pc \in Outer /\ req'[r].pc \in Outer
  BY <1>1, <1>3 DEF Outer, Steps, Generating, Executing, Destroying, Removal, WithTemp
<1>6. Starting(r)' => Starting(r) /\ req'[r].inst = req[r].inst
  BY <1>1, <1>3 DEF Starting, Same
<1>. QED BY <1>1, <1>2, <1>3, <1>4, <1>5, <1>6, QuietStep

LEMMA ReleaseLockInv ==
  ASSUME BuildsInv, NEW r \in Threads, ReleaseLock(r)
  PROVE  BuildsInv'
<1>1. /\ Goto(r, "drop") /\ req[r].pc = "unlock" /\ UnlockKey(r)
      /\ UNCHANGED <<docker, files, database, slots, up, faults, damaged>>
  BY DEF ReleaseLock, At
<1>2. LockInv'
  BY <1>1, UnlockKeyInv DEF BuildsInv
<1>3. /\ Only(r) /\ Same(r) /\ req'[r].pc = "drop" /\ req'[r].id = req[r].id
      /\ req'[r].seed = req[r].seed /\ req'[r].inst = req[r].inst
  BY <1>1, GotoEffect DEF BuildsInv, Steps
<1>4. RequestOK(r)'
  BY <1>1, <1>3 DEF BuildsInv, RequestsOK, RequestOK, Same, Generates, Removes,
     BuildSteps, StartSteps, CheckSteps, Generating, Executing, Destroying, Removal,
     WithTemp, Idle
<1>5. req[r].pc \in Outer /\ req'[r].pc \in Outer
  BY <1>1, <1>3 DEF Outer, Steps, Generating, Executing, Destroying, Removal, WithTemp
<1>6. Starting(r)' => Starting(r) /\ req'[r].inst = req[r].inst
  BY <1>1, <1>3 DEF Starting, Same
<1>. QED BY <1>1, <1>2, <1>3, <1>4, <1>5, <1>6, QuietStep

\* A request that has ended satisfies all there is to say of one.
LEMMA IdleOK ==
  ASSUME NEW r \in Threads, req'[r] = Idle
  PROVE  /\ RequestOK(r)' /\ req'[r].pc \in Outer /\ req'[r].op \notin Using
         /\ ~Starting(r)' /\ req'[r].op # "build"
BY IdleParts DEF Starting, RequestOK, Generates, Removes, Using, Idle, Outer, Destroying, Generating,
   Removal, Executing, WithTemp

LEMMA DropLockInv ==
  ASSUME BuildsInv, NEW r \in Threads, DropLock(r)
  PROVE  BuildsInv'
<1>1. /\ req[r].pc = "drop" /\ Dereference(r)
      /\ UNCHANGED <<docker, files, database, slots, up, faults, damaged>>
  BY DEF DropLock, At
<1>2. LockInv'
  BY <1>1, DereferenceInv DEF BuildsInv
<1>3. req[r].pc \in Outer
  BY <1>1 DEF Outer, Steps, Generating, Executing, Destroying, Removal, WithTemp
<1>4. RequestOK(r) /\ TypeOK /\ req[r] \in Requests
  BY RequestType DEF BuildsInv, RequestsOK
<1>5. CASE req[r].op = "build" /\ req[r].err /\ Goto(r, "collect")
  <2>1. /\ Only(r) /\ Same(r) /\ req'[r].pc = "collect" /\ req'[r].id = req[r].id
        /\ req'[r].seed = req[r].seed
    BY <1>4, <1>5, GotoEffect DEF Steps
  <2>2. RequestOK(r)' /\ req'[r].pc \in Outer /\ ~Starting(r)'
    BY <1>1, <1>4, <1>5, <2>1 DEF RequestOK, Starting, Same, Generates, Removes, Using, BuildSteps, Generating,
       Executing, Destroying, Removal, WithTemp, Outer, Steps
  <2>. QED BY <1>1, <1>2, <1>3, <2>1, <2>2, QuietStep
<1>6. CASE /\ req[r].op = "build" /\ req[r].seed < req[r].seeds
           /\ req' = [req EXCEPT ![r].seed = @ + 1, ![r].id = 0, ![r].pc = "reference"]
  <2>0. req[r].seed \in 1..MaxSeeds /\ req[r].seeds \in 0..MaxSeeds
    BY <1>4, <1>6 DEF RequestOK, Requests
  <2>1. req[r].seed + 1 \in 0..MaxSeeds /\ req[r].seed + 1 \in 1..MaxSeeds
    BY <2>0, <1>6, BuildsAssumption
  <2>2. /\ Only(r) /\ Same(r) /\ req'[r].pc = "reference" /\ req'[r].seed = req[r].seed + 1
    BY <1>4, <1>6, <2>1, NextSeedEffect
  <2>3. RequestOK(r)' /\ req'[r].pc \in Outer /\ ~Starting(r)'
    BY <1>1, <1>4, <1>6, <2>1, <2>2 DEF RequestOK, Starting, Same, Generates, Removes, Using, BuildSteps,
       Generating, Executing, Destroying, Removal, WithTemp, Outer, Steps
  <2>4. req'[r].op \notin Using
    BY <1>6, <2>2 DEF Same, Using
  <2>. QED BY <1>1, <1>2, <1>3, <2>2, <2>3, <2>4, QuietStep
<1>7. CASE req[r].op = "start" /\ req[r].err /\ Goto(r, "undo")
  <2>1. /\ Only(r) /\ Same(r) /\ req'[r].pc = "undo" /\ req'[r].id = req[r].id
        /\ req'[r].inst = req[r].inst
    BY <1>4, <1>7, GotoEffect DEF Steps
  <2>2. /\ RequestOK(r)' /\ req'[r].pc \in Outer
        /\ Starting(r)' => Starting(r) /\ req'[r].inst = req[r].inst
    BY <1>1, <1>4, <1>7, <2>1 DEF RequestOK, Starting, Same, Generates, Removes, Using, StartSteps, Generating,
       Executing, Destroying, Removal, WithTemp, Outer, Steps
  <2>. QED BY <1>1, <1>2, <1>3, <2>1, <2>2, QuietStep
<1>8. CASE End(r)
  <2>1. Only(r) /\ req'[r] = Idle
    BY <1>4, <1>8, EndEffect
  <2>2. RequestOK(r)' /\ req'[r].pc \in Outer /\ req'[r].op \notin Using /\ ~Starting(r)'
    BY <2>1, IdleOK
  <2>. QED BY <1>1, <1>2, <1>3, <2>1, <2>2, QuietStep
<1>. QED BY <1>5, <1>6, <1>7, <1>8 DEF DropLock

-----------------------------------------------------------------------------
(* Steps in a phase                                                        *)

\* A step that takes no number in hand and leaves the tables alone.
LEMMA StaysStep ==
  ASSUME BuildsInv, NEW r \in Threads, Only(r), Stays(r), RequestOK(r)',
         UNCHANGED <<rows, instances, schemas, up, lockVars>>
  PROVE  LockInv' /\ RequestsOK' /\ Ownership' /\ Recorded'
BY LockStutter, RequestsKept, OwnershipKept, RecordedKept DEF BuildsInv, Stays, Keeps

\* Numbers in hand are numbers of rows.
LEMMA InHand ==
  ASSUME TypeOK, RequestsOK, NEW r \in Threads, Generates(r) \/ Removes(r)
  PROVE  req[r].id \in BuildIds
BY RequestType DEF RequestsOK, RequestOK, Requests

IntactAt(n) ==
  rows[n].flag # None =>
    /\ rows[n].flag = rows[n].key
    /\ n \in damaged \/ Removing(n) \/ (images[n] = rows[n].key /\ files[n] = rows[n].key)

SettledAt(n) ==
  /\ rows[n] = NoRow => images[n] = None /\ files[n] = None
  /\ rows[n] # NoRow /\ rows[n].flag = None =>
       \E r \in Threads : Generates(r) /\ req[r].id = n

\* Only what bears number n changes.
OnlyNumber(n) ==
  \A m \in BuildIds \ {n} :
    /\ rows'[m] = rows[m] /\ images'[m] = images[m] /\ files'[m] = files[m]
    /\ m \in damaged' <=> m \in damaged

\* A request may write what bears the number in its hands.
LEMMA ContentWritten ==
  ASSUME BuildsInv, NEW r \in Threads, Only(r), Generates(r) \/ Removes(r),
         NEW n, n = req[r].id, OnlyNumber(n), FilledAt(r)', IntactAt(n)'
  PROVE  Filled' /\ FinishedIntact'
<1>. USE DEF BuildsInv
<1>1. Filled'
  <2>. SUFFICES ASSUME NEW q \in Threads, q # r PROVE FilledAt(q)'
    BY DEF Filled
  <2>1. CASE Generates(q)
    <3>1. req[q].id \in BuildIds /\ req[q].id # n
      BY <2>1, Alone, InHand
    <3>2. req'[q] = req[q] /\ FilledAt(q)
      BY DEF Only, Filled
    <3>. QED BY <3>1, <3>2 DEF FilledAt, OnlyNumber, KeyOf
  <2>2. CASE ~Generates(q)
    BY <2>2 DEF Only, FilledAt, Generates, Generating, Executing
  <2>. QED BY <2>1, <2>2
<1>2. ASSUME NEW m \in BuildIds, m # n PROVE IntactAt(m)'
  <2>1. Removing(m) => Removing(m)'
    <3>. SUFFICES ASSUME Removing(m) PROVE Removing(m)'
      OBVIOUS
    <3>1. PICK q \in Threads : req[q].id = m /\ req[q].pc \in {"untag", "row"}
      BY DEF Removing
    <3>2. req'[q] = req[q]
      BY <3>1, <1>2 DEF Only
    <3>. QED BY <3>1, <3>2 DEF Removing
  <2>. QED BY <2>1, <1>2 DEF IntactAt, FinishedIntact, OnlyNumber
<1>3. FinishedIntact'
  BY <1>2, IntactAt(n)' DEF FinishedIntact, IntactAt
<1>. QED BY <1>1, <1>3

\* ... and the other numbers stay settled.
LEMMA UndisturbedWritten ==
  ASSUME BuildsInv, NEW r \in Threads, Only(r), Generates(r) \/ Removes(r),
         NEW n, n = req[r].id, OnlyNumber(n), UNCHANGED <<temps, faults>>,
         req[r].pc \in WithTemp =>
           /\ req'[r].pc \in WithTemp /\ req'[r].temp = req[r].temp
           /\ req'[r].op = req[r].op /\ req'[r].id = req[r].id,
         faults = 0 => EmptiedAt(r)' /\ SettledAt(n)'
  PROVE  Undisturbed'
<1>. USE DEF BuildsInv
<1>. SUFFICES ASSUME faults = 0 PROVE TempsHeld' /\ Settled' /\ Emptied'
  BY DEF Undisturbed
<1>0. TempsHeld /\ Settled /\ Emptied /\ EmptiedAt(r)' /\ SettledAt(n)'
  BY DEF Undisturbed
<1>1. TempsHeld'
  <2>. SUFFICES ASSUME NEW t \in Temps, temps'[t] # NoTemp
               PROVE  \E q \in Threads : Holds(q, t)'
    BY DEF TempsHeld
  <2>1. PICK q \in Threads : Holds(q, t)
    BY <1>0 DEF TempsHeld
  <2>2. Holds(q, t)'
    BY <2>1 DEF Holds, Only
  <2>. QED BY <2>2
<1>2. ASSUME NEW m \in BuildIds, m # n PROVE SettledAt(m)'
  <2>1. rows'[m] # NoRow /\ rows'[m].flag = None =>
           \E q \in Threads : Generates(q)' /\ req'[q].id = m
    <3>. SUFFICES ASSUME rows'[m] # NoRow, rows'[m].flag = None
                 PROVE  \E q \in Threads : Generates(q)' /\ req'[q].id = m
      OBVIOUS
    <3>1. PICK q \in Threads : Generates(q) /\ req[q].id = m
      BY <1>0, <1>2 DEF Settled, OnlyNumber
    <3>2. req'[q] = req[q]
      BY <3>1, <1>2 DEF Only
    <3>. QED BY <3>1, <3>2 DEF Generates
  <2>. QED BY <2>1, <1>0, <1>2 DEF SettledAt, Settled, OnlyNumber
<1>3. Settled'
  BY <1>0, <1>2 DEF Settled, SettledAt
<1>4. Emptied'
  <2>. SUFFICES ASSUME NEW q \in Threads, q # r PROVE EmptiedAt(q)'
    BY <1>0 DEF Emptied
  <2>0. req'[q] = req[q] /\ EmptiedAt(q)
    BY <1>0 DEF Only, Emptied
  <2>1. CASE Generates(q) \/ Removes(q)
    <3>1. req[q].id \in BuildIds /\ req[q].id # n
      BY <2>1, Alone, InHand
    <3>. QED BY <3>1, <2>0 DEF EmptiedAt, Removes, OnlyNumber
  <2>2. CASE ~(Generates(q) \/ Removes(q))
    <3>1. RequestOK(q) /\ req[q] \in Requests
      BY RequestType DEF RequestsOK
    <3>2. req[q].pc \notin {"forget", "untag", "row"}
      BY <2>2, <3>1 DEF RequestOK, Generates, Removes, Generating, Removal, Destroying,
         StartSteps, CheckSteps, Idle, Requests
    <3>. QED BY <2>0, <2>2, <3>2 DEF EmptiedAt, Removes
  <2>. QED BY <2>1, <2>2
<1>. QED BY <1>1, <1>3, <1>4

LEMMA TakeSlotInv ==
  ASSUME BuildsInv, NEW r \in Threads, TakeSlot(r)
  PROVE  BuildsInv'
<1>. USE DEF BuildsInv
<1>0. /\ req[r].pc = "slot" /\ slots < MaxConcurrentBuilds /\ slots' = slots + 1
      /\ Goto(r, "images")
      /\ UNCHANGED <<images, solvers, temps, files, schemas, rows, retired, instances, up,
                     lockVars, faults, damaged>>
  BY DEF TakeSlot, At, docker, database
<1>1. /\ Only(r) /\ Same(r) /\ req'[r].pc = "images" /\ req'[r].id = req[r].id
      /\ req'[r].seed = req[r].seed /\ req'[r].temp = req[r].temp
  BY <1>0, GotoEffect DEF Steps
<1>2. RequestOK(r) /\ req[r].op = "build"
  BY <1>0, RequestType DEF RequestsOK, RequestOK, Destroying, Removal, StartSteps, CheckSteps,
     Idle, Requests
<1>3. RequestOK(r)' /\ Stays(r) /\ Generates(r) /\ Generates(r)' /\ ~Removes(r) /\ ~Removes(r)'
  BY <1>0, <1>1, <1>2 DEF RequestOK, Stays, Keeps, Starting, Same, Generates, Removes, Using, BuildSteps,
     Generating, Executing, Destroying, Removal, WithTemp
<1>4. LockInv' /\ RequestsOK' /\ Ownership' /\ Recorded'
  BY <1>0, <1>1, <1>3, StaysStep
<1>5. TypeOK'
  BY <1>0, <1>1, <1>4, BuildsAssumption DEF TypeOK, LockInv, Only
<1>6. Filled' /\ FinishedIntact'
  BY <1>0, <1>1, ContentKept DEF FilledAt
<1>7. TempsOK' /\ SolversTracked'
  BY <1>0, <1>1, TempsKept DEF WithTemp
<1>8. SlotsCounted'
  <2>1. Slotted' = Slotted \cup {r} /\ r \notin Slotted /\ Slotted \in SUBSET Threads
    BY <1>0, <1>1, <1>2 DEF Slotted, Only, Same, Executing
  <2>2. IsFiniteSet(Slotted)
    BY <2>1, FS_Subset, LocksAssumption
  <2>3. Cardinality(Slotted') = Cardinality(Slotted) + 1
    BY <2>1, <2>2, FS_AddElement
  <2>. QED BY <2>3, <1>0 DEF SlotsCounted
<1>9. Undisturbed'
  <2>1. EmptiedAt(r)'
    BY <1>1, <1>3 DEF EmptiedAt
  <2>. QED BY <2>1, <1>0, <1>1, <1>3, UndisturbedKept DEF WithTemp
<1>. QED BY <1>4, <1>5, <1>6, <1>7, <1>8, <1>9

\* The program counter tells the kind of the request.
LEMMA KindOf ==
  ASSUME TypeOK, RequestsOK, NEW r \in Threads
  PROVE  /\ RequestOK(r) /\ req[r] \in Requests
         /\ req[r].pc \in {"open", "slot", "images", "copy", "finalize", "discard", "forget",
                           "collect"} => req[r].op = "build"
         /\ req[r].pc \in {"solver", "start", "wait", "clear"} => req[r].op = "check"
         /\ req[r].pc \in {"instance", "launch", "undo"} => req[r].op = "start"
         /\ req[r].pc \in {"create", "retire", "remove"} => req[r].op \in {"build", "check"}
         /\ req[r].pc \in Destroying \cup {"schema"} => req[r].op \in {"build", "destroy"}
<1>1. RequestOK(r) /\ req[r] \in Requests
  BY RequestType DEF RequestsOK
<1>2. req[r].op \in {"none", "build", "destroy", "start", "check"}
  BY <1>1 DEF Requests
<1>3. req[r].op = "none" => req[r].pc = "idle"
  BY <1>1, IdleParts DEF RequestOK
<1>. USE DEF BuildSteps, StartSteps, CheckSteps, Generating, Executing, Destroying, Removal
<1>4. req[r].pc \in {"open", "slot", "images", "copy", "finalize", "discard", "forget",
                     "collect"} => req[r].op = "build"
  BY <1>1, <1>2, <1>3 DEF RequestOK
<1>5. /\ req[r].pc \in {"solver", "start", "wait", "clear"} => req[r].op = "check"
      /\ req[r].pc \in {"instance", "launch", "undo"} => req[r].op = "start"
  BY <1>1, <1>2, <1>3 DEF RequestOK
<1>6. /\ req[r].pc \in {"create", "retire", "remove"} => req[r].op \in {"build", "check"}
      /\ req[r].pc \in Destroying \cup {"schema"} => req[r].op \in {"build", "destroy"}
  BY <1>1, <1>2, <1>3 DEF RequestOK
<1>. QED BY <1>1, <1>4, <1>5, <1>6

\* A Build that goes on with its number may write the image and the archive.
LEMMA GeneratesOn ==
  ASSUME BuildsInv, NEW r \in Threads, Only(r), Generates(r), Generates(r)',
         req'[r].id = req[r].id, rows' = rows, damaged' = damaged,
         images' = images \/ \E x : images' = [images EXCEPT ![req[r].id] = x],
         files' = files \/ \E x : files' = [files EXCEPT ![req[r].id] = x],
         FilledAt(r)'
  PROVE  /\ Filled' /\ FinishedIntact'
         /\ UNCHANGED <<temps, faults>> /\ (faults = 0 => EmptiedAt(r)')
            /\ (req[r].pc \in WithTemp =>
                 /\ req'[r].pc \in WithTemp /\ req'[r].temp = req[r].temp
                 /\ req'[r].op = req[r].op)
              => Undisturbed'
<1>. USE DEF BuildsInv
<1>. PICK n : n = req[r].id
  OBVIOUS
<1>1. n \in BuildIds /\ rows[n] # NoRow /\ rows[n].flag = None
  BY GeneratedRow, InHand
<1>2. OnlyNumber(n)
  BY <1>1 DEF TypeOK, OnlyNumber
<1>3. IntactAt(n)' /\ SettledAt(n)'
  BY <1>1 DEF IntactAt, SettledAt
<1>. QED BY <1>2, <1>3, ContentWritten, UndisturbedWritten

\* Rows, images and archives stay, and so does what is in hand.
LEMMA SettledKept ==
  ASSUME Undisturbed, NEW r \in Threads, Only(r), UNCHANGED <<rows, images, files, faults>>,
         Generates(r) => Generates(r)' /\ req'[r].id = req[r].id,
         faults = 0 => EmptiedAt(r)' /\ TempsHeld'
  PROVE  Undisturbed'
<1>. SUFFICES ASSUME faults = 0 PROVE Settled' /\ Emptied'
  BY DEF Undisturbed
<1>0. Settled /\ Emptied
  BY DEF Undisturbed
<1>1. Settled'
  <2>1. \A q \in Threads : Generates(q) => Generates(q)' /\ req'[q].id = req[q].id
    BY DEF Only, Generates
  <2>. QED BY <1>0, <2>1 DEF Settled
<1>2. Emptied'
  BY <1>0 DEF Emptied, EmptiedAt, Removes, Only
<1>. QED BY <1>1, <1>2

LEMMA BuildImagesInv ==
  ASSUME BuildsInv, NEW r \in Threads, BuildImages(r)
  PROVE  BuildsInv'
<1>. USE DEF BuildsInv
<1>0. /\ req[r].pc = "images"
      /\ UNCHANGED <<solvers, temps, files, schemas, rows, retired, instances, up,
                     lockVars, faults, damaged>>
      /\ images' = images \/ images' = [images EXCEPT ![req[r].id] = KeyOf(r)]
      /\ \/ /\ Goto(r, "create") /\ slots' = slots
            /\ images' = [images EXCEPT ![req[r].id] = KeyOf(r)]
         \/ Executed(r, TRUE)
  BY DEF BuildImages, At, database
<1>1. /\ Only(r) /\ Same(r) /\ req'[r].id = req[r].id /\ req'[r].seed = req[r].seed
      /\ \/ /\ req'[r].pc = "create" /\ slots' = slots
            /\ images' = [images EXCEPT ![req[r].id] = KeyOf(r)]
         \/ req'[r].pc = "discard" /\ slots' = slots - 1
  <2>1. CASE Goto(r, "create") /\ slots' = slots
               /\ images' = [images EXCEPT ![req[r].id] = KeyOf(r)]
    BY <2>1, GotoEffect DEF Steps
  <2>2. CASE Executed(r, TRUE)
    <3>1. slots' = slots - 1
      BY <2>2 DEF Executed
    <3>. QED BY <2>2, <3>1, ExecutedEffect
  <2>. QED BY <1>0, <2>1, <2>2
<1>2. RequestOK(r) /\ req[r].op = "build"
  BY <1>0, KindOf
<1>3. /\ RequestOK(r)' /\ Stays(r) /\ Generates(r) /\ Generates(r)' /\ ~Removes(r)'
      /\ req'[r].pc \notin WithTemp /\ req[r].pc \notin WithTemp
  BY <1>0, <1>1, <1>2 DEF RequestOK, Stays, Keeps, Starting, Same, Generates, Removes, Using, BuildSteps,
     Generating, Executing, Destroying, Removal, WithTemp
<1>4. LockInv' /\ RequestsOK' /\ Ownership' /\ Recorded'
  BY <1>0, <1>1, <1>3, StaysStep
<1>5. req[r].id \in BuildIds /\ KeyOf(r) \in BuildKeys
  BY <1>3, InHand, GeneratedRow
<1>6. FilledAt(r)'
  <2>1. KeyOf(r)' = KeyOf(r)
    BY <1>1 DEF KeyOf, Same
  <2>2. CASE req'[r].pc = "create"
    BY <2>1, <2>2, <1>1, <1>5 DEF FilledAt, TypeOK
  <2>3. CASE req'[r].pc = "discard"
    BY <2>3 DEF FilledAt
  <2>. QED BY <2>2, <2>3, <1>1
<1>7. EmptiedAt(r)'
  BY <1>1, <1>3 DEF EmptiedAt
<1>8. Filled' /\ FinishedIntact' /\ Undisturbed'
  BY <1>0, <1>1, <1>3, <1>6, <1>7, GeneratesOn
<1>9. TempsOK' /\ SolversTracked'
  BY <1>0, <1>1, <1>3, TempsKept
<1>10. SlotsCounted' /\ slots' \in 0..MaxConcurrentBuilds
  <2>1. CASE req'[r].pc = "create" /\ slots' = slots
    BY <2>1, <1>0, <1>1, <1>2, SlotsKept DEF Same, Executing, TypeOK
  <2>2. CASE req'[r].pc = "discard" /\ slots' = slots - 1
    BY <2>2, <1>0, <1>1, <1>2, SlotsReturned DEF Executing
  <2>. QED BY <2>1, <2>2, <1>1
<1>11. TypeOK'
  <2>1. images' \in [BuildIds -> BuildKeys \cup {None}]
    BY <1>0, <1>5 DEF TypeOK
  <2>. QED BY <2>1, <1>0, <1>1, <1>4, <1>10 DEF TypeOK, LockInv, Only
<1>. QED BY <1>4, <1>8, <1>9, <1>10, <1>11

LEMMA CopyOutInv ==
  ASSUME BuildsInv, NEW r \in Threads, CopyOut(r)
  PROVE  BuildsInv'
<1>. USE DEF BuildsInv
<1>0. /\ req[r].pc = "copy"
      /\ UNCHANGED <<images, solvers, temps, schemas, rows, retired, instances, slots, up,
                     lockVars, faults, damaged>>
  BY DEF CopyOut, At, docker, database, process
<1>1. PICK f : /\ files' = [files EXCEPT ![req[r].id] = f]
               /\ f \in {files[req[r].id], KeyOf(r), None}
               /\ \/ f = KeyOf(r) /\ Goto(r, "remove")
                  \/ Fail(r, "remove")
  BY DEF CopyOut
<1>2. /\ Only(r) /\ Same(r) /\ req'[r].id = req[r].id /\ req'[r].seed = req[r].seed
      /\ req'[r].pc = "remove" /\ req'[r].temp = req[r].temp
      /\ f = KeyOf(r) \/ req'[r].err
  BY <1>1, GotoEffect, FailEffect DEF Steps
<1>3. RequestOK(r) /\ req[r].op = "build"
  BY <1>0, KindOf
<1>4. /\ RequestOK(r)' /\ Stays(r) /\ Generates(r) /\ Generates(r)' /\ ~Removes(r)'
      /\ req'[r].pc \in WithTemp /\ req[r].pc \in WithTemp
  BY <1>0, <1>2, <1>3 DEF RequestOK, Stays, Keeps, Starting, Same, Generates, Removes, Using, BuildSteps,
     Generating, Executing, Destroying, Removal, WithTemp
<1>5. LockInv' /\ RequestsOK' /\ Ownership' /\ Recorded'
  BY <1>0, <1>2, <1>4, StaysStep
<1>6. req[r].id \in BuildIds /\ KeyOf(r) \in BuildKeys
  BY <1>4, InHand, GeneratedRow
<1>7. FilledAt(r)'
  <2>1. KeyOf(r)' = KeyOf(r)
    BY <1>2 DEF KeyOf, Same
  <2>2. images[req[r].id] = KeyOf(r)
    BY <1>0, <1>3 DEF Filled, FilledAt
  <2>3. files'[req[r].id] = f
    BY <1>1, <1>6 DEF TypeOK
  <2>. QED BY <2>1, <2>2, <2>3, <1>0, <1>2 DEF FilledAt
<1>8. EmptiedAt(r)'
  BY <1>2, <1>4 DEF EmptiedAt
<1>9. Filled' /\ FinishedIntact' /\ Undisturbed'
  BY <1>0, <1>1, <1>2, <1>4, <1>7, <1>8, GeneratesOn DEF Same
<1>10. TempsOK' /\ SolversTracked'
  BY <1>0, <1>2, <1>4, TempsKept
<1>11. SlotsCounted'
  BY <1>0, <1>2, <1>3, SlotsKept DEF Same, Executing
<1>12. TypeOK'
  <2>1. files' \in [BuildIds -> BuildKeys \cup {None}]
    BY <1>1, <1>6 DEF TypeOK
  <2>. QED BY <2>1, <1>0, <1>2, <1>5 DEF TypeOK, LockInv, Only
<1>. QED BY <1>5, <1>9, <1>10, <1>11, <1>12

-----------------------------------------------------------------------------
(* Temporary containers and solvers                                        *)

\* WithoutTemp leaves the phases that have a container.
LEMMA WithoutTempEffect ==
  ASSUME BuildsInv, NEW r \in Threads, req[r].pc \in {"create", "retire", "remove"},
         \/ WithoutTemp(r)
         \/ \E failed \in BOOLEAN : req[r].op = "build" /\ Executed(r, failed),
         up' = up, req[r].op = "check" => slots' = slots
  PROVE  /\ Only(r) /\ Same(r) /\ Stays(r) /\ RequestOK(r)' /\ req'[r].id = req[r].id
         /\ req'[r].pc \in {"discard", "finalize", "clear"}
         /\ req'[r].pc = "finalize" =>
              Executed(r, FALSE) /\ req[r].op = "build" /\ ~WithoutTemp(r)
         /\ Generates(r) => Generates(r)'
         /\ SlotsCounted' /\ slots' \in 0..MaxConcurrentBuilds
         /\ EmptiedAt(r)' /\ KeyOf(r)' = KeyOf(r)
<1>. USE DEF BuildsInv
<1>1. RequestOK(r) /\ req[r].op \in {"build", "check"}
  BY KindOf
<1>2. CASE req[r].op = "build"
  <2>1. PICK failed \in BOOLEAN : Executed(r, failed) /\ (WithoutTemp(r) => failed = TRUE)
    <3>1. CASE WithoutTemp(r)
      BY <3>1, <1>2 DEF WithoutTemp
    <3>2. CASE ~WithoutTemp(r)
      BY <3>2
    <3>. QED BY <3>1, <3>2
  <2>2. /\ Only(r) /\ Same(r) /\ slots' = slots - 1 /\ req'[r].id = req[r].id
        /\ req'[r].pc = IF failed THEN "discard" ELSE "finalize"
        /\ req'[r].seed = req[r].seed
    <3>1. slots' = slots - 1
      BY <2>1 DEF Executed
    <3>. QED BY <2>1, <3>1, ExecutedEffect
  <2>3. SlotsCounted' /\ slots' \in 0..MaxConcurrentBuilds
    BY <2>2, <1>2, SlotsReturned DEF Executing
  <2>4. /\ Stays(r) /\ RequestOK(r)' /\ (Generates(r) => Generates(r)') /\ EmptiedAt(r)'
        /\ KeyOf(r)' = KeyOf(r)
    BY <2>2, <1>1, <1>2 DEF RequestOK, Stays, Keeps, Starting, Same, Generates, Removes, Using, BuildSteps,
       Generating, Executing, Destroying, Removal, WithTemp, EmptiedAt, KeyOf
  <2>5. req'[r].pc = "finalize" => failed = FALSE
    BY <2>2
  <2>6. req'[r].pc = "finalize" => Executed(r, FALSE) /\ ~WithoutTemp(r)
    BY <2>1, <2>5
  <2>. QED BY <2>2, <2>3, <2>4, <2>6, <1>2
<1>3. CASE req[r].op = "check"
  <2>1. req' = [req EXCEPT ![r].pc = "clear", ![r].temp = None] /\ slots' = slots
    BY <1>3 DEF WithoutTemp
  <2>2. Only(r) /\ Same(r) /\ req'[r].id = req[r].id /\ req'[r].pc = "clear"
    BY <2>1, ClearEffect
  <2>3. SlotsCounted' /\ slots' \in 0..MaxConcurrentBuilds
    BY <2>1, <2>2, <1>3, SlotsKept DEF Same, TypeOK
  <2>4. /\ Stays(r) /\ RequestOK(r)' /\ ~Generates(r) /\ EmptiedAt(r)'
        /\ KeyOf(r)' = KeyOf(r)
    BY <2>2, <1>1, <1>3 DEF RequestOK, Stays, Keeps, Starting, Same, Generates, Removes, Using, CheckSteps,
       Generating, Executing, Destroying, Removal, WithTemp, EmptiedAt, KeyOf
  <2>. QED BY <2>2, <2>3, <2>4
<1>. QED BY <1>1, <1>2, <1>3

LEMMA CreateTemporaryInv ==
  ASSUME BuildsInv, NEW r \in Threads, CreateTemporary(r)
  PROVE  BuildsInv'
<1>. USE DEF BuildsInv
<1>0. /\ req[r].pc = "create"
      /\ UNCHANGED <<images, solvers, files, schemas, rows, retired, instances, up,
                     lockVars, damaged>>
  BY DEF CreateTemporary, At, database
<1>1. RequestOK(r) /\ req[r].op \in {"build", "check"} /\ req[r].pc \notin WithTemp
  BY <1>0, KindOf DEF WithTemp
<1>2. req[r].id \in BuildIds
  BY <1>0, <1>1 DEF RequestOK, Generates, Generating, Executing, Using
<1>3. ASSUME NEW t \in FreeTemps,
             temps' = [temps EXCEPT ![t] =
                         [image |-> req[r].op, id |-> req[r].id, running |-> FALSE]],
             req' = [req EXCEPT ![r].temp = t, ![r].pc = "retire"],
             faults' = faults, slots' = slots
      PROVE  BuildsInv'
  <2>0. t \in Temps /\ t \notin retired /\ temps[t] = NoTemp
    BY DEF FreeTemps
  <2>1. /\ Only(r) /\ Same(r) /\ req'[r].pc = "retire" /\ req'[r].temp = t
        /\ req'[r].id = req[r].id /\ req'[r].seed = req[r].seed
    BY <1>3, <2>0, CreatedEffect
  <2>2. /\ RequestOK(r)' /\ Stays(r) /\ (Generates(r) => Generates(r)') /\ ~Removes(r)'
        /\ EmptiedAt(r)' /\ KeyOf(r)' = KeyOf(r)
    BY <1>0, <1>1, <2>0, <2>1 DEF RequestOK, Stays, Keeps, Starting, Same, Generates, Removes, Using, BuildSteps,
       CheckSteps, Generating, Executing, Destroying, Removal, WithTemp, EmptiedAt, KeyOf
  <2>3. LockInv' /\ RequestsOK' /\ Ownership' /\ Recorded'
    BY <1>0, <2>1, <2>2, StaysStep
  <2>4. /\ temps'[t] = [image |-> req[r].op, id |-> req[r].id, running |-> FALSE]
        /\ \A u \in Temps : u # t => temps'[u] = temps[u]
    BY <1>3, <2>0 DEF TypeOK
  <2>5. temps'[t] # NoTemp /\ ~temps'[t].running
    BY <2>4, <1>2 DEF NoTemp, BuildIds
  <2>6. TypeOK'
    <3>1. temps' \in [Temps -> [image : {"build", "check"}, id : BuildIds,
                               running : BOOLEAN] \cup {NoTemp}]
      BY <1>1, <1>2, <1>3 DEF TypeOK
    <3>. QED BY <3>1, <1>0, <1>3, <2>1, <2>3 DEF TypeOK, LockInv, Only
  <2>7. Filled' /\ FinishedIntact'
    <3>1. FilledAt(r)'
      BY <1>0, <2>1, <2>2 DEF Filled, FilledAt, Same
    <3>. QED BY <3>1, <1>0, <2>1, ContentKept
  <2>8. SolversTracked'
    BY <1>0, <2>4, <2>5 DEF SolversTracked
  <2>9. TempsOK'
    <3>1. \A q \in Threads : q # r /\ req[q].pc \in WithTemp => req[q].temp # t
      BY <2>0 DEF TempsOK, WithTemp
    <3>2. \A q \in Threads : q # r /\ req[q].pc \in WithTemp => req[q].temp \in Temps
      BY DEF RequestsOK, RequestOK, WithTemp
    <3>3. \A q \in Threads : q # r => req'[q] = req[q]
      BY <2>1 DEF Only
    <3>4. ASSUME NEW q \in Threads
          PROVE  /\ req'[q].pc \in {"copy", "start", "wait", "remove"} => req'[q].temp \in retired'
                 /\ req'[q].pc \in WithTemp => temps'[req'[q].temp] # NoTemp
      BY <3>1, <3>2, <3>3, <2>1, <2>4, <2>5, <1>0 DEF TempsOK, WithTemp
    <3>5. ASSUME NEW p \in Threads, NEW q \in Threads, p # q,
                 req'[p].pc \in WithTemp, req'[q].pc \in WithTemp
          PROVE  req'[p].temp # req'[q].temp
      BY <3>1, <3>3, <3>5, <2>1 DEF TempsOK
    <3>. QED BY <3>4, <3>5 DEF TempsOK
  <2>10. SlotsCounted'
    BY <1>0, <1>3, <2>1, SlotsKept DEF Same, Executing
  <2>11. Undisturbed'
    <3>1. ASSUME faults = 0 PROVE TempsHeld'
      <4>. SUFFICES ASSUME NEW u \in Temps, temps'[u] # NoTemp
                   PROVE  \E q \in Threads : Holds(q, u)'
        BY DEF TempsHeld
      <4>1. CASE u = t
        <5>1. Holds(r, t)'
          BY <2>1, <2>4 DEF Holds, WithTemp, Same
        <5>. QED BY <5>1, <4>1
      <4>2. CASE u # t
        <5>1. PICK q \in Threads : Holds(q, u)
          BY <4>2, <2>4, <3>1 DEF Undisturbed, TempsHeld
        <5>2. q # r /\ req'[q] = req[q]
          BY <5>1, <1>1, <2>1 DEF Holds, Only
        <5>. QED BY <5>1, <5>2, <4>2, <2>4 DEF Holds
      <4>. QED BY <4>1, <4>2
    <3>. QED BY <3>1, <1>0, <1>3, <2>1, <2>2, SettledKept
  <2>. QED BY <2>3, <2>6, <2>7, <2>8, <2>9, <2>10, <2>11
<1>4. ASSUME WithoutTemp(r), temps' = temps, faults' = faults \/ Fault
      PROVE  BuildsInv'
  <2>0. /\ Only(r) /\ Same(r) /\ Stays(r) /\ RequestOK(r)' /\ req'[r].id = req[r].id
        /\ req'[r].pc \in {"discard", "clear"}
        /\ Generates(r) => Generates(r)'
        /\ SlotsCounted' /\ slots' \in 0..MaxConcurrentBuilds
        /\ EmptiedAt(r)'
    <3>1. req[r].op = "check" => slots' = slots
      BY <1>4 DEF WithoutTemp
    <3>. QED BY <3>1, <1>0, <1>4, WithoutTempEffect
  <2>1. LockInv' /\ RequestsOK' /\ Ownership' /\ Recorded'
    BY <1>0, <2>0, StaysStep
  <2>2. TypeOK'
    BY <1>0, <1>4, <2>0, <2>1, Disturbed DEF TypeOK, LockInv, Only
  <2>3. Filled' /\ FinishedIntact'
    <3>1. FilledAt(r)'
      BY <2>0 DEF FilledAt
    <3>. QED BY <3>1, <1>0, <2>0, ContentKept
  <2>4. TempsOK' /\ SolversTracked'
    BY <1>0, <1>4, <2>0, TempsKept DEF WithTemp
  <2>5. Undisturbed'
    <3>1. CASE Fault
      BY <3>1, Disturbed
    <3>2. CASE faults' = faults
      BY <3>2, <1>0, <1>1, <1>4, <2>0, UndisturbedKept
    <3>. QED BY <3>1, <3>2, <1>4
  <2>. QED BY <2>0, <2>1, <2>2, <2>3, <2>4, <2>5
<1>. QED BY <1>3, <1>4 DEF CreateTemporary, NoFault

\* The container of r is removed, or not, by the step that leaves it.
LEMMA LeftTemp ==
  ASSUME BuildsInv, NEW r \in Threads, Only(r), req[r].pc \in WithTemp,
         req'[r].pc \notin WithTemp,
         temps' = temps \/ temps' = [temps EXCEPT ![req[r].temp] = NoTemp],
         \/ retired' = retired
         \/ /\ retired' = retired \ {req[r].temp}
            /\ temps' = [temps EXCEPT ![req[r].temp] = NoTemp]
  PROVE  /\ TempsOK' /\ SolversTracked' /\ retired' \subseteq Temps
         /\ temps' \in [Temps -> [image : {"build", "check"}, id : BuildIds,
                                  running : BOOLEAN] \cup {NoTemp}]
<1>. USE DEF BuildsInv
<1>0. req[r].temp \in Temps
  BY DEF RequestsOK, RequestOK
<1>1. /\ \A t \in Temps : t # req[r].temp => temps'[t] = temps[t] /\ (t \in retired' <=> t \in retired)
      /\ temps'[req[r].temp] \in {temps[req[r].temp], NoTemp}
  BY <1>0 DEF TypeOK
<1>2. SolversTracked'
  BY <1>0, <1>1 DEF SolversTracked, NoTemp, TypeOK
<1>3. \A q \in Threads : q # r => /\ req'[q] = req[q]
                                  /\ req[q].pc \in WithTemp =>
                                       req[q].temp # req[r].temp /\ req[q].temp \in Temps
  BY DEF Only, TempsOK, RequestsOK, RequestOK
<1>4. TempsOK'
  <2>1. ASSUME NEW q \in Threads
        PROVE  /\ req'[q].pc \in {"copy", "start", "wait", "remove"} => req'[q].temp \in retired'
               /\ req'[q].pc \in WithTemp => temps'[req'[q].temp] # NoTemp
    BY <1>1, <1>3 DEF TempsOK, WithTemp
  <2>2. ASSUME NEW p \in Threads, NEW q \in Threads, p # q,
               req'[p].pc \in WithTemp, req'[q].pc \in WithTemp
        PROVE  req'[p].temp # req'[q].temp
    BY <1>3, <2>2 DEF TempsOK
  <2>. QED BY <2>1, <2>2 DEF TempsOK
<1>5. retired' \subseteq Temps
  BY DEF TypeOK
<1>6. temps' \in [Temps -> [image : {"build", "check"}, id : BuildIds,
                            running : BOOLEAN] \cup {NoTemp}]
  BY <1>0 DEF TypeOK
<1>. QED BY <1>2, <1>4, <1>5, <1>6

LEMMA RetireTemporaryInv ==
  ASSUME BuildsInv, NEW r \in Threads, RetireTemporary(r)
  PROVE  BuildsInv'
<1>. USE DEF BuildsInv
<1>. DEFINE p == IF req[r].op = "build" THEN "copy" ELSE "start"
<1>0. /\ req[r].pc = "retire"
      /\ UNCHANGED <<images, solvers, files, schemas, rows, instances, up, lockVars, damaged>>
  BY DEF RetireTemporary, At
<1>1. /\ RequestOK(r) /\ req[r].op \in {"build", "check"} /\ req[r].pc \in WithTemp
      /\ req[r].temp \in Temps
  BY <1>0, KindOf DEF WithTemp, RequestOK
<1>2. ASSUME retired' = retired \cup {req[r].temp}, Goto(r, p),
             UNCHANGED <<faults, temps, slots>>
      PROVE  BuildsInv'
  <2>1. /\ Only(r) /\ Same(r) /\ req'[r].pc = p /\ req'[r].temp = req[r].temp
        /\ req'[r].id = req[r].id /\ req'[r].seed = req[r].seed
    BY <1>2, GotoEffect DEF Steps
  <2>2. /\ RequestOK(r)' /\ Stays(r) /\ (Generates(r) => Generates(r)') /\ ~Removes(r)'
        /\ EmptiedAt(r)' /\ KeyOf(r)' = KeyOf(r) /\ req'[r].pc \in WithTemp
    BY <1>0, <1>1, <2>1 DEF RequestOK, Stays, Keeps, Starting, Same, Generates, Removes, Using, BuildSteps,
       CheckSteps, Generating, Executing, Destroying, Removal, WithTemp, EmptiedAt, KeyOf
  <2>3. LockInv' /\ RequestsOK' /\ Ownership' /\ Recorded'
    BY <1>0, <2>1, <2>2, StaysStep
  <2>4. TypeOK'
    BY <1>0, <1>1, <1>2, <2>1, <2>3 DEF TypeOK, LockInv, Only
  <2>5. Filled' /\ FinishedIntact'
    <3>1. FilledAt(r)'
      BY <1>0, <2>1, <2>2 DEF Filled, FilledAt, Same
    <3>. QED BY <3>1, <1>0, <2>1, ContentKept
  <2>6. SolversTracked'
    BY <1>2 DEF SolversTracked
  <2>7. TempsOK'
    BY <1>0, <1>1, <1>2, <2>1 DEF TempsOK, Only, WithTemp
  <2>8. SlotsCounted'
    BY <1>0, <1>1, <1>2, <2>1, SlotsKept DEF Same, Executing
  <2>9. Undisturbed'
    BY <1>0, <1>2, <2>1, <2>2, UndisturbedKept DEF Same
  <2>. QED BY <2>3, <2>4, <2>5, <2>6, <2>7, <2>8, <2>9
<1>3. ASSUME Fault, WithoutTemp(r), retired' = retired,
             temps' = temps \/ temps' = [temps EXCEPT ![req[r].temp] = NoTemp]
      PROVE  BuildsInv'
  <2>0. /\ Only(r) /\ Same(r) /\ Stays(r) /\ RequestOK(r)' /\ req'[r].id = req[r].id
        /\ req'[r].pc \in {"discard", "clear"}
        /\ SlotsCounted' /\ slots' \in 0..MaxConcurrentBuilds
    <3>1. req[r].op = "check" => slots' = slots
      BY <1>3 DEF WithoutTemp
    <3>. QED BY <3>1, <1>0, <1>3, WithoutTempEffect
  <2>1. LockInv' /\ RequestsOK' /\ Ownership' /\ Recorded'
    BY <1>0, <2>0, StaysStep
  <2>2. /\ TempsOK' /\ SolversTracked' /\ retired' \subseteq Temps
        /\ temps' \in [Temps -> [image : {"build", "check"}, id : BuildIds,
                                 running : BOOLEAN] \cup {NoTemp}]
    BY <1>0, <1>1, <1>3, <2>0, LeftTemp DEF WithTemp
  <2>3. TypeOK' /\ Undisturbed'
    BY <1>0, <1>3, <2>0, <2>1, <2>2, Disturbed DEF TypeOK, LockInv, Only
  <2>4. Filled' /\ FinishedIntact'
    <3>1. FilledAt(r)'
      BY <2>0 DEF FilledAt
    <3>. QED BY <3>1, <1>0, <2>0, ContentKept
  <2>. QED BY <2>0, <2>1, <2>2, <2>3, <2>4
<1>. QED BY <1>2, <1>3 DEF RetireTemporary, NoFault

LEMMA RemoveTemporaryInv ==
  ASSUME BuildsInv, NEW r \in Threads, RemoveTemporary(r)
  PROVE  BuildsInv'
<1>. USE DEF BuildsInv
<1>0. /\ req[r].pc = "remove"
      /\ UNCHANGED <<images, solvers, files, schemas, rows, instances, up, lockVars, damaged>>
      /\ \/ /\ temps' = [temps EXCEPT ![req[r].temp] = NoTemp]
            /\ retired' = retired \ {req[r].temp} /\ faults' = faults
         \/ /\ Fault /\ retired' = retired
            /\ temps' = temps \/ temps' = [temps EXCEPT ![req[r].temp] = NoTemp]
      /\ IF req[r].op = "build" THEN Executed(r, req[r].err) ELSE WithoutTemp(r)
  BY DEF RemoveTemporary, At, NoFault
<1>1. /\ RequestOK(r) /\ req[r].op \in {"build", "check"} /\ req[r].pc \in WithTemp
      /\ req[r].temp \in Temps /\ req[r].err \in BOOLEAN
  BY <1>0, KindOf DEF WithTemp, RequestOK, Requests
<1>2. /\ Only(r) /\ Same(r) /\ Stays(r) /\ RequestOK(r)' /\ req'[r].id = req[r].id
      /\ req'[r].pc \in {"discard", "finalize", "clear"}
      /\ req'[r].pc = "finalize" => req[r].op = "build"
      /\ Generates(r) => Generates(r)'
      /\ SlotsCounted' /\ slots' \in 0..MaxConcurrentBuilds
      /\ EmptiedAt(r)' /\ KeyOf(r)' = KeyOf(r)
  <2>1. \/ WithoutTemp(r)
        \/ \E failed \in BOOLEAN : req[r].op = "build" /\ Executed(r, failed)
    BY <1>0, <1>1
  <2>2. req[r].op = "check" => slots' = slots
    BY <1>0 DEF WithoutTemp
  <2>. QED BY <2>1, <2>2, <1>0, WithoutTempEffect
<1>3. req'[r].pc = "finalize" => ~req[r].err
  <2>. SUFFICES ASSUME req'[r].pc = "finalize" PROVE ~req[r].err
    OBVIOUS
  <2>1. Executed(r, req[r].err)
    BY <1>0, <1>2
  <2>2. req'[r].pc = IF req[r].err THEN "discard" ELSE "finalize"
    BY <2>1, <1>1, ExecutedEffect
  <2>. QED BY <2>2, <1>1
<1>4. LockInv' /\ RequestsOK' /\ Ownership' /\ Recorded'
  BY <1>0, <1>2, StaysStep
<1>5. /\ TempsOK' /\ SolversTracked' /\ retired' \subseteq Temps
      /\ temps' \in [Temps -> [image : {"build", "check"}, id : BuildIds,
                               running : BOOLEAN] \cup {NoTemp}]
  BY <1>0, <1>1, <1>2, LeftTemp DEF WithTemp
<1>6. TypeOK'
  BY <1>0, <1>2, <1>4, <1>5, Disturbed DEF TypeOK, LockInv, Only
<1>7. Filled' /\ FinishedIntact'
  <2>1. FilledAt(r)'
    BY <1>0, <1>2, <1>3 DEF Filled, FilledAt
  <2>. QED BY <2>1, <1>0, <1>2, ContentKept
<1>8. Undisturbed'
  <2>1. CASE Fault
    BY <2>1, Disturbed
  <2>2. CASE /\ temps' = [temps EXCEPT ![req[r].temp] = NoTemp]
             /\ faults' = faults
    <3>1. ASSUME faults = 0 PROVE TempsHeld'
      <4>. SUFFICES ASSUME NEW t \in Temps, temps'[t] # NoTemp
                   PROVE  \E q \in Threads : Holds(q, t)'
        BY DEF TempsHeld
      <4>1. t # req[r].temp /\ temps'[t] = temps[t]
        BY <2>2, <1>1 DEF TypeOK
      <4>2. PICK q \in Threads : Holds(q, t)
        BY <4>1, <3>1 DEF Undisturbed, TempsHeld
      <4>3. req'[q] = req[q]
        BY <4>1, <4>2, <1>2 DEF Holds, Only
      <4>. QED BY <4>1, <4>2, <4>3 DEF Holds
    <3>. QED BY <3>1, <2>2, <1>0, <1>2, SettledKept
  <2>. QED BY <2>1, <2>2, <1>0
<1>. QED BY <1>2, <1>4, <1>5, <1>6, <1>7, <1>8

LEMMA BuildSolverInv ==
  ASSUME BuildsInv, NEW r \in Threads, BuildSolver(r)
  PROVE  BuildsInv'
<1>. USE DEF BuildsInv
<1>0. /\ req[r].pc = "solver"
      /\ UNCHANGED <<images, temps, files, schemas, rows, retired, instances, slots, up,
                     lockVars, damaged>>
      /\ UNCHANGED database
      /\ solvers' \in {solvers, solvers \cup {req[r].id}}
      /\ \/ Goto(r, "create") /\ faults' = faults
         \/ End(r) /\ (faults' = faults \/ Fault)
  BY DEF BuildSolver, At, NoFault, database, process
<1>1. RequestOK(r) /\ req[r].op = "check" /\ req[r].id \in BuildIds
  BY <1>0, KindOf DEF RequestOK, Using
<1>2. req[r].pc \in Outer
  BY <1>0 DEF Outer, Steps, Generating, Executing, Destroying, Removal, WithTemp
<1>3. solvers' \subseteq BuildIds
  BY <1>0, <1>1 DEF TypeOK
<1>4. CASE End(r) /\ (faults' = faults \/ Fault)
  <2>1. Only(r) /\ req'[r] = Idle
    BY <1>4, EndEffect
  <2>2. RequestOK(r)' /\ req'[r].pc \in Outer /\ req'[r].op \notin Using /\ ~Starting(r)'
    BY <2>1, IdleOK
  <2>3. LockInv'
    BY <1>0, LockStutter
  <2>. QED BY <1>0, <1>2, <1>3, <1>4, <2>1, <2>2, <2>3, OuterStep
<1>5. CASE Goto(r, "create") /\ faults' = faults
  <2>1. /\ Only(r) /\ Same(r) /\ req'[r].pc = "create" /\ req'[r].id = req[r].id
        /\ req'[r].seed = req[r].seed
    BY <1>5, GotoEffect DEF Steps
  <2>2. /\ RequestOK(r)' /\ Stays(r) /\ ~Generates(r) /\ EmptiedAt(r)' /\ FilledAt(r)'
        /\ req'[r].pc \notin WithTemp /\ req[r].pc \notin WithTemp
    BY <1>0, <1>1, <2>1 DEF RequestOK, Stays, Keeps, Starting, Same, Generates, Removes, Using, CheckSteps,
       Generating, Executing, Destroying, Removal, WithTemp, EmptiedAt, FilledAt
  <2>3. LockInv' /\ RequestsOK' /\ Ownership' /\ Recorded'
    BY <1>0, <2>1, <2>2, StaysStep
  <2>4. TypeOK'
    BY <1>0, <1>5, <1>3, <2>1, <2>3 DEF TypeOK, LockInv, Only
  <2>5. Filled' /\ FinishedIntact'
    BY <1>0, <2>1, <2>2, ContentKept
  <2>6. TempsOK' /\ SolversTracked'
    BY <1>0, <2>1, <2>2, TempsKept
  <2>7. SlotsCounted'
    BY <1>0, <1>1, <2>1, SlotsKept DEF Same
  <2>8. Undisturbed'
    BY <1>0, <1>5, <2>1, <2>2, UndisturbedKept
  <2>. QED BY <2>3, <2>4, <2>5, <2>6, <2>7, <2>8
<1>. QED BY <1>0, <1>4, <1>5

LEMMA ClearSolverInv ==
  ASSUME BuildsInv, NEW r \in Threads, ClearSolver(r)
  PROVE  BuildsInv'
<1>0. /\ req[r].pc = "clear" /\ End(r) /\ solvers' \subseteq solvers
      /\ UNCHANGED <<images, temps, files, database, slots, up, lockVars, faults, damaged>>
  BY DEF ClearSolver, At, process
<1>1. Only(r) /\ req'[r] = Idle
  BY <1>0, EndEffect DEF BuildsInv
<1>2. RequestOK(r)' /\ req'[r].pc \in Outer /\ req'[r].op \notin Using /\ ~Starting(r)'
  BY <1>1, IdleOK
<1>3. LockInv' /\ solvers' \subseteq BuildIds
  BY <1>0, LockStutter DEF BuildsInv, TypeOK
<1>4. req[r].pc \in Outer
  BY <1>0 DEF Outer, Steps, Generating, Executing, Destroying, Removal, WithTemp
<1>. QED BY <1>0, <1>1, <1>2, <1>3, <1>4, OuterStep

\* A recorded solver may run or not.
LEMMA SolverRuns ==
  ASSUME BuildsInv, NEW r \in Threads, NEW b \in BOOLEAN, req[r].pc \in {"start", "wait"},
         UNCHANGED <<images, solvers, files, schemas, rows, retired, instances, slots, up,
                     lockVars, damaged>>,
         temps' = temps \/ temps' = [temps EXCEPT ![req[r].temp].running = b],
         faults' = faults \/ Fault, NEW p \in {"wait", "remove"}, Goto(r, p)
  PROVE  BuildsInv'
<1>. USE DEF BuildsInv
<1>1. /\ Only(r) /\ Same(r) /\ req'[r].pc = p /\ req'[r].id = req[r].id
      /\ req'[r].seed = req[r].seed /\ req'[r].temp = req[r].temp
  BY GotoEffect DEF Steps
<1>2. /\ RequestOK(r) /\ req[r].op = "check" /\ req[r].temp \in Temps
      /\ req[r].temp \in retired
  BY KindOf DEF RequestOK, WithTemp, TempsOK
<1>3. /\ RequestOK(r)' /\ Stays(r) /\ ~Generates(r) /\ EmptiedAt(r)' /\ FilledAt(r)'
      /\ req'[r].pc \in WithTemp \ {"retire"} /\ req[r].pc \in WithTemp \ {"retire"}
  BY <1>1, <1>2 DEF RequestOK, Stays, Keeps, Starting, Same, Generates, Removes, Using, CheckSteps,
     Generating, Executing, Destroying, Removal, WithTemp, EmptiedAt, FilledAt
<1>4. LockInv' /\ RequestsOK' /\ Ownership' /\ Recorded'
  BY <1>1, <1>3, StaysStep
<1>5. PICK t \in Temps : t = req[r].temp
  BY <1>2
<1>6. temps[t] \in [image : {"build", "check"}, id : BuildIds, running : BOOLEAN]
  BY <1>3, <1>5 DEF TempsOK, TypeOK
<1>7. /\ \A u \in Temps : u # t => temps'[u] = temps[u]
      /\ \/ temps'[t] = temps[t]
         \/ temps'[t] = [temps[t] EXCEPT !.running = b]
      /\ \/ temps' = temps
         \/ temps' = [temps EXCEPT ![t] = [temps[t] EXCEPT !.running = b]]
  BY <1>5 DEF TypeOK
<1>8. /\ temps'[t] \in [image : {"build", "check"}, id : BuildIds, running : BOOLEAN]
      /\ temps'[t].image = temps[t].image /\ temps'[t].id = temps[t].id
  BY <1>6, <1>7
<1>9. temps' \in [Temps -> [image : {"build", "check"}, id : BuildIds,
                            running : BOOLEAN] \cup {NoTemp}]
  BY <1>7, <1>8 DEF TypeOK
<1>10. TypeOK'
  BY <1>1, <1>4, <1>9, Disturbed DEF TypeOK, LockInv, Only
<1>11. Filled' /\ FinishedIntact'
  BY <1>1, <1>3, ContentKept
<1>12. SolversTracked'
  BY <1>2, <1>5, <1>7 DEF SolversTracked
<1>13. TempsOK'
  <2>1. NoTemp \notin [image : {"build", "check"}, id : BuildIds, running : BOOLEAN]
    BY DEF NoTemp, BuildIds
  <2>2. \A u \in Temps : temps[u] # NoTemp => temps'[u] # NoTemp
    BY <1>7, <1>8, <2>1
  <2>3. \A q \in Threads : req[q].pc \in WithTemp => req[q].temp \in Temps
    BY DEF RequestsOK, RequestOK
  <2>4. \A q \in Threads : /\ req'[q].pc \in WithTemp => req[q].pc \in WithTemp
                           /\ req'[q].temp = req[q].temp
                           /\ req'[q].pc \in {"copy", "start", "wait", "remove"} =>
                                req[q].temp \in retired
    BY <1>1, <1>2, <1>3 DEF Only, TempsOK
  <2>. QED BY <2>2, <2>3, <2>4 DEF TempsOK
<1>14. SlotsCounted'
  BY <1>1, <1>2, SlotsKept DEF Same
<1>15. Undisturbed'
  <2>1. CASE Fault
    BY <2>1, Disturbed
  <2>2. CASE faults' = faults
    <3>1. ASSUME faults = 0 PROVE TempsHeld'
      <4>. SUFFICES ASSUME NEW u \in Temps, temps'[u] # NoTemp
                   PROVE  \E q \in Threads : Holds(q, u)'
        BY DEF TempsHeld
      <4>1. /\ temps[u] # NoTemp /\ temps'[u].image = temps[u].image
            /\ temps'[u].id = temps[u].id
        BY <1>3, <1>5, <1>7, <1>8 DEF TempsOK
      <4>2. PICK q \in Threads : Holds(q, u)
        BY <4>1, <3>1 DEF Undisturbed, TempsHeld
      <4>3. Holds(q, u)'
        BY <4>1, <4>2, <1>1, <1>3 DEF Holds, Only, Same
      <4>. QED BY <4>3
    <3>. QED BY <3>1, <2>2, <1>1, <1>3, SettledKept
  <2>. QED BY <2>1, <2>2
<1>. QED BY <1>4, <1>10, <1>11, <1>12, <1>13, <1>14, <1>15

LEMMA StartSolverInv ==
  ASSUME BuildsInv, NEW r \in Threads, StartSolver(r)
  PROVE  BuildsInv'
<1>0. /\ req[r].pc = "start"
      /\ UNCHANGED <<images, solvers, files, schemas, rows, retired, instances, slots, up,
                     lockVars, damaged>>
  BY DEF StartSolver, At, database, process
<1>1. \/ /\ temps' = [temps EXCEPT ![req[r].temp].running = TRUE]
         /\ Goto(r, "wait") /\ faults' = faults
      \/ temps' = temps /\ Goto(r, "remove") /\ Fault
  BY DEF StartSolver, NoFault
<1>. QED BY <1>0, <1>1, SolverRuns

LEMMA WaitForSolverInv ==
  ASSUME BuildsInv, NEW r \in Threads, WaitForSolver(r)
  PROVE  BuildsInv'
<1>0. /\ req[r].pc = "wait" /\ Goto(r, "remove")
      /\ UNCHANGED <<images, solvers, files, schemas, rows, retired, instances, slots, up,
                     lockVars, faults, damaged>>
  BY DEF WaitForSolver, At, database, process
<1>1. PICK b \in BOOLEAN : temps' = [temps EXCEPT ![req[r].temp].running = b]
  BY DEF WaitForSolver
<1>. QED BY <1>0, <1>1, SolverRuns

-----------------------------------------------------------------------------
(* Rows of builds                                                          *)

\* Max is the maximum.
LEMMA Largest ==
  ASSUME NEW N \in Nat, NEW S \in SUBSET (0..N), S # {}
  PROVE  Max(S) \in S /\ \A y \in S : Max(S) >= y
<1>. DEFINE T == {k \in Nat : N - k \in S}
<1>. DEFINE R == OpToRel(<, Nat)
<1>1. T \subseteq Nat /\ T # {}
  <2>1. PICK x \in S : TRUE
    OBVIOUS
  <2>2. x \in 0..N /\ N - x \in Nat /\ N - (N - x) = x
    OBVIOUS
  <2>3. N - x \in T
    BY <2>1, <2>2
  <2>. QED BY <2>3
<1>2. PICK k \in T : \A j \in T : ~(<<j, k>> \in R)
  <2>. HIDE DEF T, R
  <2>1. IsWellFoundedOn(R, Nat)
    BY NatLessThanWellFounded DEF R
  <2>. QED BY <1>1, <2>1, WFMin
<1>3. \A j \in T : ~(j < k)
  <2>. TAKE j \in T
  <2>1. <<j, k>> \in Nat \X Nat /\ ~(<<j, k>> \in R)
    BY <1>1, <1>2
  <2>. QED BY <2>1 DEF OpToRel
<1>4. ASSUME NEW y \in S PROVE N - k >= y
  <2>1. N - y \in T
    OBVIOUS
  <2>. QED BY <2>1, <1>3
<1>. QED BY <1>4 DEF Max

\* The next number is one that no row has.
LEMMA FreshNumber ==
  ASSUME NextBuild \in BuildIds
  PROVE  rows[NextBuild] = NoRow
<1>. DEFINE S == {0} \cup {n \in BuildIds : rows[n] # NoRow}
<1>1. S \in SUBSET (0..MaxBuilds) /\ S # {}
  BY Numbers
<1>2. Max(S) \in S /\ \A y \in S : Max(S) >= y
  <2>. HIDE DEF S
  <2>. QED BY <1>1, Largest, BuildsAssumption
<1>3. NextBuild = Max(S) + 1 /\ Max(S) \in 0..MaxBuilds
  BY <1>1, <1>2 DEF NextBuild
<1>4. NextBuild \notin S
  <2>. HIDE DEF S
  <2>. QED BY <1>2, <1>3
<1>. QED BY <1>4

LEMMA FreshInstance ==
  ASSUME NextInstance \in InstanceIds
  PROVE  instances[NextInstance] = NoInstance
<1>. DEFINE S == {0} \cup {i \in InstanceIds : instances[i] # NoInstance}
<1>1. S \in SUBSET (0..MaxInstances) /\ S # {}
  BY Numbers
<1>2. Max(S) \in S /\ \A y \in S : Max(S) >= y
  <2>. HIDE DEF S
  <2>. QED BY <1>1, Largest, BuildsAssumption
<1>3. NextInstance = Max(S) + 1 /\ Max(S) \in 0..MaxInstances
  BY <1>1, <1>2 DEF NextInstance
<1>4. NextInstance \notin S
  <2>. HIDE DEF S
  <2>. QED BY <1>2, <1>3
<1>. QED BY <1>4

\* A new row is nobody's but its Build's.
LEMMA RowInserted ==
  ASSUME BuildsInv, NEW r \in Threads, Only(r), Same(r), req[r].op = "build",
         req[r].pc = "open", NEW n \in BuildIds, rows[n] = NoRow,
         rows' = [rows EXCEPT ![n] = [key |-> KeyOf(r), flag |-> None]],
         instances' = instances, req'[r].pc \notin Destroying,
         req'[r].seed = req[r].seed, Generates(r)' => req'[r].id = n
  PROVE  Ownership' /\ KeyOf(r) \in BuildKeys /\ SchemaOf(n)' = req[r].schema
<1>. USE DEF BuildsInv
<1>0. /\ rows'[n] = [key |-> KeyOf(r), flag |-> None] /\ rows'[n].key = KeyOf(r)
      /\ \A m \in BuildIds : m # n => rows'[m] = rows[m]
  BY DEF TypeOK
<1>1. /\ KeyOf(r) = <<req[r].schema, req[r].seed>> /\ KeyOf(r)' = KeyOf(r)
      /\ KeyOf(r) \in BuildKeys /\ req'[r].op = "build" /\ req'[r].schema = req[r].schema
  BY DEF KeyOf, Same, RequestsOK, RequestOK, BuildKeys
<1>2. rows'[n] # NoRow /\ SchemaOf(n)' = req[r].schema
  <2>1. rows'[n].key # NoRow.key
    BY <1>0, <1>1, BuildsAssumption DEF NoRow
  <2>. QED BY <2>1, <1>0, <1>1 DEF SchemaOf
<1>3. \A m \in BuildIds : rows[m] # NoRow => rows'[m] = rows[m]
  BY <1>0
<1>4. SchemasApart'
  BY <1>1 DEF Ownership, SchemasApart, Only
<1>5. Owned'
  <2>. SUFFICES ASSUME NEW q \in Threads, Generates(q)'
               PROVE  rows'[req'[q].id] = [key |-> KeyOf(q)', flag |-> None]
    BY DEF Owned
  <2>1. CASE q = r
    BY <2>1, <1>0, <1>1
  <2>2. CASE q # r
    <3>1. req'[q] = req[q] /\ Generates(q) /\ KeyOf(q)' = KeyOf(q)
      BY <2>2 DEF Only, Generates, KeyOf
    <3>2. req[q].id \in BuildIds /\ rows[req[q].id] # NoRow
      BY <3>1, GeneratedRow, InHand
    <3>. QED BY <3>1, <3>2, <1>3 DEF Ownership, Owned
  <2>. QED BY <2>1, <2>2
<1>6. Doomed' /\ DoomedApart'
  <2>1. \A q \in Threads : req'[q].pc \in Destroying => req'[q] = req[q]
    BY DEF Only
  <2>2. \A q \in Threads : req[q].doomed \subseteq BuildIds
    BY RequestType DEF Requests
  <2>. QED BY <2>1, <2>2, <1>3 DEF Ownership, Doomed, DoomedApart, SchemaOf
<1>7. Used'
  <2>. SUFFICES ASSUME NEW q \in Threads, req'[q].op \in Using, NEW p \in Threads
               PROVE  /\ rows'[req'[q].id] # NoRow
                      /\ req'[p].op = "build" => SchemaOf(req[q].id)' # req'[p].schema
                      /\ req'[p].pc \in Destroying => req'[q].id \notin req'[p].doomed
    BY DEF Used, SchemaOf
  <2>1. q # r /\ req'[q] = req[q]
    BY <1>1 DEF Only, Using
  <2>2. req[q].id \in BuildIds /\ rows[req[q].id] # NoRow
    BY <2>1 DEF RequestsOK, RequestOK, Ownership, Used
  <2>3. rows'[req[q].id] = rows[req[q].id]
    BY <2>2, <1>3
  <2>4. /\ req'[p].op = req[p].op /\ req'[p].schema = req[p].schema
        /\ req'[p].pc \in Destroying => req'[p] = req[p]
    BY <1>1 DEF Only
  <2>. QED BY <2>1, <2>2, <2>3, <2>4 DEF Ownership, Used, SchemaOf
<1>8. ForeignKey'
  BY <1>3 DEF Ownership, ForeignKey
<1>9. NoInstances'
  <2>1. InstancesOf(n) = {}
    BY DEF Ownership, ForeignKey, InstancesOf, NoInstance, BuildIds
  <2>2. \A q \in Threads : q # r => req'[q] = req[q]
    BY DEF Only
  <2>3. ~Removes(r)'
    BY DEF Removes, Destroying
  <2>. QED BY <2>1, <2>2, <2>3 DEF Ownership, NoInstances, InstancesOf, Generates, Removes
<1>10. Starts'
  BY <1>1 DEF Ownership, Starts, Starting, Only
<1>. QED BY <1>1, <1>2, <1>4, <1>5, <1>6, <1>7, <1>8, <1>9, <1>10 DEF Ownership

LEMMA OpenBuildInv ==
  ASSUME BuildsInv, NEW r \in Threads, OpenBuild(r)
  PROVE  BuildsInv'
<1>. USE DEF BuildsInv
<1>0. /\ req[r].pc = "open"
      /\ UNCHANGED <<images, solvers, temps, files, schemas, retired, instances, slots, up,
                     lockVars>>
  BY DEF OpenBuild, At, docker, process
<1>1. RequestOK(r) /\ req[r].op = "build" /\ LockInv'
  BY <1>0, KindOf, LockStutter
<1>. PICK n : n = NextBuild
  OBVIOUS
<1>2. ASSUME n \in BuildIds,
             rows' = [rows EXCEPT ![n] = [key |-> KeyOf(r), flag |-> None]],
             damaged' = damaged \ {n},
             \/ /\ req' = [req EXCEPT ![r].id = n, ![r].pc = "slot"] /\ faults' = faults
             \/ Fail(r, "unlock") /\ Fault
      PROVE  BuildsInv'
  <2>1. /\ Only(r) /\ Same(r) /\ req'[r].seed = req[r].seed
        /\ \/ req'[r].pc = "slot" /\ req'[r].id = n /\ faults' = faults
           \/ req'[r].pc = "unlock" /\ Fault
    <3>1. CASE req' = [req EXCEPT ![r].id = n, ![r].pc = "slot"] /\ faults' = faults
      BY <3>1, <1>2, OpenedEffect
    <3>2. CASE Fail(r, "unlock") /\ Fault
      BY <3>2, FailEffect DEF Steps
    <3>. QED BY <3>1, <3>2, <1>2
  <2>2. RequestOK(r)'
    BY <1>0, <1>1, <1>2, <2>1 DEF RequestOK, Same, Generates, Removes, Using, BuildSteps,
       Generating, Executing, Destroying, Removal, WithTemp
  <2>3. /\ req'[r].pc \notin Destroying /\ req'[r].pc \notin Executing /\ req'[r].pc \notin WithTemp
        /\ req[r].pc \notin Executing /\ req[r].pc \notin WithTemp /\ ~Generates(r)
        /\ Generates(r)' => req'[r].id = n
        /\ EmptiedAt(r)'
    BY <1>0, <2>1 DEF Generates, Generating, Executing, Destroying, Removal, WithTemp, EmptiedAt, Removes
  <2>4. rows[n] = NoRow
    BY <1>2, FreshNumber
  <2>5. Ownership' /\ KeyOf(r) \in BuildKeys /\ SchemaOf(n)' = req[r].schema
    BY <1>0, <1>1, <1>2, <2>1, <2>3, <2>4, RowInserted
  <2>6. RequestsOK'
    BY <1>0, <2>1, <2>2, RequestsKept
  <2>7. /\ rows'[n] = [key |-> KeyOf(r), flag |-> None] /\ rows'[n].flag = None
        /\ \A m \in BuildIds : m # n => rows'[m] = rows[m]
    BY <1>2 DEF TypeOK
  <2>8. TypeOK'
    <3>1. rows' \in [BuildIds -> [key : BuildKeys, flag : BuildKeys \cup {None}] \cup {NoRow}]
      BY <1>2, <2>5 DEF TypeOK
    <3>2. faults' \in 0..MaxFaults /\ damaged' \subseteq BuildIds
      BY <1>2, <2>1, Disturbed DEF TypeOK
    <3>. QED BY <3>1, <3>2, <1>0, <1>1, <2>1 DEF TypeOK, LockInv, Only
  <2>9. Filled'
    BY <1>0, <2>1 DEF Filled, FilledAt, Only, KeyOf
  <2>10. FinishedIntact'
    <3>1. \A m \in BuildIds : Removing(m) => Removing(m)'
      BY <1>0, <2>1 DEF Removing, Only
    <3>. QED BY <3>1, <2>7, <1>0, <1>2 DEF FinishedIntact
  <2>11. TempsOK' /\ SolversTracked'
    BY <1>0, <2>1, <2>3, TempsKept
  <2>12. SlotsCounted'
    BY <1>0, <2>1, <2>3, SlotsKept
  <2>13. Recorded'
    <3>1. \A q \in Threads : req'[q].op = req[q].op /\ req'[q].schema = req[q].schema
      BY <2>1 DEF Only, Same
    <3>. QED BY <3>1, <1>0, <1>1, <2>5, <2>7 DEF Recorded, SchemaOf
  <2>14. Undisturbed'
    <3>1. CASE Fault
      BY <3>1, Disturbed
    <3>2. CASE req'[r].pc = "slot" /\ req'[r].id = n /\ faults' = faults
      <4>. SUFFICES ASSUME faults = 0 PROVE TempsHeld' /\ Settled' /\ Emptied'
        BY <3>2 DEF Undisturbed
      <4>0. TempsHeld /\ Settled /\ Emptied
        BY DEF Undisturbed
      <4>1. \A q \in Threads : q # r => req'[q] = req[q]
        BY <2>1 DEF Only
      <4>2. TempsHeld'
        BY <4>0, <4>1, <1>0, <2>3 DEF TempsHeld, Holds
      <4>3. Generates(r)' /\ req'[r].id = n
        BY <3>2, <1>1, <2>1 DEF Generates, Generating, Same
      <4>4. Settled'
        <5>1. \A q \in Threads : Generates(q) => Generates(q)' /\ req'[q].id = req[q].id
          BY <4>1, <2>3 DEF Generates
        <5>2. rows'[n] # NoRow
          BY <2>5, <2>7, BuildsAssumption DEF NoRow
        <5>. QED BY <5>1, <5>2, <4>0, <4>3, <1>0, <2>7 DEF Settled
      <4>5. Emptied'
        BY <4>0, <4>1, <1>0, <2>3 DEF Emptied, EmptiedAt, Removes
      <4>. QED BY <4>2, <4>4, <4>5
    <3>. QED BY <3>1, <3>2, <2>1
  <2>. QED BY <1>1, <2>5, <2>6, <2>8, <2>9, <2>10, <2>11, <2>12, <2>13, <2>14
<1>3. ASSUME Fail(r, "unlock"), UNCHANGED <<rows, damaged>>, faults' = faults \/ Fault
      PROVE  BuildsInv'
  <2>1. Only(r) /\ Same(r) /\ req'[r].pc = "unlock" /\ req'[r].seed = req[r].seed
    BY <1>3, FailEffect DEF Steps
  <2>2. /\ RequestOK(r)' /\ req[r].pc \in Outer /\ req'[r].pc \in Outer /\ req'[r].op \notin Using
        /\ ~Starting(r)'
    BY <1>0, <1>1, <2>1 DEF RequestOK, Same, Generates, Removes, Using, BuildSteps, Starting,
       Generating, Executing, Destroying, Removal, WithTemp, Outer, Steps
  <2>3. solvers' \subseteq BuildIds /\ UNCHANGED database
    BY <1>0, <1>3 DEF TypeOK, database
  <2>. QED BY <1>0, <1>1, <1>3, <2>1, <2>2, <2>3, OuterStep
<1>. QED BY <1>2, <1>3 DEF OpenBuild, NoFault

\* The row of the number in hand is left behind, finished or deleted.
LEMMA RowChanged ==
  ASSUME BuildsInv, NEW r \in Threads, Only(r), Generates(r) \/ Removes(r),
         req'[r] = Idle \/ Same(r), ~Generates(r)', ~Removes(r)', ~Starting(r)',
         req'[r].op \notin Using, NEW n, n = req[r].id,
         req'[r].pc \in Destroying =>
           /\ req[r].pc \in Destroying
           /\ req'[r].doomed \subseteq req[r].doomed \ {n},
         \A m \in BuildIds : m # n => rows'[m] = rows[m], instances' = instances
  PROVE  Ownership'
<1>. USE DEF BuildsInv
<1>0. /\ \A q \in Threads : q # r => req'[q] = req[q]
      /\ req'[r].op = "build" => req[r].op = "build" /\ req'[r].schema = req[r].schema
      /\ req'[r].schema \in {req[r].schema, None}
      /\ req'[r].pc \in Destroying => req'[r].schema = req[r].schema
  BY IdleParts DEF Only, Same
<1>1. SchemasApart'
  <2>. SUFFICES ASSUME NEW p \in Threads, NEW q \in Threads, p # q, req'[p].op = "build"
               PROVE  req'[q].schema # req'[p].schema
    BY DEF SchemasApart
  <2>1. req[p].op = "build" /\ req'[p].schema = req[p].schema /\ req[p].schema \in Schemas
    BY <1>0 DEF RequestsOK, RequestOK
  <2>2. req'[q].schema \in {req[q].schema, None}
    BY <1>0
  <2>. QED BY <2>1, <2>2, BuildsAssumption DEF Ownership, SchemasApart
<1>2. Owned'
  <2>. SUFFICES ASSUME NEW q \in Threads, Generates(q)'
               PROVE  rows'[req'[q].id] = [key |-> KeyOf(q)', flag |-> None]
    BY DEF Owned
  <2>1. q # r /\ Generates(q) /\ req'[q] = req[q] /\ KeyOf(q)' = KeyOf(q)
    BY <1>0 DEF Generates, KeyOf
  <2>2. req[q].id \in BuildIds /\ req[q].id # n
    BY <2>1, InHand, Alone
  <2>. QED BY <2>1, <2>2 DEF Ownership, Owned
<1>3. ASSUME NEW q \in Threads, req'[q].pc \in Destroying
      PROVE  /\ req[q].pc \in Destroying /\ req'[q].doomed \subseteq req[q].doomed \ {n}
             /\ req'[q].schema = req[q].schema /\ req[q].doomed \subseteq BuildIds
  <2>1. CASE q = r
    BY <2>1, <1>0, <1>3, RequestType DEF Requests
  <2>2. CASE q # r
    <3>1. req'[q] = req[q] /\ n \notin req[q].doomed
      BY <2>2, <1>0, <1>3, Alone
    <3>. QED BY <3>1, <1>3, RequestType DEF Requests
  <2>. QED BY <2>1, <2>2
<1>4. Doomed'
  BY <1>3 DEF Ownership, Doomed, SchemaOf
<1>5. DoomedApart'
  BY <1>3 DEF Ownership, DoomedApart
<1>6. Used'
  <2>. SUFFICES ASSUME NEW q \in Threads, req'[q].op \in Using, NEW p \in Threads
               PROVE  /\ rows'[req'[q].id] # NoRow
                      /\ req'[p].op = "build" => SchemaOf(req[q].id)' # req'[p].schema
                      /\ req'[p].pc \in Destroying => req'[q].id \notin req'[p].doomed
    BY DEF Used, SchemaOf
  <2>1. q # r /\ req'[q] = req[q]
    BY <1>0
  <2>2. req[q].id \in BuildIds /\ req[q].id # n
    BY <2>1, Alone DEF RequestsOK, RequestOK
  <2>3. req'[p].op = "build" => req[p].op = "build" /\ req'[p].schema = req[p].schema
    BY <1>0
  <2>4. rows'[req[q].id] = rows[req[q].id]
    BY <2>2
  <2>. QED BY <1>3, <2>1, <2>3, <2>4 DEF Ownership, Used, SchemaOf
<1>7. ForeignKey'
  BY DEF Ownership, ForeignKey, NoInstances, InstancesOf
<1>8. NoInstances'
  BY <1>0 DEF Ownership, NoInstances, InstancesOf, Generates, Removes
<1>9. Starts'
  BY <1>0 DEF Ownership, Starts, Starting
<1>. QED BY <1>1, <1>2, <1>4, <1>5, <1>6, <1>7, <1>8, <1>9 DEF Ownership

\* The step that leaves the row of the number in hand, finished or deleted.
LEMMA RowLeft ==
  ASSUME BuildsInv, NEW r \in Threads, Only(r), req'[r] = Idle \/ Same(r),
         req[r].pc \in {"finalize", "forget", "row"},
         req'[r].pc \in {"unlock", "destroy", "schema", "idle"}, RequestOK(r)',
         req[r].op \in {"build", "destroy"}, NEW n \in BuildIds, n = req[r].id,
         req'[r].pc = "destroy" =>
           req[r].pc = "row" /\ req'[r].doomed \subseteq req[r].doomed \ {n},
         NEW x \in [key : BuildKeys, flag : BuildKeys \cup {None}] \cup {NoRow},
         rows' = [rows EXCEPT ![n] = x], x # NoRow => x.key = rows[n].key,
         UNCHANGED <<images, solvers, temps, files, schemas, retired, instances, slots, up,
                     lockVars, faults, damaged>>,
         IntactAt(n)', faults = 0 => SettledAt(n)'
  PROVE  BuildsInv'
<1>. USE DEF BuildsInv
<1>1. Generates(r) \/ Removes(r)
  <2>1. req[r].pc \in {"finalize", "forget"} => req[r].op = "build"
    BY KindOf
  <2>. QED BY <2>1 DEF Generates, Removes, Generating, Removal
<1>2. /\ ~Generates(r)' /\ ~Removes(r)' /\ ~Starting(r)' /\ req'[r].op \notin Using
      /\ req[r].pc \notin WithTemp \cup Executing /\ req'[r].pc \notin WithTemp \cup Executing
      /\ req'[r].pc \in Destroying => req'[r].pc = "destroy"
      /\ req[r].pc = "row" => req[r].pc \in Destroying
      /\ FilledAt(r)' /\ EmptiedAt(r)'
  BY IdleParts DEF Generates, Removes, Generating, Executing, Destroying, Removal, WithTemp, FilledAt,
     EmptiedAt, Starting, Same, Using
<1>3. /\ rows'[n] = x /\ \A m \in BuildIds : m # n => rows'[m] = rows[m]
      /\ OnlyNumber(n)
  BY DEF TypeOK, OnlyNumber
<1>4. Ownership'
  BY <1>1, <1>2, <1>3, RowChanged
<1>5. LockInv' /\ RequestsOK'
  BY LockStutter, RequestsKept
<1>6. TypeOK'
  <2>1. rows' \in [BuildIds -> [key : BuildKeys, flag : BuildKeys \cup {None}] \cup {NoRow}]
    BY DEF TypeOK
  <2>. QED BY <2>1, <1>5 DEF TypeOK, LockInv, Only
<1>7. Filled' /\ FinishedIntact'
  BY <1>1, <1>2, <1>3, ContentWritten
<1>8. TempsOK' /\ SolversTracked'
  BY <1>2, TempsKept
<1>9. SlotsCounted'
  BY <1>2, SlotsKept
<1>10. Recorded'
  <2>1. rows[n] # NoRow
    <3>1. CASE Generates(r)
      BY <3>1, GeneratedRow
    <3>2. CASE Removes(r)
      BY <3>2 DEF Ownership, Doomed, Removes, Destroying, RequestsOK, RequestOK
    <3>. QED BY <1>1, <3>1, <3>2
  <2>2. \A m \in BuildIds : rows'[m] # NoRow => rows[m] # NoRow /\ SchemaOf(m)' = SchemaOf(m)
    BY <1>3, <2>1 DEF SchemaOf
  <2>3. \A q \in Threads : req'[q].op = "build" => req[q].op = "build" /\ req'[q].schema = req[q].schema
    BY IdleParts DEF Only, Same
  <2>. QED BY <2>2, <2>3 DEF Recorded
<1>11. Undisturbed'
  BY <1>1, <1>2, <1>3, UndisturbedWritten
<1>. QED BY <1>4, <1>5, <1>6, <1>7, <1>8, <1>9, <1>10, <1>11

\* The step of a Build that stays with its number, or leaves it by a fault,
\* and changes no table.
LEMMA GeneratingStep ==
  ASSUME BuildsInv, NEW r \in Threads, Only(r), Same(r), Generates(r),
         req[r].pc \notin WithTemp \cup Executing, req'[r].pc \notin WithTemp \cup Executing,
         req'[r].id = req[r].id, req'[r].seed = req[r].seed,
         \/ Generates(r)' /\ faults' = faults
         \/ Fault /\ (Generates(r)' \/ req'[r].pc = "unlock"),
         UNCHANGED <<solvers, temps, schemas, rows, retired, instances, slots, up, lockVars,
                     damaged>>,
         images' = images \/ images' = [images EXCEPT ![req[r].id] = None],
         files' = files \/ files' = [files EXCEPT ![req[r].id] = None],
         req'[r].pc # "finalize", faults = 0 /\ faults' = faults => EmptiedAt(r)'
  PROVE  BuildsInv'
<1>. USE DEF BuildsInv
<1>1. RequestOK(r) /\ req[r].op = "build" /\ req[r].id \in BuildIds
  BY KindOf, InHand DEF Generates
<1>2. FilledAt(r)'
  BY DEF FilledAt, WithTemp, Executing
<1>3. RequestOK(r)' /\ Stays(r) /\ ~Removes(r)' /\ req[r].pc \notin Destroying
  BY <1>1 DEF RequestOK, Stays, Keeps, Starting, Same, Generates, Removes, Using, BuildSteps,
     Generating, Executing, Destroying, Removal, WithTemp
<1>4. LockInv' /\ RequestsOK' /\ Ownership' /\ Recorded'
  BY <1>3, StaysStep
<1>5. images' \in [BuildIds -> BuildKeys \cup {None}] /\ files' \in [BuildIds -> BuildKeys \cup {None}]
  BY <1>1 DEF TypeOK
<1>6. TypeOK'
  BY <1>4, <1>5, Disturbed DEF TypeOK, LockInv, Only
<1>7. Filled' /\ FinishedIntact' /\ Undisturbed'
  <2>. PICK n : n = req[r].id
    OBVIOUS
  <2>1. n \in BuildIds /\ rows[n] # NoRow /\ rows[n].flag = None
    BY <1>1, GeneratedRow
  <2>2. OnlyNumber(n) /\ IntactAt(n)'
    BY <2>1 DEF TypeOK, OnlyNumber, IntactAt
  <2>3. Filled' /\ FinishedIntact'
    BY <1>2, <2>2, ContentWritten
  <2>4. CASE Fault
    BY <2>3, <2>4, Disturbed
  <2>5. CASE Generates(r)' /\ faults' = faults
    <3>1. SettledAt(n)'
      BY <2>1, <2>5 DEF SettledAt
    <3>. QED BY <2>2, <2>3, <2>5, <3>1, UndisturbedWritten
  <2>. QED BY <2>4, <2>5
<1>8. TempsOK' /\ SolversTracked'
  BY TempsKept
<1>9. SlotsCounted'
  BY SlotsKept
<1>. QED BY <1>4, <1>6, <1>7, <1>8, <1>9

LEMMA FinalizeBuildInv ==
  ASSUME BuildsInv, NEW r \in Threads, FinalizeBuild(r)
  PROVE  BuildsInv'
<1>. USE DEF BuildsInv
<1>0. /\ req[r].pc = "finalize"
      /\ UNCHANGED <<images, solvers, temps, files, schemas, retired, instances, slots, up,
                     lockVars, damaged>>
  BY DEF FinalizeBuild, At, docker, process
<1>1. RequestOK(r) /\ req[r].op = "build" /\ Generates(r)
  BY <1>0, KindOf DEF Generates, Generating
<1>. PICK n : n = req[r].id
  OBVIOUS
<1>2. n \in BuildIds /\ rows[n] # NoRow /\ KeyOf(r) \in BuildKeys
      /\ rows[n] = [key |-> KeyOf(r), flag |-> None]
  BY <1>1, InHand, GeneratedRow DEF Ownership, Owned
<1>3. ASSUME rows' = [rows EXCEPT ![n].flag = KeyOf(r)], Goto(r, "unlock"), faults' = faults
      PROVE  BuildsInv'
  <2>. PICK x : x = [key |-> KeyOf(r), flag |-> KeyOf(r)]
    OBVIOUS
  <2>1. rows' = [rows EXCEPT ![n] = x]
    <3>1. [rows[n] EXCEPT !.flag = KeyOf(r)] = x
      BY <1>2
    <3>2. rows' = [rows EXCEPT ![n] = [rows[n] EXCEPT !.flag = KeyOf(r)]]
      BY <1>3
    <3>. QED BY <3>1, <3>2
  <2>2. /\ x \in [key : BuildKeys, flag : BuildKeys \cup {None}] /\ x.key = rows[n].key
        /\ x.key = KeyOf(r) /\ x.flag = KeyOf(r) /\ x.flag # None
    BY <1>2, BuildsAssumption
  <2>3. Only(r) /\ Same(r) /\ req'[r].pc = "unlock" /\ req'[r].seed = req[r].seed
    BY <1>3, GotoEffect DEF Steps
  <2>4. RequestOK(r)'
    BY <1>0, <1>1, <2>3 DEF RequestOK, Same, Generates, Removes, Using, BuildSteps,
       Generating, Executing, Destroying, Removal, WithTemp
  <2>5. images[n] = KeyOf(r) /\ files[n] = KeyOf(r) /\ rows'[n] = x
    BY <1>0, <1>1, <1>2, <2>1 DEF Filled, FilledAt, TypeOK
  <2>6. rows'[n] # NoRow
    BY <2>2, <2>5, BuildsAssumption DEF NoRow
  <2>7. IntactAt(n)' /\ SettledAt(n)'
    BY <1>0, <2>2, <2>5, <2>6 DEF IntactAt, SettledAt
  <2>. HIDE DEF BuildsInv
  <2>. QED BY <1>0, <1>1, <1>2, <1>3, <2>1, <2>2, <2>3, <2>4, <2>7, RowLeft,
               ZenonT(60)
<1>4. ASSUME Fault, Fail(r, "discard"), rows' = rows
      PROVE  BuildsInv'
  <2>1. /\ Only(r) /\ Same(r) /\ req'[r].pc = "discard" /\ req'[r].seed = req[r].seed
        /\ req'[r].id = req[r].id
    BY <1>4, FailEffect DEF Steps
  <2>2. /\ Generates(r)' /\ req[r].pc \notin WithTemp \cup Executing
        /\ req'[r].pc \notin WithTemp \cup Executing /\ EmptiedAt(r)'
    BY <1>0, <1>1, <2>1 DEF Generates, Generating, Same, Executing, WithTemp, EmptiedAt, Removes,
       Removal
  <2>. QED BY <1>0, <1>1, <1>4, <2>1, <2>2, GeneratingStep
<1>. QED BY <1>2, <1>3, <1>4 DEF FinalizeBuild, NoFault

LEMMA DiscardStagedBuildInv ==
  ASSUME BuildsInv, NEW r \in Threads, DiscardStagedBuild(r)
  PROVE  BuildsInv'
<1>. USE DEF BuildsInv
<1>0. /\ req[r].pc = "discard" /\ Goto(r, "forget")
      /\ UNCHANGED <<solvers, temps, schemas, rows, retired, instances, slots, up,
                     lockVars, damaged>>
  BY DEF DiscardStagedBuild, At, database, process
<1>1. RequestOK(r) /\ req[r].op = "build" /\ Generates(r) /\ req[r].id \in BuildIds
  BY <1>0, KindOf, InHand DEF Generates, Generating
<1>. PICK n : n = req[r].id
  OBVIOUS
<1>2. /\ Only(r) /\ Same(r) /\ req'[r].pc = "forget" /\ req'[r].seed = req[r].seed
      /\ req'[r].id = req[r].id
  BY <1>0, GotoEffect DEF Steps
<1>3. /\ \/ images' = [images EXCEPT ![n] = None] /\ files' = [files EXCEPT ![n] = None]
              /\ faults' = faults
         \/ /\ files' = [files EXCEPT ![n] = None] /\ images' = images
            /\ IF InUse("build", n) THEN faults' = faults ELSE Fault
         \/ images' = [images EXCEPT ![n] = None] /\ files' = files /\ Fault
  BY DEF DiscardStagedBuild, Dropped, NoFault
<1>4. ASSUME faults = 0 PROVE ~InUse("build", n)
  <2>. SUFFICES ASSUME NEW t \in Temps, temps[t].image = "build", temps[t].id = n
               PROVE  FALSE
    BY DEF InUse
  <2>1. temps[t] # NoTemp
    BY <1>1 DEF NoTemp, BuildIds
  <2>2. PICK q \in Threads : Holds(q, t)
    BY <1>4, <2>1 DEF Undisturbed, TempsHeld
  <2>3. req[q].op = "build" /\ req[q].id = n /\ req[q].pc \in WithTemp
    BY <2>2 DEF Holds
  <2>4. Generates(q) /\ q # r
    BY <2>3, <1>0 DEF RequestsOK, RequestOK, BuildSteps, Generates, Generating, Executing, Destroying,
       Removal, WithTemp
  <2>. QED BY <2>3, <2>4, <1>1, Alone
<1>5. /\ Generates(r)' /\ req[r].pc \notin WithTemp \cup Executing
      /\ req'[r].pc \notin WithTemp \cup Executing /\ ~Removes(r)'
  BY <1>0, <1>1, <1>2 DEF Generates, Generating, Same, Executing, WithTemp, Removes, Removal
<1>6. faults' = faults \/ Fault
  BY <1>3
<1>7. ASSUME faults = 0, faults' = faults PROVE EmptiedAt(r)'
  <2>1. ~Fault
    BY <1>7 DEF Fault
  <2>2. images' = [images EXCEPT ![n] = None] /\ files' = [files EXCEPT ![n] = None]
    BY <1>3, <1>4, <1>7, <2>1
  <2>3. images'[n] = None /\ files'[n] = None
    BY <2>2, <1>1 DEF TypeOK
  <2>. QED BY <2>3, <1>2, <1>5 DEF EmptiedAt
<1>. QED BY <1>0, <1>1, <1>2, <1>3, <1>5, <1>6, <1>7, GeneratingStep

LEMMA ForgetBuildInv ==
  ASSUME BuildsInv, NEW r \in Threads, ForgetBuild(r)
  PROVE  BuildsInv'
<1>. USE DEF BuildsInv
<1>0. /\ req[r].pc = "forget" /\ Goto(r, "unlock")
      /\ UNCHANGED <<images, solvers, temps, files, schemas, retired, instances, slots, up,
                     lockVars, damaged>>
  BY DEF ForgetBuild, At, docker, process
<1>1. RequestOK(r) /\ req[r].op = "build" /\ Generates(r) /\ req[r].id \in BuildIds
  BY <1>0, KindOf, InHand DEF Generates, Generating
<1>. PICK n : n = req[r].id
  OBVIOUS
<1>2. Only(r) /\ Same(r) /\ req'[r].pc = "unlock" /\ req'[r].seed = req[r].seed
      /\ req'[r].id = req[r].id
  BY <1>0, GotoEffect DEF Steps
<1>3. Deletable(n)
  BY <1>1, GeneratedRow DEF Deletable, Ownership, NoInstances
<1>4. RequestOK(r)'
  BY <1>0, <1>1, <1>2 DEF RequestOK, Same, Generates, Removes, Using, BuildSteps,
     Generating, Executing, Destroying, Removal, WithTemp
<1>5. CASE rows' = [rows EXCEPT ![n] = NoRow] /\ faults' = faults
  <2>1. rows'[n] = NoRow /\ rows'[n].flag = None
    BY <1>1, <1>5 DEF TypeOK, NoRow
  <2>2. IntactAt(n)'
    BY <2>1 DEF IntactAt
  <2>3. faults = 0 => SettledAt(n)'
    BY <1>0, <2>1 DEF SettledAt, Undisturbed, Emptied, EmptiedAt
  <2>. QED BY <1>0, <1>1, <1>2, <1>4, <1>5, <2>2, <2>3, RowLeft
<1>6. CASE rows' = rows /\ Fault
  <2>1. /\ req[r].pc \notin WithTemp \cup Executing
        /\ req'[r].pc \notin WithTemp \cup Executing /\ EmptiedAt(r)'
    BY <1>0, <1>2 DEF Executing, WithTemp, EmptiedAt, Removes, Removal
  <2>. QED BY <1>0, <1>1, <1>2, <1>6, <2>1, GeneratingStep
<1>. QED BY <1>3, <1>5, <1>6 DEF ForgetBuild, NoFault

-----------------------------------------------------------------------------
(* Removal                                                                 *)

\* Steps between the phases that change no table.
LEMMA OuterStays ==
  ASSUME BuildsInv, NEW r \in Threads, Only(r), Stays(r), RequestOK(r)',
         req[r].pc \in Outer \cup {"destroy"}, req'[r].pc \in Outer \cup {"destroy"},
         UNCHANGED <<docker, files, database, process, damaged>>, faults' = faults \/ Fault
  PROVE  BuildsInv'
<1>. USE DEF BuildsInv
<1>1. UNCHANGED <<images, solvers, temps, files, schemas, rows, retired, instances, slots, up,
                  lockVars, damaged>>
  BY DEF docker, database, process
<1>2. LockInv' /\ RequestsOK' /\ Ownership' /\ Recorded'
  BY <1>1, StaysStep
<1>3. /\ TypeOK' /\ Filled' /\ FinishedIntact' /\ TempsOK' /\ SolversTracked' /\ SlotsCounted'
      /\ Undisturbed'
  BY <1>1, <1>2, OuterRest, SMTT(40) DEF TypeOK
<1>. QED BY <1>2, <1>3

LEMMA CollectInv ==
  ASSUME BuildsInv, NEW r \in Threads, Collect(r)
  PROVE  BuildsInv'
<1>. USE DEF BuildsInv
<1>0. /\ req[r].pc = "collect" /\ up' = up
      /\ UNCHANGED <<docker, files, database, process, damaged>>
  BY DEF Collect, At, process
<1>1. RequestOK(r) /\ req[r].op = "build" /\ req[r].pc \in Outer
  BY <1>0, KindOf DEF Outer, Steps, Generating, Executing, Destroying, Removal, WithTemp
<1>2. CASE Goto(r, "schema") /\ Fault
  <2>1. Only(r) /\ Same(r) /\ req'[r].pc = "schema" /\ req'[r].seed = req[r].seed
    BY <1>2, GotoEffect DEF Steps
  <2>2. RequestOK(r)' /\ Stays(r) /\ req'[r].pc \in Outer
    BY <1>0, <1>1, <2>1 DEF RequestOK, Stays, Keeps, Starting, Same, Generates, Removes, Using,
       BuildSteps, Generating, Executing, Destroying, Removal, WithTemp, Outer, Steps
  <2>. QED BY <1>0, <1>1, <1>2, <2>1, <2>2, OuterStays
<1>3. ASSUME NEW d, d = SchemaBuilds(req[r].schema), faults' = faults,
             req' = [req EXCEPT ![r].doomed = d, ![r].id = 0, ![r].pc = "destroy"]
      PROVE  BuildsInv'
  <2>1. d \in SUBSET BuildIds /\ \A n \in d : rows[n] # NoRow /\ SchemaOf(n) = req[r].schema
    BY <1>3 DEF SchemaBuilds
  <2>2. /\ Only(r) /\ Same(r) /\ req'[r].pc = "destroy" /\ req'[r].seed = req[r].seed
        /\ req'[r].doomed = d
    BY <1>3, <2>1, CollectEffect, ZenonT(60)
  <2>3. RequestOK(r)' /\ ~Generates(r)' /\ ~Removes(r)' /\ ~Starting(r)' /\ req'[r].op = "build"
    BY <1>0, <1>1, <2>2 DEF RequestOK, Starting, Same, Generates, Removes, Using,
       BuildSteps, Generating, Executing, Destroying, Removal, WithTemp
  <2>4. UNCHANGED <<images, solvers, temps, files, schemas, rows, retired, instances, slots, up,
                    lockVars, damaged>>
    BY <1>0 DEF docker, database, process
  <2>5. LockInv'
    BY <2>4, LockStutter
  <2>6. /\ TypeOK' /\ RequestsOK' /\ Filled' /\ FinishedIntact' /\ TempsOK' /\ SolversTracked'
        /\ SlotsCounted' /\ Undisturbed'
    BY <1>1, <1>3, <2>2, <2>3, <2>4, <2>5, OuterRest DEF TypeOK
  <2>7. \A q \in Threads : q # r => req'[q] = req[q]
    BY <2>2 DEF Only
  <2>8. SchemasApart'
    BY <1>1, <2>2, <2>7 DEF Ownership, SchemasApart, Same
  <2>9. Owned' /\ NoInstances'
    BY <2>3, <2>4, <2>7 DEF Ownership, Owned, NoInstances, InstancesOf, Generates, Removes, KeyOf
  <2>10. Doomed'
    BY <2>1, <2>2, <2>4, <2>7 DEF Ownership, Doomed, SchemaOf, Same
  <2>11. DoomedApart'
    <3>1. ASSUME NEW q \in Threads, q # r, req[q].pc \in Destroying
          PROVE  req[q].doomed \cap d = {}
      BY <3>1, <1>1, <2>1 DEF Ownership, Doomed, SchemasApart
    <3>. QED BY <3>1, <2>2, <2>7 DEF Ownership, DoomedApart
  <2>12. Used'
    <3>. SUFFICES ASSUME NEW q \in Threads, req'[q].op \in Using, NEW p \in Threads
                 PROVE  /\ rows'[req'[q].id] # NoRow
                        /\ req'[p].op = "build" => SchemaOf(req[q].id)' # req'[p].schema
                        /\ req'[p].pc \in Destroying => req'[q].id \notin req'[p].doomed
      BY DEF Used, SchemaOf
    <3>1. q # r /\ req'[q] = req[q]
      BY <2>3, <2>7 DEF Using
    <3>2. req'[p].op = req[p].op /\ req'[p].schema = req[p].schema
      BY <2>2, <2>7 DEF Same
    <3>3. SchemaOf(req[q].id) # req[r].schema
      BY <3>1, <1>1 DEF Ownership, Used
    <3>. QED BY <3>1, <3>2, <3>3, <2>1, <2>2, <2>4, <2>7 DEF Ownership, Used, SchemaOf
  <2>13. ForeignKey' /\ Starts'
    BY <2>3, <2>4, <2>7 DEF Ownership, ForeignKey, Starts, Starting
  <2>14. Recorded'
    BY <2>2, <2>4, RecordedKept
  <2>. QED BY <2>5, <2>6, <2>8, <2>9, <2>10, <2>11, <2>12, <2>13, <2>14 DEF Ownership
<1>. QED BY <1>2, <1>3 DEF Collect, NoFault

\* Without failed calls only finished builds are removed.
LEMMA FinishedDoomed ==
  ASSUME BuildsInv, faults = 0, NEW r \in Threads, req[r].pc \in Destroying,
         NEW n \in req[r].doomed
  PROVE  n \in BuildIds /\ rows[n] # NoRow /\ rows[n].flag # None
<1>. USE DEF BuildsInv
<1>1. n \in BuildIds /\ rows[n] # NoRow
  BY RequestType DEF Requests, Ownership, Doomed
<1>2. ASSUME rows[n].flag = None PROVE FALSE
  <2>1. PICK q \in Threads : Generates(q) /\ req[q].id = n
    BY <1>1, <1>2 DEF Undisturbed, Settled
  <2>2. q # r
    BY <2>1 DEF Generates, Generating, Executing, Destroying, Removal
  <2>. QED BY <2>1, <2>2, Alone
<1>. QED BY <1>1, <1>2

LEMMA DestroyImagesInv ==
  ASSUME BuildsInv, NEW r \in Threads, DestroyImages(r)
  PROVE  BuildsInv'
<1>. USE DEF BuildsInv
<1>0. /\ req[r].pc = "destroy" /\ up' = up
      /\ UNCHANGED <<docker, files, database, process, damaged>>
  BY DEF DestroyImages, At, process
<1>1. RequestOK(r) /\ req[r].op \in {"build", "destroy"} /\ req[r].doomed \subseteq BuildIds
  BY <1>0, KindOf DEF Destroying, Requests
<1>2. CASE Goto(r, "schema") /\ faults' = faults
  <2>1. Only(r) /\ Same(r) /\ req'[r].pc = "schema" /\ req'[r].seed = req[r].seed
    BY <1>2, GotoEffect DEF Steps
  <2>2. RequestOK(r)' /\ Stays(r) /\ req'[r].pc \in Outer
    BY <1>0, <1>1, <2>1 DEF RequestOK, Stays, Keeps, Starting, Same, Generates, Removes, Using,
       BuildSteps, Generating, Executing, Destroying, Removal, WithTemp, Outer, Steps
  <2>. QED BY <1>0, <1>2, <2>1, <2>2, OuterStays
<1>3. ASSUME NEW n \in req[r].doomed, req[r].op = "build", faults' = faults \/ Fault,
             req' = [req EXCEPT ![r].doomed = @ \ {n}]
      PROVE  BuildsInv'
  <2>1. /\ Only(r) /\ Same(r) /\ req'[r].pc = "destroy" /\ req'[r].seed = req[r].seed
        /\ req'[r].doomed \subseteq req[r].doomed
    BY <1>0, <1>3, SkippedEffect
  <2>2. RequestOK(r)' /\ Stays(r)
    BY <1>0, <1>1, <1>3, <2>1 DEF RequestOK, Stays, Keeps, Starting, Same, Generates, Removes, Using,
       BuildSteps, Generating, Executing, Destroying, Removal, WithTemp
  <2>. QED BY <1>0, <1>3, <2>1, <2>2, OuterStays
<1>4. CASE End(r) /\ (faults' = faults \/ Fault)
  <2>1. Only(r) /\ req'[r] = Idle
    BY <1>4, EndEffect
  <2>2. RequestOK(r)' /\ req'[r].pc \in Outer /\ Stays(r)
    BY <2>1, IdleOK, IdleParts DEF Stays, Keeps, Generates, Removes, Destroying
  <2>. QED BY <1>0, <1>4, <2>1, <2>2, OuterStays
<1>5. ASSUME NEW n \in req[r].doomed, Deletable(n), faults' = faults,
             req' = [req EXCEPT ![r].id = n, ![r].listed = rows[n].flag # None,
                                ![r].pc = "artifacts"]
      PROVE  BuildsInv'
  <2>1. /\ Only(r) /\ Same(r) /\ req'[r].pc = "artifacts" /\ req'[r].seed = req[r].seed
        /\ req'[r].id = n /\ req'[r].doomed = req[r].doomed
        /\ req'[r].listed = (rows[n].flag # None)
    <3>1. PICK l \in BOOLEAN : l = (rows[n].flag # None)
      OBVIOUS
    <3>2. req' = [req EXCEPT ![r].id = n, ![r].listed = l, ![r].pc = "artifacts"]
      BY <1>5, <3>1
    <3>3. TypeOK /\ n \in BuildIds BY <1>1, <1>5 DEF RequestOK, TypeOK, Requests
    <3>. HIDE DEF BuildsInv
    <3>4. Only(r) /\ Same(r) BY <3>1, <3>2, <3>3, ReadEffect, ZenonT(60)
    <3>5. req'[r].pc = "artifacts" BY <3>1, <3>2, <3>3, ReadEffect, ZenonT(60)
    <3>6. req'[r].seed = req[r].seed BY <3>1, <3>2, <3>3, ReadEffect, ZenonT(60)
    <3>7. req'[r].id = n BY <3>1, <3>2, <3>3, ReadEffect, ZenonT(60)
    <3>8. req'[r].doomed = req[r].doomed BY <3>1, <3>2, <3>3, ReadEffect, ZenonT(60)
    <3>9. req'[r].listed = l BY <3>1, <3>2, <3>3, ReadEffect, ZenonT(60)
    <3>. QED BY <3>1, <3>4, <3>5, <3>6, <3>7, <3>8, <3>9
  <2>2. RequestOK(r)' /\ Stays(r) /\ ~Generates(r) /\ FilledAt(r)'
    BY <1>0, <1>1, <1>5, <2>1 DEF RequestOK, Stays, Keeps, Starting, Same, Generates, Removes, Using,
       BuildSteps, Generating, Executing, Destroying, Removal, WithTemp, Deletable, FilledAt
  <2>3. UNCHANGED <<images, solvers, temps, files, schemas, rows, retired, instances, slots, up,
                    lockVars, damaged>>
    BY <1>0 DEF docker, database, process
  <2>4. LockInv' /\ RequestsOK' /\ Ownership' /\ Recorded'
    BY <2>1, <2>2, <2>3, StaysStep
  <2>5. TypeOK'
    BY <1>5, <2>1, <2>3, <2>4 DEF TypeOK, LockInv, Only
  <2>6. Filled' /\ FinishedIntact'
    BY <1>0, <2>1, <2>2, <2>3, ContentKept
  <2>7. /\ req[r].pc \notin WithTemp \cup Executing
        /\ req'[r].pc \notin WithTemp \cup Executing
    BY <1>0, <2>1 DEF WithTemp, Executing
  <2>8. TempsOK' /\ SolversTracked' /\ SlotsCounted'
    BY <2>1, <2>3, <2>7, TempsKept, SlotsKept
  <2>9. faults = 0 => EmptiedAt(r)'
    BY <1>0, <1>5, <2>1, FinishedDoomed DEF EmptiedAt, Destroying
  <2>10. Undisturbed'
    BY <1>5, <2>1, <2>2, <2>3, <2>7, <2>9, UndisturbedKept
  <2>. QED BY <2>4, <2>5, <2>6, <2>8, <2>10
<1>. QED BY <1>1, <1>2, <1>3, <1>4, <1>5, ZenonT(60) DEF DestroyImages, NoFault

\* destroyImages has returned.
LEMMA DestroyedEffect ==
  ASSUME BuildsInv, NEW r \in Threads, Removes(r), NEW ok \in BOOLEAN, Destroyed(r, ok), up' = up
  PROVE  /\ Only(r) /\ RequestOK(r)' /\ Stays(r) /\ req[r].op \in {"build", "destroy"}
         /\ req'[r].pc \in {"destroy", "schema", "idle"}
         /\ req'[r].pc = "destroy" => req'[r].doomed \subseteq req[r].doomed \ {req[r].id}
<1>. USE DEF BuildsInv
<1>1. RequestOK(r) /\ req[r].op \in {"build", "destroy"} /\ req[r].doomed \subseteq BuildIds
  BY KindOf DEF Removes, Destroying, Requests
<1>2. CASE req[r].op = "build"
  <2>. PICK d : d = req[r].doomed \ {req[r].id}
    OBVIOUS
  <2>1. req' = [req EXCEPT ![r].id = 0, ![r].doomed = d, ![r].pc = "destroy"]
    BY <1>2 DEF Destroyed, TypeOK
  <2>2. /\ Only(r) /\ Same(r) /\ req'[r].pc = "destroy" /\ req'[r].seed = req[r].seed
        /\ req'[r].doomed = d
    <3>1. d \in SUBSET BuildIds
      BY <1>1
    <3>. QED BY <2>1, <3>1, PassedEffect, ZenonT(60)
  <2>3. RequestOK(r)' /\ Stays(r)
    BY <1>1, <1>2, <2>2 DEF RequestOK, Stays, Keeps, Starting, Same, Generates, Removes, Using,
       BuildSteps, Generating, Executing, Destroying, Removal, WithTemp
  <2>. QED BY <1>1, <2>2, <2>3
<1>3. CASE req[r].op = "destroy" /\ ok
  <2>1. Goto(r, "schema")
    BY <1>3 DEF Destroyed
  <2>2. Only(r) /\ Same(r) /\ req'[r].pc = "schema" /\ req'[r].seed = req[r].seed
    BY <2>1, GotoEffect DEF Steps
  <2>3. RequestOK(r)' /\ Stays(r)
    BY <1>1, <1>3, <2>2 DEF RequestOK, Stays, Keeps, Starting, Same, Generates, Removes, Using,
       BuildSteps, Generating, Executing, Destroying, Removal, WithTemp
  <2>. QED BY <1>1, <2>2, <2>3
<1>4. CASE req[r].op = "destroy" /\ ~ok
  <2>1. Only(r) /\ req'[r] = Idle
    BY <1>4, EndEffect DEF Destroyed
  <2>2. RequestOK(r)' /\ req'[r].pc = "idle" /\ Stays(r)
    BY <2>1, IdleOK, IdleParts DEF Stays, Keeps, Generates, Removes, Destroying
  <2>. QED BY <1>1, <2>1, <2>2
<1>. QED BY <1>1, <1>2, <1>3, <1>4

\* A removal that is cut short.
LEMMA RemovalFails ==
  ASSUME BuildsInv, NEW r \in Threads, Removes(r), Destroyed(r, FALSE), Fault,
         \/ damaged' = damaged /\ req[r].pc = "artifacts"
         \/ damaged' = damaged \cup {req[r].id},
         UNCHANGED <<docker, files, database, process>>
  PROVE  BuildsInv'
<1>. USE DEF BuildsInv
<1>1. UNCHANGED <<images, solvers, temps, files, schemas, rows, retired, instances, slots, up,
                  lockVars>>
  BY DEF docker, database, process
<1>2. /\ Only(r) /\ RequestOK(r)' /\ Stays(r)
      /\ req'[r].pc \in {"destroy", "schema", "idle"}
  BY <1>1, DestroyedEffect
<1>3. LockInv' /\ RequestsOK' /\ Ownership' /\ Recorded'
  BY <1>1, <1>2, StaysStep
<1>. PICK n : n = req[r].id
  OBVIOUS
<1>4. n \in BuildIds
  BY InHand
<1>5. TypeOK' /\ Undisturbed'
  BY <1>1, <1>2, <1>3, <1>4, Disturbed DEF TypeOK, LockInv, Only
<1>6. /\ req[r].pc \notin WithTemp \cup Executing /\ FilledAt(r)'
      /\ req'[r].pc \notin WithTemp \cup Executing
  BY <1>2 DEF Removes, Removal, WithTemp, Executing, FilledAt
<1>7. Filled' /\ FinishedIntact'
  <2>1. CASE damaged' = damaged /\ req[r].pc = "artifacts"
    BY <2>1, <1>1, <1>2, <1>6, ContentKept
  <2>2. CASE damaged' = damaged \cup {n}
    <3>1. OnlyNumber(n)
      BY <2>2, <1>1 DEF OnlyNumber
    <3>2. IntactAt(n)'
      BY <2>2, <1>1, <1>4 DEF IntactAt, FinishedIntact
    <3>. QED BY <3>1, <3>2, <1>2, <1>6, ContentWritten
  <2>. QED BY <2>1, <2>2
<1>8. TempsOK' /\ SolversTracked' /\ SlotsCounted'
  BY <1>1, <1>2, <1>6, TempsKept, SlotsKept
<1>. QED BY <1>3, <1>5, <1>7, <1>8

\* A removal that goes on.
LEMMA RemovalGoesOn ==
  ASSUME BuildsInv, NEW r \in Threads, NEW p \in {"untag", "row"}, Goto(r, p),
         req[r].pc = IF p = "untag" THEN "artifacts" ELSE "untag",
         images' = images \/ images' = [images EXCEPT ![req[r].id] = None],
         files' = files \/ files' = [files EXCEPT ![req[r].id] = None],
         p = "untag" /\ req[r].listed => files' = [files EXCEPT ![req[r].id] = None],
         p = "row" /\ req[r].listed => images' = [images EXCEPT ![req[r].id] = None],
         p = "row" => files' = files,
         UNCHANGED <<solvers, temps, database, process, faults, damaged>>
  PROVE  BuildsInv'
<1>. USE DEF BuildsInv
<1>1. UNCHANGED <<solvers, temps, schemas, rows, retired, instances, slots, up, lockVars,
                  faults, damaged>>
  BY DEF database, process
<1>2. Removes(r) /\ req[r].pc \in {"artifacts", "untag"}
  BY DEF Removes, Removal
<1>3. /\ RequestOK(r) /\ req[r].op \in {"build", "destroy"} /\ req[r].id \in BuildIds
      /\ req[r].id \in req[r].doomed
  BY <1>2, KindOf, InHand DEF Removes, Destroying, RequestOK
<1>4. /\ Only(r) /\ Same(r) /\ req'[r].pc = p /\ req'[r].seed = req[r].seed
      /\ req'[r].id = req[r].id /\ req'[r].listed = req[r].listed
      /\ req'[r].doomed = req[r].doomed
  BY GotoEffect DEF Steps
<1>5. /\ RequestOK(r)' /\ Stays(r) /\ FilledAt(r)' /\ Removes(r)'
      /\ req[r].pc \notin WithTemp \cup Executing /\ req'[r].pc \notin WithTemp \cup Executing
  BY <1>1, <1>2, <1>3, <1>4 DEF RequestOK, Stays, Keeps, Starting, Same, Generates, Removes, Using,
     BuildSteps, Generating, Executing, Destroying, Removal, WithTemp, FilledAt
<1>6. LockInv' /\ RequestsOK' /\ Ownership' /\ Recorded'
  BY <1>1, <1>4, <1>5, StaysStep
<1>7. TypeOK'
  <2>1. images' \in [BuildIds -> BuildKeys \cup {None}] /\ files' \in [BuildIds -> BuildKeys \cup {None}]
    BY <1>3 DEF TypeOK
  <2>. QED BY <2>1, <1>1, <1>4, <1>6 DEF TypeOK, LockInv, Only
<1>. PICK n : n = req[r].id
  OBVIOUS
<1>8. OnlyNumber(n)
  BY <1>1, <1>3 DEF TypeOK, OnlyNumber
<1>9. IntactAt(n)'
  <2>1. Removing(n)'
    BY <1>4 DEF Removing
  <2>. QED BY <2>1, <1>1, <1>3 DEF IntactAt, FinishedIntact
<1>10. Filled' /\ FinishedIntact'
  BY <1>2, <1>4, <1>5, <1>8, <1>9, ContentWritten
<1>11. TempsOK' /\ SolversTracked' /\ SlotsCounted'
  BY <1>1, <1>4, <1>5, TempsKept, SlotsKept
<1>12. ASSUME faults = 0 PROVE EmptiedAt(r)' /\ SettledAt(n)'
  <2>1. EmptiedAt(r) /\ req[r].listed
    BY <1>2, <1>12 DEF Undisturbed, Emptied, EmptiedAt
  <2>2. rows[n] # NoRow /\ rows[n].flag # None
    BY <1>2, <1>3, <1>12, FinishedDoomed DEF Removes, Destroying
  <2>3. SettledAt(n)'
    BY <2>2, <1>1 DEF SettledAt
  <2>4. CASE p = "untag"
    <3>1. files'[req[r].id] = None
      BY <2>1, <2>4, <1>3 DEF TypeOK
    <3>. QED BY <2>1, <2>3, <2>4, <3>1, <1>4 DEF EmptiedAt, Removes
  <2>5. CASE p = "row"
    <3>1. images'[req[r].id] = None /\ files'[req[r].id] = None
      BY <2>1, <2>5, <1>2, <1>3 DEF TypeOK, EmptiedAt
    <3>. QED BY <2>1, <2>3, <2>5, <3>1, <1>4 DEF EmptiedAt, Removes
  <2>. QED BY <2>4, <2>5
<1>13. Undisturbed'
  BY <1>1, <1>2, <1>4, <1>5, <1>8, <1>12, UndisturbedWritten
<1>. QED BY <1>6, <1>7, <1>10, <1>11, <1>13

LEMMA RemoveArtifactsInv ==
  ASSUME BuildsInv, NEW r \in Threads, RemoveArtifacts(r)
  PROVE  BuildsInv'
<1>0. /\ req[r].pc = "artifacts" /\ UNCHANGED <<docker, database, process, damaged>>
      /\ Removes(r)
  BY DEF RemoveArtifacts, At, Removes, Removal
<1>1. UNCHANGED <<images, solvers, temps>>
  BY <1>0 DEF docker
<1>2. CASE /\ files' = IF req[r].listed THEN [files EXCEPT ![req[r].id] = None] ELSE files
           /\ Goto(r, "untag") /\ faults' = faults
  BY <1>0, <1>1, <1>2, RemovalGoesOn
<1>3. CASE Fault /\ Destroyed(r, FALSE) /\ files' = files
  BY <1>0, <1>3, RemovalFails
<1>. QED BY <1>2, <1>3 DEF RemoveArtifacts, NoFault

LEMMA RemoveImagesInv ==
  ASSUME BuildsInv, NEW r \in Threads, RemoveImages(r)
  PROVE  BuildsInv'
<1>0. /\ req[r].pc = "untag" /\ UNCHANGED <<solvers, temps, files, database, process>>
      /\ Removes(r)
  BY DEF RemoveImages, At, Removes, Removal
<1>1. CASE /\ images' = IF req[r].listed THEN [images EXCEPT ![req[r].id] = None] ELSE images
           /\ Goto(r, "row") /\ faults' = faults /\ damaged' = damaged
  BY <1>0, <1>1, RemovalGoesOn
<1>2. CASE /\ Fault /\ Destroyed(r, FALSE) /\ damaged' = damaged \cup {req[r].id}
           /\ images' = images
  <2>1. UNCHANGED docker
    BY <1>0, <1>2 DEF docker
  <2>. QED BY <1>0, <1>2, <2>1, RemovalFails
<1>. QED BY <1>1, <1>2 DEF RemoveImages, NoFault

LEMMA RemoveRowInv ==
  ASSUME BuildsInv, NEW r \in Threads, RemoveRow(r)
  PROVE  BuildsInv'
<1>. USE DEF BuildsInv
<1>0. /\ req[r].pc = "row" /\ Removes(r)
      /\ UNCHANGED <<docker, files, schemas, retired, instances, process>>
  BY DEF RemoveRow, At, Removes, Removal
<1>1. UNCHANGED <<images, solvers, temps, slots, up, lockVars>>
  BY <1>0 DEF docker, process
<1>2. RequestOK(r) /\ req[r].id \in req[r].doomed /\ req[r].id \in BuildIds
  BY <1>0, InHand DEF RequestsOK, RequestOK
<1>3. Deletable(req[r].id)
  BY <1>0, <1>2 DEF Ownership, Doomed, NoInstances, Deletable, Removes, Destroying
<1>4. CASE /\ rows' = [rows EXCEPT ![req[r].id] = NoRow] /\ damaged' = damaged
           /\ faults' = faults /\ Destroyed(r, TRUE)
  <2>. PICK n : n = req[r].id
    OBVIOUS
  <2>1. /\ Only(r) /\ RequestOK(r)' /\ Stays(r) /\ req[r].op \in {"build", "destroy"}
        /\ req'[r].pc \in {"destroy", "schema", "idle"}
        /\ req'[r].pc = "destroy" => req'[r].doomed \subseteq req[r].doomed \ {n}
    BY <1>0, <1>1, <1>4, DestroyedEffect
  <2>2. rows'[n] = NoRow /\ rows'[n].flag = None
    BY <1>2, <1>4 DEF TypeOK, NoRow
  <2>3. IntactAt(n)'
    BY <2>2 DEF IntactAt
  <2>4. faults = 0 => SettledAt(n)'
    BY <1>0, <1>1, <2>2 DEF SettledAt, Undisturbed, Emptied, EmptiedAt
  <2>5. req'[r] = Idle \/ Same(r)
    BY <2>1 DEF Stays, Keeps
  <2>. QED BY <1>0, <1>1, <1>2, <1>4, <2>1, <2>3, <2>4, <2>5, RowLeft
<1>5. CASE /\ Fault /\ damaged' = damaged \cup {req[r].id} /\ rows' = rows /\ Destroyed(r, FALSE)
  <2>1. UNCHANGED database
    BY <1>0, <1>5 DEF database
  <2>. QED BY <1>0, <1>5, <2>1, RemovalFails
<1>. QED BY <1>3, <1>4, <1>5 DEF RemoveRow, NoFault

LEMMA DeleteSchemaRecordIfEmptyInv ==
  ASSUME BuildsInv, NEW r \in Threads, DeleteSchemaRecordIfEmpty(r)
  PROVE  BuildsInv'
<1>. USE DEF BuildsInv
<1>0. /\ req[r].pc = "schema" /\ End(r) /\ (faults' = faults \/ Fault)
      /\ \/ schemas' = schemas
         \/ schemas' = schemas \ {req[r].schema} /\ SchemaBuilds(req[r].schema) = {}
      /\ UNCHANGED <<images, solvers, temps, files, rows, retired, instances, slots, up,
                     lockVars, damaged>>
  BY DEF DeleteSchemaRecordIfEmpty, At, docker, process, NoFault
<1>1. Only(r) /\ req'[r] = Idle
  BY <1>0, EndEffect
<1>2. RequestOK(r)' /\ req'[r].pc \in Outer /\ Stays(r) /\ req[r].pc \in Outer
  BY <1>0, <1>1, IdleOK, IdleParts DEF Stays, Keeps, Generates, Removes, Generating, Executing, Destroying,
     Removal, WithTemp, Outer, Steps
<1>3. LockInv' /\ schemas' \subseteq Schemas
  BY <1>0, LockStutter DEF TypeOK
<1>4. /\ TypeOK' /\ RequestsOK' /\ Filled' /\ FinishedIntact' /\ TempsOK' /\ SolversTracked'
      /\ SlotsCounted' /\ Undisturbed'
  BY <1>0, <1>1, <1>2, <1>3, OuterRest DEF TypeOK
<1>5. Ownership'
  BY <1>0, <1>1, <1>2, OwnershipKept
<1>6. Recorded'
  <2>1. ASSUME NEW n \in BuildIds, rows'[n] # NoRow PROVE SchemaOf(n)' \in schemas'
    BY <1>0, <2>1 DEF Recorded, SchemaOf, SchemaBuilds
  <2>2. ASSUME NEW q \in Threads, req'[q].op = "build" PROVE req'[q].schema \in schemas'
    <3>1. q # r /\ req'[q] = req[q]
      BY <1>1, <2>2, IdleParts DEF Only
    <3>. QED BY <3>1, <2>2, <1>0 DEF Recorded, Ownership, SchemasApart
  <2>. QED BY <2>1, <2>2 DEF Recorded
<1>. QED BY <1>3, <1>4, <1>5, <1>6

-----------------------------------------------------------------------------
(* Instances                                                               *)

\* A step of a Start that changes its instance.
LEMMA InstanceStep ==
  ASSUME BuildsInv, NEW r \in Threads, Only(r), req'[r] = Idle \/ Same(r), req[r].op = "start",
         req[r].pc \in Outer, req'[r].pc \in Outer, RequestOK(r)',
         req'[r].op \in Using => req'[r].id = req[r].id,
         NEW i \in InstanceIds, NEW x \in [build : 0..MaxBuilds, live : BOOLEAN],
         instances' = [instances EXCEPT ![i] = x],
         \/ x = NoInstance \/ x.build = req[r].id
         \/ instances[i] # NoInstance /\ x.build = instances[i].build,
         Starting(r)' => req'[r].inst = i /\ x # NoInstance,
         \A q \in Threads : q # r /\ Starting(q) => req[q].inst # i,
         UNCHANGED <<docker, files, schemas, rows, retired, process, damaged>>,
         faults' = faults \/ Fault
  PROVE  BuildsInv'
<1>. USE DEF BuildsInv
<1>0. UNCHANGED <<images, solvers, temps, slots, up, lockVars>>
  BY DEF docker, process
<1>1. /\ instances'[i] = x /\ \A j \in InstanceIds : j # i => instances'[j] = instances[j]
      /\ instances' \in [InstanceIds -> [build : 0..MaxBuilds, live : BOOLEAN]]
  BY DEF TypeOK
<1>2. LockInv'
  BY <1>0, LockStutter
<1>3. /\ TypeOK' /\ RequestsOK' /\ Filled' /\ FinishedIntact' /\ TempsOK' /\ SolversTracked'
      /\ SlotsCounted' /\ Undisturbed'
  BY <1>0, <1>1, <1>2, OuterRest DEF TypeOK
<1>4. /\ \A q \in Threads : q # r => req'[q] = req[q]
      /\ ~Generates(r)' /\ ~Removes(r)' /\ Keeps(r)
      /\ rows[req[r].id] # NoRow /\ req[r].id \in BuildIds
  BY DEF Only, Outer, Generates, Removes, Destroying, Keeps, Ownership, Used, Using, RequestsOK, RequestOK
<1>5. SchemasApart' /\ Owned' /\ Doomed' /\ DoomedApart' /\ Used'
  BY <1>4, RowsKept
<1>6. ForeignKey'
  BY <1>1, <1>4 DEF Ownership, ForeignKey
<1>7. NoInstances'
  <2>. SUFFICES ASSUME NEW q \in Threads, (Generates(q) \/ Removes(q))', NEW j \in InstanceIds,
                      instances'[j].build = req'[q].id
               PROVE  FALSE
    BY DEF NoInstances, InstancesOf
  <2>1. q # r /\ req'[q] = req[q] /\ (Generates(q) \/ Removes(q))
    BY <1>4 DEF Generates, Removes
  <2>2. req[q].id \in BuildIds /\ req[q].id # req[r].id /\ InstancesOf(req[q].id) = {}
    BY <2>1, Alone DEF Using, Ownership, NoInstances
  <2>3. instances[j].build # req[q].id
    BY <2>2 DEF InstancesOf
  <2>4. j = i /\ x.build = req[q].id
    BY <2>1, <2>3, <1>1
  <2>. QED BY <2>2, <2>3, <2>4 DEF NoInstance, BuildIds
<1>8. Starts'
  <2>1. \A q \in Threads : q # r /\ Starting(q)' =>
          Starting(q) /\ req'[q] = req[q] /\ req[q].inst # i /\ req[q].inst \in InstanceIds
    BY <1>4 DEF Starting, RequestsOK, RequestOK
  <2>. QED BY <2>1, <1>1 DEF Ownership, Starts
<1>9. Recorded'
  BY RecordedKept
<1>. QED BY <1>2, <1>3, <1>5, <1>6, <1>7, <1>8, <1>9 DEF Ownership

LEMMA OpenInstanceInv ==
  ASSUME BuildsInv, NEW r \in Threads, OpenInstance(r)
  PROVE  BuildsInv'
<1>. USE DEF BuildsInv
<1>0. /\ req[r].pc = "instance"
      /\ UNCHANGED <<docker, files, schemas, rows, retired, process, damaged>> /\ up' = up
  BY DEF OpenInstance, At, process
<1>1. RequestOK(r) /\ req[r].op = "start" /\ req[r].id \in BuildIds /\ req[r].pc \in Outer
  BY <1>0, KindOf DEF RequestOK, Using, Outer, Steps, Generating, Executing, Destroying, Removal,
     WithTemp
<1>. PICK i : i = NextInstance
  OBVIOUS
<1>2. ASSUME i \in InstanceIds, faults' = faults,
             instances' = [instances EXCEPT ![i] = [build |-> req[r].id, live |-> FALSE]],
             req' = [req EXCEPT ![r].inst = i, ![r].pc = "reference"]
      PROVE  BuildsInv'
  <2>0. PICK x \in [build : 0..MaxBuilds, live : BOOLEAN] :
          x.build = req[r].id /\ instances' = [instances EXCEPT ![i] = x]
    BY <1>1, <1>2, Numbers
  <2>1. /\ Only(r) /\ Same(r) /\ req'[r].pc = "reference" /\ req'[r].seed = req[r].seed
        /\ req'[r].id = req[r].id /\ req'[r].inst = i
    <3>1. TypeOK BY DEF BuildsInv
    <3>. HIDE DEF BuildsInv
    <3>2. Only(r) /\ Same(r) BY <1>2, <3>1, InstanceEffect
    <3>3. req'[r].pc = "reference" BY <1>2, <3>1, InstanceEffect
    <3>4. req'[r].inst = i BY <1>2, <3>1, InstanceEffect
    <3>5. req'[r].id = req[r].id BY <1>2, <3>1, InstanceEffect
    <3>6. req'[r].seed = req[r].seed BY <1>2, <3>1, InstanceEffect
    <3>. QED BY <3>2, <3>3, <3>4, <3>5, <3>6
  <2>2. RequestOK(r)' /\ req'[r].pc \in Outer
    BY <1>0, <1>1, <1>2, <2>1 DEF RequestOK, Same, Generates, Removes, Using, StartSteps, Generating,
       Executing, Destroying, Removal, WithTemp, Outer, Steps
  <2>3. \A q \in Threads : q # r /\ Starting(q) => req[q].inst # i
    BY <1>2, FreshInstance DEF Ownership, Starts
  <2>4. x # NoInstance /\ i \in InstanceIds /\ faults' = faults
    BY <1>1, <1>2, <2>0 DEF NoInstance, BuildIds
  <2>. QED BY <1>0, <1>1, <2>0, <2>1, <2>2, <2>3, <2>4, InstanceStep
<1>3. CASE End(r) /\ instances' = instances /\ (faults' = faults \/ Fault)
  <2>1. Only(r) /\ req'[r] = Idle
    BY <1>3, EndEffect
  <2>2. RequestOK(r)' /\ req'[r].pc \in Outer /\ Stays(r)
    BY <2>1, IdleOK, IdleParts DEF Stays, Keeps, Generates, Removes, Destroying
  <2>3. UNCHANGED database
    BY <1>0, <1>3 DEF database
  <2>. QED BY <1>0, <1>1, <1>3, <2>1, <2>2, <2>3, OuterStays
<1>. QED BY <1>2, <1>3 DEF OpenInstance, NoFault

LEMMA LaunchInv ==
  ASSUME BuildsInv, NEW r \in Threads, Launch(r)
  PROVE  BuildsInv'
<1>. USE DEF BuildsInv
<1>0. /\ req[r].pc = "launch"
      /\ UNCHANGED <<docker, files, schemas, rows, retired, process, damaged>> /\ up' = up
  BY DEF Launch, At, process
<1>1. /\ RequestOK(r) /\ req[r].op = "start" /\ req[r].id \in BuildIds /\ req[r].pc \in Outer
      /\ req[r].inst \in InstanceIds /\ req[r].listed \in BOOLEAN /\ Starting(r)
  BY <1>0, KindOf DEF RequestOK, Using, Outer, Steps, Generating, Executing, Destroying, Removal,
     WithTemp, Requests, Starting
<1>2. ASSUME Only(r), Same(r), req'[r].pc = "unlock", req'[r].id = req[r].id,
             req'[r].inst = req[r].inst
      PROVE  RequestOK(r)' /\ req'[r].pc \in Outer /\ Stays(r)
  BY <1>0, <1>1, <1>2 DEF RequestOK, Stays, Keeps, Same, Starting, Generates, Removes, Using,
     StartSteps, Generating, Executing, Destroying, Removal, WithTemp, Outer, Steps
<1>3. CASE /\ Goto(r, "unlock") /\ faults' = faults
           /\ instances' = [instances EXCEPT ![req[r].inst].live = req[r].listed]
  <2>1. /\ Only(r) /\ Same(r) /\ req'[r].pc = "unlock" /\ req'[r].id = req[r].id
        /\ req'[r].inst = req[r].inst
    BY <1>3, GotoEffect DEF Steps
  <2>. PICK i : i = req[r].inst
    OBVIOUS
  <2>. PICK x : x = [instances[i] EXCEPT !.live = req[r].listed]
    OBVIOUS
  <2>2. instances' = [instances EXCEPT ![i] = x]
    BY <1>3
  <2>3. instances[i] # NoInstance /\ instances[i] \in [build : 0..MaxBuilds, live : BOOLEAN]
    BY <1>1 DEF Ownership, Starts, TypeOK
  <2>4. instances[i].build \in BuildIds
    BY <1>1, <2>3 DEF Ownership, ForeignKey
  <2>5. x \in [build : 0..MaxBuilds, live : BOOLEAN] /\ x.build = instances[i].build
    BY <1>1, <2>3
  <2>6. x # NoInstance
    BY <2>4, <2>5 DEF NoInstance, BuildIds
  <2>7. \A q \in Threads : q # r /\ Starting(q) => req[q].inst # i
    BY <1>1 DEF Ownership, Starts
  <2>8. RequestOK(r)' /\ req'[r].pc \in Outer
    BY <1>2, <2>1
  <2>9. i \in InstanceIds /\ req'[r].inst = i /\ faults' = faults
    BY <1>1, <1>3, <2>1
  <2>. QED BY <1>0, <1>1, <2>1, <2>2, <2>3, <2>5, <2>6, <2>7, <2>8, <2>9, InstanceStep
<1>4. CASE Fail(r, "unlock") /\ instances' = instances /\ (faults' = faults \/ Fault)
  <2>1. /\ Only(r) /\ Same(r) /\ req'[r].pc = "unlock" /\ req'[r].id = req[r].id
        /\ req'[r].inst = req[r].inst
    BY <1>4, FailEffect DEF Steps
  <2>2. UNCHANGED database
    BY <1>0, <1>4 DEF database
  <2>. QED BY <1>0, <1>1, <1>2, <1>4, <2>1, <2>2, OuterStays
<1>. QED BY <1>3, <1>4 DEF Launch, NoFault

LEMMA UndoInstanceInv ==
  ASSUME BuildsInv, NEW r \in Threads, UndoInstance(r)
  PROVE  BuildsInv'
<1>. USE DEF BuildsInv
<1>0. /\ req[r].pc = "undo" /\ End(r)
      /\ UNCHANGED <<docker, files, schemas, rows, retired, process, damaged>>
  BY DEF UndoInstance, At
<1>1. /\ RequestOK(r) /\ req[r].op = "start" /\ req[r].pc \in Outer
      /\ req[r].inst \in InstanceIds /\ Starting(r)
  BY <1>0, KindOf DEF RequestOK, Using, Outer, Steps, Generating, Executing, Destroying, Removal,
     WithTemp, Starting
<1>2. Only(r) /\ req'[r] = Idle
  BY <1>0, EndEffect
<1>3. /\ RequestOK(r)' /\ req'[r].pc \in Outer /\ Stays(r) /\ ~Starting(r)'
      /\ req'[r].op \notin Using
  BY <1>2, IdleOK, IdleParts DEF Stays, Keeps, Generates, Removes, Destroying
<1>4. CASE instances' = [instances EXCEPT ![req[r].inst] = NoInstance] /\ faults' = faults
  <2>1. NoInstance \in [build : 0..MaxBuilds, live : BOOLEAN]
    BY Numbers DEF NoInstance
  <2>2. \A q \in Threads : q # r /\ Starting(q) => req[q].inst # req[r].inst
    BY <1>1 DEF Ownership, Starts
  <2>. HIDE DEF BuildsInv
  <2>3. PICK i, x : i = req[r].inst /\ x = NoInstance OBVIOUS
  <2>4. /\ i \in InstanceIds /\ x \in [build : 0..MaxBuilds, live : BOOLEAN]
        /\ instances' = [instances EXCEPT ![i] = x] /\ x = NoInstance
        /\ \A q \in Threads : q # r /\ Starting(q) => req[q].inst # i
    BY <1>1, <1>4, <2>1, <2>2, <2>3
  <2>5. /\ Only(r) /\ req'[r] = Idle /\ req[r].op = "start"
        /\ req[r].pc \in Outer /\ req'[r].pc \in Outer /\ RequestOK(r)'
        /\ req'[r].op \notin Using /\ ~Starting(r)' /\ faults' = faults
        /\ UNCHANGED <<docker, files, schemas, rows, retired, process, damaged>>
    BY <1>0, <1>1, <1>2, <1>3, <1>4
  <2>. QED BY <2>4, <2>5, InstanceStep, ZenonT(60)
<1>5. CASE instances' = instances /\ Fault
  <2>1. UNCHANGED database
    BY <1>0, <1>5 DEF database
  <2>. QED BY <1>0, <1>1, <1>2, <1>3, <1>5, <2>1, OuterStays
<1>. QED BY <1>4, <1>5 DEF UndoInstance, NoFault

\* Instances that no Start works on go.
LEMMA InstancesGone ==
  ASSUME BuildsInv, req' = req, rows' = rows,
         NEW gone \in SUBSET InstanceIds,
         \A r \in Threads : Starting(r) => req[r].inst \notin gone,
         instances' = [i \in InstanceIds |-> IF i \in gone THEN NoInstance ELSE instances[i]]
  PROVE  /\ Ownership'
         /\ instances' \in [InstanceIds -> [build : 0..MaxBuilds, live : BOOLEAN]]
<1>. USE DEF BuildsInv
<1>1. \A i \in InstanceIds : /\ i \in gone => instances'[i] = NoInstance
                             /\ i \notin gone => instances'[i] = instances[i]
  OBVIOUS
<1>2. instances' \in [InstanceIds -> [build : 0..MaxBuilds, live : BOOLEAN]]
  BY Numbers DEF TypeOK, NoInstance
<1>3. SchemasApart' /\ Owned' /\ Doomed' /\ DoomedApart' /\ Used'
  BY DEF Ownership, SchemasApart, Owned, Doomed, DoomedApart, Used, SchemaOf, Generates, KeyOf
<1>4. ForeignKey'
  BY <1>1 DEF Ownership, ForeignKey
<1>5. NoInstances'
  <2>. SUFFICES ASSUME NEW q \in Threads, Generates(q) \/ Removes(q), NEW j \in InstanceIds,
                      instances'[j].build = req[q].id
               PROVE  FALSE
    BY DEF NoInstances, InstancesOf, Generates, Removes
  <2>1. req[q].id \in BuildIds /\ instances[j].build # req[q].id
    BY InHand DEF Ownership, NoInstances, InstancesOf
  <2>. QED BY <2>1, <1>1 DEF NoInstance, BuildIds
<1>6. Starts'
  <2>1. \A r \in Threads : Starting(r) => req[r].inst \in InstanceIds
    BY DEF Starting, RequestsOK, RequestOK
  <2>. QED BY <2>1, <1>1 DEF Ownership, Starts, Starting
<1>. QED BY <1>2, <1>3, <1>4, <1>5, <1>6 DEF Ownership

LEMMA StopInv ==
  ASSUME BuildsInv, NEW i \in InstanceIds, Stop(i)
  PROVE  BuildsInv'
<1>. USE DEF BuildsInv
<1>0. /\ Returned(i) /\ instances' = [instances EXCEPT ![i] = NoInstance]
      /\ UNCHANGED <<images, solvers, temps, files, schemas, rows, retired, slots, up, lockVars,
                     req, faults, damaged>>
  BY DEF Stop, docker, process
<1>1. Ownership' /\ instances' \in [InstanceIds -> [build : 0..MaxBuilds, live : BOOLEAN]]
  <2>1. instances' = [j \in InstanceIds |-> IF j \in {i} THEN NoInstance ELSE instances[j]]
    BY <1>0 DEF TypeOK
  <2>2. \A r \in Threads : Starting(r) => req[r].inst \notin {i}
    BY <1>0 DEF Returned, Starting
  <2>. QED BY <1>0, <2>1, <2>2, InstancesGone
<1>2. LockInv'
  BY <1>0, LockStutter
<1>3. TypeOK'
  BY <1>0, <1>1, <1>2 DEF TypeOK, LockInv
<1>4. RequestsOK' /\ SlotsCounted' /\ Recorded'
  BY <1>0 DEF RequestsOK, RequestOK, Generates, Removes, SlotsCounted, Slotted, Recorded, SchemaOf
<1>5. Filled' /\ FinishedIntact' /\ TempsOK' /\ SolversTracked'
  BY <1>0 DEF Filled, FilledAt, KeyOf, FinishedIntact, Removing, TempsOK, SolversTracked
<1>6. Undisturbed'
  BY <1>0 DEF Undisturbed, TempsHeld, Holds, Settled, Generates, Emptied, EmptiedAt, Removes
<1>. QED BY <1>1, <1>2, <1>3, <1>4, <1>5, <1>6

-----------------------------------------------------------------------------
(* New requests                                                            *)

\* A new request has no number in hand.
LEMMA Arrives ==
  ASSUME BuildsInv, NEW r \in Threads, NEW x \in Requests, req[r] = Idle,
         req' = [req EXCEPT ![r] = x], up, x.op # "none",
         x.pc \in {"collect", "reference", "destroy", "instance", "solver"},
         x.op = "start" => x.pc = "instance", RequestOK(r)',
         schemas' \subseteq Schemas,
         UNCHANGED <<docker, files, rows, retired, instances, process, faults, damaged>>,
         SchemasApart', Doomed', DoomedApart', Used', Recorded'
  PROVE  BuildsInv'
<1>. USE DEF BuildsInv
<1>0. UNCHANGED <<images, solvers, temps, slots, up, lockVars>> /\ LockInv'
  BY LockStutter DEF docker, process
<1>1. Only(r) /\ req'[r] = x /\ \A q \in Threads : q # r => req'[q] = req[q]
  BY Replaced DEF Only
<1>2. req[r].pc \in Outer /\ req'[r].pc \in Outer \cup {"destroy"}
  BY <1>1, IdleParts DEF Outer, Steps, Generating, Executing, Destroying, Removal, WithTemp
<1>3. /\ TypeOK' /\ RequestsOK' /\ Filled' /\ FinishedIntact' /\ TempsOK' /\ SolversTracked'
      /\ SlotsCounted' /\ Undisturbed'
  BY <1>0, <1>1, <1>2, OuterRest DEF TypeOK
<1>4. ~Generates(r)' /\ ~Removes(r)' /\ ~Starting(r)'
  BY <1>1 DEF Generates, Removes, Starting, Generating, Executing, Removal
<1>5. Owned' /\ NoInstances'
  BY <1>1, <1>4 DEF Ownership, Owned, NoInstances, InstancesOf, Generates, Removes, KeyOf
<1>6. ForeignKey' /\ Starts'
  BY <1>1, <1>4 DEF Ownership, ForeignKey, Starts, Starting
<1>. QED BY <1>0, <1>3, <1>5, <1>6 DEF Ownership

LEMMA BuildInv ==
  ASSUME BuildsInv, NEW r \in Threads, NEW n \in 1..MaxSeeds, Build(r, n)
  PROVE  BuildsInv'
<1>. USE DEF BuildsInv
<1>0. /\ up /\ req[r] = Idle
      /\ UNCHANGED <<docker, files, rows, retired, instances, process, faults, damaged>>
  BY DEF Build
<1>1. PICK s \in Schemas, refused \in BOOLEAN :
        /\ FreshSchema(s) /\ schemas' = schemas \cup {s}
        /\ req' = [req EXCEPT ![r] = [Idle EXCEPT
                     !.op = "build", !.schema = s, !.seed = 1, !.seeds = n, !.err = refused,
                     !.pc = IF refused THEN "collect" ELSE "reference"]]
  BY DEF Build
<1>2. PICK x : x = [Idle EXCEPT !.op = "build", !.schema = s, !.seed = 1, !.seeds = n,
                      !.err = refused, !.pc = IF refused THEN "collect" ELSE "reference"]
  OBVIOUS
<1>3. /\ x \in Requests /\ x.op = "build" /\ x.schema = s /\ x.seed = 1
      /\ x.pc \in {"collect", "reference"}
  <2>1. 1 \in 0..MaxSeeds /\ n \in 0..MaxSeeds /\ 0 \in 0..MaxBuilds /\ 0 \in 0..MaxInstances
    BY BuildsAssumption
  <2>. QED BY <1>2, <2>1 DEF Idle, Requests, Steps
<1>4. req' = [req EXCEPT ![r] = x]
  BY <1>1, <1>2
<1>5. req'[r] = x /\ \A q \in Threads : q # r => req'[q] = req[q]
  BY <1>3, <1>4, Replaced DEF Only
<1>6. RequestOK(r)'
  <2>1. 1 \in 1..MaxSeeds /\ up'
    BY <1>0, BuildsAssumption DEF process
  <2>2. x.pc \in BuildSteps /\ x.pc \notin Generating \cup Removal \cup WithTemp
    BY <1>3 DEF BuildSteps, Generating, Executing, Removal, WithTemp
  <2>. QED BY <1>3, <1>5, <2>1, <2>2 DEF RequestOK, Generates, Removes, Using
<1>7. SchemasApart'
  BY <1>1, <1>3, <1>5 DEF FreshSchema, Ownership, SchemasApart
<1>8. Doomed' /\ DoomedApart'
  <2>1. \A q \in Threads : req'[q].pc \in Destroying => req'[q] = req[q]
    BY <1>3, <1>5 DEF Destroying, Removal
  <2>. QED BY <2>1, <1>0 DEF Ownership, Doomed, DoomedApart, SchemaOf
<1>9. Used'
  <2>. SUFFICES ASSUME NEW q \in Threads, req'[q].op \in Using, NEW p \in Threads
               PROVE  /\ rows'[req'[q].id] # NoRow
                      /\ req'[p].op = "build" => SchemaOf(req[q].id)' # req'[p].schema
                      /\ req'[p].pc \in Destroying => req'[q].id \notin req'[p].doomed
    BY DEF Used, SchemaOf
  <2>1. req'[q] = req[q] /\ req[q].id \in BuildIds /\ rows[req[q].id] # NoRow
    BY <1>3, <1>5 DEF Using, RequestsOK, RequestOK, Ownership, Used
  <2>2. SchemaOf(req[q].id) # s
    BY <2>1, <1>1 DEF FreshSchema, SchemaBuilds
  <2>3. req'[p].pc \in Destroying => req'[p] = req[p]
    BY <1>3, <1>5 DEF Destroying, Removal
  <2>. QED BY <2>1, <2>2, <2>3, <1>0, <1>3, <1>5 DEF Ownership, Used, SchemaOf
<1>10. Recorded'
  BY <1>0, <1>1, <1>3, <1>5 DEF Recorded, SchemaOf
<1>11. schemas' \subseteq Schemas
  BY <1>1 DEF TypeOK
<1>. QED BY <1>0, <1>3, <1>4, <1>6, <1>7, <1>8, <1>9, <1>10, <1>11, Arrives

\* A build that is free is in nobody's hands.
LEMMA FreeBuild ==
  ASSUME BuildsInv, NEW n, NEW ops, Free(n, ops), rows[n] # NoRow, NEW q \in Threads
  PROVE  /\ "build" \in ops => ~(req[q].op = "build" /\ req[q].schema = SchemaOf(n))
         /\ {"build", "destroy"} \subseteq ops => ~(req[q].pc \in Destroying /\ n \in req[q].doomed)
         /\ Using \subseteq ops => ~(req[q].op \in Using /\ req[q].id = n)
<1>1. req[q].op # "none" => req[q] # Idle
  BY IdleParts
<1>2. req[q].pc \in Destroying => req[q].op \in {"build", "destroy"}
  BY KindOf DEF BuildsInv
<1>. QED BY <1>1, <1>2 DEF Free, WorksOn, Using

LEMMA DestroyInv ==
  ASSUME BuildsInv, NEW r \in Threads, NEW n \in BuildIds, Destroy(r, n)
  PROVE  BuildsInv'
<1>. USE DEF BuildsInv
<1>0. /\ up /\ req[r] = Idle /\ rows[n] # NoRow
      /\ Free(n, {"build", "destroy", "start", "check"})
      /\ UNCHANGED <<docker, files, database, process, faults, damaged>>
      /\ UNCHANGED <<schemas, rows, retired, instances>>
  BY DEF Destroy, database
<1>1. SchemaOf(n) \in Schemas
  BY <1>0 DEF TypeOK, SchemaOf, BuildKeys
<1>2. PICK x : x = [Idle EXCEPT !.op = "destroy", !.doomed = {n}, !.schema = SchemaOf(n),
                      !.pc = "destroy"]
  OBVIOUS
<1>3. /\ x \in Requests /\ x.op = "destroy" /\ x.schema = SchemaOf(n) /\ x.pc = "destroy"
      /\ x.doomed = {n}
  <2>1. 0 \in 0..MaxSeeds /\ 0 \in 0..MaxBuilds /\ 0 \in 0..MaxInstances
    BY BuildsAssumption
  <2>. QED BY <1>1, <1>2, <2>1 DEF Idle, Requests, Steps
<1>4. req' = [req EXCEPT ![r] = x]
  BY <1>2 DEF Destroy
<1>5. req'[r] = x /\ \A q \in Threads : q # r => req'[q] = req[q]
  BY <1>3, <1>4, Replaced DEF Only
<1>6. RequestOK(r)'
  <2>1. up'
    BY <1>0 DEF process
  <2>. QED BY <1>1, <1>3, <1>5, <2>1 DEF RequestOK, Generates, Removes, Using, Destroying, Removal,
          WithTemp
<1>7. \A q \in Threads :
        /\ ~(req[q].op = "build" /\ req[q].schema = SchemaOf(n))
        /\ ~(req[q].pc \in Destroying /\ n \in req[q].doomed)
        /\ ~(req[q].op \in Using /\ req[q].id = n)
  BY <1>0, FreeBuild DEF Using
<1>8. SchemasApart'
  BY <1>3, <1>5, <1>7 DEF Ownership, SchemasApart
<1>9. Doomed'
  BY <1>0, <1>3, <1>5 DEF Ownership, Doomed, SchemaOf
<1>10. DoomedApart'
  BY <1>3, <1>5, <1>7 DEF Ownership, DoomedApart
<1>11. Used'
  <2>. SUFFICES ASSUME NEW q \in Threads, req'[q].op \in Using, NEW p \in Threads
               PROVE  /\ rows'[req'[q].id] # NoRow
                      /\ req'[p].op = "build" => SchemaOf(req[q].id)' # req'[p].schema
                      /\ req'[p].pc \in Destroying => req'[q].id \notin req'[p].doomed
    BY DEF Used, SchemaOf
  <2>1. req'[q] = req[q]
    BY <1>3, <1>5 DEF Using
  <2>. QED BY <2>1, <1>0, <1>3, <1>5, <1>7 DEF Ownership, Used, SchemaOf
<1>12. Recorded'
  BY <1>0, <1>3, <1>5 DEF Recorded, SchemaOf
<1>13. schemas' \subseteq Schemas
  BY <1>0 DEF TypeOK
<1>. QED BY <1>0, <1>3, <1>4, <1>6, <1>8, <1>9, <1>10, <1>11, <1>12, <1>13, Arrives

\* A Start or a check begins.
LEMMA UseBegins ==
  ASSUME BuildsInv, NEW r \in Threads, NEW x \in Requests, up, req[r] = Idle,
         req' = [req EXCEPT ![r] = x], x.op \in Using, x.id \in BuildIds, rows[x.id] # NoRow,
         x.pc = IF x.op = "start" THEN "instance" ELSE "solver", x.schema = None,
         Free(x.id, {"build", "destroy"}),
         UNCHANGED <<docker, files, database, process, faults, damaged>>
  PROVE  BuildsInv'
<1>. USE DEF BuildsInv
<1>0. UNCHANGED <<schemas, rows, retired, instances>>
  BY DEF database
<1>1. req'[r] = x /\ \A q \in Threads : q # r => req'[q] = req[q]
  BY Replaced DEF Only
<1>2. x.pc \in {"instance", "solver"} /\ x.op \in {"start", "check"}
  BY DEF Using
<1>3. RequestOK(r)'
  <2>1. up'
    BY DEF process
  <2>. QED BY <1>1, <1>2, <2>1 DEF RequestOK, Generates, Removes, Removal, StartSteps, CheckSteps,
          WithTemp
<1>4. \A q \in Threads :
        /\ ~(req[q].op = "build" /\ req[q].schema = SchemaOf(x.id))
        /\ ~(req[q].pc \in Destroying /\ x.id \in req[q].doomed)
  BY FreeBuild
<1>5. \A q \in Threads : /\ req'[q].pc \in Destroying => req'[q] = req[q]
                         /\ req'[q].op = "build" => req'[q] = req[q]
  BY <1>1, <1>2 DEF Destroying, Removal
<1>6. SchemasApart'
  <2>. SUFFICES ASSUME NEW p \in Threads, NEW q \in Threads, p # q, req'[p].op = "build"
               PROVE  req'[q].schema # req'[p].schema
    BY DEF SchemasApart
  <2>1. req'[p] = req[p] /\ req[p].schema \in Schemas
    BY <1>5 DEF RequestsOK, RequestOK
  <2>2. req'[q].schema \in {req[q].schema, None}
    BY <1>1
  <2>. QED BY <2>1, <2>2, BuildsAssumption DEF Ownership, SchemasApart
<1>7. Doomed' /\ DoomedApart'
  BY <1>0, <1>5 DEF Ownership, Doomed, DoomedApart, SchemaOf
<1>8. Used'
  <2>. SUFFICES ASSUME NEW q \in Threads, req'[q].op \in Using, NEW p \in Threads
               PROVE  /\ rows'[req'[q].id] # NoRow
                      /\ req'[p].op = "build" => SchemaOf(req[q].id)' # req'[p].schema
                      /\ req'[p].pc \in Destroying => req'[q].id \notin req'[p].doomed
    BY DEF Used, SchemaOf
  <2>1. CASE q = r
    BY <2>1, <1>0, <1>1, <1>4, <1>5 DEF SchemaOf
  <2>2. CASE q # r
    BY <2>2, <1>0, <1>1, <1>5 DEF Ownership, Used, SchemaOf
  <2>. QED BY <2>1, <2>2
<1>9. Recorded'
  BY <1>0, <1>5 DEF Recorded, SchemaOf
<1>10. schemas' \subseteq Schemas /\ x.op # "none"
  BY <1>0, <1>2 DEF TypeOK
<1>. QED BY <1>0, <1>2, <1>3, <1>6, <1>7, <1>8, <1>9, <1>10, Arrives

LEMMA StartInv ==
  ASSUME BuildsInv, NEW r \in Threads, NEW n \in BuildIds, Start(r, n)
  PROVE  BuildsInv'
<1>1. PICK l \in BOOLEAN : l = (rows[n].flag # None)
  OBVIOUS
<1>2. PICK x : x = [Idle EXCEPT !.op = "start", !.id = n, !.listed = l, !.pc = "instance"]
  OBVIOUS
<1>3. /\ x \in Requests /\ x.op = "start" /\ x.id = n /\ x.pc = "instance" /\ x.schema = None
  <2>1. 0 \in 0..MaxSeeds /\ n \in 0..MaxBuilds /\ 0 \in 0..MaxInstances
    BY Numbers, BuildsAssumption
  <2>. QED BY <1>1, <1>2, <2>1 DEF Idle, Requests, Steps
<1>4. req' = [req EXCEPT ![r] = x]
  BY <1>1, <1>2 DEF Start
<1>5. /\ up /\ req[r] = Idle /\ rows[n] # NoRow /\ Free(n, {"build", "destroy"})
      /\ UNCHANGED <<docker, files, database, process, faults, damaged>>
  BY DEF Start
<1>. QED BY <1>3, <1>4, <1>5, UseBegins DEF Using

LEMMA CheckInstanceInv ==
  ASSUME BuildsInv, NEW r \in Threads, NEW i \in InstanceIds, CheckInstance(r, i)
  PROVE  BuildsInv'
<1>. PICK n : n = instances[i].build
  OBVIOUS
<1>1. /\ up /\ req[r] = Idle /\ instances[i] # NoInstance /\ Free(n, {"build", "destroy"})
      /\ UNCHANGED <<docker, files, database, process, faults, damaged>>
  BY DEF CheckInstance, Returned
<1>2. n \in BuildIds /\ rows[n] # NoRow
  BY <1>1 DEF BuildsInv, Ownership, ForeignKey
<1>3. PICK x : x = [Idle EXCEPT !.op = "check", !.inst = i, !.id = n, !.pc = "solver"]
  OBVIOUS
<1>4. /\ x \in Requests /\ x.op = "check" /\ x.id = n /\ x.pc = "solver" /\ x.schema = None
  <2>1. 0 \in 0..MaxSeeds /\ n \in 0..MaxBuilds /\ i \in 0..MaxInstances
    BY <1>2, Numbers, BuildsAssumption
  <2>. QED BY <1>3, <2>1 DEF Idle, Requests, Steps
<1>5. req' = [req EXCEPT ![r] = x]
  BY <1>3 DEF CheckInstance
<1>. QED BY <1>1, <1>2, <1>4, <1>5, UseBegins DEF Using

-----------------------------------------------------------------------------
(* The process dies and starts again                                       *)

\* Without requests, what is left to say is about the tables.
LEMMA NoRequests ==
  ASSUME BuildsInv, \A r \in Threads : req'[r] = Idle, slots' = 0,
         UNCHANGED <<images, files, rows, schemas>>,
         \A n \in BuildIds : n \in damaged \/ Removing(n) => n \in damaged',
         ForeignKey'
  PROVE  /\ RequestsOK' /\ Ownership' /\ Filled' /\ FinishedIntact' /\ TempsOK'
         /\ SlotsCounted' /\ Recorded'
<1>. USE DEF BuildsInv
<1>1. \A r \in Threads : /\ req'[r].op = "none" /\ req'[r].pc = "idle"
                         /\ ~Generates(r)' /\ ~Removes(r)' /\ ~Starting(r)'
                         /\ req'[r].pc \notin Destroying \cup WithTemp \cup Executing
                         /\ req'[r].op \notin Using
  BY IdleParts DEF Generates, Removes, Starting, Using, Executing, Removal, Destroying
<1>2. RequestsOK'
  BY <1>1, IdleOK DEF RequestsOK
<1>3. Ownership'
  BY <1>1 DEF Ownership, SchemasApart, Owned, Doomed, DoomedApart, Used, NoInstances, Starts
<1>4. Filled' /\ TempsOK'
  BY <1>1 DEF Filled, FilledAt, TempsOK, WithTemp
<1>5. FinishedIntact'
  BY DEF FinishedIntact
<1>6. SlotsCounted'
  <2>1. Slotted' = {}
    BY <1>1 DEF Slotted
  <2>. QED BY <2>1, FS_EmptySet DEF SlotsCounted
<1>7. Recorded'
  BY <1>1 DEF Recorded, SchemaOf
<1>. QED BY <1>2, <1>3, <1>4, <1>5, <1>6, <1>7

LEMMA CrashInv ==
  ASSUME BuildsInv, Crash
  PROVE  BuildsInv'
<1>. USE DEF BuildsInv
<1>0. /\ up' = FALSE /\ Fault /\ slots' = 0 /\ req' = [r \in Threads |-> Idle]
      /\ damaged' = damaged \cup
           {req[r].id : r \in {q \in Threads : req[q].pc = "untag" \/ req[q].pc = "row"}}
      /\ UNCHANGED <<images, solvers, temps, files, schemas, rows, retired, instances>>
  BY DEF Crash, At, docker, database
<1>1. LockInv'
  <2>1. LockInit'
    BY DEF Crash, LockInit
  <2>2. (LockInit => LockInv)'
    BY LockInitInv, PTL
  <2>. QED BY <2>1, <2>2
<1>2. \A r \in Threads : req'[r] = Idle
  BY <1>0
<1>3. \A n \in BuildIds : n \in damaged \/ Removing(n) => n \in damaged'
  BY <1>0 DEF Removing
<1>4. ForeignKey' /\ SolversTracked'
  BY <1>0 DEF Ownership, ForeignKey, SolversTracked
<1>5. /\ RequestsOK' /\ Ownership' /\ Filled' /\ FinishedIntact' /\ TempsOK'
      /\ SlotsCounted' /\ Recorded'
  BY <1>0, <1>2, <1>3, <1>4, NoRequests
<1>6. TypeOK'
  <2>1. damaged' \subseteq BuildIds
    <3>1. \A r \in Threads : req[r].pc = "untag" \/ req[r].pc = "row" => req[r].id \in BuildIds
      BY InHand DEF Removes, Removal
    <3>. QED BY <3>1, <1>0 DEF TypeOK
  <2>2. req' \in [Threads -> Requests] /\ slots' \in 0..MaxConcurrentBuilds
    BY <1>0, IdleType, BuildsAssumption
  <2>3. faults' \in 0..MaxFaults
    BY <1>0, Disturbed
  <2>. QED BY <2>1, <2>2, <2>3, <1>0, <1>1 DEF TypeOK, LockInv
<1>7. Undisturbed'
  BY <1>0, Disturbed
<1>. QED BY <1>1, <1>4, <1>5, <1>6, <1>7

LEMMA RecoverInv ==
  ASSUME BuildsInv, Recover
  PROVE  BuildsInv'
<1>. USE DEF BuildsInv
<1>0. /\ ~up /\ up' = TRUE
      /\ UNCHANGED <<images, solvers, files, schemas, rows, slots, lockVars, req, damaged>>
  BY DEF Recover
<1>1. PICK gone \in SUBSET retired, fixed \in SUBSET {i \in InstanceIds : ~instances[i].live} :
        /\ faults' = faults \/ Fault
        /\ temps' = [t \in Temps |-> IF t \in gone THEN NoTemp ELSE temps[t]]
        /\ retired' = retired \ gone
        /\ instances' = [i \in InstanceIds |-> IF i \in fixed THEN NoInstance ELSE instances[i]]
  BY DEF Recover, NoFault
<1>2. \A r \in Threads : req[r] = Idle /\ req'[r] = Idle
  BY <1>0 DEF RequestsOK, RequestOK
<1>3. \A r \in Threads : ~Starting(r) /\ ~Removing(req[r].id)
  BY <1>2, IdleParts DEF Starting, Removing
<1>4. Ownership' /\ instances' \in [InstanceIds -> [build : 0..MaxBuilds, live : BOOLEAN]]
  BY <1>0, <1>1, <1>3, InstancesGone
<1>5. \A n \in BuildIds : n \in damaged \/ Removing(n) => n \in damaged'
  BY <1>0, <1>2, IdleParts DEF Removing
<1>6. slots' = 0
  <2>1. Slotted = {}
    BY <1>2, IdleParts DEF Slotted
  <2>. QED BY <2>1, <1>0, FS_EmptySet DEF SlotsCounted
<1>7. /\ RequestsOK' /\ Filled' /\ FinishedIntact' /\ TempsOK' /\ SlotsCounted' /\ Recorded'
  BY <1>0, <1>2, <1>4, <1>5, <1>6, NoRequests DEF Ownership
<1>8. SolversTracked'
  BY <1>1 DEF SolversTracked, NoTemp
<1>9. LockInv'
  BY <1>0, LockStutter
<1>10. TypeOK'
  <2>1. temps' \in [Temps -> [image : {"build", "check"}, id : BuildIds,
                              running : BOOLEAN] \cup {NoTemp}]
    BY <1>1 DEF TypeOK
  <2>2. retired' \subseteq Temps /\ faults' \in 0..MaxFaults
    BY <1>1, Disturbed DEF TypeOK
  <2>. QED BY <2>1, <2>2, <1>0, <1>4, <1>9 DEF TypeOK, LockInv
<1>11. Undisturbed'
  <2>1. CASE Fault
    BY <2>1, Disturbed
  <2>2. CASE faults' = faults
    <3>. SUFFICES ASSUME faults = 0 PROVE TempsHeld' /\ Settled' /\ Emptied'
      BY <2>2 DEF Undisturbed
    <3>0. TempsHeld /\ Settled /\ Emptied
      BY DEF Undisturbed
    <3>1. \A t \in Temps : temps[t] = NoTemp
      BY <3>0, <1>2, IdleParts DEF TempsHeld, Holds
    <3>2. TempsHeld'
      BY <3>1, <1>1 DEF TempsHeld
    <3>3. Settled' /\ Emptied'
      BY <3>0, <1>0 DEF Settled, Generates, Emptied, EmptiedAt, Removes
    <3>. QED BY <3>2, <3>3
  <2>. QED BY <2>1, <2>2, <1>1
<1>. QED BY <1>4, <1>7, <1>8, <1>9, <1>10, <1>11

-----------------------------------------------------------------------------
(* The invariant, and what follows from it                                 *)

LEMMA InitInv == Init => BuildsInv
<1>. SUFFICES ASSUME Init PROVE BuildsInv
  OBVIOUS
<1>0. /\ LockInit /\ schemas = {} /\ rows = [n \in BuildIds |-> NoRow]
      /\ images = [n \in BuildIds |-> None] /\ files = [n \in BuildIds |-> None]
      /\ solvers = {} /\ temps = [t \in Temps |-> NoTemp] /\ retired = {}
      /\ instances = [i \in InstanceIds |-> NoInstance]
      /\ slots = 0 /\ req = [r \in Threads |-> Idle]
      /\ up = TRUE /\ faults = 0 /\ damaged = {}
  BY DEF Init
<1>1. LockInv
  BY <1>0, LockInitInv
<1>2. TypeOK
  <2>1. 0 \in 0..MaxBuilds /\ 0 \in 0..MaxConcurrentBuilds /\ 0 \in 0..MaxFaults
    BY BuildsAssumption
  <2>2. instances \in [InstanceIds -> [build : 0..MaxBuilds, live : BOOLEAN]]
    BY <1>0, <2>1 DEF NoInstance
  <2>3. req \in [Threads -> Requests]
    BY <1>0, IdleType
  <2>. QED BY <1>0, <1>1, <2>1, <2>2, <2>3 DEF TypeOK, LockInv
<1>3. \A r \in Threads : /\ req[r] = Idle /\ req[r].op = "none" /\ req[r].pc = "idle"
                         /\ ~Generates(r) /\ ~Removes(r) /\ ~Starting(r)
                         /\ req[r].pc \notin Destroying \cup WithTemp \cup Executing
                         /\ req[r].op \notin Using
  BY <1>0, IdleParts DEF Generates, Removes, Starting, Using, Executing, Removal, Destroying
<1>4. RequestsOK
  BY <1>3 DEF RequestsOK, RequestOK, Using
<1>5. Ownership
  BY <1>0, <1>3 DEF Ownership, SchemasApart, Owned, Doomed, DoomedApart, Used, NoInstances, Starts,
     ForeignKey
<1>6. Filled /\ TempsOK
  BY <1>3 DEF Filled, FilledAt, TempsOK, WithTemp
<1>7. FinishedIntact /\ Recorded /\ SolversTracked
  BY <1>0, <1>3 DEF FinishedIntact, Recorded, SolversTracked, NoRow, NoTemp
<1>8. SlotsCounted
  <2>1. Slotted = {}
    BY <1>3 DEF Slotted
  <2>. QED BY <2>1, <1>0, FS_EmptySet DEF SlotsCounted
<1>9. Undisturbed
  BY <1>0, <1>3 DEF Undisturbed, TempsHeld, Settled, Emptied, EmptiedAt
<1>. QED BY <1>1, <1>2, <1>4, <1>5, <1>6, <1>7, <1>8, <1>9 DEF BuildsInv

\* A step that changes nothing.
LEMMA BuildsStutter ==
  ASSUME BuildsInv, UNCHANGED vars
  PROVE  BuildsInv'
<1>. USE DEF BuildsInv
<1>0. UNCHANGED <<images, solvers, temps, files, schemas, rows, retired, instances, slots, up,
                  lockVars, req, faults, damaged>>
  BY DEF vars, docker, database, process
<1>1. LockInv'
  BY <1>0, LockStutter
<1>2. TypeOK'
  BY <1>0, <1>1 DEF TypeOK, LockInv
<1>3. RequestsOK' /\ SlotsCounted' /\ Recorded'
  BY <1>0 DEF RequestsOK, RequestOK, Generates, Removes, SlotsCounted, Slotted, Recorded, SchemaOf
<1>4. Filled' /\ FinishedIntact' /\ TempsOK' /\ SolversTracked'
  BY <1>0 DEF Filled, FilledAt, KeyOf, FinishedIntact, Removing, TempsOK, SolversTracked
<1>5. Ownership'
  BY <1>0 DEF Ownership, SchemasApart, Owned, Doomed, DoomedApart, Used, SchemaOf, Generates, KeyOf,
     ForeignKey, NoInstances, InstancesOf, Removes, Starts, Starting
<1>6. Undisturbed'
  BY <1>0 DEF Undisturbed, TempsHeld, Holds, Settled, Generates, Emptied, EmptiedAt, Removes
<1>. QED BY <1>1, <1>2, <1>3, <1>4, <1>5, <1>6

LEMMA StepInv ==
  ASSUME BuildsInv, NEW r \in Threads, Step(r)
  PROVE  BuildsInv'
BY ReferenceLockInv, WaitForLockInv, OpenBuildInv, TakeSlotInv, BuildImagesInv, CreateTemporaryInv,
   RetireTemporaryInv, CopyOutInv, RemoveTemporaryInv, FinalizeBuildInv, DiscardStagedBuildInv,
   ForgetBuildInv, ReleaseLockInv, DropLockInv, CollectInv, DestroyImagesInv, RemoveArtifactsInv,
   RemoveImagesInv, RemoveRowInv, DeleteSchemaRecordIfEmptyInv, OpenInstanceInv, LaunchInv,
   UndoInstanceInv, BuildSolverInv, StartSolverInv, WaitForSolverInv, ClearSolverInv DEF Step

\* What the program counters of the requests say is true in every state:
\* the inductive invariant that the theorems below rest on.
THEOREM RequestsKeepTheirBuilds == Spec => []BuildsInv
<1>1. Init => BuildsInv
  BY InitInv
<1>2. BuildsInv /\ [Next]_vars => BuildsInv'
  <2>. SUFFICES ASSUME BuildsInv, [Next]_vars PROVE BuildsInv'
    OBVIOUS
  <2>1. ASSUME NEW r \in Threads, Step(r) PROVE BuildsInv'
    BY <2>1, StepInv
  <2>2. ASSUME NEW r \in Threads, NEW n \in 1..MaxSeeds, Build(r, n) PROVE BuildsInv'
    BY <2>2, BuildInv
  <2>3. ASSUME NEW r \in Threads, NEW n \in BuildIds, Destroy(r, n) PROVE BuildsInv'
    BY <2>3, DestroyInv
  <2>4. ASSUME NEW r \in Threads, NEW n \in BuildIds, Start(r, n) PROVE BuildsInv'
    BY <2>4, StartInv
  <2>5. ASSUME NEW r \in Threads, NEW i \in InstanceIds, CheckInstance(r, i) PROVE BuildsInv'
    BY <2>5, CheckInstanceInv
  <2>6. ASSUME NEW i \in InstanceIds, Stop(i) PROVE BuildsInv'
    BY <2>6, StopInv
  <2>7. CASE Crash
    BY <2>7, CrashInv
  <2>8. CASE Recover
    BY <2>8, RecoverInv
  <2>9. CASE UNCHANGED vars
    BY <2>9, BuildsStutter
  <2>. QED BY <2>1, <2>2, <2>3, <2>4, <2>5, <2>6, <2>7, <2>8, <2>9 DEF Next
<1>. QED BY <1>1, <1>2, PTL DEF Spec

\* Requests, rows, images and locks always have their types, and no more than
\* CMGR_MAX_CONCURRENT_BUILDS builds are executed at a time.
THEOREM BuildTypes == Spec => []TypeOK
<1>1. BuildsInv => TypeOK
  BY DEF BuildsInv
<1>. QED BY <1>1, RequestsKeepTheirBuilds, PTL

\* Build returns builds that work: a finished row has its own flag, image and
\* archive until a Destroy removes them or fails half way, whichever numbers
\* are used again and whatever fails.
THEOREM FinishedBuildsWork == Spec => []FinishedIntact
<1>1. BuildsInv => FinishedIntact
  BY DEF BuildsInv
<1>. QED BY <1>1, RequestsKeepTheirBuilds, PTL

\* A solver that runs is recorded, so that recovery finds it after a crash.
THEOREM SolversRecorded == Spec => []SolversTracked
<1>1. BuildsInv => SolversTracked
  BY DEF BuildsInv
<1>. QED BY <1>1, RequestsKeepTheirBuilds, PTL

\* A failed Build and a successful Destroy leave nothing: as long as no call
\* fails, a number that no request works on is finished or clean.
THEOREM NothingIsLeft == Spec => []NothingLeft
<1>1. BuildsInv => NothingLeft
  <2>. SUFFICES ASSUME BuildsInv, faults = 0, NEW n \in BuildIds
               PROVE  \/ \E r \in Threads : WorksOn(r, n)
                      \/ rows[n] = NoRow /\ images[n] = None /\ files[n] = None
                      \/ rows[n].flag # None /\ SchemaOf(n) \in schemas
    BY DEF NothingLeft
  <2>1. Settled /\ Recorded
    BY DEF BuildsInv, Undisturbed
  <2>2. CASE rows[n] = NoRow
    BY <2>1, <2>2 DEF Settled
  <2>3. CASE rows[n] # NoRow /\ rows[n].flag = None
    <3>1. PICK r \in Threads : Generates(r) /\ req[r].id = n
      BY <2>1, <2>3 DEF Settled
    <3>2. req[r] # Idle
      BY <3>1, IdleParts DEF Generates
    <3>. QED BY <3>1, <3>2 DEF WorksOn
  <2>4. CASE rows[n] # NoRow /\ rows[n].flag # None
    BY <2>1, <2>4 DEF Recorded
  <2>. QED BY <2>2, <2>3, <2>4
<1>. QED BY <1>1, RequestsKeepTheirBuilds, PTL

\* The locks of builds and of port allocation exclude, also with requests
\* that fail and processes that die.
THEOREM RequestsExclude == Spec => []KeyExclusive
<1>1. BuildsInv => KeyExclusive
  BY LockInvExcludes DEF BuildsInv
<1>. QED BY <1>1, RequestsKeepTheirBuilds, PTL
=============================================================================
