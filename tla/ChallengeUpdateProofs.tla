----------------------- MODULE ChallengeUpdateProofs -----------------------
(***************************************************************************)
(* Proofs about ChallengeUpdate, for any builds, instances and versions.   *)
(*                                                                         *)
(* SafeInv is inductive whatever fails and wherever the process dies.  It  *)
(* says where the request is (Place), which instances its loops have moved *)
(* (Order), whose the old and the new container of a moved instance are    *)
(* (Cutovers), and that the builds passed on the way forward are of the    *)
(* new version (Promoted).  It gives the types and AlwaysOneActive, and    *)
(* that a completed update leaves the challenge uniform.                   *)
(*                                                                         *)
(* RestoreInv is about the way back, and holds until a second step fails:  *)
(* the roll-back ignores its own errors, so with two failures the previous *)
(* digest may come back over a challenge that is not what it was.  It says *)
(* what a saved build and an old container are worth (Vouched), that no    *)
(* stray container has a port the roll-back needs (Tidy), and which        *)
(* containers run (Serving).  Tidy is lost by a death in the middle of a   *)
(* cutover, but only together with the digest: the next update then has    *)
(* nothing to restore (Clean).                                             *)
(***************************************************************************)
EXTENDS ChallengeUpdate, WellFoundedInduction, TLAPS

\* Where the request is: promoting a build, moving its instances, going back.
Preparing == {"tag", "keep", "install"}
Moving    == {"pause", "start", "commit"}
Promoting == Preparing \cup {"finalize"} \cup Moving
Forward   == Promoting \cup {"build"}
Undoing   == {"giveback", "retake", "unpromote", "unfinalize", "discard"}
Backward  == Undoing \cup {"restore"}
Ending    == {"finish", "cleanup", "complete"}
Cutting   == {"start", "commit", "retake"}

Elems(s) == {s[k] : k \in DOMAIN s}
DoneSet  == Elems(req.done)

Distinct(s) == \A j, k \in DOMAIN s : s[j] = s[k] => j = k

\* The build in hand.
Hand == IF req.pc \in Promoting \cup Undoing THEN {req.b} ELSE {}

\* What the program counter says of the request's own variables.
Place ==
  /\ req.pc = "idle" => req = Idle
  /\ req.pc # "idle" => digest = None
  /\ Hand \subseteq Builds
  /\ Distinct(req.done)
  /\ Hand \cap DoneSet = {}
  /\ req.pc \in Forward => req.todo \cap (DoneSet \cup Hand) = {}
  /\ req.pc \in Forward => req.todo \cup Hand \cup DoneSet = Builds
  /\ req.pc \in Cutting => req.inst \in InstancesOf(req.b)
  /\ req.pc \in Moving => req.left \subseteq InstancesOf(req.b)
  /\ req.pc \in {"start", "commit"} => req.inst \in req.left
  /\ req.pc \in Preparing => ~req.final
  /\ req.pc \in {"giveback", "retake"} => req.final
  /\ req.pc = "restore" => req.done = <<>>

\* Instances that have been moved to a new container and whose old one is
\* still there.
Switched(i) ==
  /\ req.cut[i] # 0
  /\ ~(req.pc \in {"commit", "retake"} /\ req.inst = i)
  /\ req.pc = "finish" => i \in req.left
  /\ req.pc \in Forward \cup Backward \cup {"finish"}

\* Only instances of builds in hand or done have been moved, in a forward
\* direction all of those that the loops have passed.
Order ==
  /\ \A i \in Instances : Switched(i) /\ req.pc # "finish" => BuildOf[i] \in Hand \cup DoneSet
  /\ \A i \in Instances : BuildOf[i] \in DoneSet => req.cut[i] # 0
  /\ req.pc \in Moving =>
       \A i \in InstancesOf(req.b) : Switched(i) <=> i \notin req.left
  /\ req.pc \in Preparing \cup {"finalize"} =>
       \A i \in InstancesOf(req.b) : req.cut[i] = 0
  /\ req.pc = "finish" => \A i \in req.left : req.cut[i] # 0
  /\ req.pc \in {"unpromote", "unfinalize", "discard"} =>
       \A i \in InstancesOf(req.b) : req.cut[i] = 0

\* The two containers of an instance that was moved.
Pair(i) == /\ req.cut[i] \in Containers /\ req.old[i] \in Containers
           /\ owner[req.cut[i]] = i
           /\ req.old[i] \in retired
           /\ cont[req.old[i]].st # "none" /\ cont[req.old[i]].of = i

\* The two containers of the instance that is being moved or moved back.
Cutover ==
  LET i == req.inst
      c == req.cut[i] IN
  /\ req.pc \in Cutting => req.old[i] \in Containers /\ owner[req.old[i]] = i
  /\ req.pc = "start" => c = 0
  /\ req.pc \in {"commit", "retake"} => c \in Containers /\ owner[c] = None
  /\ req.pc = "commit" =>
       /\ c \in retired
       /\ cont[c] = [st |-> "running", of |-> i, ver |-> req.new]
       /\ PortFree(i, c)
  /\ req.pc = "retake" => cont[c] = Gone \/ cont[c].of = i

OwnersAgree == \A c \in Containers : owner[c] # None => cont[c].of = owner[c]

Cutovers == /\ AlwaysOneActive /\ OwnersAgree /\ Cutover
            /\ \A i \in Instances : Switched(i) => Pair(i)

\* The build and its instances are of version v.
BuildIs(b, v) == row[b] = v /\ image[b] = v /\ artifact[b] = ArtifactOf(v)
InstanceIs(i, v) == \A c \in Containers : owner[c] = i => cont[c].ver = v

\* No container but the active one has the instance's port.
Lone(i) == \A d \in Containers :
  cont[d].of = i /\ cont[d].st = "running" => owner[d] = i

\* What has been done on the way forward.
Promoted ==
  LET b == req.b IN
  /\ req.pc \in Forward =>
       /\ \A x \in DoneSet : BuildIs(x, req.new)
       /\ \A i \in Instances : Switched(i) => InstanceIs(i, req.new) /\ Lone(i)
  /\ req.pc \in Promoting \ {"tag"} => image[b] = req.new
  /\ req.pc = "install" => artifact[b] = None
  /\ req.pc \in {"finalize"} \cup Moving => artifact[b] = ArtifactOf(req.new)
  /\ req.pc \in Moving => row[b] = req.new
  /\ req.pc \in Ending =>
       /\ \A x \in Builds : BuildIs(x, req.new)
       /\ \A i \in Instances : InstanceIs(i, req.new) /\ Lone(i)
  /\ req.pc = "complete" => debris = {}

\* Builds whose images, and builds whose rows, the way back still has to
\* restore.
Tagged == DoneSet \cup (IF req.pc \in Promoting \cup {"giveback", "retake", "unpromote"}
                        THEN {req.b} ELSE {})
Finalized == DoneSet \cup
  (IF req.pc \in {"finalize"} \cup Moving \cup {"giveback", "retake", "unfinalize"}
        \/ (req.pc = "unpromote" /\ req.final)
   THEN {req.b} ELSE {})

Of(v) == [row |-> v, image |-> v, artifact |-> ArtifactOf(v)]

\* The way back restores version v.
Restorable(b, v) ==
  /\ b \in Tagged \cup Finalized => req.saved[b] = Of(v)
  /\ b \notin Tagged => image[b] = v /\ b \notin req.kept \cup req.installed
  /\ b \notin Finalized => row[b] = v
  /\ b \in req.installed \ req.kept => ArtifactOf(v) = None
  /\ b \notin req.kept \cup req.installed => artifact[b] = ArtifactOf(v)

Returns(i, v) ==
  IF Switched(i) THEN cont[req.old[i]].ver = v ELSE InstanceIs(i, v)

\* No process died, or the challenge was uniform when the update began: then
\* nothing but a failure turns the update back.
Clean == crashes = 0 \/ IF req.pc = "idle" THEN digest # None ELSE req.prev # None

\* A running container is the active one of its instance, or the replacement
\* that is being started or removed.
Ports ==
  \A i \in Instances : \A d \in Containers :
    cont[d].of = i /\ cont[d].st = "running" =>
      \/ owner[d] = i
      \/ req.pc \in {"commit", "retake"} /\ req.inst = i /\ d = req.cut[i]

Tidy ==
  /\ Ports
  /\ req.pc \in Backward => failures = 1
  /\ req.pc \in {"start", "commit"} => cont[req.old[req.inst]].st = "exited"

\* The digest, and what the way back makes of the builds and the instances.
Vouched ==
  /\ DigestVouches /\ NoDebris
  /\ req.pc \in Forward \cup Backward /\ req.prev # None =>
       /\ debris = {}
       /\ \A b \in Builds : Restorable(b, req.prev)
       /\ \A i \in Instances : Returns(i, req.prev)

\* Every active container runs but the one that is being replaced.
Serving ==
  crashes = 0 =>
    \A c \in Containers :
      owner[c] # None /\ ~(req.pc \in Cutting /\ c = req.old[req.inst])
        => cont[c].st = "running"

\* Inductive whatever fails
SafeInv == TypeOK /\ Place /\ Order /\ Cutovers /\ Promoted

\* Inductive until a second step fails
RestoreInv == (Clean => Tidy) /\ Vouched /\ Serving

-----------------------------------------------------------------------------
(* Types, and the fields of a request that a step leaves alone.            *)

Requests == [pc : Steps, new : Versions, prev : Versions \cup {None},
             todo : SUBSET Builds, b : Builds \cup {None},
             done : Seq(Builds), left : SUBSET Instances,
             inst : Instances \cup {None},
             old : [Instances -> Containers \cup {0}],
             cut : [Instances -> Containers \cup {0}],
             saved : [Builds -> Saved], staged : SUBSET Builds,
             kept : SUBSET Builds, installed : SUBSET Builds,
             final : BOOLEAN, errs : BOOLEAN]

Stored ==
  /\ source \in Versions /\ digest \in Versions \cup {None}
  /\ row \in [Builds -> Versions] /\ image \in [Builds -> Versions]
  /\ artifact \in [Builds -> Versions \cup {None}]
  /\ debris \subseteq Builds
  /\ failures \in 0 .. MaxFailures /\ crashes \in 0 .. MaxCrashes

ContainerType == [st : {"none", "running", "exited"},
                  of : Instances \cup {None}, ver : Versions \cup {None}]

Contained ==
  /\ owner \in [Containers -> Instances \cup {None}]
  /\ retired \subseteq Containers
  /\ cont \in [Containers -> ContainerType]

LEMMA Types == TypeOK <=> Stored /\ Contained /\ req \in Requests
BY DEF TypeOK, Stored, Contained, Requests, ContainerType

LEMMA TypesNext == TypeOK' <=> Stored' /\ Contained' /\ (req \in Requests)'
BY DEF TypeOK, Stored, Contained, Requests, ContainerType

SamePlan  == req'.new = req.new /\ req'.prev = req.prev
SameLoop  == req'.todo = req.todo /\ req'.b = req.b /\ req'.done = req.done
SameVisit == req'.left = req.left /\ req'.inst = req.inst
SameMoves == req'.old = req.old /\ req'.cut = req.cut
SameFiles == /\ req'.saved = req.saved /\ req'.staged = req.staged
             /\ req'.kept = req.kept /\ req'.installed = req.installed
             /\ req'.final = req.final /\ req'.errs = req.errs

LEMMA GotoEffect ==
  ASSUME NEW p \in Steps, req \in Requests, Goto(p)
  PROVE  /\ req' \in Requests
         /\ req'.pc = p /\ SamePlan /\ SameLoop /\ SameVisit /\ SameMoves
         /\ SameFiles
BY DEF Requests, Goto, SamePlan, SameLoop, SameVisit, SameMoves, SameFiles

LEMMA IdleType == Idle \in Requests /\ Idle.pc = "idle"
<1>1. Blank \in Saved
  BY UpdateAssumption DEF Blank, Saved, Versions
<1>2. <<>> \in Seq(Builds)
  OBVIOUS
<1>3. 1 \in Versions
  BY UpdateAssumption DEF Versions
<1> QED
  BY <1>1, <1>2, <1>3, UpdateAssumption DEF Idle, Requests, Steps

LEMMA NoneApart ==
  None \notin Versions /\ None \notin Instances /\ None \notin Builds
BY UpdateAssumption

\* A non-empty set of containers has a first one.
LEMMA FirstContainer ==
  ASSUME NEW S, S \subseteq Containers, S # {}
  PROVE  (CHOOSE x \in S : \A y \in S : x <= y) \in S
<1>. DEFINE R == OpToRel(<, Nat)
<1>1. S \subseteq Nat
  BY UpdateAssumption DEF Containers
<1>2. PICK x \in S : \A y \in S : ~(<<y, x>> \in R)
  <2>1. IsWellFoundedOn(R, Nat)
    BY NatLessThanWellFounded
  <2>. HIDE DEF R
  <2>. QED BY <1>1, <2>1, WFMin
<1>3. \A y \in S : x <= y
  <2>. TAKE y \in S
  <2>1. <<y, x>> \in Nat \X Nat /\ ~(<<y, x>> \in R)
    BY <1>1, <1>2
  <2>. QED BY <2>1 DEF OpToRel
<1>. QED
  BY <1>3

-----------------------------------------------------------------------------
(* Steps that touch no container, and the ends of an update.               *)

LEMMA QuietCutovers ==
  ASSUME TypeOK, Cutovers, UNCHANGED <<owner, retired, cont>>, SameMoves,
         req'.pc \notin Cutting,
         \A i \in Instances : Switched(i)' => Switched(i)
  PROVE  Cutovers'
<1>1. AlwaysOneActive' /\ OwnersAgree'
  BY DEF Cutovers, AlwaysOneActive, OwnersAgree
<1>2. Cutover'
  BY DEF Cutover, Cutting
<1>3. ASSUME NEW i \in Instances, Switched(i)' PROVE Pair(i)'
  <2>1. Pair(i)
    BY <1>3 DEF Cutovers
  <2>. QED BY <2>1 DEF Pair, SameMoves
<1>. QED
  BY <1>1, <1>2, <1>3 DEF Cutovers

LEMMA IdleSafe ==
  ASSUME SafeInv, Stored', Contained', req' = Idle,
         AlwaysOneActive', OwnersAgree'
  PROVE  SafeInv'
<1>1. req'.pc = "idle" /\ req' \in Requests
  BY IdleType
<1>2. req'.done = <<>>
  BY DEF Idle
<1>3. TypeOK'
  BY <1>1, TypesNext
<1>4. DoneSet' = {}
  BY <1>2 DEF DoneSet, Elems
<1>5. Hand' = {}
  BY <1>1 DEF Hand, Promoting, Preparing, Moving, Undoing
<1>6. Place'
  BY <1>1, <1>2, <1>4, <1>5
     DEF Place, Distinct, Forward, Promoting, Preparing, Moving, Cutting
<1>7. \A i \in Instances : ~Switched(i)'
  BY <1>1 DEF Switched, Forward, Backward, Promoting, Preparing, Moving, Undoing
<1>8. Order'
  BY <1>1, <1>4, <1>7 DEF Order, Promoting, Preparing, Moving
<1>9. Cutovers'
  BY <1>1, <1>7 DEF Cutovers, Cutover, Cutting
<1>10. Promoted'
  BY <1>1 DEF Promoted, Forward, Promoting, Preparing, Moving, Ending
<1>. QED
  BY <1>3, <1>6, <1>8, <1>9, <1>10 DEF SafeInv

\* Containers stay as they are, and so do the owners.
LEMMA SameContainers ==
  ASSUME SafeInv, UNCHANGED <<owner, retired, cont>>
  PROVE  Contained' /\ AlwaysOneActive' /\ OwnersAgree'
BY Types DEF SafeInv, Contained, Cutovers, AlwaysOneActive, OwnersAgree

LEMMA SafeInit == Init => SafeInv
<1>. SUFFICES ASSUME Init PROVE SafeInv
  OBVIOUS
<1>1. 1 \in Versions /\ 0 \in 0 .. MaxFailures /\ 0 \in 0 .. MaxCrashes
  BY UpdateAssumption DEF Versions
<1>2. Stored
  <2>1. \A v \in Versions : ArtifactOf(v) \in Versions \cup {None}
    BY DEF ArtifactOf
  <2>. QED BY <1>1, <2>1 DEF Init, Stored
<1>3. Contained
  BY <1>1 DEF Init, Contained, ContainerType, Gone
<1>4. req.pc = "idle" /\ req \in Requests /\ req = Idle
  BY IdleType DEF Init
<1>5. req.done = <<>>
  BY <1>4 DEF Idle
<1>6. AlwaysOneActive /\ OwnersAgree
  BY NoneApart DEF Init, AlwaysOneActive, OwnersAgree
<1>7. DoneSet = {}
  BY <1>5 DEF DoneSet, Elems
<1>8. Hand = {}
  BY <1>4 DEF Hand, Promoting, Preparing, Moving, Undoing
<1>9. Place
  BY <1>4, <1>5, <1>7, <1>8
     DEF Place, Distinct, Forward, Promoting, Preparing, Moving, Cutting
<1>10. \A i \in Instances : ~Switched(i)
  BY <1>4 DEF Switched, Forward, Backward, Promoting, Preparing, Moving, Undoing
<1>11. Order
  BY <1>4, <1>7, <1>10 DEF Order, Promoting, Preparing, Moving
<1>12. Cutovers
  BY <1>4, <1>6, <1>10 DEF Cutovers, Cutover, Cutting
<1>13. Promoted
  BY <1>4 DEF Promoted, Forward, Promoting, Preparing, Moving, Ending
<1>14. TypeOK
  BY <1>2, <1>3, <1>4, Types
<1>. QED
  BY <1>14, <1>9, <1>11, <1>12, <1>13 DEF SafeInv

LEMMA CrashSafe == SafeInv /\ Crash => SafeInv'
<1>. SUFFICES ASSUME SafeInv, Crash PROVE SafeInv'
  OBVIOUS
<1>1. Stored'
  BY Types, UpdateAssumption DEF SafeInv, Stored, Requests, Crash
<1>. QED
  BY <1>1, SameContainers, IdleSafe DEF Crash

LEMMA RestoreMetadataSafe == SafeInv /\ RestoreMetadata => SafeInv'
<1>. SUFFICES ASSUME SafeInv, RestoreMetadata PROVE SafeInv'
  OBVIOUS
<1>1. Stored'
  BY Types, UpdateAssumption
     DEF SafeInv, Stored, Requests, RestoreMetadata, Works, Fails, files
<1>. QED
  BY <1>1, SameContainers, IdleSafe DEF RestoreMetadata

LEMMA CompleteSafe == SafeInv /\ Complete => SafeInv'
<1>. SUFFICES ASSUME SafeInv, Complete PROVE SafeInv'
  OBVIOUS
<1>1. Stored'
  BY Types, UpdateAssumption
     DEF SafeInv, Stored, Requests, Complete, Works, Fails, files
<1>. QED
  BY <1>1, SameContainers, IdleSafe DEF Complete

LEMMA EditSafe == ASSUME NEW v \in Versions PROVE SafeInv /\ Edit(v) => SafeInv'
<1>. SUFFICES ASSUME SafeInv, Edit(v) PROVE SafeInv'
  OBVIOUS
<1>1. Stored'
  BY Types DEF SafeInv, Stored, Edit, files
<1>2. req' = Idle
  BY DEF SafeInv, Place, Edit, At
<1>. QED
  BY <1>1, <1>2, SameContainers, IdleSafe DEF Edit

LEMMA RecoverSafe == SafeInv /\ Recover => SafeInv'
<1>. SUFFICES ASSUME SafeInv, Recover PROVE SafeInv'
  OBVIOUS
<1>1. Stored /\ Contained /\ req \in Requests /\ AlwaysOneActive /\ OwnersAgree
  BY Types DEF SafeInv, Cutovers
<1>2. Stored'
  BY <1>1, UpdateAssumption DEF Stored, Recover, Works, Fails, files
<1>3. req' = Idle
  BY DEF SafeInv, Place, Recover, At
<1>4. PICK gone \in SUBSET retired, run \in SUBSET Containers :
        /\ retired' = retired \ gone
        /\ cont' = [c \in Containers |->
             IF c \in gone THEN Gone
             ELSE IF c \in run THEN [cont[c] EXCEPT !.st = "running"]
             ELSE cont[c]]
  <2>1. PICK spared \in SUBSET Containers :
          LET removed == retired \ spared
              free(c) == \A d \in Containers \ (removed \cup {c}) :
                           cont[d].of = cont[c].of => cont[d].st # "running"
          IN
          /\ retired' = retired \ removed
          /\ cont' = [c \in Containers |->
               IF c \in removed THEN Gone
               ELSE IF /\ owner[c] # None /\ cont[c].st = "exited"
                       /\ c \notin spared /\ free(c)
               THEN [cont[c] EXCEPT !.st = "running"] ELSE cont[c]]
    BY DEF Recover
  <2>. DEFINE gone == retired \ spared
              run == {c \in Containers : owner[c] # None /\ cont[c].st = "exited"
                        /\ c \notin spared
                        /\ \A d \in Containers \ (gone \cup {c}) :
                             cont[d].of = cont[c].of => cont[d].st # "running"}
  <2>2. cont' = [c \in Containers |->
             IF c \in gone THEN Gone
             ELSE IF c \in run THEN [cont[c] EXCEPT !.st = "running"]
             ELSE cont[c]]
    BY <2>1
  <2>3. gone \in SUBSET retired /\ run \in SUBSET Containers
    OBVIOUS
  <2>. QED BY <2>1, <2>2, <2>3
<1>5. owner' = owner
  BY DEF Recover
<1>6. Contained'
  BY <1>1, <1>4, <1>5 DEF Contained, ContainerType, Gone
<1>7. AlwaysOneActive' /\ OwnersAgree'
  <2>1. \A c \in Containers : owner[c] # None => c \notin retired
    BY <1>1 DEF Contained, AlwaysOneActive
  <2>2. \A c \in Containers : owner[c] # None =>
          /\ cont'[c].of = cont[c].of
          /\ cont[c].st # "none" => cont'[c].st # "none"
    BY <1>1, <1>4, <2>1 DEF Contained, ContainerType
  <2>. QED
    BY <1>1, <1>4, <1>5, <2>1, <2>2, NoneApart DEF AlwaysOneActive, OwnersAgree
<1>. QED
  BY <1>2, <1>3, <1>6, <1>7, IdleSafe

LEMMA UpdateSafe == SafeInv /\ Update => SafeInv'
<1>. SUFFICES ASSUME SafeInv, Update PROVE SafeInv'
  OBVIOUS
<1>1. Stored'
  BY Types DEF SafeInv, Stored, Update, files
<1>2. Contained' /\ AlwaysOneActive' /\ OwnersAgree'
  BY SameContainers DEF Update
<1>3. /\ req' \in Requests /\ req'.pc = "build" /\ req'.todo = Builds
      /\ req'.done = <<>> /\ \A i \in Instances : req'.cut[i] = 0
  <2>1. source \in Versions /\ digest \in Versions \cup {None}
    BY Types DEF SafeInv, Stored
  <2>2. Idle \in Requests
    BY IdleType
  <2>3. Idle.done = <<>> /\ \A i \in Instances : Idle.cut[i] = 0
    BY DEF Idle
  <2>4. /\ req' = [Idle EXCEPT !.pc = "build", !.new = source, !.prev = digest,
                               !.todo = Builds]
    BY DEF Update
  <2>. HIDE DEF Idle
  <2>. QED BY <2>1, <2>2, <2>3, <2>4 DEF Requests, Steps
<1>4. digest' = None
  BY DEF Update
<1>5. DoneSet' = {}
  BY <1>3 DEF DoneSet, Elems
<1>6. Hand' = {}
  BY <1>3 DEF Hand, Promoting, Preparing, Moving, Undoing
<1>7. Place'
  BY <1>3, <1>4, <1>5, <1>6
     DEF Place, Distinct, Forward, Promoting, Preparing, Moving, Cutting
<1>8. \A i \in Instances : ~Switched(i)'
  BY <1>3 DEF Switched
<1>9. Order'
  BY <1>3, <1>5, <1>8 DEF Order, Promoting, Preparing, Moving
<1>10. Cutovers'
  BY <1>2, <1>3, <1>8 DEF Cutovers, Cutover, Cutting
<1>11. Promoted'
  BY <1>3, <1>5, <1>8 DEF Promoted, Forward, Promoting, Preparing, Moving, Ending
<1>12. TypeOK'
  BY <1>1, <1>2, <1>3, TypesNext
<1>. QED
  BY <1>12, <1>7, <1>9, <1>10, <1>11 DEF SafeInv

-----------------------------------------------------------------------------
(* The completed updates, which an error takes back from the last one.     *)

LEMMA UnwindEffect ==
  ASSUME NEW r \in Requests, Distinct(r.done)
  PROVE  /\ Unwind(r) \in Requests
         /\ Unwind(r).new = r.new /\ Unwind(r).prev = r.prev
         /\ Unwind(r).todo = r.todo /\ Unwind(r).inst = r.inst
         /\ Unwind(r).old = r.old /\ Unwind(r).cut = r.cut
         /\ Unwind(r).saved = r.saved /\ Unwind(r).staged = r.staged
         /\ Unwind(r).kept = r.kept /\ Unwind(r).installed = r.installed
         /\ Unwind(r).errs = r.errs
         /\ r.done = <<>> =>
              Unwind(r).pc = "restore" /\ Unwind(r).done = <<>>
         /\ r.done # <<>> =>
              /\ Unwind(r).pc = "giveback"
              /\ Unwind(r).final
              /\ Unwind(r).b \in Elems(r.done)
              /\ Elems(Unwind(r).done) = Elems(r.done) \ {Unwind(r).b}
         /\ Distinct(Unwind(r).done)
<1>1. CASE r.done = <<>>
  <2>1. Unwind(r) = [r EXCEPT !.pc = "restore"]
    BY <1>1 DEF Unwind
  <2>. QED BY <1>1, <2>1 DEF Requests, Steps
<1>2. CASE r.done # <<>>
  <2>. DEFINE s == r.done
              n == Len(s)
              f == Front(s)
              l == Last(s)
  <2>1. s \in Seq(Builds) /\ s # <<>>
    BY <1>2 DEF Requests
  <2>2. n \in Nat /\ n > 0 /\ DOMAIN s = 1 .. n
    BY <2>1
  <2>3. l = s[n] /\ l \in Builds
    BY <2>1, <2>2 DEF Last
  <2>4. /\ f \in Seq(Builds) /\ DOMAIN f = 1 .. n - 1
        /\ \A k \in 1 .. n - 1 : f[k] = s[k]
    BY <2>1, <2>2 DEF Front
  <2>5. l \in Elems(s)
    BY <2>2, <2>3 DEF Elems
  <2>6. Elems(f) = Elems(s) \ {l}
    <3>1. ASSUME NEW x \in Elems(f) PROVE x \in Elems(s) \ {l}
      <4>1. PICK k \in 1 .. n - 1 : x = s[k]
        BY <2>4 DEF Elems
      <4>2. k \in DOMAIN s /\ n \in DOMAIN s /\ k # n
        BY <2>2
      <4>3. s[k] # s[n]
        BY <4>2 DEF Distinct
      <4>. QED BY <2>3, <4>1, <4>2, <4>3 DEF Elems
    <3>2. ASSUME NEW x \in Elems(s), x # l PROVE x \in Elems(f)
      <4>1. PICK k \in 1 .. n : x = s[k]
        BY <2>2 DEF Elems
      <4>2. k \in 1 .. n - 1
        BY <2>2, <2>3, <3>2, <4>1
      <4>. QED BY <2>4, <4>1, <4>2 DEF Elems
    <3>. QED BY <3>1, <3>2
  <2>7. Distinct(f)
    BY <2>2, <2>4 DEF Distinct
  <2>8. Unwind(r) = [r EXCEPT !.pc = "giveback", !.b = l, !.final = TRUE,
                              !.done = f, !.left = {}]
    BY <1>2 DEF Unwind
  <2>. HIDE DEF f, l, n
  <2>9. Unwind(r).done = f /\ Unwind(r).b = l
    BY <2>8 DEF Requests
  <2>10. PICK u : u = Unwind(r) OBVIOUS
  <2>11. u = [r EXCEPT !.pc = "giveback", !.b = l, !.final = TRUE,
                       !.done = f, !.left = {}]
    BY <2>8, <2>10
  <2>12. /\ u \in Requests /\ u.pc = "giveback" /\ u.final
         /\ u.new = r.new /\ u.prev = r.prev /\ u.todo = r.todo
         /\ u.inst = r.inst /\ u.old = r.old /\ u.cut = r.cut
         /\ u.saved = r.saved /\ u.staged = r.staged
         /\ u.kept = r.kept /\ u.installed = r.installed
         /\ u.errs = r.errs
    BY <2>3, <2>4, <2>11 DEF Requests, Steps
  <2>. QED
    BY <1>2, <2>5, <2>6, <2>7, <2>9, <2>10, <2>12
<1>. QED
  BY <1>1, <1>2

LEMMA UnwindSafe ==
  ASSUME SafeInv, req.pc \in {"build", "discard"}, NEW STATE r, r \in Requests,
         r.done = req.done, r.cut = req.cut, r.old = req.old,
         req' = Unwind(r), UNCHANGED <<digest, owner, retired, cont>>, Stored'
  PROVE  SafeInv'
<1>1. Place /\ Order /\ Cutovers /\ TypeOK /\ req \in Requests
  BY Types DEF SafeInv
<1>2. Distinct(r.done)
  BY <1>1 DEF Place
<1>3. /\ req' \in Requests /\ req'.cut = req.cut /\ req'.old = req.old
      /\ Distinct(req'.done)
      /\ req.done = <<>> => req'.pc = "restore" /\ req'.done = <<>>
      /\ req.done # <<>> => /\ req'.pc = "giveback" /\ req'.b \in DoneSet
                            /\ req'.final
                            /\ DoneSet' = DoneSet \ {req'.b}
  BY <1>2, UnwindEffect DEF DoneSet
<1>4. TypeOK'
  BY <1>3, SameContainers, TypesNext
<1>5. \A i \in Instances : req.cut[i] # 0 => Switched(i) /\ BuildOf[i] \in DoneSet
  BY <1>1, UpdateAssumption
     DEF Order, Switched, Forward, Backward, Undoing, Hand, Promoting, Preparing,
         Moving, InstancesOf
<1>6. req.done = <<>> => DoneSet = {} /\ DoneSet' = {}
  BY <1>3 DEF DoneSet, Elems
<1>7. DoneSet \subseteq Builds
  BY <1>1 DEF DoneSet, Elems, Requests
<1>8. digest' = None
  BY <1>1 DEF Place
<1>9. req.done # <<>> => Hand' = {req'.b}
  BY <1>3 DEF Hand, Undoing
<1>10. req.done = <<>> => Hand' = {}
  BY <1>3 DEF Hand, Undoing, Promoting, Preparing, Moving
<1>11. req'.pc \in {"giveback", "restore"}
  BY <1>3
<1>12. Place'
  BY <1>3, <1>6, <1>7, <1>8, <1>9, <1>10, <1>11
     DEF Place, Forward, Promoting, Preparing, Moving, Cutting
<1>13. \A i \in Instances : Switched(i)' => Switched(i)
  BY <1>3, <1>5 DEF Switched
<1>14. Order'
  BY <1>1, <1>3, <1>5, <1>6, <1>9, <1>10, <1>11
     DEF Order, Switched, Promoting, Preparing, Moving
<1>15. Cutovers'
  BY <1>1, <1>3, <1>11, <1>13, QuietCutovers DEF SameMoves, Cutting
<1>16. Promoted'
  BY <1>11 DEF Promoted, Forward, Promoting, Preparing, Moving, Ending
<1>. QED
  BY <1>4, <1>12, <1>14, <1>15, <1>16 DEF SafeInv

LEMMA DiscardSafe == SafeInv /\ Discard => SafeInv'
<1>. SUFFICES ASSUME SafeInv, Discard PROVE SafeInv'
  OBVIOUS
<1>1. Stored /\ req \in Requests /\ req.pc = "discard" /\ req.b \in Builds
  BY Types DEF SafeInv, Place, Hand, Undoing, Discard, At
<1>2. Stored'
  BY <1>1, UpdateAssumption DEF Stored, Discard, Works, Fails
<1>. DEFINE r == [req EXCEPT !.staged = @ \ {req.b}]
<1>3. r \in Requests /\ r.done = req.done /\ r.cut = req.cut /\ r.old = req.old
  BY <1>1 DEF Requests
<1>4. req' = Unwind(r) /\ UNCHANGED <<digest, owner, retired, cont>>
  BY DEF Discard
<1>. HIDE DEF r
<1>. QED
  BY <1>1, <1>2, <1>3, <1>4, UnwindSafe

-----------------------------------------------------------------------------
(* Building and promoting.                                                 *)

LEMMA ExecuteBuildSafe == SafeInv /\ ExecuteBuild => SafeInv'
<1>. SUFFICES ASSUME SafeInv, ExecuteBuild PROVE SafeInv'
  OBVIOUS
<1>. DEFINE b == CHOOSE x \in req.todo : TRUE
<1>1. /\ TypeOK /\ Place /\ Order /\ Cutovers /\ Promoted
      /\ Stored /\ req \in Requests
  BY Types DEF SafeInv
<1>2. req.pc = "build" /\ UNCHANGED <<source, digest, row, owner, retired, files, cont>>
  BY DEF ExecuteBuild, At
<1>3. Stored' /\ Contained' /\ AlwaysOneActive' /\ OwnersAgree'
  BY <1>1, <1>2, SameContainers, UpdateAssumption
     DEF ExecuteBuild, Stored, Works, Fails, files
<1>4. Hand = {} /\ digest' = None
  BY <1>1, <1>2 DEF Hand, Place, Promoting, Preparing, Moving, Undoing
<1>5. \A i \in Instances : /\ req.cut[i] # 0 => Switched(i)
                           /\ Switched(i) <=> BuildOf[i] \in DoneSet
  BY <1>1, <1>2, <1>4 DEF Order, Switched, Forward
<1>6. \A i \in Instances : \A v : InstanceIs(i, v)' <=> InstanceIs(i, v)
  BY <1>2 DEF InstanceIs
<1>7. \A i \in Instances : Lone(i)' <=> Lone(i)
  BY <1>2 DEF Lone
<1>8. \A x \in Builds : \A v : BuildIs(x, v)' <=> BuildIs(x, v)
  BY <1>2 DEF BuildIs, files
<1>9. DoneSet \subseteq Builds
  BY <1>1 DEF DoneSet, Elems, Requests
<1>10. req.todo # {} => /\ b \in req.todo /\ b \in Builds /\ b \notin DoneSet
                        /\ \A i \in InstancesOf(b) : i \in Instances /\ req.cut[i] = 0
  <2>. SUFFICES ASSUME req.todo # {}
                PROVE  /\ b \in req.todo /\ b \in Builds /\ b \notin DoneSet
                       /\ \A i \in InstancesOf(b) : i \in Instances /\ req.cut[i] = 0
    OBVIOUS
  <2>1. b \in req.todo
    OBVIOUS
  <2>. HIDE DEF b
  <2>2. b \in Builds /\ b \notin DoneSet
    BY <1>1, <1>2, <2>1 DEF Place, Forward, Requests
  <2>. QED BY <1>5, <2>1, <2>2 DEF InstancesOf
<1>. HIDE DEF b
<1>11. CASE /\ req.todo # {}
            /\ req' = [req EXCEPT !.pc = "tag", !.b = b, !.final = FALSE,
                 !.todo = @ \ {b}, !.staged = @ \cup {b},
                 !.saved[b] = [row |-> row[b], image |-> image[b],
                               artifact |-> artifact[b]]]
  <2>1. [row |-> row[b], image |-> image[b], artifact |-> artifact[b]] \in Saved
    BY <1>1, <1>10, <1>11 DEF Stored, Saved
  <2>2. /\ req' \in Requests /\ req'.pc = "tag" /\ req'.b = b /\ ~req'.final
        /\ req'.todo = req.todo \ {b} /\ req'.done = req.done /\ SamePlan
        /\ SameMoves
    <3>1. PICK v : v = [row |-> row[b], image |-> image[b],
                        artifact |-> artifact[b]]
      OBVIOUS
    <3>2. PICK f, T, S : /\ f = [req.saved EXCEPT ![b] = v]
                         /\ T = req.todo \ {b} /\ S = req.staged \cup {b}
      OBVIOUS
    <3>3. /\ f \in [Builds -> Saved] /\ T \subseteq Builds
          /\ S \subseteq Builds
      BY <1>1, <1>10, <1>11, <2>1, <3>1, <3>2 DEF Requests
    <3>4. req' = [req EXCEPT !.pc = "tag", !.b = b, !.final = FALSE,
                             !.todo = T, !.staged = S, !.saved = f]
      BY <1>11, <3>1, <3>2
    <3>5. b \in Builds BY <1>10, <1>11
    <3>6. req' \in Requests BY <1>1, <3>3, <3>4, <3>5 DEF Requests, Steps
    <3>7. /\ req'.pc = "tag" /\ req'.b = b /\ ~req'.final /\ req'.todo = T
          /\ req'.done = req.done
      BY <1>1, <3>4 DEF Requests
    <3>8. SamePlan /\ SameMoves
      BY <1>1, <3>4 DEF Requests, SamePlan, SameMoves
    <3>. QED BY <3>2, <3>6, <3>7, <3>8
  <2>3. DoneSet' = DoneSet /\ Hand' = {b}
    BY <2>2 DEF DoneSet, Hand, Promoting, Preparing
  <2>4. Place'
    BY <1>1, <1>2, <1>4, <1>10, <1>11, <2>2, <2>3
       DEF Place, Forward, Promoting, Preparing, Moving, Cutting
  <2>5. \A i \in Instances : Switched(i)' <=> Switched(i)
    BY <1>2, <2>2 DEF Switched, SameMoves, Forward, Promoting, Preparing
  <2>6. Order'
    BY <1>1, <1>5, <1>10, <1>11, <2>2, <2>3, <2>5
       DEF Order, SameMoves, Preparing, Moving
  <2>7. Cutovers'
    BY <1>1, <1>2, <2>2, <2>5, QuietCutovers DEF Cutting
  <2>8. Promoted'
    BY <1>1, <1>2, <1>6, <1>7, <1>8, <1>9, <2>2, <2>3, <2>5
       DEF Promoted, SamePlan, Forward, Promoting, Preparing, Moving, Ending
  <2>. QED BY <1>3, <2>2, <2>4, <2>6, <2>7, <2>8, TypesNext DEF SafeInv
<1>12. CASE req' = Unwind(req)
  BY <1>1, <1>2, <1>3, <1>12, UnwindSafe
<1>13. CASE /\ req.todo # {}
            /\ req' = [req EXCEPT !.pc = "discard", !.b = b,
                                  !.staged = @ \cup {b}]
  <2>2. /\ req' \in Requests /\ req'.pc = "discard" /\ req'.b = b
        /\ req'.done = req.done /\ SamePlan /\ SameMoves
    BY <1>1, <1>10, <1>13 DEF Requests, Steps, SamePlan, SameMoves
  <2>3. DoneSet' = DoneSet /\ Hand' = {b}
    BY <2>2 DEF DoneSet, Hand, Undoing
  <2>4. Place'
    BY <1>1, <1>4, <1>10, <1>13, <2>2, <2>3
       DEF Place, Forward, Promoting, Preparing, Moving, Cutting
  <2>5. \A i \in Instances : Switched(i)' <=> Switched(i)
    BY <1>2, <2>2 DEF Switched, SameMoves, Forward, Backward, Undoing
  <2>6. Order'
    BY <1>1, <1>5, <1>10, <1>13, <2>2, <2>3, <2>5
       DEF Order, SameMoves, Preparing, Moving
  <2>7. Cutovers'
    BY <1>1, <1>2, <2>2, <2>5, QuietCutovers DEF Cutting
  <2>8. Promoted'
    BY <2>2 DEF Promoted, Forward, Promoting, Preparing, Moving, Ending
  <2>. QED BY <1>3, <2>2, <2>4, <2>6, <2>7, <2>8, TypesNext DEF SafeInv
<1>14. CASE /\ req.todo = {}
            /\ req' = [req EXCEPT !.pc = "finish", !.left = Instances,
                                  !.todo = Builds, !.done = <<>>]
  <2>1. DoneSet = Builds
    BY <1>1, <1>2, <1>4, <1>14 DEF Place, Forward
  <2>2. /\ req' \in Requests /\ req'.pc = "finish" /\ req'.left = Instances
        /\ req'.todo = Builds /\ req'.done = <<>> /\ SamePlan /\ SameMoves
    <3>1. <<>> \in Seq(Builds)
      OBVIOUS
    <3>. QED BY <1>1, <1>14, <3>1 DEF Requests, Steps, SamePlan, SameMoves
  <2>3. DoneSet' = {} /\ Hand' = {}
    BY <2>2 DEF DoneSet, Elems, Hand, Promoting, Preparing, Moving, Undoing
  <2>4. Place'
    BY <1>4, <2>2, <2>3
       DEF Place, Distinct, Forward, Promoting, Preparing, Moving, Cutting
  <2>5. \A i \in Instances : Switched(i)
    BY <1>5, <2>1, UpdateAssumption
  <2>6. Order'
    BY <2>2, <2>3, <2>5
       DEF Order, SameMoves, Switched, Preparing, Moving
  <2>7. Cutovers'
    BY <1>1, <1>2, <2>2, <2>5, QuietCutovers DEF Cutting
  <2>8. Promoted'
    BY <1>1, <1>2, <1>6, <1>7, <1>8, <2>1, <2>2, <2>5
       DEF Promoted, SamePlan, Forward, Promoting, Preparing, Moving, Ending
  <2>. QED BY <1>3, <2>2, <2>4, <2>6, <2>7, <2>8, TypesNext DEF SafeInv
<1>. QED
  BY <1>11, <1>12, <1>13, <1>14 DEF ExecuteBuild, b

\* Steps on the files or the row of the build in hand, before any of its
\* instances has been moved or after all have been moved back.
LEMMA FileStep ==
  ASSUME SafeInv,
         req.pc \in Preparing \cup {"finalize", "giveback", "unpromote", "unfinalize"},
         \A i \in InstancesOf(req.b) : req.cut[i] = 0,
         req' \in Requests, SamePlan, SameLoop, SameMoves,
         UNCHANGED <<digest, owner, retired, cont>>, Stored',
         req'.pc \in Preparing \cup {"finalize", "pause", "giveback",
                                     "unpromote", "unfinalize", "discard"},
         req'.pc \in Forward => req.pc \in Forward,
         req'.pc \in Preparing => ~req'.final,
         req'.pc = "giveback" => req'.final,
         req'.pc = "pause" => req'.left = InstancesOf(req.b),
         Promoted'
  PROVE  SafeInv'
<1>1. TypeOK /\ Place /\ Order /\ Cutovers
  BY DEF SafeInv
<1>2. Hand = {req.b} /\ Hand' = {req.b} /\ DoneSet' = DoneSet
  BY DEF SameLoop, Hand, DoneSet, Promoting, Preparing, Moving, Undoing
<1>3. Contained'
  BY SameContainers
<1>4. Place'
  BY <1>1, <1>2 DEF Place, SameLoop, Forward, Promoting, Preparing, Moving, Cutting
<1>5. \A i \in Instances : Switched(i)' <=> Switched(i)
  BY DEF Switched, SameMoves, Forward, Backward, Undoing, Promoting, Preparing, Moving
<1>6. \A i \in InstancesOf(req.b) : i \in Instances /\ ~Switched(i)
  BY DEF Switched, InstancesOf
<1>7. Order'
  BY <1>1, <1>2, <1>5, <1>6
     DEF Order, SameLoop, SameMoves, Preparing, Moving
<1>8. Cutovers'
  BY <1>1, <1>5, QuietCutovers DEF Cutting, Preparing
<1>. QED
  BY <1>3, <1>4, <1>7, <1>8, TypesNext DEF SafeInv

\* What had been achieved stays, as long as only the build in hand changes.
LEMMA PromotedStays ==
  ASSUME SafeInv, req.pc \in Forward, SamePlan, SameLoop,
         UNCHANGED <<owner, cont>>,
         \A x \in DoneSet : row'[x] = row[x] /\ image'[x] = image[x]
                              /\ artifact'[x] = artifact[x],
         \A i \in Instances : Switched(i)' => Switched(i)
  PROVE  /\ \A x \in DoneSet' : BuildIs(x, req.new)'
         /\ \A i \in Instances : Switched(i)' => InstanceIs(i, req.new)' /\ Lone(i)'
<1>1. DoneSet' = DoneSet
  BY DEF SameLoop, DoneSet
<1>2. \A x \in DoneSet : BuildIs(x, req.new)
  BY DEF SafeInv, Promoted
<1>3. \A x \in DoneSet : BuildIs(x, req.new)'
  BY <1>2 DEF BuildIs, SamePlan
<1>4. \A i \in Instances : Switched(i)' => InstanceIs(i, req.new) /\ Lone(i)
  BY DEF SafeInv, Promoted
<1>. QED
  BY <1>1, <1>3, <1>4 DEF InstanceIs, Lone, SamePlan

\* The instances of the build in hand have not been moved yet.
LEMMA NotMoved ==
  ASSUME SafeInv, req.pc \in Preparing \cup {"finalize", "unpromote", "unfinalize"}
  PROVE  /\ req.b \in Builds /\ req.b \notin DoneSet
         /\ \A i \in InstancesOf(req.b) : req.cut[i] = 0
         /\ req.pc \in Preparing => ~req.final
         /\ req \in Requests /\ Stored
BY Types DEF SafeInv, Place, Order, Hand, Promoting, Preparing, Undoing

LEMMA SwitchedSame ==
  ASSUME req.pc \in Preparing \cup {"finalize"}, SameMoves,
         req'.pc \in Preparing \cup {"finalize", "pause"}
  PROVE  \A i \in Instances : Switched(i)' <=> Switched(i)
BY DEF Switched, SameMoves, Forward, Promoting, Preparing, Moving

LEMMA TagImagesSafe == SafeInv /\ TagImages => SafeInv'
<1>. SUFFICES ASSUME SafeInv, TagImages PROVE SafeInv'
  OBVIOUS
<1>1. /\ req.pc = "tag"
      /\ UNCHANGED <<source, digest, row, owner, retired, artifact, debris, cont>>
  BY DEF TagImages, At
<1>2. /\ req.b \in Builds /\ req.b \notin DoneSet /\ req \in Requests /\ Stored
      /\ \A i \in InstancesOf(req.b) : req.cut[i] = 0
      /\ ~req.final
  BY <1>1, NotMoved DEF Preparing
<1>3. req.new \in Versions
  BY <1>2 DEF Requests
<1>4. Stored'
  BY <1>1, <1>2, <1>3, UpdateAssumption DEF TagImages, Stored, Works, Fails
<1>5. CASE Goto("keep") /\ image' = [image EXCEPT ![req.b] = req.new]
  <2>1. /\ req' \in Requests /\ req'.pc = "keep" /\ SamePlan /\ SameLoop
        /\ SameMoves /\ SameFiles
    BY <1>2, <1>5, GotoEffect DEF Steps
  <2>2. \A i \in Instances : Switched(i)' <=> Switched(i)
    BY <1>1, <2>1, SwitchedSame DEF Preparing
  <2>3. \A x \in DoneSet : image'[x] = image[x]
    BY <1>2, <1>5 DEF Stored, DoneSet, Requests
  <2>4. /\ \A x \in DoneSet' : BuildIs(x, req.new)'
        /\ \A i \in Instances : Switched(i)' => InstanceIs(i, req.new)' /\ Lone(i)'
    BY <1>1, <2>1, <2>2, <2>3, PromotedStays DEF Forward, Promoting, Preparing
  <2>5. image'[req'.b] = req'.new
    BY <1>2, <1>5, <2>1 DEF Stored, SameLoop, SamePlan
  <2>6. Promoted'
    BY <2>1, <2>4, <2>5 DEF Promoted, Moving, Ending
  <2>. QED
    BY <1>1, <1>2, <1>4, <2>1, <2>6, FileStep
       DEF SameFiles, Forward, Promoting, Preparing
<1>6. CASE Goto("unpromote")
  <2>1. /\ req' \in Requests /\ req'.pc = "unpromote" /\ SamePlan /\ SameLoop
        /\ SameMoves
    BY <1>2, <1>6, GotoEffect DEF Steps
  <2>2. Promoted'
    BY <2>1 DEF Promoted, Forward, Promoting, Preparing, Moving, Ending
  <2>. QED
    BY <1>1, <1>2, <1>4, <2>1, <2>2, FileStep
       DEF Forward, Promoting, Preparing, Moving
<1>. QED
  BY <1>5, <1>6 DEF TagImages

LEMMA KeepArtifactSafe == SafeInv /\ KeepArtifact => SafeInv'
<1>. SUFFICES ASSUME SafeInv, KeepArtifact PROVE SafeInv'
  OBVIOUS
<1>1. /\ req.pc = "keep"
      /\ UNCHANGED <<source, digest, row, owner, retired, image, debris, cont>>
  BY DEF KeepArtifact, At
<1>2. /\ req.b \in Builds /\ req.b \notin DoneSet /\ req \in Requests /\ Stored
      /\ \A i \in InstancesOf(req.b) : req.cut[i] = 0
      /\ ~req.final
  BY <1>1, NotMoved DEF Preparing
<1>3. Stored'
  BY <1>1, <1>2, UpdateAssumption DEF KeepArtifact, Stored, Works, Fails
<1>4. ASSUME artifact' = [artifact EXCEPT ![req.b] = None],
             req' \in Requests, req'.pc = "install", SamePlan, SameLoop,
             SameMoves, req'.final = req.final
      PROVE  SafeInv'
  <2>1. \A i \in Instances : Switched(i)' <=> Switched(i)
    BY <1>1, <1>4, SwitchedSame DEF Preparing
  <2>2. \A x \in DoneSet : artifact'[x] = artifact[x]
    BY <1>2, <1>4 DEF Stored, DoneSet, Requests
  <2>3. /\ \A x \in DoneSet' : BuildIs(x, req.new)'
        /\ \A i \in Instances : Switched(i)' => InstanceIs(i, req.new)' /\ Lone(i)'
    BY <1>1, <1>4, <2>1, <2>2, PromotedStays DEF Forward, Promoting, Preparing
  <2>4. image'[req'.b] = req'.new /\ artifact'[req'.b] = None
    BY <1>1, <1>2, <1>4
       DEF SafeInv, Promoted, Promoting, Preparing, Stored, SameLoop, SamePlan
  <2>5. Promoted'
    BY <1>4, <2>3, <2>4 DEF Promoted, Moving, Ending
  <2>. QED
    BY <1>1, <1>2, <1>3, <1>4, <2>5, FileStep DEF Forward, Promoting, Preparing
<1>5. CASE /\ artifact' = [artifact EXCEPT ![req.b] = None]
           /\ req' = [req EXCEPT !.pc = "install", !.kept = @ \cup {req.b}]
  <2>1. /\ req' \in Requests /\ req'.pc = "install" /\ SamePlan /\ SameLoop
        /\ SameMoves /\ req'.final = req.final
    BY <1>2, <1>5 DEF Requests, Steps, SamePlan, SameLoop, SameMoves
  <2>. QED BY <1>4, <1>5, <2>1
<1>6. CASE artifact[req.b] = None /\ Goto("install") /\ UNCHANGED artifact
  <2>1. /\ req' \in Requests /\ req'.pc = "install" /\ SamePlan /\ SameLoop
        /\ SameMoves /\ req'.final = req.final
    BY <1>2, <1>6, GotoEffect DEF Steps, SameFiles
  <2>2. artifact' = [artifact EXCEPT ![req.b] = None]
    BY <1>2, <1>6 DEF Stored
  <2>. QED BY <1>4, <2>1, <2>2
<1>7. CASE Goto("unpromote")
  <2>1. /\ req' \in Requests /\ req'.pc = "unpromote" /\ SamePlan /\ SameLoop
        /\ SameMoves
    BY <1>2, <1>7, GotoEffect DEF Steps
  <2>2. Promoted'
    BY <2>1 DEF Promoted, Forward, Promoting, Preparing, Moving, Ending
  <2>. QED
    BY <1>1, <1>2, <1>3, <2>1, <2>2, FileStep
       DEF Forward, Promoting, Preparing, Moving
<1>. QED
  BY <1>5, <1>6, <1>7 DEF KeepArtifact

LEMMA InstallArtifactSafe == SafeInv /\ InstallArtifact => SafeInv'
<1>. SUFFICES ASSUME SafeInv, InstallArtifact PROVE SafeInv'
  OBVIOUS
<1>1. /\ req.pc = "install"
      /\ UNCHANGED <<source, digest, row, owner, retired, image, debris, cont>>
  BY DEF InstallArtifact, At
<1>2. /\ req.b \in Builds /\ req.b \notin DoneSet /\ req \in Requests /\ Stored
      /\ \A i \in InstancesOf(req.b) : req.cut[i] = 0
      /\ ~req.final
  BY <1>1, NotMoved DEF Preparing
<1>3. req.new \in Versions
  BY <1>2 DEF Requests
<1>4. Stored'
  BY <1>1, <1>2, <1>3, UpdateAssumption DEF InstallArtifact, Stored, Works, Fails
<1>5. image[req.b] = req.new /\ artifact[req.b] = None
  BY <1>1 DEF SafeInv, Promoted, Promoting, Preparing
<1>6. ASSUME artifact' = [artifact EXCEPT ![req.b] = ArtifactOf(req.new)],
             req' \in Requests, req'.pc = "finalize", SamePlan, SameLoop,
             SameMoves
      PROVE  SafeInv'
  <2>1. \A i \in Instances : Switched(i)' <=> Switched(i)
    BY <1>1, <1>6, SwitchedSame DEF Preparing
  <2>2. \A x \in DoneSet : artifact'[x] = artifact[x]
    BY <1>2, <1>6 DEF Stored, DoneSet, Requests
  <2>3. /\ \A x \in DoneSet' : BuildIs(x, req.new)'
        /\ \A i \in Instances : Switched(i)' => InstanceIs(i, req.new)' /\ Lone(i)'
    BY <1>1, <1>6, <2>1, <2>2, PromotedStays DEF Forward, Promoting, Preparing
  <2>4. image'[req'.b] = req'.new /\ artifact'[req'.b] = ArtifactOf(req'.new)
    BY <1>1, <1>2, <1>5, <1>6 DEF Stored, SameLoop, SamePlan
  <2>5. Promoted'
    BY <1>6, <2>3, <2>4 DEF Promoted, Moving, Ending
  <2>. QED
    BY <1>1, <1>2, <1>4, <1>6, <2>5, FileStep DEF Forward, Promoting, Preparing
<1>7. CASE /\ req.new \in HasArtifacts
           /\ artifact' = [artifact EXCEPT ![req.b] = req.new]
           /\ req' = [req EXCEPT !.pc = "finalize",
                                 !.installed = @ \cup {req.b}]
  <2>1. /\ req' \in Requests /\ req'.pc = "finalize" /\ SamePlan /\ SameLoop
        /\ SameMoves
    BY <1>2, <1>7 DEF Requests, Steps, SamePlan, SameLoop, SameMoves
  <2>. QED BY <1>6, <1>7, <2>1 DEF ArtifactOf
<1>8. CASE req.new \notin HasArtifacts /\ Goto("finalize") /\ UNCHANGED artifact
  <2>1. /\ req' \in Requests /\ req'.pc = "finalize" /\ SamePlan /\ SameLoop
        /\ SameMoves
    BY <1>2, <1>8, GotoEffect DEF Steps
  <2>2. artifact' = [artifact EXCEPT ![req.b] = ArtifactOf(req.new)]
    BY <1>2, <1>5, <1>8 DEF Stored, ArtifactOf
  <2>. QED BY <1>6, <2>1, <2>2
<1>9. CASE Goto("unpromote")
  <2>1. /\ req' \in Requests /\ req'.pc = "unpromote" /\ SamePlan /\ SameLoop
        /\ SameMoves
    BY <1>2, <1>9, GotoEffect DEF Steps
  <2>2. Promoted'
    BY <2>1 DEF Promoted, Forward, Promoting, Preparing, Moving, Ending
  <2>. QED
    BY <1>1, <1>2, <1>4, <2>1, <2>2, FileStep
       DEF Forward, Promoting, Preparing, Moving
<1>. QED
  BY <1>7, <1>8, <1>9 DEF InstallArtifact

LEMMA FinalizeBuildSafe == SafeInv /\ FinalizeBuild => SafeInv'
<1>. SUFFICES ASSUME SafeInv, FinalizeBuild PROVE SafeInv'
  OBVIOUS
<1>1. /\ req.pc = "finalize"
      /\ UNCHANGED <<source, digest, owner, retired, image, artifact, debris, cont>>
  BY DEF FinalizeBuild, At, files
<1>2. /\ req.b \in Builds /\ req.b \notin DoneSet /\ req \in Requests /\ Stored
      /\ \A i \in InstancesOf(req.b) : req.cut[i] = 0
  BY <1>1, NotMoved
<1>3. req.new \in Versions
  BY <1>2 DEF Requests
<1>4. Stored'
  BY <1>1, <1>2, <1>3, UpdateAssumption DEF FinalizeBuild, Stored, Works, Fails
<1>5. CASE /\ row' = [row EXCEPT ![req.b] = req.new]
           /\ req' = [req EXCEPT !.pc = "pause", !.left = InstancesOf(req.b)]
  <2>1. /\ req' \in Requests /\ req'.pc = "pause" /\ SamePlan /\ SameLoop
        /\ SameMoves /\ req'.left = InstancesOf(req.b)
    <3>1. InstancesOf(req.b) \subseteq Instances
      BY DEF InstancesOf
    <3>. QED
      BY <1>2, <1>5, <3>1 DEF Requests, Steps, SamePlan, SameLoop, SameMoves
  <2>2. \A i \in Instances : Switched(i)' <=> Switched(i)
    BY <1>1, <2>1, SwitchedSame DEF Preparing
  <2>3. \A x \in DoneSet : row'[x] = row[x]
    BY <1>2, <1>5 DEF Stored, DoneSet, Requests
  <2>4. /\ \A x \in DoneSet' : BuildIs(x, req.new)'
        /\ \A i \in Instances : Switched(i)' => InstanceIs(i, req.new)' /\ Lone(i)'
    BY <1>1, <2>1, <2>2, <2>3, PromotedStays DEF Forward, Promoting, Preparing
  <2>5. /\ image[req.b] = req.new /\ artifact[req.b] = ArtifactOf(req.new)
    BY <1>1 DEF SafeInv, Promoted, Promoting, Preparing
  <2>6. /\ image'[req'.b] = req'.new /\ artifact'[req'.b] = ArtifactOf(req'.new)
        /\ row'[req'.b] = req'.new
    BY <1>1, <1>2, <1>5, <2>1, <2>5 DEF Stored, SameLoop, SamePlan
  <2>7. Promoted'
    BY <2>1, <2>4, <2>6 DEF Promoted, Ending
  <2>. QED
    BY <1>1, <1>2, <1>4, <2>1, <2>7, FileStep
       DEF Forward, Promoting, Preparing
<1>6. CASE Revert
  <2>1. /\ req' \in Requests /\ req'.pc = "giveback" /\ SamePlan /\ SameLoop
        /\ SameMoves /\ req'.final
    BY <1>2, <1>6 DEF Revert, Requests, Steps, SamePlan, SameLoop, SameMoves
  <2>2. Promoted'
    BY <2>1 DEF Promoted, Forward, Promoting, Preparing, Moving, Ending
  <2>. QED
    BY <1>1, <1>2, <1>4, <2>1, <2>2, FileStep
       DEF Forward, Promoting, Preparing, Moving
<1>. QED
  BY <1>5, <1>6 DEF FinalizeBuild

LEMMA UnpromoteEffect ==
  ASSUME req \in Requests, Unpromote
  PROVE  /\ req' \in Requests /\ SamePlan /\ SameLoop /\ SameMoves
         /\ req'.pc = IF req.final THEN "unfinalize" ELSE "discard"
         /\ req'.saved = req.saved
         /\ req'.kept = req.kept \ {req.b}
         /\ req'.installed = req.installed \ {req.b}
<1>1. req' = [req EXCEPT !.pc = IF req.final THEN "unfinalize" ELSE "discard",
                         !.kept = @ \ {req.b}, !.installed = @ \ {req.b}]
  BY DEF Unpromote
<1>2. (IF req.final THEN "unfinalize" ELSE "discard") \in Steps
  BY DEF Steps
<1>. QED
  BY <1>1, <1>2 DEF Requests, SamePlan, SameLoop, SameMoves

LEMMA UnpromoteSafe == SafeInv /\ Unpromote => SafeInv'
<1>. SUFFICES ASSUME SafeInv, Unpromote PROVE SafeInv'
  OBVIOUS
<1>1. /\ req.pc = "unpromote"
      /\ UNCHANGED <<source, digest, row, owner, retired, cont>>
  BY DEF Unpromote, At
<1>2. /\ req.b \in Builds /\ req \in Requests /\ Stored
      /\ \A i \in InstancesOf(req.b) : req.cut[i] = 0
  BY <1>1, NotMoved
<1>3. /\ req.saved[req.b].image \in Versions
      /\ req.saved[req.b].artifact \in Versions \cup {None}
  BY <1>2 DEF Requests, Saved
<1>4. Stored'
  BY <1>1, <1>2, <1>3, UpdateAssumption DEF Unpromote, Stored, Works, Fails
<1>5. /\ req' \in Requests /\ SamePlan /\ SameLoop /\ SameMoves
      /\ req'.pc \in {"unfinalize", "discard"}
  BY <1>2, UnpromoteEffect
<1>6. Promoted'
  BY <1>5 DEF Promoted, Forward, Promoting, Preparing, Moving, Ending
<1>. QED
  BY <1>1, <1>2, <1>4, <1>5, <1>6, FileStep
     DEF Forward, Promoting, Preparing, Moving

LEMMA UnfinalizeSafe == SafeInv /\ Unfinalize => SafeInv'
<1>. SUFFICES ASSUME SafeInv, Unfinalize PROVE SafeInv'
  OBVIOUS
<1>1. /\ req.pc = "unfinalize" /\ Goto("discard")
      /\ UNCHANGED <<source, digest, owner, retired, image, artifact, debris, cont>>
  BY DEF Unfinalize, At, files
<1>2. /\ req.b \in Builds /\ req \in Requests /\ Stored
      /\ \A i \in InstancesOf(req.b) : req.cut[i] = 0
  BY <1>1, NotMoved
<1>3. req.saved[req.b].row \in Versions
  BY <1>2 DEF Requests, Saved
<1>4. Stored'
  BY <1>1, <1>2, <1>3, UpdateAssumption DEF Unfinalize, Stored, Works, Fails
<1>5. /\ req' \in Requests /\ SamePlan /\ SameLoop /\ SameMoves
      /\ req'.pc = "discard"
  BY <1>1, <1>2, GotoEffect DEF Steps
<1>6. Promoted'
  BY <1>5 DEF Promoted, Forward, Promoting, Preparing, Moving, Ending
<1>. QED
  BY <1>1, <1>2, <1>4, <1>5, <1>6, FileStep
     DEF Forward, Promoting, Preparing, Moving

LEMMA CleanupSafe == SafeInv /\ Cleanup => SafeInv'
<1>. SUFFICES ASSUME SafeInv, Cleanup PROVE SafeInv'
  OBVIOUS
<1>1. /\ TypeOK /\ Place /\ Order /\ Cutovers /\ Promoted
      /\ Stored /\ req \in Requests
  BY Types DEF SafeInv
<1>2. /\ req.pc = "cleanup"
      /\ UNCHANGED <<source, digest, row, owner, retired, image, artifact, cont>>
  BY DEF Cleanup, At
<1>3. Stored' /\ Contained' /\ AlwaysOneActive' /\ OwnersAgree'
  BY <1>1, <1>2, SameContainers, UpdateAssumption
     DEF Cleanup, Stored, Works, Fails
<1>4. CASE req' = Idle
  BY <1>3, <1>4, IdleSafe
<1>5. CASE debris' = {} /\ Goto("complete")
  <2>1. /\ req' \in Requests /\ req'.pc = "complete" /\ SamePlan /\ SameLoop
        /\ SameMoves
    BY <1>1, <1>5, GotoEffect DEF Steps
  <2>2. DoneSet' = DoneSet /\ Hand' = {}
    BY <2>1 DEF DoneSet, SameLoop, Hand, Promoting, Preparing, Moving, Undoing
  <2>3. Place'
    BY <1>1, <1>2, <2>1, <2>2
       DEF Place, SameLoop, Forward, Promoting, Preparing, Moving, Cutting
  <2>4. \A i \in Instances : ~Switched(i)'
    BY <2>1 DEF Switched, Forward, Backward, Promoting, Preparing, Moving, Undoing
  <2>5. Order'
    BY <1>1, <2>1, <2>2, <2>4 DEF Order, SameMoves, Preparing, Moving
  <2>6. Cutovers'
    BY <1>1, <1>2, <2>1, <2>4, QuietCutovers DEF Cutting
  <2>7. Promoted'
    <3>1. /\ \A x \in Builds : BuildIs(x, req.new)
          /\ \A i \in Instances : InstanceIs(i, req.new) /\ Lone(i)
      BY <1>1, <1>2 DEF Promoted, Ending
    <3>2. /\ \A x \in Builds : BuildIs(x, req.new)'
          /\ \A i \in Instances : InstanceIs(i, req.new)' /\ Lone(i)'
      BY <1>2, <2>1, <3>1 DEF BuildIs, InstanceIs, Lone, SamePlan
    <3>. QED
      BY <1>5, <2>1, <3>2
         DEF Promoted, Forward, Promoting, Preparing, Moving
  <2>. QED BY <1>3, <2>1, <2>3, <2>5, <2>6, <2>7, TypesNext DEF SafeInv
<1>. QED
  BY <1>4, <1>5 DEF Cleanup

-----------------------------------------------------------------------------
(* Moving the instances.                                                   *)

LEMMA Owners ==
  ASSUME SafeInv
  PROVE  /\ \A c \in Containers : owner[c] # None =>
              c \notin retired /\ cont[c].st # "none" /\ cont[c].of = owner[c]
         /\ \A c, d \in Containers : owner[c] # None /\ owner[c] = owner[d] => c = d
         /\ \A i \in Instances : \E c \in Containers : owner[c] = i
BY Types DEF SafeInv, Cutovers, AlwaysOneActive, OwnersAgree, Contained

LEMMA Activity ==
  ASSUME SafeInv, NEW i \in Instances
  PROVE  Active(i) \in Containers /\ owner[Active(i)] = i
BY Owners DEF Active

\* The old containers of the moved instances are nobody's, and differ.
LEMMA Pairs ==
  ASSUME SafeInv
  PROVE  /\ \A i \in Instances : Switched(i) =>
              /\ req.cut[i] \in Containers /\ req.old[i] \in Containers
              /\ owner[req.cut[i]] = i /\ owner[req.old[i]] = None
              /\ req.old[i] \in retired
              /\ cont[req.old[i]].st # "none" /\ cont[req.old[i]].of = i
         /\ \A i, j \in Instances : Switched(i) /\ Switched(j) /\ i # j =>
              req.old[i] # req.old[j] /\ req.cut[i] # req.cut[j]
BY Owners DEF SafeInv, Cutovers, Pair

LEMMA PauseOldSafe == SafeInv /\ PauseOld => SafeInv'
<1>. SUFFICES ASSUME SafeInv, PauseOld PROVE SafeInv'
  OBVIOUS
<1>. DEFINE i == CHOOSE x \in req.left : TRUE
            c == Active(i)
<1>1. /\ TypeOK /\ Place /\ Order /\ Cutovers /\ Promoted
      /\ Stored /\ Contained /\ req \in Requests
  BY Types DEF SafeInv
<1>2. req.pc = "pause" /\ UNCHANGED <<source, digest, row, owner, retired, image, artifact, debris>>
  BY DEF PauseOld, At, files
<1>3. Stored'
  BY <1>1, <1>2, UpdateAssumption DEF PauseOld, Stored, Works, Fails
<1>4. Hand = {req.b} /\ digest' = None /\ req.b \in Builds /\ req.b \notin DoneSet
  BY <1>1, <1>2 DEF Hand, Place, Promoting, Moving
<1>5. \A j \in Instances : Switched(j) <=> req.cut[j] # 0
  BY <1>2 DEF Switched, Forward, Promoting, Moving
<1>6. CASE /\ req.left # {}
           /\ cont' = [cont EXCEPT ![c].st = "exited"]
           /\ req' = [req EXCEPT !.pc = "start", !.inst = i, !.old[i] = c]
  <2>1. i \in req.left
    BY <1>6
  <2>2. i \in Instances /\ i \in InstancesOf(req.b) /\ req.cut[i] = 0
    <3>. HIDE DEF i
    <3>. QED BY <1>1, <1>2, <1>5, <2>1 DEF Place, Order, InstancesOf, Moving
  <2>3. c \in Containers /\ owner[c] = i
    BY <2>2, Activity
  <2>. HIDE DEF i, c
  <2>4. /\ req' \in Requests /\ req'.pc = "start" /\ req'.inst = i /\ SamePlan /\ SameLoop
        /\ req'.left = req.left /\ req'.cut = req.cut
        /\ req'.old[i] = c /\ \A j \in Instances \ {i} : req'.old[j] = req.old[j]
    <3>1. PICK f : f = [req.old EXCEPT ![i] = c] OBVIOUS
    <3>2. /\ f \in [Instances -> Containers \cup {0}] /\ f[i] = c
          /\ \A j \in Instances \ {i} : f[j] = req.old[j]
      BY <1>1, <2>2, <2>3, <3>1 DEF Requests
    <3>3. req' = [req EXCEPT !.pc = "start", !.inst = i, !.old = f]
      BY <1>6, <3>1
    <3>4. req' \in Requests
      <4>1. /\ req \in Requests /\ i \in Instances
            /\ f \in [Instances -> Containers \cup {0}]
        BY <1>1, <2>2, <3>2
      <4>. QED BY <3>3, <4>1 DEF Requests, Steps
    <3>5. /\ req'.pc = "start" /\ req'.inst = i /\ req'.left = req.left
          /\ req'.cut = req.cut /\ req'.old = f
      BY <1>1, <3>3 DEF Requests
    <3>6. SamePlan /\ SameLoop
      BY <1>1, <3>3 DEF Requests, SamePlan, SameLoop
    <3>. QED BY <3>2, <3>4, <3>5, <3>6
  <2>5. /\ cont' \in [Containers -> ContainerType]
        /\ \A d \in Containers : cont'[d].of = cont[d].of /\ cont'[d].ver = cont[d].ver
        /\ cont'[c].st = "exited"
        /\ \A d \in Containers \ {c} : cont'[d] = cont[d]
    BY <1>1, <1>6, <2>3 DEF Contained, ContainerType
  <2>6. Contained'
    BY <1>1, <1>2, <2>5 DEF Contained
  <2>7. DoneSet' = DoneSet /\ Hand' = {req.b}
    BY <2>4 DEF DoneSet, Hand, Promoting, Moving, SameLoop
  <2>8. Place'
    BY <1>1, <1>2, <1>4, <2>1, <2>2, <2>4, <2>7
       DEF Place, SameLoop, Forward, Promoting, Preparing, Moving
  <2>9. \A j \in Instances : Switched(j)' <=> Switched(j)
    BY <1>5, <2>4 DEF Switched, Forward, Promoting, Moving
  <2>10. Order'
    BY <1>1, <1>2, <1>4, <2>4, <2>7, <2>9
       DEF Order, SameLoop, InstancesOf, Preparing, Moving
  <2>11. AlwaysOneActive' /\ OwnersAgree'
    BY <1>1, <1>2, <2>5 DEF Cutovers, AlwaysOneActive, OwnersAgree
  <2>12. Cutover'
    BY <1>2, <2>2, <2>3, <2>4 DEF Cutover
  <2>13. ASSUME NEW j \in Instances, Switched(j)' PROVE Pair(j)'
    <3>1. Switched(j) /\ j # i
      BY <1>5, <2>2, <2>9, <2>13
    <3>2. req.old[j] # c
      BY <2>2, <2>3, <3>1, Pairs, NoneApart
    <3>. QED BY <1>2, <2>4, <2>5, <3>1, <3>2, Pairs DEF Pair
  <2>14. Promoted'
    <3>1. /\ \A x \in DoneSet : BuildIs(x, req.new)
          /\ \A j \in Instances : Switched(j) => InstanceIs(j, req.new) /\ Lone(j)
          /\ image[req.b] = req.new /\ artifact[req.b] = ArtifactOf(req.new)
          /\ row[req.b] = req.new
      BY <1>1, <1>2 DEF Promoted, Forward, Promoting, Moving, Preparing
    <3>2. \A x \in DoneSet : BuildIs(x, req.new)'
      BY <1>2, <2>4, <3>1 DEF BuildIs, SamePlan
    <3>3. \A j \in Instances : Switched(j) => InstanceIs(j, req.new)' /\ Lone(j)'
      BY <1>2, <2>4, <2>5, <3>1 DEF InstanceIs, Lone, SamePlan
    <3>. QED
      BY <1>2, <2>4, <2>7, <2>9, <3>1, <3>2, <3>3
         DEF Promoted, SamePlan, SameLoop, Ending
  <2>. QED
    BY <1>3, <2>4, <2>6, <2>8, <2>10, <2>11, <2>12, <2>13, <2>14, TypesNext
       DEF SafeInv, Cutovers
<1>7. CASE Revert /\ UNCHANGED cont
  <2>1. /\ req' \in Requests /\ req'.pc = "giveback" /\ SamePlan /\ SameLoop
        /\ SameMoves /\ req'.final
    BY <1>1, <1>7 DEF Revert, Requests, Steps, SamePlan, SameLoop, SameMoves
  <2>2. DoneSet' = DoneSet /\ Hand' = {req.b}
    BY <2>1 DEF DoneSet, Hand, Undoing, SameLoop
  <2>3. Place'
    BY <1>1, <1>2, <1>4, <2>1, <2>2
       DEF Place, SameLoop, Forward, Promoting, Preparing, Moving, Cutting
  <2>4. \A j \in Instances : Switched(j)' <=> Switched(j)
    BY <1>5, <2>1 DEF Switched, SameMoves, Backward, Undoing
  <2>5. Order'
    BY <1>1, <1>2, <1>4, <2>1, <2>2, <2>4 DEF Order, SameMoves, Preparing, Moving
  <2>6. Cutovers'
    BY <1>1, <1>2, <1>7, <2>1, <2>4, QuietCutovers DEF Cutting
  <2>7. Promoted'
    BY <2>1 DEF Promoted, Forward, Promoting, Preparing, Moving, Ending
  <2>. QED
    BY <1>2, <1>3, <1>7, <2>1, <2>3, <2>5, <2>6, <2>7, SameContainers, TypesNext
       DEF SafeInv
<1>8. CASE /\ req.left = {} /\ UNCHANGED cont
           /\ req' = [req EXCEPT !.pc = "build", !.done = Append(@, req.b)]
  <2>1. Append(req.done, req.b) \in Seq(Builds)
    BY <1>1, <1>4 DEF Requests
  <2>2. /\ req' \in Requests /\ req'.pc = "build" /\ SamePlan /\ SameMoves
        /\ req'.todo = req.todo /\ req'.done = Append(req.done, req.b)
    BY <1>1, <1>8, <2>1 DEF Requests, Steps, SamePlan, SameMoves
  <2>3. DoneSet' = DoneSet \cup {req.b} /\ Distinct(req'.done)
    <3>1. req.done \in Seq(Builds) /\ Distinct(req.done)
      BY <1>1 DEF Requests, Place
    <3>2. PICK s : s = req.done
      OBVIOUS
    <3>3. PICK n \in Nat : n = Len(s) /\ DOMAIN s = 1 .. n
      BY <3>1, <3>2
    <3>4. PICK t : t = Append(s, req.b)
      OBVIOUS
    <3>5. /\ DOMAIN t = 1 .. n + 1 /\ t[n + 1] = req.b
          /\ \A k \in 1 .. n : t[k] = s[k]
      BY <3>1, <3>2, <3>3, <3>4, <1>4
    <3>6. Elems(t) = Elems(s) \cup {req.b}
      <4>1. ASSUME NEW x \in Elems(t) PROVE x \in Elems(s) \cup {req.b}
        <5>1. PICK k \in 1 .. n + 1 : x = t[k]
          BY <3>5 DEF Elems
        <5>2. k \in 1 .. n \/ k = n + 1
          BY <3>3
        <5>. QED BY <3>3, <3>5, <5>1, <5>2 DEF Elems
      <4>2. ASSUME NEW x \in Elems(s) PROVE x \in Elems(t)
        <5>1. PICK k \in 1 .. n : x = s[k]
          BY <3>3 DEF Elems
        <5>2. k \in 1 .. n + 1
          BY <3>3
        <5>. QED BY <3>5, <5>1, <5>2 DEF Elems
      <4>3. req.b \in Elems(t)
        <5>1. n + 1 \in 1 .. n + 1
          BY <3>3
        <5>. QED BY <3>5, <5>1 DEF Elems
      <4>. QED BY <4>1, <4>2, <4>3
    <3>7. \A k \in 1 .. n : s[k] # req.b
      BY <1>4, <3>2, <3>3 DEF DoneSet, Elems
    <3>8. Distinct(t)
      <4>1. ASSUME NEW j \in 1 .. n + 1, NEW k \in 1 .. n + 1, t[j] = t[k]
            PROVE  j = k
        <5>1. (j \in 1 .. n \/ j = n + 1) /\ (k \in 1 .. n \/ k = n + 1)
          BY <3>3
        <5>2. \A x, y \in 1 .. n : s[x] = s[y] => x = y
          BY <3>1, <3>2, <3>3 DEF Distinct
        <5>. QED BY <3>5, <3>7, <4>1, <5>1, <5>2
      <4>. QED BY <3>5, <4>1 DEF Distinct
    <3>. QED BY <2>2, <3>2, <3>4, <3>6, <3>8 DEF DoneSet
  <2>4. Hand' = {}
    BY <2>2 DEF Hand, Promoting, Preparing, Moving, Undoing
  <2>5. Place'
    BY <1>1, <1>2, <1>4, <2>2, <2>3, <2>4
       DEF Place, Forward, Promoting, Preparing, Moving, Cutting
  <2>6. \A j \in Instances : Switched(j)' <=> Switched(j)
    BY <1>5, <2>2 DEF Switched, SameMoves, Forward
  <2>7. \A j \in Instances : BuildOf[j] = req.b => req.cut[j] # 0
    BY <1>1, <1>2, <1>5, <1>8 DEF Order, InstancesOf, Moving
  <2>8. Order'
    BY <1>1, <1>2, <1>4, <2>2, <2>3, <2>4, <2>6, <2>7
       DEF Order, SameMoves, Preparing, Moving
  <2>9. Cutovers'
    BY <1>1, <1>2, <1>8, <2>2, <2>6, QuietCutovers DEF Cutting
  <2>10. Promoted'
    <3>1. /\ \A x \in DoneSet \cup {req.b} : BuildIs(x, req.new)
          /\ \A j \in Instances : Switched(j) => InstanceIs(j, req.new) /\ Lone(j)
      BY <1>1, <1>2 DEF Promoted, BuildIs, Forward, Promoting, Moving, Preparing
    <3>2. \A x \in DoneSet \cup {req.b} : BuildIs(x, req.new)'
      BY <1>2, <2>2, <3>1 DEF BuildIs, SamePlan
    <3>3. \A j \in Instances : Switched(j) => InstanceIs(j, req.new)' /\ Lone(j)'
      BY <1>2, <1>8, <2>2, <3>1 DEF InstanceIs, Lone, SamePlan
    <3>. QED
      BY <2>2, <2>3, <2>6, <3>2, <3>3
         DEF Promoted, SamePlan, Promoting, Preparing, Moving, Ending
  <2>. QED
    BY <1>2, <1>3, <1>8, <2>2, <2>5, <2>8, <2>9, <2>10, SameContainers, TypesNext
       DEF SafeInv
<1>. QED
  BY <1>6, <1>7, <1>8 DEF PauseOld

LEMMA StartNewSafe == SafeInv /\ StartNew => SafeInv'
<1>. SUFFICES ASSUME SafeInv, StartNew PROVE SafeInv'
  OBVIOUS
<1>. DEFINE i == req.inst
            c == CHOOSE x \in Fresh : \A y \in Fresh : x <= y
            new(st) == [cont EXCEPT ![c] = [st |-> st, of |-> i,
                                            ver |-> image[req.b]]]
            failed == [req EXCEPT !.pc = "retake", !.left = {}, !.final = TRUE,
                                  !.cut[i] = c]
<1>1. /\ TypeOK /\ Place /\ Order /\ Cutovers /\ Promoted
      /\ Stored /\ Contained /\ req \in Requests
  BY Types DEF SafeInv
<1>2. req.pc = "start" /\ UNCHANGED <<source, digest, row, owner, image, artifact, debris>>
  BY DEF StartNew, At, files
<1>3. Stored'
  BY <1>1, <1>2, UpdateAssumption DEF StartNew, Stored, Works, Fails
<1>4. /\ Hand = {req.b} /\ digest' = None /\ req.b \in Builds /\ req.b \notin DoneSet
      /\ i \in Instances /\ i \in InstancesOf(req.b) /\ i \in req.left
  BY <1>1, <1>2 DEF Hand, Place, Promoting, Moving, Cutting, InstancesOf
<1>5. \A j \in Instances : Switched(j) <=> req.cut[j] # 0
  BY <1>2 DEF Switched, Forward, Promoting, Moving
<1>6. /\ req.old[i] \in Containers /\ owner[req.old[i]] = i /\ req.cut[i] = 0
  BY <1>1, <1>2 DEF Cutovers, Cutover, Cutting
<1>7. /\ c \in Containers /\ cont[c] = Gone /\ owner[c] = None /\ c \notin retired
      /\ \A j \in Instances : req.old[j] # c
  <2>1. Fresh # {} /\ Fresh \subseteq Containers
    BY DEF StartNew, Fresh
  <2>2. c \in Fresh
    BY <2>1, FirstContainer
  <2>. HIDE DEF c
  <2>. QED BY <2>2 DEF Fresh
<1>8. image[req.b] = req.new /\ req.new \in Versions
  BY <1>1, <1>2 DEF Promoted, Promoting, Moving, Preparing, Requests
<1>9. CASE /\ PortFree(i, c)
           /\ cont' = new("running") /\ retired' = retired \cup {c}
           /\ req' = [req EXCEPT !.pc = "commit", !.cut[i] = c]
  <2>1. /\ cont' \in [Containers -> ContainerType]
        /\ cont'[c] = [st |-> "running", of |-> i, ver |-> req.new]
        /\ \A d \in Containers \ {c} : cont'[d] = cont[d]
    BY <1>1, <1>4, <1>7, <1>8, <1>9 DEF Contained, ContainerType
  <2>. HIDE DEF c
  <2>2. /\ req' \in Requests /\ req'.pc = "commit" /\ SamePlan /\ SameLoop
        /\ SameVisit /\ req'.old = req.old /\ req'.cut[i] = c
        /\ \A j \in Instances \ {i} : req'.cut[j] = req.cut[j]
    <3>1. PICK f : f = [req.cut EXCEPT ![i] = c] OBVIOUS
    <3>2. /\ f \in [Instances -> Containers \cup {0}] /\ f[i] = c
          /\ \A j \in Instances \ {i} : f[j] = req.cut[j]
      BY <1>1, <1>4, <1>7, <3>1 DEF Requests
    <3>3. req' = [req EXCEPT !.pc = "commit", !.cut = f] BY <1>9, <3>1
    <3>. QED BY <1>1, <3>2, <3>3
             DEF Requests, Steps, SamePlan, SameLoop, SameVisit
  <2>3. Contained'
    BY <1>1, <1>2, <1>7, <1>9, <2>1 DEF Contained
  <2>4. DoneSet' = DoneSet /\ Hand' = {req.b}
    BY <2>2 DEF DoneSet, Hand, Promoting, Moving, SameLoop
  <2>5. Place'
    BY <1>1, <1>2, <1>4, <2>2, <2>4
       DEF Place, SameLoop, SameVisit, Forward, Promoting, Preparing, Moving
  <2>6. \A j \in Instances : Switched(j)' <=> Switched(j)
    BY <1>5, <1>6, <2>2 DEF Switched, SameVisit, Forward, Promoting, Moving
  <2>7. Order'
    <3>1. \A j \in Instances : BuildOf[j] \in DoneSet => j # i
      BY <1>4 DEF InstancesOf
    <3>. QED
      BY <1>1, <1>2, <1>4, <2>2, <2>4, <2>6, <3>1
         DEF Order, SameLoop, SameVisit, InstancesOf, Preparing, Moving
  <2>8. AlwaysOneActive' /\ OwnersAgree'
    BY <1>1, <1>2, <1>7, <1>9, <2>1, NoneApart DEF Cutovers, AlwaysOneActive, OwnersAgree
  <2>9. Cutover'
    <3>1. \A d \in Containers \ {c} : cont'[d].of = i => cont'[d].st # "running"
      BY <1>9, <2>1 DEF PortFree
    <3>. QED
      BY <1>2, <1>6, <1>7, <1>9, <2>1, <2>2, <3>1
         DEF Cutover, PortFree, SameVisit, SamePlan
  <2>10. ASSUME NEW j \in Instances, Switched(j)' PROVE Pair(j)'
    <3>1. Switched(j) /\ j # i
      BY <1>5, <1>6, <2>6, <2>10
    <3>. QED BY <1>2, <1>7, <1>9, <2>1, <2>2, <3>1, Pairs DEF Pair
  <2>11. Promoted'
    <3>1. /\ \A x \in DoneSet : BuildIs(x, req.new)
          /\ \A j \in Instances : Switched(j) => InstanceIs(j, req.new) /\ Lone(j)
          /\ artifact[req.b] = ArtifactOf(req.new)
          /\ row[req.b] = req.new
      BY <1>1, <1>2 DEF Promoted, Forward, Promoting, Moving, Preparing
    <3>2. \A x \in DoneSet : BuildIs(x, req.new)'
      BY <1>2, <2>2, <3>1 DEF BuildIs, SamePlan
    <3>3. \A j \in Instances : Switched(j) => InstanceIs(j, req.new)' /\ Lone(j)'
      BY <1>2, <1>5, <1>6, <1>7, <2>1, <2>2, <3>1, NoneApart
         DEF InstanceIs, Lone, SamePlan
    <3>. QED
      BY <1>2, <1>8, <2>2, <2>4, <2>6, <3>1, <3>2, <3>3
         DEF Promoted, SamePlan, SameLoop, Ending
  <2>. QED
    BY <1>3, <2>2, <2>3, <2>5, <2>7, <2>8, <2>9, <2>10, <2>11, TypesNext
       DEF SafeInv, Cutovers
<1>10. CASE /\ \/ cont' = new("exited") /\ retired' = retired \cup {c}
               \/ UNCHANGED <<cont, retired>>
            /\ req' = failed
  <2>1. /\ cont' \in [Containers -> ContainerType]
        /\ cont'[c] = Gone \/ cont'[c].of = i
        /\ \A d \in Containers \ {c} : cont'[d] = cont[d]
    <3>1. CASE UNCHANGED <<cont, retired>>
      BY <1>1, <1>7, <3>1 DEF Contained
    <3>2. CASE cont' = new("exited")
      BY <1>1, <1>4, <1>7, <1>8, <3>2 DEF Contained, ContainerType
    <3>. QED BY <1>10, <3>1, <3>2
  <2>. HIDE DEF c
  <2>2. /\ req' \in Requests /\ req'.pc = "retake" /\ SamePlan /\ SameLoop /\ req'.final
        /\ req'.inst = i /\ req'.old = req.old /\ req'.cut[i] = c
        /\ \A j \in Instances \ {i} : req'.cut[j] = req.cut[j]
    <3>1. PICK f : f = [req.cut EXCEPT ![i] = c] OBVIOUS
    <3>2. /\ f \in [Instances -> Containers \cup {0}] /\ f[i] = c
          /\ \A j \in Instances \ {i} : f[j] = req.cut[j]
      BY <1>1, <1>4, <1>7, <3>1 DEF Requests
    <3>3. req' = [req EXCEPT !.pc = "retake", !.left = {}, !.final = TRUE,
                             !.cut = f]
      BY <1>10, <3>1
    <3>. QED BY <1>1, <3>2, <3>3 DEF Requests, Steps, SamePlan, SameLoop
  <2>3. retired \subseteq retired' /\ retired' \subseteq retired \cup {c}
    BY <1>10
  <2>4. Contained'
    BY <1>1, <1>2, <1>7, <2>1, <2>3 DEF Contained
  <2>5. DoneSet' = DoneSet /\ Hand' = {req.b}
    BY <2>2 DEF DoneSet, Hand, Undoing, SameLoop
  <2>6. Place'
    BY <1>1, <1>2, <1>4, <2>2, <2>5
       DEF Place, SameLoop, Forward, Promoting, Preparing, Moving
  <2>7. \A j \in Instances : Switched(j)' <=> Switched(j)
    BY <1>5, <1>6, <2>2 DEF Switched, Backward, Undoing
  <2>8. Order'
    <3>1. \A j \in Instances : BuildOf[j] \in DoneSet => j # i
      BY <1>4 DEF InstancesOf
    <3>. QED
      BY <1>1, <1>2, <1>4, <2>2, <2>5, <2>7, <3>1
         DEF Order, SameLoop, InstancesOf, Preparing, Moving
  <2>9. AlwaysOneActive' /\ OwnersAgree'
    BY <1>1, <1>2, <1>7, <2>1, <2>3, NoneApart DEF Cutovers, AlwaysOneActive, OwnersAgree
  <2>10. Cutover'
    BY <1>2, <1>6, <1>7, <2>1, <2>2 DEF Cutover
  <2>11. ASSUME NEW j \in Instances, Switched(j)' PROVE Pair(j)'
    <3>1. Switched(j) /\ j # i
      BY <1>5, <1>6, <2>7, <2>11
    <3>. QED BY <1>2, <1>7, <2>1, <2>2, <2>3, <3>1, Pairs DEF Pair
  <2>12. Promoted'
    BY <2>2 DEF Promoted, Forward, Promoting, Preparing, Moving, Ending
  <2>. QED
    BY <1>3, <2>2, <2>4, <2>6, <2>8, <2>9, <2>10, <2>11, <2>12, TypesNext
       DEF SafeInv, Cutovers
<1>. QED
  BY <1>9, <1>10 DEF StartNew

LEMMA CommitNewSafe == SafeInv /\ CommitNew => SafeInv'
<1>. SUFFICES ASSUME SafeInv, CommitNew PROVE SafeInv'
  OBVIOUS
<1>. DEFINE i == req.inst
            c == req.cut[i]
            o == req.old[i]
<1>1. /\ TypeOK /\ Place /\ Order /\ Cutovers /\ Promoted
      /\ Stored /\ Contained /\ req \in Requests
  BY Types DEF SafeInv
<1>2. /\ req.pc = "commit"
      /\ UNCHANGED <<source, digest, row, image, artifact, debris, cont>>
  BY DEF CommitNew, At, files
<1>3. Stored'
  BY <1>1, <1>2, UpdateAssumption DEF CommitNew, Stored, Works, Fails
<1>4. /\ Hand = {req.b} /\ digest' = None /\ req.b \in Builds /\ req.b \notin DoneSet
      /\ i \in Instances /\ i \in InstancesOf(req.b) /\ i \in req.left
  BY <1>1, <1>2 DEF Hand, Place, Promoting, Moving, Cutting, InstancesOf
<1>5. \A j \in Instances : Switched(j) <=> req.cut[j] # 0 /\ j # i
  BY <1>2 DEF Switched, Forward, Promoting, Moving
<1>6. /\ o \in Containers /\ owner[o] = i /\ c \in Containers /\ owner[c] = None
      /\ c \in retired /\ cont[c] = [st |-> "running", of |-> i, ver |-> req.new]
      /\ PortFree(i, c) /\ o # c /\ c # 0
  BY <1>1, <1>2, <1>4, NoneApart, UpdateAssumption
     DEF Cutovers, Cutover, Cutting, Containers
<1>7. cont[o].st # "none" /\ cont[o].of = i
  BY <1>4, <1>6, Owners, NoneApart
<1>8. CASE /\ owner' = [owner EXCEPT ![c] = i, ![o] = None]
           /\ retired' = (retired \ {c}) \cup {o}
           /\ req' = [req EXCEPT !.pc = "pause", !.left = @ \ {i}, !.inst = None]
  <2>1. /\ req' \in Requests /\ req'.pc = "pause" /\ SamePlan /\ SameLoop
        /\ SameMoves /\ req'.left = req.left \ {i}
    BY <1>1, <1>8 DEF Requests, Steps, SamePlan, SameLoop, SameMoves
  <2>2. /\ owner'[c] = i /\ owner'[o] = None
        /\ \A d \in Containers \ {c, o} : owner'[d] = owner[d]
        /\ owner' \in [Containers -> Instances \cup {None}]
    BY <1>1, <1>4, <1>6, <1>8 DEF Contained
  <2>. HIDE DEF c, o, i
  <2>3. Contained'
    BY <1>1, <1>2, <1>6, <1>8, <2>2 DEF Contained
  <2>4. DoneSet' = DoneSet /\ Hand' = {req.b}
    BY <2>1 DEF DoneSet, Hand, Promoting, Moving, SameLoop
  <2>5. Place'
    BY <1>1, <1>2, <1>4, <2>1, <2>4
       DEF Place, SameLoop, Forward, Promoting, Preparing, Moving, Cutting
  <2>6. \A j \in Instances : Switched(j)' <=> Switched(j) \/ j = i
    BY <1>5, <1>6, <2>1 DEF Switched, SameMoves, Forward, Promoting, Moving, c
  <2>7. Order'
    BY <1>1, <1>2, <1>4, <2>1, <2>4, <2>6
       DEF Order, SameLoop, SameMoves, InstancesOf, Preparing, Moving
  <2>8. AlwaysOneActive'
    <3>1. \A d \in Containers : owner'[d] # None =>
            \/ d = c
            \/ owner'[d] = owner[d] /\ owner[d] # i /\ d # o /\ d # c
      BY <1>4, <1>6, <2>2, Owners, NoneApart
    <3>2. \A j \in Instances : \E d \in Containers : owner'[d] = j
      <4>. TAKE j \in Instances
      <4>1. CASE j = i
        BY <1>6, <2>2, <4>1
      <4>2. CASE j # i
        <5>1. PICK d \in Containers : owner[d] = j
          BY Owners
        <5>2. d # c /\ d # o
          BY <1>4, <1>6, <4>2, <5>1, NoneApart
        <5>. QED BY <2>2, <5>1, <5>2
      <4>. QED BY <4>1, <4>2
    <3>3. \A d \in Containers : owner'[d] # None =>
            cont[d].st # "none" /\ d \notin retired'
      BY <1>6, <1>8, <3>1, Owners
    <3>4. \A d, e \in Containers : owner'[d] # None /\ owner'[d] = owner'[e] => d = e
      BY <2>2, <3>1, Owners
    <3>. QED BY <1>2, <3>2, <3>3, <3>4, NoneApart DEF AlwaysOneActive
  <2>9. OwnersAgree'
    BY <1>1, <1>2, <1>6, <2>2 DEF Cutovers, OwnersAgree
  <2>10. Cutover'
    BY <2>1 DEF Cutover, Cutting
  <2>11. ASSUME NEW j \in Instances, Switched(j)' PROVE Pair(j)'
    <3>1. CASE j = i
      <4>1. req'.cut[i] = c /\ req'.old[i] = o
        BY <2>1 DEF SameMoves, c, o
      <4>. QED BY <1>2, <1>6, <1>7, <1>8, <2>2, <3>1, <4>1 DEF Pair
    <3>2. CASE j # i
      <4>1. Switched(j)
        BY <2>6, <2>11, <3>2
      <4>2. req.cut[j] # c /\ req.cut[j] # o /\ req.old[j] # c
        BY <1>6, <3>2, <4>1, Pairs, NoneApart
      <4>. QED BY <1>2, <1>8, <2>1, <2>2, <4>1, <4>2, Pairs DEF Pair, SameMoves
    <3>. QED BY <3>1, <3>2
  <2>12. Promoted'
    <3>1. /\ \A x \in DoneSet : BuildIs(x, req.new)
          /\ \A j \in Instances : Switched(j) => InstanceIs(j, req.new) /\ Lone(j)
          /\ artifact[req.b] = ArtifactOf(req.new)
          /\ row[req.b] = req.new /\ image[req.b] = req.new
      BY <1>1, <1>2 DEF Promoted, Forward, Promoting, Moving, Preparing
    <3>2. \A x \in DoneSet : BuildIs(x, req.new)'
      BY <1>2, <2>1, <3>1 DEF BuildIs, SamePlan
    <3>3. \A j \in Instances : Switched(j) => InstanceIs(j, req.new)' /\ Lone(j)'
      BY <1>2, <1>5, <1>6, <1>7, <2>1, <2>2, <3>1, NoneApart
         DEF InstanceIs, Lone, SamePlan
    <3>4. \A d \in Containers : owner'[d] = i => d = c
      BY <1>4, <1>6, <2>2, Owners, NoneApart
    <3>6. \A d \in Containers : cont'[d].of = i /\ cont'[d].st = "running" => owner'[d] = i
      BY <1>2, <1>6, <2>2 DEF PortFree
    <3>7. \A j \in Instances : Switched(j)' => InstanceIs(j, req.new)' /\ Lone(j)'
      <4>1. ASSUME NEW j \in Instances, j = i PROVE InstanceIs(j, req.new)' /\ Lone(j)'
        <5>1. \A d \in Containers : owner'[d] = j => cont'[d].ver = req'.new
          BY <1>2, <1>6, <2>1, <3>4, <4>1 DEF SamePlan
        <5>. QED BY <3>6, <4>1, <5>1 DEF InstanceIs, Lone
      <4>. QED BY <2>6, <3>3, <4>1
    <3>. QED
      BY <1>2, <2>1, <2>4, <3>1, <3>2, <3>7
         DEF Promoted, SamePlan, SameLoop, Ending
  <2>. QED
    BY <1>3, <2>1, <2>3, <2>5, <2>7, <2>8, <2>9, <2>10, <2>11, <2>12, TypesNext
       DEF SafeInv, Cutovers
<1>9. CASE /\ req' = [req EXCEPT !.pc = "retake", !.left = {}, !.final = TRUE]
           /\ UNCHANGED <<owner, retired>>
  <2>1. /\ req' \in Requests /\ req'.pc = "retake" /\ SamePlan /\ SameLoop /\ req'.final
        /\ SameMoves /\ req'.inst = req.inst
    BY <1>1, <1>9 DEF Requests, Steps, SamePlan, SameLoop, SameMoves
  <2>2. DoneSet' = DoneSet /\ Hand' = {req.b}
    BY <2>1 DEF DoneSet, Hand, Undoing, SameLoop
  <2>3. Place'
    BY <1>1, <1>2, <1>4, <2>1, <2>2
       DEF Place, SameLoop, Forward, Promoting, Preparing, Moving, Cutting
  <2>4. \A j \in Instances : Switched(j)' <=> Switched(j)
    BY <1>5, <2>1 DEF Switched, SameMoves, Backward, Undoing
  <2>5. Order'
    BY <1>1, <1>2, <1>4, <2>1, <2>2, <2>4 DEF Order, SameMoves, Preparing, Moving
  <2>6. Contained' /\ AlwaysOneActive' /\ OwnersAgree'
    BY <1>2, <1>9, SameContainers
  <2>7. Cutover'
    BY <1>2, <1>6, <1>9, <2>1 DEF Cutover, SameMoves
  <2>8. \A j \in Instances : Switched(j)' => Pair(j)'
    BY <1>2, <1>9, <2>1, <2>4, Pairs DEF Pair, SameMoves
  <2>9. Promoted'
    BY <2>1, SMTT(40)
       DEF Promoted, Forward, Promoting, Preparing, Moving, Ending
  <2>. QED
    BY <1>3, <2>1, <2>3, <2>5, <2>6, <2>7, <2>8, <2>9, TypesNext DEF SafeInv, Cutovers
<1>. QED
  BY <1>8, <1>9 DEF CommitNew

-----------------------------------------------------------------------------
(* Moving them back, and the end of a successful update.                   *)

LEMMA GiveBackSafe == SafeInv /\ GiveBack => SafeInv'
<1>. SUFFICES ASSUME SafeInv, GiveBack PROVE SafeInv'
  OBVIOUS
<1>1. /\ TypeOK /\ Place /\ Order /\ Cutovers
      /\ Stored /\ Contained /\ req \in Requests
  BY Types DEF SafeInv
<1>2. /\ req.pc = "giveback"
      /\ UNCHANGED <<source, digest, row, image, artifact, debris, cont>>
  BY DEF GiveBack, At, files
<1>3. Stored'
  BY <1>1, <1>2, UpdateAssumption DEF GiveBack, Stored, Works, Fails
<1>4. Hand = {req.b} /\ digest' = None /\ req.b \in Builds /\ req.b \notin DoneSet
  BY <1>1, <1>2 DEF Hand, Place, Undoing
<1>5. \A j \in Instances : Switched(j) <=> req.cut[j] # 0
  BY <1>2 DEF Switched, Backward, Undoing
<1>6. CASE Moved = {} /\ Goto("unpromote") /\ UNCHANGED <<owner, retired>>
  <2>1. /\ req' \in Requests /\ req'.pc = "unpromote" /\ SamePlan /\ SameLoop
        /\ SameMoves
    BY <1>1, <1>6, GotoEffect DEF Steps
  <2>2. \A i \in InstancesOf(req.b) : req.cut[i] = 0
    BY <1>6 DEF Moved
  <2>3. Promoted'
    BY <2>1 DEF Promoted, Forward, Promoting, Preparing, Moving, Ending
  <2>. QED
    BY <1>2, <1>3, <1>6, <2>1, <2>2, <2>3, FileStep
       DEF Forward, Promoting, Preparing, Moving
<1>7. ASSUME NEW i \in Moved, req' = [req EXCEPT !.pc = "retake", !.inst = i],
             owner' = [owner EXCEPT ![req.old[i]] = i, ![req.cut[i]] = None],
             retired' = (retired \ {req.old[i]}) \cup {req.cut[i]}
      PROVE  SafeInv'
  <2>1. PICK c, o : c = req.cut[i] /\ o = req.old[i]
    OBVIOUS
  <2>2. i \in Instances /\ i \in InstancesOf(req.b) /\ Switched(i)
    BY <1>5 DEF Moved, InstancesOf
  <2>3. /\ c \in Containers /\ o \in Containers /\ owner[c] = i /\ owner[o] = None
        /\ o \in retired /\ cont[o].st # "none" /\ cont[o].of = i /\ c # o
    BY <2>1, <2>2, Pairs, NoneApart
  <2>4. cont[c].st # "none" /\ cont[c].of = i
    BY <2>2, <2>3, Owners, NoneApart
  <2>5. /\ req' \in Requests /\ req'.pc = "retake" /\ SamePlan /\ SameLoop
        /\ req'.final = req.final /\ SameMoves /\ req'.inst = i
    BY <1>1, <1>7, <2>2 DEF Requests, Steps, SamePlan, SameLoop, SameMoves
  <2>6. /\ owner'[o] = i /\ owner'[c] = None
        /\ \A d \in Containers \ {c, o} : owner'[d] = owner[d]
        /\ owner' \in [Containers -> Instances \cup {None}]
        /\ retired' = (retired \ {o}) \cup {c}
    BY <1>1, <1>7, <2>1, <2>2, <2>3 DEF Contained
  <2>7. Contained'
    BY <1>1, <1>2, <2>3, <2>6 DEF Contained
  <2>8. DoneSet' = DoneSet /\ Hand' = {req.b}
    BY <2>5 DEF DoneSet, Hand, Undoing, SameLoop
  <2>9. Place'
    BY <1>1, <1>2, <1>4, <2>2, <2>5, <2>8
       DEF Place, SameLoop, Forward, Promoting, Preparing, Moving
  <2>10. \A j \in Instances : Switched(j)' <=> Switched(j) /\ j # i
    BY <1>5, <2>5 DEF Switched, SameMoves, Backward, Undoing
  <2>11. Order'
    BY <1>1, <1>2, <1>4, <2>5, <2>8, <2>10 DEF Order, SameMoves, Preparing, Moving
  <2>12. AlwaysOneActive'
    <3>1. \A d \in Containers : owner'[d] # None =>
            \/ d = o
            \/ owner'[d] = owner[d] /\ owner[d] # i /\ d # o /\ d # c
      BY <2>2, <2>3, <2>6, Owners, NoneApart
    <3>2. \A j \in Instances : \E d \in Containers : owner'[d] = j
      <4>. TAKE j \in Instances
      <4>1. CASE j = i
        BY <2>3, <2>6, <4>1
      <4>2. CASE j # i
        <5>1. PICK d \in Containers : owner[d] = j
          BY Owners
        <5>2. d # c /\ d # o
          BY <2>3, <4>2, <5>1, NoneApart
        <5>. QED BY <2>6, <5>1, <5>2
      <4>. QED BY <4>1, <4>2
    <3>3. \A d \in Containers : owner'[d] # None =>
            cont[d].st # "none" /\ d \notin retired'
      BY <2>3, <2>6, <3>1, Owners
    <3>4. \A d, e \in Containers : owner'[d] # None /\ owner'[d] = owner'[e] => d = e
      BY <2>6, <3>1, Owners
    <3>. QED BY <1>2, <3>2, <3>3, <3>4, NoneApart DEF AlwaysOneActive
  <2>13. OwnersAgree'
    BY <1>1, <1>2, <2>3, <2>6 DEF Cutovers, OwnersAgree
  <2>14. Cutover'
    BY <1>2, <2>1, <2>2, <2>3, <2>4, <2>5, <2>6 DEF Cutover, SameMoves
  <2>15. ASSUME NEW j \in Instances, Switched(j)' PROVE Pair(j)'
    <3>1. Switched(j) /\ j # i
      BY <2>10, <2>15
    <3>2. req.cut[j] # c /\ req.cut[j] # o /\ req.old[j] # o
      BY <2>1, <2>2, <2>3, <3>1, Pairs, NoneApart
    <3>. QED BY <1>2, <2>5, <2>6, <3>1, <3>2, Pairs DEF Pair, SameMoves
  <2>16. Promoted'
    BY <2>5 DEF Promoted, Forward, Promoting, Preparing, Moving, Ending
  <2>. QED
    BY <1>3, <2>5, <2>7, <2>9, <2>11, <2>12, <2>13, <2>14, <2>15, <2>16, TypesNext
       DEF SafeInv, Cutovers
<1>8. ASSUME NEW i \in Moved, req' = [req EXCEPT !.cut[i] = 0],
             UNCHANGED <<owner, retired>>
      PROVE  SafeInv'
  <2>1. i \in Instances /\ i \in InstancesOf(req.b)
    BY DEF Moved, InstancesOf
  <2>2. /\ req' \in Requests /\ req'.pc = "giveback" /\ SamePlan /\ SameLoop
      /\ req'.final = req.final
        /\ req'.old = req.old /\ req'.cut[i] = 0
        /\ \A j \in Instances \ {i} : req'.cut[j] = req.cut[j]
    BY <1>1, <1>2, <1>8, <2>1 DEF Requests, SamePlan, SameLoop
  <2>3. DoneSet' = DoneSet /\ Hand' = {req.b}
    BY <2>2 DEF DoneSet, Hand, Undoing, SameLoop
  <2>4. Place'
    BY <1>1, <1>2, <1>4, <2>2, <2>3
       DEF Place, SameLoop, Forward, Promoting, Preparing, Moving, Cutting
  <2>5. \A j \in Instances : Switched(j)' <=> Switched(j) /\ j # i
    BY <1>5, <2>2 DEF Switched, Backward, Undoing
  <2>6. \A j \in Instances : BuildOf[j] \in DoneSet => j # i
    BY <1>4, <2>1 DEF InstancesOf
  <2>7. Order'
    BY <1>1, <1>2, <1>4, <2>2, <2>3, <2>5, <2>6 DEF Order, Preparing, Moving
  <2>8. Contained' /\ AlwaysOneActive' /\ OwnersAgree'
    BY <1>2, <1>8, SameContainers
  <2>9. Cutover'
    BY <2>2 DEF Cutover, Cutting
  <2>10. \A j \in Instances : Switched(j)' => Pair(j)'
    BY <1>2, <1>8, <2>2, <2>5, Pairs DEF Pair
  <2>11. Promoted'
    BY <2>2 DEF Promoted, Forward, Promoting, Preparing, Moving, Ending
  <2>. QED
    BY <1>3, <2>2, <2>4, <2>7, <2>8, <2>9, <2>10, <2>11, TypesNext
       DEF SafeInv, Cutovers
<1>9. Moved # {} => (CHOOSE x \in Moved : TRUE) \in Moved
  OBVIOUS
<1>. QED
  BY <1>6, <1>7, <1>8, <1>9 DEF GiveBack

\* What Retake may do to the containers: the replacement goes or stays, the
\* old container is started or not.
LEMMA RetakeEffect ==
  ASSUME SafeInv, Retake
  PROVE  /\ req.pc = "retake" /\ req.inst \in Instances
         /\ req.old[req.inst] \in Containers /\ req.cut[req.inst] \in Containers
         /\ owner[req.old[req.inst]] = req.inst /\ owner[req.cut[req.inst]] = None
         /\ req.old[req.inst] # req.cut[req.inst]
         /\ cont' \in [Containers -> ContainerType]
         /\ \A d \in Containers \ {req.old[req.inst], req.cut[req.inst]} :
              cont'[d] = cont[d]
         /\ cont'[req.cut[req.inst]] \in {Gone, cont[req.cut[req.inst]]}
         /\ cont'[req.old[req.inst]].of = cont[req.old[req.inst]].of
         /\ cont'[req.old[req.inst]].ver = cont[req.old[req.inst]].ver
         /\ cont'[req.old[req.inst]].st \in {cont[req.old[req.inst]].st, "running"}
<1>1. /\ req.pc = "retake" /\ req.inst \in Instances
      /\ req.old[req.inst] \in Containers /\ req.cut[req.inst] \in Containers
      /\ owner[req.old[req.inst]] = req.inst /\ owner[req.cut[req.inst]] = None
      /\ Contained
  BY Types DEF SafeInv, Place, Cutovers, Cutover, Cutting, InstancesOf, Retake, At
<1>2. PICK c, o, i : c = req.cut[req.inst] /\ o = req.old[req.inst] /\ i = req.inst
  OBVIOUS
<1>3. c \in Containers /\ o \in Containers /\ c # o
  BY <1>1, <1>2, NoneApart
<1>4. cont' \in {Resume(Removed(c), i), Resume(cont, i), Removed(c)}
  BY <1>2 DEF Retake
<1>5. PICK x \in {cont, Removed(c)} : cont' = x \/ cont' = [x EXCEPT ![o].st = "running"]
  BY <1>2, <1>4 DEF Resume
<1>6. /\ x \in [Containers -> ContainerType]
      /\ \A d \in Containers \ {c} : x[d] = cont[d]
      /\ x[c] \in {Gone, cont[c]}
  BY <1>1, <1>3, <1>5 DEF Contained, ContainerType, Removed, Gone
<1>7. /\ cont' \in [Containers -> ContainerType]
      /\ \A d \in Containers \ {o, c} : cont'[d] = cont[d]
      /\ cont'[c] \in {Gone, cont[c]}
      /\ cont'[o].of = cont[o].of /\ cont'[o].ver = cont[o].ver
      /\ cont'[o].st \in {cont[o].st, "running"}
  <2>1. CASE cont' = x
    BY <1>3, <1>6, <2>1
  <2>2. CASE cont' = [x EXCEPT ![o].st = "running"]
    BY <1>3, <1>6, <2>2 DEF ContainerType
  <2>. QED BY <1>5, <2>1, <2>2
<1>. QED
  BY <1>1, <1>2, <1>3, <1>7

LEMMA RetakeSafe == SafeInv /\ Retake => SafeInv'
<1>. SUFFICES ASSUME SafeInv, Retake PROVE SafeInv'
  OBVIOUS
<1>1. /\ TypeOK /\ Place /\ Order /\ Cutovers
      /\ Stored /\ Contained /\ req \in Requests
  BY Types DEF SafeInv
<1>2. PICK c, o, i : c = req.cut[req.inst] /\ o = req.old[req.inst] /\ i = req.inst
  OBVIOUS
<1>3. /\ req.pc = "retake" /\ i \in Instances
      /\ o \in Containers /\ c \in Containers
      /\ owner[o] = i /\ owner[c] = None /\ o # c
      /\ cont' \in [Containers -> ContainerType]
      /\ \A d \in Containers \ {o, c} : cont'[d] = cont[d]
      /\ cont'[c] \in {Gone, cont[c]}
      /\ cont'[o].of = cont[o].of /\ cont'[o].ver = cont[o].ver
      /\ cont'[o].st \in {cont[o].st, "running"}
  BY <1>2, RetakeEffect
<1>4. /\ UNCHANGED <<source, digest, row, image, artifact, debris, owner>>
      /\ retired' \in {retired, retired \ {c}}
  BY <1>2 DEF Retake, files
<1>5. Stored'
  BY <1>1, <1>4, UpdateAssumption DEF Retake, Stored, Works, Fails
<1>6. /\ Hand = {req.b} /\ digest' = None /\ req.b \in Builds /\ req.b \notin DoneSet
      /\ i \in InstancesOf(req.b)
  BY <1>1, <1>2, <1>3, <1>4 DEF Hand, Place, Undoing, Cutting
<1>7. \A j \in Instances : Switched(j) <=> req.cut[j] # 0 /\ j # i
  BY <1>2, <1>3 DEF Switched, Backward, Undoing
<1>8. req' = [req EXCEPT !.pc = "giveback", !.cut[i] = 0, !.inst = None]
  BY <1>2 DEF Retake
<1>9. /\ req' \in Requests /\ req'.pc = "giveback" /\ SamePlan /\ SameLoop
      /\ req'.final = req.final
      /\ req'.old = req.old /\ req'.cut[i] = 0
      /\ \A j \in Instances \ {i} : req'.cut[j] = req.cut[j]
  <2>1. i \in Instances /\ req \in Requests
    BY <1>1, <1>3
  <2>. QED BY <1>8, <2>1, ZenonT(60) DEF Requests, Steps, SamePlan, SameLoop
<1>10. Contained'
  BY <1>1, <1>3, <1>4 DEF Contained
<1>11. DoneSet' = DoneSet /\ Hand' = {req.b}
  BY <1>9 DEF DoneSet, Hand, Undoing, SameLoop
<1>12. Place'
  BY <1>1, <1>3, <1>6, <1>9, <1>11
     DEF Place, SameLoop, Forward, Promoting, Preparing, Moving, Cutting
<1>13. \A j \in Instances : Switched(j)' <=> Switched(j)
  BY <1>7, <1>9 DEF Switched, Backward, Undoing
<1>14. \A j \in Instances : BuildOf[j] \in DoneSet => j # i
  BY <1>6 DEF InstancesOf
<1>15. Order'
  BY <1>1, <1>3, <1>6, <1>9, <1>11, <1>13, <1>14 DEF Order, Preparing, Moving
<1>16. \A d \in Containers : owner[d] # None =>
         /\ cont'[d].of = owner[d] /\ cont'[d].st # "none" /\ d \notin retired'
  BY <1>3, <1>4, Owners
<1>17. AlwaysOneActive' /\ OwnersAgree'
  BY <1>1, <1>4, <1>16, NoneApart DEF Cutovers, AlwaysOneActive, OwnersAgree
<1>18. Cutover'
  BY <1>9 DEF Cutover, Cutting
<1>19. ASSUME NEW j \in Instances, Switched(j)' PROVE Pair(j)'
  <2>1. Switched(j) /\ j # i
    BY <1>7, <1>13, <1>19
  <2>2. cont[c] = Gone \/ cont[c].of = i
    BY <1>1, <1>2, <1>3 DEF Cutovers, Cutover
  <2>3. req.old[j] # c /\ req.old[j] # o
    BY <1>3, <2>1, <2>2, Pairs, NoneApart DEF Gone
  <2>. QED BY <1>3, <1>4, <1>9, <2>1, <2>3, Pairs DEF Pair
<1>20. Promoted'
  BY <1>9 DEF Promoted, Forward, Promoting, Preparing, Moving, Ending
<1>. QED
  BY <1>5, <1>9, <1>10, <1>12, <1>15, <1>17, <1>18, <1>19, <1>20, TypesNext
     DEF SafeInv, Cutovers

LEMMA FinishSafe == SafeInv /\ Finish => SafeInv'
<1>. SUFFICES ASSUME SafeInv, Finish PROVE SafeInv'
  OBVIOUS
<1>1. /\ TypeOK /\ Place /\ Order /\ Cutovers /\ Promoted
      /\ Stored /\ Contained /\ req \in Requests
  BY Types DEF SafeInv
<1>2. /\ req.pc = "finish"
      /\ UNCHANGED <<source, digest, row, owner, image, artifact>>
  BY DEF Finish, At
<1>3. \A x \in req.todo : x \in Builds
  BY <1>1 DEF Requests
<1>4. req.todo # {} => (CHOOSE x \in req.todo : TRUE) \in req.todo
  OBVIOUS
<1>5. Stored'
  <2>1. debris' = debris \/ \E x \in req.todo : debris' = debris \cup {x}
    BY <1>4 DEF Finish
  <2>. QED BY <1>1, <1>2, <1>3, <2>1, UpdateAssumption DEF Finish, Stored, Works, Fails
<1>6. \A j \in Instances : Switched(j) <=> j \in req.left
  BY <1>1, <1>2 DEF Switched, Order
<1>7. /\ \A x \in Builds : BuildIs(x, req.new)
      /\ \A j \in Instances : InstanceIs(j, req.new) /\ Lone(j)
  BY <1>1, <1>2 DEF Promoted, Ending
<1>8. ASSUME NEW i \in req.left,
             \/ cont' = Removed(req.old[i]) /\ retired' = retired \ {req.old[i]}
             \/ cont' \in {cont, Removed(req.old[i])} /\ retired' = retired,
             req' \in Requests, req'.pc = "finish", SamePlan, SameLoop, SameMoves,
             req'.left = req.left \ {i}
      PROVE  SafeInv'
  <2>1. PICK o : o = req.old[i]
    OBVIOUS
  <2>2. i \in Instances /\ Switched(i)
    BY <1>1, <1>6 DEF Requests
  <2>3. o \in Containers /\ owner[o] = None /\ o \in retired
    BY <2>1, <2>2, Pairs
  <2>4. /\ cont' \in [Containers -> ContainerType]
        /\ \A d \in Containers \ {o} : cont'[d] = cont[d]
        /\ cont'[o] \in {Gone, cont[o]}
        /\ retired \ {o} \subseteq retired' /\ retired' \subseteq retired
    BY <1>1, <1>8, <2>1, <2>3 DEF Contained, ContainerType, Removed, Gone
  <2>5. Contained'
    BY <1>1, <1>2, <2>4 DEF Contained
  <2>6. DoneSet' = DoneSet /\ Hand' = Hand
    BY <1>2, <1>8 DEF DoneSet, Hand, SameLoop
  <2>7. Place'
    BY <1>1, <1>2, <1>8, <2>6
       DEF Place, SameLoop, Forward, Promoting, Preparing, Moving, Cutting
  <2>8. \A j \in Instances : Switched(j)' <=> Switched(j) /\ j # i
    BY <1>2, <1>8 DEF Switched, SameMoves
  <2>9. Order'
    BY <1>1, <1>2, <1>8, <2>6, <2>8 DEF Order, SameMoves, Preparing, Moving
  <2>10. AlwaysOneActive' /\ OwnersAgree'
    BY <1>1, <1>2, <2>3, <2>4, NoneApart DEF Cutovers, AlwaysOneActive, OwnersAgree
  <2>11. Cutover'
    BY <1>8 DEF Cutover, Cutting
  <2>12. ASSUME NEW j \in Instances, Switched(j)' PROVE Pair(j)'
    <3>1. Switched(j) /\ j # i
      BY <2>8, <2>12
    <3>2. req.old[j] # o
      BY <2>1, <2>2, <3>1, Pairs
    <3>. QED BY <1>2, <1>8, <2>4, <3>1, <3>2, Pairs DEF Pair, SameMoves
  <2>13. \A x \in Builds : BuildIs(x, req.new)'
    BY <1>2, <1>7, <1>8 DEF BuildIs, SamePlan
  <2>14. \A j \in Instances : InstanceIs(j, req.new)'
    BY <1>2, <1>7, <1>8, <2>3, <2>4, NoneApart DEF InstanceIs, SamePlan
  <2>15. \A j \in Instances : Lone(j)'
    BY <1>2, <1>7, <2>4 DEF Lone, Gone
  <2>16. Promoted'
    BY <1>8, <2>13, <2>14, <2>15
       DEF Promoted, Forward, Promoting, Preparing, Moving
  <2>. QED
    BY <1>5, <1>8, <2>5, <2>7, <2>9, <2>10, <2>11, <2>12, <2>16, TypesNext
       DEF SafeInv, Cutovers
<1>9. ASSUME UNCHANGED <<cont, retired>>, req' \in Requests,
             req'.pc \in {"finish", "cleanup"}, SamePlan, SameMoves,
             req'.left = req.left, req'.done = req.done, req.left = {}
      PROVE  SafeInv'
  <2>1. Contained' /\ AlwaysOneActive' /\ OwnersAgree'
    BY <1>2, <1>9, SameContainers
  <2>2. DoneSet' = DoneSet /\ Hand' = {} /\ Hand = {}
    BY <1>2, <1>9 DEF DoneSet, Hand, Promoting, Preparing, Moving, Undoing
  <2>3. Place'
    BY <1>1, <1>2, <1>9, <2>2
       DEF Place, Forward, Promoting, Preparing, Moving, Cutting
  <2>4. \A j \in Instances : ~Switched(j)'
    BY <1>9 DEF Switched, Forward, Backward, Promoting, Preparing, Moving, Undoing
  <2>5. Order'
    BY <1>1, <1>9, <2>2, <2>4 DEF Order, SameMoves, Preparing, Moving
  <2>6. Cutovers'
    BY <2>1, <2>4, <1>9 DEF Cutovers, Cutover, Cutting
  <2>7. /\ \A x \in Builds : BuildIs(x, req.new)'
        /\ \A j \in Instances : InstanceIs(j, req.new)' /\ Lone(j)'
    BY <1>2, <1>7, <1>9 DEF BuildIs, InstanceIs, Lone, SamePlan
  <2>8. Promoted'
    BY <1>9, <2>7 DEF Promoted, Forward, Promoting, Preparing, Moving
  <2>. QED BY <1>5, <1>9, <2>1, <2>3, <2>5, <2>6, <2>8, TypesNext DEF SafeInv
<1>10. CASE req' = Idle
  <2>1. req.left = {}
    <3>1. Idle.pc # "finish"
      BY IdleType
    <3>2. req'.pc # "finish"
      BY <1>10, <3>1
    <3>3. req.left # {} => req'.pc = "finish"
      BY <1>1, <1>2 DEF Finish, Requests
    <3>. QED BY <3>2, <3>3
  <2>2. UNCHANGED <<cont, retired>>
    BY <2>1 DEF Finish
  <2>. QED BY <1>2, <1>5, <1>10, <2>2, SameContainers, IdleSafe
<1>11. CASE req.left # {}
  <2>1. PICK i \in req.left : i = CHOOSE x \in req.left : TRUE
    BY <1>11
  <2>2. /\ \/ cont' = Removed(req.old[i]) /\ retired' = retired \ {req.old[i]}
           \/ cont' \in {cont, Removed(req.old[i])} /\ retired' = retired
        /\ \/ req' = [req EXCEPT !.left = @ \ {i}]
           \/ req' = [req EXCEPT !.left = @ \ {i}, !.errs = TRUE]
    BY <1>11, <2>1 DEF Finish
  <2>3. /\ req' \in Requests /\ req'.pc = "finish" /\ SamePlan /\ SameLoop
        /\ SameMoves /\ req'.left = req.left \ {i}
    <3>1. req \in Requests
      BY <1>1
    <3>2. CASE req' = [req EXCEPT !.left = @ \ {i}]
      BY <1>2, <3>1, <3>2 DEF Requests, SamePlan, SameLoop, SameMoves
    <3>3. CASE req' = [req EXCEPT !.left = @ \ {i}, !.errs = TRUE]
      BY <1>2, <3>1, <3>3 DEF Requests, SamePlan, SameLoop, SameMoves
    <3>. QED BY <2>2, <3>2, <3>3
  <2>. QED BY <1>8, <2>2, <2>3
<1>12. CASE req.left = {} /\ req' # Idle
  <2>1. UNCHANGED <<cont, retired>>
    BY <1>12 DEF Finish
  <2>2. PICK b : \/ req' = [req EXCEPT !.todo = @ \ {b}, !.staged = @ \ {b},
                                       !.kept = @ \ {b}]
                 \/ req' = [req EXCEPT !.todo = @ \ {b}, !.staged = @ \ {b},
                                       !.kept = @ \ {b}, !.errs = TRUE]
                 \/ req' = [req EXCEPT !.pc = "cleanup"]
    BY <1>12 DEF Finish, Goto
  <2>3. /\ req' \in Requests /\ req'.pc \in {"finish", "cleanup"} /\ SamePlan
        /\ SameMoves /\ req'.left = req.left /\ req'.done = req.done
    <3>1. req \in Requests
      BY <1>1
    <3>2. CASE req' = [req EXCEPT !.todo = @ \ {b}, !.staged = @ \ {b},
                                  !.kept = @ \ {b}]
      BY <1>2, <3>1, <3>2 DEF Requests, SamePlan, SameMoves
    <3>3. CASE req' = [req EXCEPT !.todo = @ \ {b}, !.staged = @ \ {b},
                                  !.kept = @ \ {b}, !.errs = TRUE]
      BY <1>2, <3>1, <3>3 DEF Requests, SamePlan, SameMoves
    <3>4. CASE req' = [req EXCEPT !.pc = "cleanup"]
      BY <1>2, <3>1, <3>4 DEF Requests, Steps, SamePlan, SameMoves
    <3>. QED BY <2>2, <3>2, <3>3, <3>4
  <2>. QED BY <1>9, <1>12, <2>1, <2>3
<1>. QED
  BY <1>10, <1>11, <1>12

LEMMA StutterSafe == SafeInv /\ UNCHANGED vars => SafeInv'
<1>. SUFFICES ASSUME SafeInv, UNCHANGED vars PROVE SafeInv'
  OBVIOUS
<1>1. UNCHANGED <<source, digest, row, owner, retired, image, artifact, debris,
                  cont, req, failures, crashes>>
  BY DEF vars, files
<1>2. DoneSet' = DoneSet /\ Hand' = Hand /\ \A i \in Instances : Switched(i)' <=> Switched(i)
  BY <1>1 DEF DoneSet, Hand, Switched
<1>3. TypeOK' /\ Place'
  BY <1>1, <1>2 DEF SafeInv, TypeOK, Place
<1>4. Order'
  <2>1. Order /\ req' = req
    BY <1>1 DEF SafeInv
  <2>2. InstancesOf(req'.b) = InstancesOf(req.b) /\ InstancesOf(req.b) \subseteq Instances
    BY <2>1 DEF InstancesOf
  <2>. QED BY <1>2, <2>1, <2>2 DEF Order
<1>5. Cutovers'
  <2>1. AlwaysOneActive' /\ OwnersAgree'
    BY <1>1 DEF SafeInv, Cutovers, AlwaysOneActive, OwnersAgree
  <2>2. Cutover'
    BY <1>1 DEF SafeInv, Cutovers, Cutover, PortFree
  <2>3. \A i \in Instances : Switched(i)' => Pair(i)'
    BY <1>1, <1>2 DEF SafeInv, Cutovers, Pair
  <2>. QED BY <2>1, <2>2, <2>3 DEF Cutovers
<1>6. Promoted'
  BY <1>1, <1>2 DEF SafeInv, Promoted, BuildIs, InstanceIs, Lone
<1>. QED
  BY <1>3, <1>4, <1>5, <1>6 DEF SafeInv

LEMMA NextSafe == SafeInv /\ [Next]_vars => SafeInv'
BY EditSafe, UpdateSafe, ExecuteBuildSafe, TagImagesSafe, KeepArtifactSafe,
   InstallArtifactSafe, FinalizeBuildSafe, PauseOldSafe, StartNewSafe,
   CommitNewSafe, GiveBackSafe, RetakeSafe, UnpromoteSafe, UnfinalizeSafe,
   DiscardSafe, RestoreMetadataSafe, FinishSafe, CleanupSafe, CompleteSafe,
   CrashSafe, RecoverSafe, StutterSafe
   DEF Next, Step

LEMMA AlwaysSafe == Spec => []SafeInv
BY SafeInit, NextSafe, PTL DEF Spec

\* The database, Docker and the local variables of the update are always of
\* their type, for any number of builds, instances, failures and crashes.
THEOREM UpdateTypes == Spec => []TypeOK
<1>1. SafeInv => TypeOK
  BY DEF SafeInv
<1>. QED
  BY <1>1, AlwaysSafe, PTL

\* Whatever fails and wherever the process dies, every instance has exactly
\* one active container, which exists and which recovery will not remove.
THEOREM OneActive == Spec => []AlwaysOneActive
<1>1. SafeInv => AlwaysOneActive
  BY DEF SafeInv, Cutovers
<1>. QED
  BY <1>1, AlwaysSafe, PTL

-----------------------------------------------------------------------------
(* One failure: what the roll-back restores.                               *)

\* The only failure is the one that turned the update back.
LEMMA LastFailure ==
  ASSUME failures' <= 1, Stored, Fails
  PROVE  failures' = 1
BY UpdateAssumption DEF Stored, Fails

LEMMA NoFailure ==
  ASSUME failures' <= 1, SafeInv, RestoreInv, Clean, req.pc \in Backward
  PROVE  ~Fails
BY DEF RestoreInv, Tidy, Fails

\* The request goes on, and nobody touches owners or containers.
LEMMA QuietRuntime ==
  ASSUME SafeInv, RestoreInv, UNCHANGED <<owner, cont, crashes>>,
         Clean' => Clean, req.pc \notin Cutting, req'.pc \notin Cutting,
         Clean /\ req'.pc \in Backward =>
           (req.pc \in Backward /\ failures' = failures) \/ failures' = 1
  PROVE  (Clean' => Tidy') /\ Serving'
<1>1. ASSUME Clean' PROVE Tidy'
  <2>1. Tidy
    BY <1>1 DEF RestoreInv
  <2>. QED BY <1>1, <2>1 DEF Tidy, Ports, Cutting
<1>2. Serving'
  BY DEF RestoreInv, Serving, Cutting
<1>. QED
  BY <1>1, <1>2

\* A request that goes on keeps its kind of start.
LEMMA CleanStays ==
  ASSUME req.pc # "idle", req'.pc # "idle", req'.prev = req.prev, crashes' = crashes
  PROVE  Clean' <=> Clean
BY DEF Clean

LEMMA CleanPrev ==
  ASSUME req.pc # "idle", req.prev # None
  PROVE  Clean
BY DEF Clean

\* While an update runs the digest is empty.
LEMMA RunningVouched ==
  ASSUME SafeInv', req'.pc # "idle",
         req'.pc \in Forward \cup Backward /\ req'.prev # None =>
           /\ debris' = {}
           /\ \A b \in Builds : Restorable(b, req.prev)'
           /\ \A i \in Instances : Returns(i, req.prev)'
  PROVE  Vouched'
<1>1. digest' = None
  BY DEF SafeInv, Place
<1>. QED
  BY <1>1 DEF Vouched, DigestVouches, NoDebris

\* What is known of an update of a uniform challenge.
LEMMA Before ==
  ASSUME RestoreInv, req.pc \in Forward \cup Backward, req.prev # None
  PROVE  /\ debris = {}
         /\ \A b \in Builds : Restorable(b, req.prev)
         /\ \A i \in Instances : Returns(i, req.prev)
BY DEF RestoreInv, Vouched

LEMMA RestoreInit == Init => RestoreInv
<1>. SUFFICES ASSUME Init PROVE RestoreInv
  OBVIOUS
<1>1. req.pc = "idle" /\ digest = 1 /\ debris = {}
  BY IdleType DEF Init
<1>2. \A c \in Containers : owner[c] # None =>
         cont[c].st = "running" /\ cont[c].ver = 1 /\ cont[c].of = owner[c]
  BY DEF Init
<1>3. \A c \in Containers : owner[c] = None => cont[c].st = "none"
  BY DEF Init, Gone
<1>4. Tidy
  BY <1>1, <1>2, <1>3 DEF Tidy, Ports, Backward, Undoing
<1>5. Vouched
  BY <1>1, <1>2
     DEF Init, Vouched, DigestVouches, NoDebris, Uniform, Forward, Backward,
         Promoting, Preparing, Moving, Undoing
<1>6. Serving
  BY <1>2 DEF Serving
<1>. QED
  BY <1>4, <1>5, <1>6 DEF RestoreInv

LEMMA EditRestore ==
  ASSUME NEW v \in Versions, SafeInv, RestoreInv, Edit(v)
  PROVE  RestoreInv'
<1>1. req.pc = "idle" /\ UNCHANGED <<digest, row, owner, image, artifact, debris,
                                     cont, req, failures, crashes>>
  BY DEF Edit, At, files
<1>2. (Clean' => Tidy') /\ Serving'
  BY <1>1, QuietRuntime DEF Clean, Cutting, Backward, Undoing
<1>3. Vouched'
  BY <1>1 DEF RestoreInv, Vouched, DigestVouches, NoDebris, Uniform, Forward,
              Backward, Promoting, Preparing, Moving, Undoing
<1>. QED
  BY <1>2, <1>3 DEF RestoreInv

LEMMA UpdateRestore ==
  ASSUME SafeInv, SafeInv', RestoreInv, Update
  PROVE  RestoreInv'
<1>1. req.pc = "idle" /\ UNCHANGED <<row, owner, image, artifact, debris,
                                     cont, failures, crashes>>
  BY DEF Update, At, files
<1>2. /\ req'.pc = "build" /\ req'.prev = digest /\ req'.done = <<>>
      /\ req'.kept = {} /\ req'.installed = {} /\ req'.cut = [i \in Instances |-> 0]
  BY DEF Update, Idle
<1>3. (Clean' => Tidy') /\ Serving'
  BY <1>1, <1>2, QuietRuntime DEF Clean, Cutting, Backward, Undoing
<1>4. DoneSet' = {}
  BY <1>2 DEF DoneSet, Elems
<1>5. Tagged' = {} /\ Finalized' = {}
  BY <1>2, <1>4 DEF Tagged, Finalized, Promoting, Preparing, Moving
<1>6. \A i \in Instances : ~Switched(i)'
  BY <1>2 DEF Switched
<1>7. ASSUME req'.prev # None
      PROVE  /\ debris' = {}
             /\ \A b \in Builds : Restorable(b, req.prev)'
             /\ \A i \in Instances : Returns(i, req.prev)'
  <2>1. Uniform(digest) /\ debris = {}
    BY <1>2, <1>7 DEF RestoreInv, Vouched, DigestVouches, NoDebris
  <2>2. \A b \in Builds : Restorable(b, req.prev)'
    BY <1>1, <1>2, <1>5, <2>1 DEF Restorable, Uniform
  <2>3. \A i \in Instances : Returns(i, req.prev)'
    BY <1>1, <1>2, <1>6, <2>1, NoneApart DEF Returns, InstanceIs, Uniform
  <2>. QED BY <1>1, <2>1, <2>2, <2>3
<1>8. Vouched'
  BY <1>2, <1>7, RunningVouched
<1>. QED
  BY <1>3, <1>8 DEF RestoreInv

LEMMA CrashRestore ==
  ASSUME SafeInv, RestoreInv, Crash
  PROVE  RestoreInv'
<1>1. digest = None /\ digest' = None /\ crashes' = crashes + 1 /\ req' = Idle
  BY DEF Crash, At, SafeInv, Place
<1>2. crashes' # 0
  BY <1>1, Types, UpdateAssumption DEF SafeInv, Stored
<1>3. ~Clean'
  BY <1>1, <1>2, IdleType DEF Clean
<1>4. Vouched'
  BY <1>1, IdleType
     DEF Vouched, DigestVouches, NoDebris, Forward, Backward, Promoting,
         Preparing, Moving, Undoing
<1>. QED
  BY <1>2, <1>3, <1>4 DEF RestoreInv, Serving

LEMMA UnwindRestore ==
  ASSUME SafeInv, SafeInv', RestoreInv, req.pc \in {"build", "discard"},
         NEW STATE r, r \in Requests,
         r.done = req.done, r.cut = req.cut, r.old = req.old, r.prev = req.prev,
         r.saved = req.saved, r.kept = req.kept, r.installed = req.installed,
         req' = Unwind(r), UNCHANGED <<row, image, artifact, owner, cont, crashes>>,
         req.prev # None => debris' = {},
         Clean => (req.pc \in Backward /\ failures' = failures) \/ failures' = 1
  PROVE  RestoreInv'
<1>1. Distinct(r.done)
  BY DEF SafeInv, Place
<1>2. /\ req'.prev = req.prev /\ req'.cut = req.cut /\ req'.old = req.old
      /\ req'.saved = req.saved /\ req'.kept = req.kept
      /\ req'.installed = req.installed
      /\ req.done = <<>> => req'.pc = "restore" /\ req'.done = <<>>
      /\ req.done # <<>> => /\ req'.pc = "giveback" /\ req'.b \in DoneSet
                            /\ DoneSet' = DoneSet \ {req'.b}
  BY <1>1, UnwindEffect DEF DoneSet
<1>3. req'.pc \in {"giveback", "restore"}
  BY <1>2
<1>4. (Clean' => Tidy') /\ Serving'
  BY <1>2, <1>3, CleanStays, QuietRuntime DEF Cutting, Backward, Undoing
<1>5. Tagged = DoneSet /\ Finalized = DoneSet
  BY DEF Tagged, Finalized, Promoting, Preparing, Moving
<1>6. Tagged' = Tagged /\ Finalized' = Finalized
  <2>1. CASE req.done = <<>>
    <3>1. DoneSet' = DoneSet
      BY <1>2, <2>1 DEF DoneSet
    <3>. QED
      BY <1>2, <1>5, <2>1, <3>1 DEF Tagged, Finalized, Promoting, Preparing, Moving
  <2>2. CASE req.done # <<>>
    BY <1>2, <1>5, <2>2 DEF Tagged, Finalized
  <2>. QED BY <2>1, <2>2
<1>7. \A i \in Instances : Switched(i)' <=> Switched(i)
  BY <1>2, <1>3 DEF Switched, Forward, Backward, Undoing
<1>8. ASSUME req'.prev # None
      PROVE  /\ debris' = {}
             /\ \A b \in Builds : Restorable(b, req.prev)'
             /\ \A i \in Instances : Returns(i, req.prev)'
  <2>1. /\ \A b \in Builds : Restorable(b, req.prev)
        /\ \A i \in Instances : Returns(i, req.prev)
    BY <1>2, <1>8, Before DEF Forward, Backward, Undoing
  <2>2. \A b \in Builds : Restorable(b, req.prev)'
    BY <1>2, <1>6, <2>1 DEF Restorable
  <2>3. \A i \in Instances : Returns(i, req.prev)'
    BY <1>2, <1>7, <2>1 DEF Returns, InstanceIs
  <2>. QED BY <1>2, <1>8, <2>2, <2>3
<1>9. Vouched'
  BY <1>3, <1>8, RunningVouched
<1>. QED
  BY <1>4, <1>9 DEF RestoreInv

LEMMA DiscardRestore ==
  ASSUME failures' <= 1, SafeInv, SafeInv', RestoreInv, Discard
  PROVE  RestoreInv'
<1>1. /\ req.pc = "discard" /\ req \in Requests
      /\ UNCHANGED <<row, image, artifact, owner, cont>>
  BY Types DEF SafeInv, Discard, At
<1>2. crashes' = crashes
  BY DEF Discard, Works, Fails
<1>. DEFINE r == [req EXCEPT !.staged = @ \ {req.b}]
<1>3. /\ r \in Requests /\ r.done = req.done /\ r.cut = req.cut /\ r.old = req.old
      /\ r.prev = req.prev /\ r.saved = req.saved /\ r.kept = req.kept
      /\ r.installed = req.installed
  BY <1>1 DEF Requests
<1>4. req' = Unwind(r)
  BY DEF Discard
<1>5. req.prev # None => debris' = {}
  <2>. SUFFICES ASSUME req.prev # None PROVE debris' = {}
    OBVIOUS
  <2>1. ~Fails /\ debris = {}
    BY <1>1, NoFailure, CleanPrev, Before DEF Backward, Undoing
  <2>. QED BY <2>1 DEF Discard
<1>. HIDE DEF r
<1>6. Clean => failures' = failures
  BY <1>1, NoFailure DEF Discard, Works, Backward, Undoing
<1>. QED
  BY <1>1, <1>2, <1>3, <1>4, <1>5, <1>6, UnwindRestore DEF Backward, Undoing

LEMMA ExecuteBuildRestore ==
  ASSUME failures' <= 1, SafeInv, SafeInv', RestoreInv, ExecuteBuild
  PROVE  RestoreInv'
<1>. DEFINE b == CHOOSE x \in req.todo : TRUE
<1>1. /\ req.pc = "build" /\ req \in Requests /\ Stored
      /\ UNCHANGED <<row, image, artifact, debris, owner, cont>>
  BY Types DEF SafeInv, ExecuteBuild, At, files
<1>2. crashes' = crashes
  BY DEF ExecuteBuild, Works, Fails
<1>3. Fails => failures' = 1
  BY <1>1, LastFailure
<1>4. Tagged = DoneSet /\ Finalized = DoneSet
  BY <1>1 DEF Tagged, Finalized, Promoting, Preparing, Moving
<1>5. req.prev # None => debris = {}
  BY <1>1, Before DEF Forward
<1>6. req.todo # {} => b \in req.todo /\ b \in Builds /\ b \notin DoneSet
  <2>1. req.todo # {} => b \in req.todo
    OBVIOUS
  <2>. HIDE DEF b
  <2>. QED BY <1>1, <2>1 DEF SafeInv, Place, Forward, Requests
<1>. HIDE DEF b
<1>7. ASSUME req'.pc \notin Cutting, req'.pc # "idle", req'.prev = req.prev,
             req'.pc \in Backward => failures' = 1
      PROVE  (Clean' => Tidy') /\ Serving'
  BY <1>1, <1>2, <1>7, CleanStays, QuietRuntime DEF Cutting
<1>8. CASE /\ req.todo # {}
           /\ req' = [req EXCEPT !.pc = "tag", !.b = b, !.final = FALSE,
                 !.todo = @ \ {b}, !.staged = @ \cup {b},
                 !.saved[b] = [row |-> row[b], image |-> image[b],
                               artifact |-> artifact[b]]]
  <2>1. /\ req'.pc = "tag" /\ req'.b = b /\ req'.prev = req.prev
        /\ req'.done = req.done /\ SameMoves
        /\ req'.kept = req.kept /\ req'.installed = req.installed
        /\ req'.saved[b] = [row |-> row[b], image |-> image[b],
                            artifact |-> artifact[b]]
        /\ \A x \in Builds \ {b} : req'.saved[x] = req.saved[x]
    BY <1>1, <1>6, <1>8 DEF Requests, SameMoves
  <2>2. (Clean' => Tidy') /\ Serving'
    BY <1>7, <2>1 DEF Cutting, Backward, Undoing
  <2>3. DoneSet' = DoneSet
    BY <2>1 DEF DoneSet
  <2>4. Tagged' = DoneSet \cup {b} /\ Finalized' = DoneSet
    BY <2>1, <2>3 DEF Tagged, Finalized, Promoting, Preparing, Moving
  <2>5. \A i \in Instances : Switched(i)' <=> Switched(i)
    BY <1>1, <2>1 DEF Switched, SameMoves, Forward, Promoting, Preparing
  <2>6. ASSUME req'.prev # None
        PROVE  /\ debris' = {}
               /\ \A x \in Builds : Restorable(x, req.prev)'
               /\ \A i \in Instances : Returns(i, req.prev)'
    <3>1. /\ \A x \in Builds : Restorable(x, req.prev)
          /\ \A i \in Instances : Returns(i, req.prev)
      BY <1>1, <2>1, <2>6, Before DEF Forward
    <3>2. Restorable(b, req.prev)
      BY <1>6, <1>8, <3>1
    <3>3. req'.saved[b] = Of(req.prev)
      BY <1>4, <1>6, <1>8, <2>1, <3>2 DEF Restorable, Of
    <3>5. ASSUME NEW x \in Builds, x # b PROVE Restorable(x, req.prev)'
      BY <1>1, <1>4, <2>1, <2>4, <3>1, <3>5 DEF Restorable, Of
    <3>6. ASSUME NEW x \in Builds, x = b PROVE Restorable(x, req.prev)'
      BY <1>1, <1>4, <1>6, <1>8, <2>1, <2>4, <3>2, <3>3, <3>6 DEF Restorable, Of
    <3>7. \A i \in Instances : Returns(i, req.prev)'
      BY <1>1, <2>1, <2>5, <3>1 DEF Returns, InstanceIs, SameMoves
    <3>. QED BY <1>1, <1>5, <2>1, <2>6, <3>5, <3>6, <3>7
  <2>7. Vouched'
    BY <2>1, <2>6, RunningVouched
  <2>. QED BY <2>2, <2>7 DEF RestoreInv
<1>9. CASE Fails /\ req' = Unwind(req)
  BY <1>1, <1>2, <1>3, <1>5, <1>9, UnwindRestore
<1>10. CASE /\ Fails /\ req.todo # {}
            /\ req' = [req EXCEPT !.pc = "discard", !.b = b,
                                  !.staged = @ \cup {b}]
  <2>1. /\ req'.pc = "discard" /\ req'.prev = req.prev
        /\ req'.done = req.done /\ SameMoves
        /\ req'.kept = req.kept /\ req'.installed = req.installed
        /\ req'.saved = req.saved
    BY <1>1, <1>10 DEF Requests, SameMoves
  <2>2. (Clean' => Tidy') /\ Serving'
    BY <1>3, <1>7, <1>10, <2>1 DEF Cutting
  <2>3. DoneSet' = DoneSet
    BY <2>1 DEF DoneSet
  <2>4. Tagged' = Tagged /\ Finalized' = Finalized
    BY <1>4, <2>1, <2>3 DEF Tagged, Finalized, Promoting, Preparing, Moving
  <2>5. \A i \in Instances : Switched(i)' <=> Switched(i)
    BY <1>1, <2>1 DEF Switched, SameMoves, Forward, Backward, Undoing
  <2>6. ASSUME req'.prev # None
        PROVE  /\ debris' = {}
               /\ \A x \in Builds : Restorable(x, req.prev)'
               /\ \A i \in Instances : Returns(i, req.prev)'
    <3>1. /\ \A x \in Builds : Restorable(x, req.prev)
          /\ \A i \in Instances : Returns(i, req.prev)
      BY <1>1, <2>1, <2>6, Before DEF Forward
    <3>2. \A x \in Builds : Restorable(x, req.prev)'
      BY <1>1, <2>1, <2>4, <3>1 DEF Restorable
    <3>3. \A i \in Instances : Returns(i, req.prev)'
      BY <1>1, <2>1, <2>5, <3>1 DEF Returns, InstanceIs, SameMoves
    <3>. QED BY <1>1, <1>5, <2>1, <2>6, <3>2, <3>3
  <2>7. Vouched'
    BY <2>1, <2>6, RunningVouched
  <2>. QED BY <2>2, <2>7 DEF RestoreInv
<1>11. CASE /\ req.todo = {}
            /\ req' = [req EXCEPT !.pc = "finish", !.left = Instances,
                                  !.todo = Builds, !.done = <<>>]
  <2>1. req'.pc = "finish" /\ req'.prev = req.prev
    BY <1>1, <1>11 DEF Requests
  <2>2. (Clean' => Tidy') /\ Serving'
    BY <1>7, <2>1 DEF Cutting, Backward, Undoing
  <2>3. Vouched'
    BY <2>1, RunningVouched
       DEF Forward, Backward, Promoting, Preparing, Moving, Undoing
  <2>. QED BY <2>2, <2>3 DEF RestoreInv
<1>. QED
  BY <1>8, <1>9, <1>10, <1>11 DEF ExecuteBuild, b

\* A step on the files or the row of a build.
LEMMA FileRestore ==
  ASSUME SafeInv, SafeInv', RestoreInv, UNCHANGED <<owner, cont, crashes>>,
         req.pc \in (Forward \cup Backward) \ Cutting,
         req'.pc \in (Forward \cup Backward) \ Cutting,
         req'.prev = req.prev, SameMoves,
         Clean /\ req'.pc \in Backward =>
           (req.pc \in Backward /\ failures' = failures) \/ failures' = 1,
         req.prev # None => /\ debris' = {}
                            /\ \A b \in Builds : Restorable(b, req.prev)'
  PROVE  RestoreInv'
<1>1. req.pc # "idle" /\ req'.pc # "idle"
  BY DEF Forward, Backward, Promoting, Preparing, Moving, Undoing
<1>2. (Clean' => Tidy') /\ Serving'
  BY <1>1, CleanStays, QuietRuntime
<1>3. \A i \in Instances : Switched(i)' <=> Switched(i)
  BY DEF Switched, SameMoves, Cutting, Forward, Backward, Promoting, Preparing,
         Moving, Undoing
<1>4. req.prev # None => \A i \in Instances : Returns(i, req.prev)'
  <2>. SUFFICES ASSUME req.prev # None PROVE \A i \in Instances : Returns(i, req.prev)'
    OBVIOUS
  <2>1. \A i \in Instances : Returns(i, req.prev)
    BY Before
  <2>. QED BY <1>3, <2>1 DEF Returns, InstanceIs, SameMoves
<1>5. Vouched'
  BY <1>1, <1>4, RunningVouched
<1>. QED
  BY <1>2, <1>5 DEF RestoreInv

LEMMA TagImagesRestore ==
  ASSUME failures' <= 1, SafeInv, SafeInv', RestoreInv, TagImages
  PROVE  RestoreInv'
<1>1. /\ req.pc = "tag" /\ req \in Requests /\ Stored
      /\ UNCHANGED <<row, artifact, debris, owner, cont>>
  BY Types DEF SafeInv, TagImages, At
<1>2. crashes' = crashes
  BY DEF TagImages, Works, Fails
<1>3. Fails => failures' = 1
  BY <1>1, LastFailure
<1>4. /\ req'.pc \in {"keep", "unpromote"} /\ req'.prev = req.prev /\ SameMoves
      /\ SameLoop /\ SameFiles /\ ~req.final
      /\ req'.pc = "unpromote" => Fails
  BY <1>1, GotoEffect, NotMoved DEF TagImages, Steps, SamePlan, Preparing
<1>5. Tagged' = Tagged /\ Finalized' = Finalized /\ req.b \in Tagged
  <2>1. DoneSet' = DoneSet
    BY <1>4 DEF DoneSet, SameLoop
  <2>. QED
    BY <1>1, <1>4, <2>1
       DEF Tagged, Finalized, SameLoop, SameFiles, Promoting, Preparing, Moving
<1>6. \A x \in Builds \ {req.b} : image'[x] = image[x]
  BY <1>1 DEF TagImages, Stored
<1>7. req.prev # None => /\ debris' = {}
                         /\ \A b \in Builds : Restorable(b, req.prev)'
  <2>. SUFFICES ASSUME req.prev # None
                PROVE  debris' = {} /\ \A b \in Builds : Restorable(b, req.prev)'
    OBVIOUS
  <2>1. debris = {} /\ \A b \in Builds : Restorable(b, req.prev)
    BY <1>1, Before DEF Forward, Promoting, Preparing
  <2>. QED
    BY <1>1, <1>4, <1>5, <1>6, <2>1 DEF Restorable, SameFiles
<1>. QED
  BY <1>1, <1>2, <1>3, <1>4, <1>7, FileRestore
     DEF Forward, Backward, Promoting, Preparing, Undoing, Cutting

LEMMA KeepArtifactRestore ==
  ASSUME failures' <= 1, SafeInv, SafeInv', RestoreInv, KeepArtifact
  PROVE  RestoreInv'
<1>1. /\ req.pc = "keep" /\ req \in Requests /\ Stored
      /\ UNCHANGED <<row, image, debris, owner, cont>>
  BY Types DEF SafeInv, KeepArtifact, At
<1>2. crashes' = crashes
  BY DEF KeepArtifact, Works, Fails
<1>3. Fails => failures' = 1
  BY <1>1, LastFailure
<1>4. ~req.final /\ req.b \in Builds
  BY <1>1, NotMoved DEF Preparing
<1>5. /\ req'.pc \in {"install", "unpromote"} /\ req'.prev = req.prev /\ SameMoves
      /\ SameLoop /\ req'.saved = req.saved /\ req'.installed = req.installed
      /\ req'.final = req.final
      /\ req'.pc = "unpromote" => Fails
      /\ \/ artifact' = artifact /\ req'.kept = req.kept
         \/ /\ artifact' = [artifact EXCEPT ![req.b] = None]
            /\ req'.kept = req.kept \cup {req.b}
  <2>1. CASE /\ artifact' = [artifact EXCEPT ![req.b] = None]
             /\ req' = [req EXCEPT !.pc = "install", !.kept = @ \cup {req.b}]
    BY <1>1, <2>1 DEF Requests, SameLoop, SameMoves
  <2>2. CASE Goto("install") /\ UNCHANGED artifact
    BY <1>1, <2>2, GotoEffect DEF Steps, SamePlan, SameFiles
  <2>3. CASE Fails /\ Goto("unpromote") /\ UNCHANGED artifact
    BY <1>1, <2>3, GotoEffect DEF Steps, SamePlan, SameFiles
  <2>. QED BY <2>1, <2>2, <2>3 DEF KeepArtifact
<1>6. Tagged' = Tagged /\ Finalized' = Finalized /\ req.b \in Tagged
  <2>1. DoneSet' = DoneSet
    BY <1>5 DEF DoneSet, SameLoop
  <2>. QED
    BY <1>1, <1>4, <1>5, <2>1
       DEF Tagged, Finalized, SameLoop, Promoting, Preparing, Moving
<1>7. req.prev # None => /\ debris' = {}
                         /\ \A b \in Builds : Restorable(b, req.prev)'
  <2>. SUFFICES ASSUME req.prev # None
                PROVE  debris' = {} /\ \A b \in Builds : Restorable(b, req.prev)'
    OBVIOUS
  <2>1. debris = {} /\ \A b \in Builds : Restorable(b, req.prev)
    BY <1>1, Before DEF Forward, Promoting, Preparing
  <2>2. \A x \in Builds \ {req.b} : artifact'[x] = artifact[x]
    BY <1>1, <1>5 DEF Stored
  <2>3. ASSUME NEW x \in Builds PROVE Restorable(x, req.prev)'
    BY <1>1, <1>5, <1>6, <2>1, <2>2 DEF Restorable
  <2>. QED BY <1>1, <2>1, <2>3
<1>. QED
  BY <1>1, <1>2, <1>3, <1>5, <1>7, FileRestore
     DEF Forward, Backward, Promoting, Preparing, Undoing, Cutting

LEMMA InstallArtifactRestore ==
  ASSUME failures' <= 1, SafeInv, SafeInv', RestoreInv, InstallArtifact
  PROVE  RestoreInv'
<1>1. /\ req.pc = "install" /\ req \in Requests /\ Stored
      /\ UNCHANGED <<row, image, debris, owner, cont>>
  BY Types DEF SafeInv, InstallArtifact, At
<1>2. crashes' = crashes
  BY DEF InstallArtifact, Works, Fails
<1>3. Fails => failures' = 1
  BY <1>1, LastFailure
<1>4. ~req.final /\ req.b \in Builds
  BY <1>1, NotMoved DEF Preparing
<1>5. /\ req'.pc \in {"finalize", "unpromote"} /\ req'.prev = req.prev /\ SameMoves
      /\ SameLoop /\ req'.saved = req.saved /\ req'.kept = req.kept
      /\ req'.final = req.final
      /\ req'.pc = "unpromote" => Fails
      /\ \/ artifact' = artifact /\ req'.installed = req.installed
         \/ /\ artifact' = [artifact EXCEPT ![req.b] = req.new]
            /\ req'.installed = req.installed \cup {req.b}
  <2>1. CASE /\ artifact' = [artifact EXCEPT ![req.b] = req.new]
             /\ req' = [req EXCEPT !.pc = "finalize",
                                   !.installed = @ \cup {req.b}]
    BY <1>1, <2>1 DEF Requests, SameLoop, SameMoves
  <2>2. CASE Goto("finalize") /\ UNCHANGED artifact
    BY <1>1, <2>2, GotoEffect DEF Steps, SamePlan, SameFiles
  <2>3. CASE Fails /\ Goto("unpromote") /\ UNCHANGED artifact
    BY <1>1, <2>3, GotoEffect DEF Steps, SamePlan, SameFiles
  <2>. QED BY <2>1, <2>2, <2>3 DEF InstallArtifact
<1>6. /\ Tagged' = Tagged /\ req.b \in Tagged
      /\ Finalized' \in {Finalized, Finalized \cup {req.b}}
  <2>1. DoneSet' = DoneSet
    BY <1>5 DEF DoneSet, SameLoop
  <2>. QED
    BY <1>1, <1>4, <1>5, <2>1
       DEF Tagged, Finalized, SameLoop, Promoting, Preparing, Moving
<1>7. req.prev # None => /\ debris' = {}
                         /\ \A b \in Builds : Restorable(b, req.prev)'
  <2>. SUFFICES ASSUME req.prev # None
                PROVE  debris' = {} /\ \A b \in Builds : Restorable(b, req.prev)'
    OBVIOUS
  <2>1. debris = {} /\ \A b \in Builds : Restorable(b, req.prev)
    BY <1>1, Before DEF Forward, Promoting, Preparing
  <2>2. \A x \in Builds \ {req.b} : artifact'[x] = artifact[x]
    BY <1>1, <1>5 DEF Stored
  <2>3. artifact[req.b] = None
    BY <1>1 DEF SafeInv, Promoted
  <2>4. req.b \notin req.kept => ArtifactOf(req.prev) = None
    BY <1>4, <2>1, <2>3 DEF Restorable
  <2>5. ASSUME NEW x \in Builds PROVE Restorable(x, req.prev)'
    BY <1>1, <1>5, <1>6, <2>1, <2>2, <2>4 DEF Restorable
  <2>. QED BY <1>1, <2>1, <2>5
<1>. QED
  BY <1>1, <1>2, <1>3, <1>5, <1>7, FileRestore
     DEF Forward, Backward, Promoting, Preparing, Undoing, Cutting

LEMMA FinalizeBuildRestore ==
  ASSUME failures' <= 1, SafeInv, SafeInv', RestoreInv, FinalizeBuild
  PROVE  RestoreInv'
<1>1. /\ req.pc = "finalize" /\ req \in Requests /\ Stored
      /\ UNCHANGED <<image, artifact, debris, owner, cont>>
  BY Types DEF SafeInv, FinalizeBuild, At, files
<1>2. crashes' = crashes
  BY DEF FinalizeBuild, Works, Fails
<1>3. Fails => failures' = 1
  BY <1>1, LastFailure
<1>4. /\ req'.pc \in {"pause", "giveback"} /\ req'.prev = req.prev /\ SameMoves
      /\ SameLoop /\ req'.saved = req.saved /\ req'.kept = req.kept
      /\ req'.installed = req.installed
      /\ req'.pc = "giveback" => Fails
  <2>1. CASE req' = [req EXCEPT !.pc = "pause", !.left = InstancesOf(req.b)]
    BY <1>1, <2>1 DEF Requests, SameLoop, SameMoves
  <2>2. CASE Fails /\ Revert
    BY <1>1, <2>2 DEF Revert, Requests, SameLoop, SameMoves
  <2>. QED BY <2>1, <2>2 DEF FinalizeBuild
<1>5. Tagged' = Tagged /\ Finalized' = Finalized /\ req.b \in Finalized
  <2>1. DoneSet' = DoneSet
    BY <1>4 DEF DoneSet, SameLoop
  <2>. QED
    BY <1>1, <1>4, <2>1
       DEF Tagged, Finalized, SameLoop, Promoting, Preparing, Moving
<1>6. \A x \in Builds \ {req.b} : row'[x] = row[x]
  BY <1>1 DEF FinalizeBuild, Stored
<1>7. req.prev # None => /\ debris' = {}
                         /\ \A b \in Builds : Restorable(b, req.prev)'
  <2>. SUFFICES ASSUME req.prev # None
                PROVE  debris' = {} /\ \A b \in Builds : Restorable(b, req.prev)'
    OBVIOUS
  <2>1. debris = {} /\ \A b \in Builds : Restorable(b, req.prev)
    BY <1>1, Before DEF Forward, Promoting, Preparing
  <2>. QED
    BY <1>1, <1>4, <1>5, <1>6, <2>1 DEF Restorable
<1>. QED
  BY <1>1, <1>2, <1>3, <1>4, <1>7, FileRestore
     DEF Forward, Backward, Promoting, Preparing, Moving, Undoing, Cutting

LEMMA UnpromoteRestore ==
  ASSUME failures' <= 1, SafeInv, SafeInv', RestoreInv, Unpromote
  PROVE  RestoreInv'
<1>1. /\ req.pc = "unpromote" /\ req \in Requests /\ Stored
      /\ UNCHANGED <<row, owner, cont>>
  BY Types DEF SafeInv, Unpromote, At
<1>2. crashes' = crashes
  BY DEF Unpromote, Works, Fails
<1>3. /\ req'.prev = req.prev /\ SameLoop /\ SameMoves
      /\ req'.pc = (IF req.final THEN "unfinalize" ELSE "discard")
      /\ req'.saved = req.saved
      /\ req'.kept = req.kept \ {req.b}
      /\ req'.installed = req.installed \ {req.b}
  BY <1>1, UnpromoteEffect DEF SamePlan
<1>4. Clean => ~Fails
  BY <1>1, NoFailure DEF Backward, Undoing
<1>5. Clean => failures' = failures
  BY <1>4 DEF Unpromote, Works
<1>6. req.b \in Builds /\ req.b \notin DoneSet
  BY <1>1, NotMoved
<1>7. /\ Tagged = DoneSet \cup {req.b} /\ Tagged' = DoneSet
      /\ Finalized' = Finalized
  <2>1. DoneSet' = DoneSet
    BY <1>3 DEF DoneSet, SameLoop
  <2>. QED
    BY <1>1, <1>3, <2>1
       DEF Tagged, Finalized, SameLoop, Promoting, Preparing, Moving
<1>8. req.prev # None => /\ debris' = {}
                         /\ \A b \in Builds : Restorable(b, req.prev)'
  <2>. SUFFICES ASSUME req.prev # None
                PROVE  debris' = {} /\ \A b \in Builds : Restorable(b, req.prev)'
    OBVIOUS
  <2>1. debris = {} /\ \A b \in Builds : Restorable(b, req.prev)
    BY <1>1, Before DEF Backward, Undoing
  <2>2. ~Fails
    BY <1>1, <1>4, CleanPrev
  <2>3. /\ image' = [image EXCEPT ![req.b] = req.saved[req.b].image]
        /\ artifact' = [artifact EXCEPT ![req.b] =
                          IF req.b \in req.kept THEN req.saved[req.b].artifact
                          ELSE IF req.b \in req.installed THEN None ELSE @]
        /\ debris' = debris
    BY <2>2 DEF Unpromote
  <2>4. req.saved[req.b] = Of(req.prev)
    BY <1>6, <1>7, <2>1 DEF Restorable
  <2>5. image'[req.b] = req.prev
    BY <1>1, <1>6, <2>3, <2>4 DEF Of, Stored
  <2>6. artifact'[req.b] = ArtifactOf(req.prev)
    BY <1>1, <1>6, <2>1, <2>3, <2>4 DEF Of, Stored, Restorable
  <2>7. \A x \in Builds \ {req.b} : image'[x] = image[x] /\ artifact'[x] = artifact[x]
    BY <1>1, <2>3 DEF Stored
  <2>8. ASSUME NEW x \in Builds PROVE Restorable(x, req.prev)'
    <3>1. CASE x = req.b
      BY <1>1, <1>3, <1>6, <1>7, <2>1, <2>4, <2>5, <2>6, <3>1 DEF Restorable
    <3>2. CASE x # req.b
      BY <1>1, <1>3, <1>7, <2>1, <2>7, <3>2 DEF Restorable
    <3>. QED BY <3>1, <3>2
  <2>. QED BY <2>1, <2>3, <2>8
<1>. QED
  BY <1>1, <1>2, <1>3, <1>5, <1>8, FileRestore
     DEF Forward, Backward, Undoing, Cutting

LEMMA UnfinalizeRestore ==
  ASSUME failures' <= 1, SafeInv, SafeInv', RestoreInv, Unfinalize
  PROVE  RestoreInv'
<1>1. /\ req.pc = "unfinalize" /\ req \in Requests /\ Stored /\ Goto("discard")
      /\ UNCHANGED <<image, artifact, debris, owner, cont>>
  BY Types DEF SafeInv, Unfinalize, At, files
<1>2. crashes' = crashes
  BY DEF Unfinalize, Works, Fails
<1>3. /\ req'.pc = "discard" /\ req'.prev = req.prev /\ SameLoop /\ SameMoves
      /\ SameFiles
  BY <1>1, GotoEffect DEF Steps, SamePlan
<1>4. Clean => ~Fails
  BY <1>1, NoFailure DEF Backward, Undoing
<1>5. Clean => failures' = failures
  BY <1>4 DEF Unfinalize, Works
<1>6. req.b \in Builds /\ req.b \notin DoneSet
  BY <1>1, NotMoved
<1>7. /\ Tagged' = Tagged
      /\ Finalized = DoneSet \cup {req.b} /\ Finalized' = DoneSet
  <2>1. DoneSet' = DoneSet
    BY <1>3 DEF DoneSet, SameLoop
  <2>. QED
    BY <1>1, <1>3, <2>1
       DEF Tagged, Finalized, SameLoop, Promoting, Preparing, Moving
<1>8. req.prev # None => /\ debris' = {}
                         /\ \A b \in Builds : Restorable(b, req.prev)'
  <2>. SUFFICES ASSUME req.prev # None
                PROVE  debris' = {} /\ \A b \in Builds : Restorable(b, req.prev)'
    OBVIOUS
  <2>1. debris = {} /\ \A b \in Builds : Restorable(b, req.prev)
    BY <1>1, Before DEF Backward, Undoing
  <2>2. ~Fails
    BY <1>1, <1>4, CleanPrev
  <2>3. row' = [row EXCEPT ![req.b] = req.saved[req.b].row]
    BY <2>2 DEF Unfinalize
  <2>4. req.saved[req.b] = Of(req.prev)
    BY <1>6, <1>7, <2>1 DEF Restorable
  <2>5. row'[req.b] = req.prev /\ \A x \in Builds \ {req.b} : row'[x] = row[x]
    BY <1>1, <1>6, <2>3, <2>4 DEF Of, Stored
  <2>6. ASSUME NEW x \in Builds PROVE Restorable(x, req.prev)'
    BY <1>1, <1>3, <1>6, <1>7, <2>1, <2>5 DEF Restorable, SameFiles
  <2>. QED BY <1>1, <2>1, <2>6
<1>. QED
  BY <1>1, <1>2, <1>3, <1>5, <1>8, FileRestore
     DEF Forward, Backward, Undoing, Cutting

\* At the end of a successful update every instance has its port alone.
LEMMA EndingTidy ==
  ASSUME SafeInv', req'.pc \in Ending
  PROVE  Tidy'
<1>1. \A i \in Instances : Lone(i)'
  BY DEF SafeInv, Promoted
<1>. QED
  BY <1>1 DEF Tidy, Ports, Lone, Ending, Backward, Undoing

LEMMA RestoreMetadataRestore ==
  ASSUME SafeInv, RestoreInv, RestoreMetadata
  PROVE  RestoreInv'
<1>1. /\ req.pc = "restore" /\ req' = Idle /\ digest = None
      /\ UNCHANGED <<row, owner, image, artifact, debris, cont>>
  BY DEF SafeInv, Place, RestoreMetadata, At, files
<1>2. crashes' = crashes /\ (digest' = req.prev \/ digest' = None)
  BY <1>1 DEF RestoreMetadata, Works, Fails
<1>3. req'.pc = "idle"
  BY <1>1, IdleType
<1>4. Clean' => Clean
  BY <1>1, <1>2, <1>3 DEF Clean
<1>5. (Clean' => Tidy') /\ Serving'
  BY <1>1, <1>2, <1>3, <1>4, QuietRuntime DEF Cutting, Backward, Undoing
<1>6. ASSUME digest' # None PROVE Uniform(digest)' /\ debris' = {}
  <2>1. req.prev # None /\ digest' = req.prev
    BY <1>2, <1>6
  <2>2. /\ debris = {}
        /\ \A b \in Builds : Restorable(b, req.prev)
        /\ \A i \in Instances : Returns(i, req.prev)
    BY <1>1, <2>1, Before DEF Backward
  <2>3. DoneSet = {} /\ Hand = {}
    BY <1>1 DEF SafeInv, Place, DoneSet, Elems, Hand, Promoting, Preparing, Moving,
                Undoing
  <2>4. Tagged = {} /\ Finalized = {}
    BY <1>1, <2>3 DEF Tagged, Finalized, Promoting, Preparing, Moving
  <2>5. \A b \in Builds : BuildIs(b, req.prev)
    BY <2>2, <2>4 DEF Restorable, BuildIs
  <2>6. \A i \in Instances : InstanceIs(i, req.prev)
    BY <1>1, <2>2, <2>3 DEF SafeInv, Order, Returns
  <2>7. \A c \in Containers : owner[c] # None => cont[c].ver = req.prev
    BY <2>6, Types DEF SafeInv, Contained, InstanceIs
  <2>. QED BY <1>1, <2>1, <2>2, <2>5, <2>7 DEF Uniform, BuildIs
<1>7. Vouched'
  BY <1>3, <1>6
     DEF Vouched, DigestVouches, NoDebris, Forward, Backward, Promoting,
         Preparing, Moving, Undoing
<1>. QED
  BY <1>5, <1>7 DEF RestoreInv

LEMMA CleanupRestore ==
  ASSUME SafeInv, SafeInv', RestoreInv, Cleanup
  PROVE  RestoreInv'
<1>1. /\ req.pc = "cleanup" /\ digest' = None /\ req \in Requests
      /\ UNCHANGED <<owner, cont>>
  BY Types DEF SafeInv, Place, Cleanup, At
<1>2. crashes' = crashes
  BY DEF Cleanup, Works, Fails
<1>3. \/ req'.pc = "idle"
      \/ req'.pc = "complete" /\ req'.prev = req.prev
  BY <1>1, IdleType, GotoEffect DEF Cleanup, Steps, SamePlan
<1>4. Clean' => Clean
  BY <1>1, <1>2, <1>3 DEF Clean
<1>5. (Clean' => Tidy') /\ Serving'
  BY <1>1, <1>2, <1>3, <1>4, QuietRuntime DEF Cutting, Backward, Undoing
<1>6. Vouched'
  BY <1>1, <1>3
     DEF Vouched, DigestVouches, NoDebris, Forward, Backward, Promoting,
         Preparing, Moving, Undoing
<1>. QED
  BY <1>5, <1>6 DEF RestoreInv

LEMMA CompleteRestore ==
  ASSUME SafeInv, RestoreInv, Complete
  PROVE  RestoreInv'
<1>1. /\ req.pc = "complete" /\ req' = Idle /\ digest = None
      /\ UNCHANGED <<row, owner, image, artifact, debris, cont>>
  BY DEF SafeInv, Place, Complete, At, files
<1>2. crashes' = crashes /\ (digest' = req.new \/ digest' = None)
  BY <1>1 DEF Complete, Works, Fails
<1>3. req'.pc = "idle"
  BY <1>1, IdleType
<1>4. /\ \A x \in Builds : BuildIs(x, req.new)
      /\ \A i \in Instances : InstanceIs(i, req.new) /\ Lone(i)
      /\ debris = {}
  BY <1>1 DEF SafeInv, Promoted, Ending
<1>5. Tidy'
  BY <1>1, <1>3, <1>4 DEF Tidy, Ports, Lone, Backward, Undoing
<1>6. Serving'
  BY <1>1, <1>2, <1>3 DEF RestoreInv, Serving, Cutting
<1>7. \A c \in Containers : owner[c] # None => cont[c].ver = req.new
  BY <1>4, Types DEF SafeInv, Contained, InstanceIs
<1>8. Uniform(req.new)
  BY <1>4, <1>7 DEF Uniform, BuildIs
<1>9. digest' # None => Uniform(digest)' /\ debris' = {}
  BY <1>1, <1>2, <1>4, <1>8 DEF Uniform
<1>10. Vouched'
  BY <1>3, <1>9
     DEF Vouched, DigestVouches, NoDebris, Forward, Backward, Promoting,
         Preparing, Moving, Undoing
<1>. QED
  BY <1>5, <1>6, <1>10 DEF RestoreInv

LEMMA FinishRestore ==
  ASSUME SafeInv, SafeInv', RestoreInv, Finish
  PROVE  RestoreInv'
<1>1. /\ req.pc = "finish" /\ digest' = None /\ req \in Requests /\ Contained
      /\ owner' = owner
  BY Types DEF SafeInv, Place, Finish, At
<1>2. crashes' = crashes
  BY DEF Finish, Works, Fails
<1>3. \A c \in Containers : owner[c] # None => cont'[c] = cont[c]
  <2>1. CASE req.left = {}
    BY <2>1 DEF Finish
  <2>2. CASE req.left # {}
    <3>1. PICK i \in req.left : i = CHOOSE x \in req.left : TRUE
      BY <2>2
    <3>2. cont' \in {cont, Removed(req.old[i])}
      BY <2>2, <3>1 DEF Finish
    <3>3. i \in Instances /\ Switched(i)
      BY <1>1 DEF SafeInv, Order, Switched, Requests
    <3>4. owner[req.old[i]] = None /\ req.old[i] \in Containers
      BY <3>3, Pairs
    <3>. QED BY <1>1, <3>2, <3>4 DEF Removed, Contained
  <2>. QED BY <2>1, <2>2
<1>4. req'.pc \in {"finish", "cleanup", "idle"}
  <2>1. PICK i, b : \/ req' = [req EXCEPT !.left = @ \ {i}]
                    \/ req' = [req EXCEPT !.left = @ \ {i}, !.errs = TRUE]
                    \/ req' = [req EXCEPT !.todo = @ \ {b}, !.staged = @ \ {b},
                                          !.kept = @ \ {b}]
                    \/ req' = [req EXCEPT !.todo = @ \ {b}, !.staged = @ \ {b},
                                          !.kept = @ \ {b}, !.errs = TRUE]
                    \/ req' = [req EXCEPT !.pc = "cleanup"]
                    \/ req' = Idle
    BY DEF Finish, Goto
  <2>2. CASE \/ req' = [req EXCEPT !.left = @ \ {i}]
             \/ req' = [req EXCEPT !.left = @ \ {i}, !.errs = TRUE]
    BY <1>1, <2>2 DEF Requests
  <2>3. CASE \/ req' = [req EXCEPT !.todo = @ \ {b}, !.staged = @ \ {b},
                                   !.kept = @ \ {b}]
             \/ req' = [req EXCEPT !.todo = @ \ {b}, !.staged = @ \ {b},
                                   !.kept = @ \ {b}, !.errs = TRUE]
    BY <1>1, <2>3 DEF Requests
  <2>4. CASE req' = [req EXCEPT !.pc = "cleanup"]
    BY <1>1, <2>4 DEF Requests
  <2>5. CASE req' = Idle
    BY <2>5, IdleType
  <2>. QED BY <2>1, <2>2, <2>3, <2>4, <2>5
<1>5. Clean' => Tidy'
  <2>1. CASE req'.pc = "idle"
    <3>1. UNCHANGED cont
      <4>1. req.left # {} => req'.pc = "finish"
        BY <1>1 DEF Finish, Requests
      <4>. QED BY <2>1, <4>1 DEF Finish
    <3>2. \A i \in Instances : Lone(i)
      BY <1>1 DEF SafeInv, Promoted, Ending
    <3>. QED BY <1>1, <2>1, <3>1, <3>2 DEF Tidy, Ports, Lone, Backward, Undoing
  <2>2. CASE req'.pc # "idle"
    BY <1>4, <2>2, EndingTidy DEF Ending
  <2>. QED BY <2>1, <2>2
<1>6. Serving'
  BY <1>1, <1>2, <1>3, <1>4 DEF RestoreInv, Serving, Cutting
<1>7. Vouched'
  BY <1>1, <1>4
     DEF Vouched, DigestVouches, NoDebris, Forward, Backward, Promoting,
         Preparing, Moving, Undoing
<1>. QED
  BY <1>5, <1>6, <1>7 DEF RestoreInv

LEMMA RecoverRestore ==
  ASSUME SafeInv, RestoreInv, Recover
  PROVE  RestoreInv'
<1>1. /\ req.pc = "idle" /\ Contained
      /\ UNCHANGED <<digest, row, owner, image, artifact, debris, req>>
  BY Types DEF SafeInv, Recover, At, files
<1>2. crashes' = crashes
  BY DEF Recover, Works, Fails
<1>3. \A c \in Containers :
        \/ cont'[c] = cont[c]
        \/ cont'[c] = Gone /\ c \in retired
        \/ cont'[c] = [cont[c] EXCEPT !.st = "running"] /\ owner[c] # None
  <2>1. PICK spared \in SUBSET Containers :
          LET removed == retired \ spared
              free(c) == \A d \in Containers \ (removed \cup {c}) :
                           cont[d].of = cont[c].of => cont[d].st # "running"
          IN
          cont' = [c \in Containers |->
               IF c \in removed THEN Gone
               ELSE IF /\ owner[c] # None /\ cont[c].st = "exited"
                       /\ c \notin spared /\ free(c)
               THEN [cont[c] EXCEPT !.st = "running"] ELSE cont[c]]
    BY DEF Recover
  <2>. QED BY <2>1
<1>4. \A c \in Containers : owner[c] # None => c \notin retired /\ cont[c].of = owner[c]
  BY Owners
<1>5. \A c \in Containers : owner[c] # None =>
        /\ cont'[c].ver = cont[c].ver /\ cont'[c].of = cont[c].of
        /\ cont[c].st = "running" => cont'[c].st = "running"
  <2>. SUFFICES ASSUME NEW c \in Containers, owner[c] # None
                PROVE  /\ cont'[c].ver = cont[c].ver
                       /\ cont'[c].of = cont[c].of
                       /\ cont[c].st = "running" => cont'[c].st = "running"
    OBVIOUS
  <2>1. cont[c] \in ContainerType BY <1>1 DEF Contained
  <2>2. CASE cont'[c] = cont[c] BY <2>2
  <2>3. CASE cont'[c] = [cont[c] EXCEPT !.st = "running"]
    BY <2>1, <2>3 DEF ContainerType
  <2>. QED BY <1>3, <1>4, <2>2, <2>3
<1>6. \A c \in Containers : cont'[c].st = "running" =>
        owner[c] = cont'[c].of \/ cont'[c] = cont[c]
  <2>. SUFFICES ASSUME NEW c \in Containers, cont'[c].st = "running",
                       cont'[c] # cont[c]
                PROVE  owner[c] = cont'[c].of
    OBVIOUS
  <2>1. cont'[c] # Gone
    BY DEF Gone
  <2>2. owner[c] # None
    BY <1>3, <2>1
  <2>. QED BY <1>4, <1>5, <2>2
<1>7. Clean' => Tidy'
  <2>. SUFFICES ASSUME Clean' PROVE Tidy'
    OBVIOUS
  <2>1. Tidy
    BY <1>1, <1>2 DEF Clean, RestoreInv
  <2>. QED BY <1>1, <1>6, <2>1 DEF Tidy, Ports, Backward, Undoing
<1>8. Serving'
  BY <1>1, <1>2, <1>5 DEF RestoreInv, Serving, Cutting
<1>9. Vouched'
  <2>1. DigestVouches /\ NoDebris
    BY DEF RestoreInv, Vouched
  <2>2. DigestVouches' /\ NoDebris'
    BY <1>1, <1>5, <2>1 DEF DigestVouches, NoDebris, Uniform
  <2>. QED
    BY <1>1, <2>2
       DEF Vouched, Forward, Backward, Promoting, Preparing, Moving, Undoing
<1>. QED
  BY <1>7, <1>8, <1>9 DEF RestoreInv


LEMMA PauseOldRestore ==
  ASSUME failures' <= 1, SafeInv, SafeInv', RestoreInv, PauseOld
  PROVE  RestoreInv'
<1>1. /\ req.pc = "pause" /\ req \in Requests /\ Stored /\ Contained
      /\ UNCHANGED <<row, image, artifact, debris, owner>>
  BY Types DEF SafeInv, PauseOld, At, files
<1>2. crashes' = crashes
  BY DEF PauseOld, Works, Fails
<1>3. Fails => failures' = 1
  BY <1>1, LastFailure
<1>4. ASSUME req.prev # None
      PROVE  /\ debris = {}
             /\ \A b \in Builds : Restorable(b, req.prev)
             /\ \A i \in Instances : Returns(i, req.prev)
  BY <1>1, <1>4, Before DEF Forward, Promoting, Moving
<1>5. ASSUME NEW i \in req.left, NEW c, c = Active(i),
             cont' = [cont EXCEPT ![c].st = "exited"],
             req' = [req EXCEPT !.pc = "start", !.inst = i, !.old[i] = c]
      PROVE  RestoreInv'
  <2>1. i \in Instances /\ req.cut[i] = 0
    BY <1>1 DEF SafeInv, Place, Order, InstancesOf, Switched, Forward, Promoting, Moving
  <2>2. c \in Containers /\ owner[c] = i
    BY <1>5, <2>1, Activity
  <2>3. /\ req'.pc = "start" /\ req'.inst = i /\ req'.prev = req.prev /\ SameLoop
        /\ SameFiles /\ req'.cut = req.cut
        /\ req'.old[i] = c /\ \A j \in Instances \ {i} : req'.old[j] = req.old[j]
    BY <1>1, <1>5, <2>1, <2>2 DEF Requests, SameLoop, SameFiles
  <2>4. /\ \A d \in Containers : cont'[d].of = cont[d].of /\ cont'[d].ver = cont[d].ver
        /\ cont'[c].st = "exited"
        /\ \A d \in Containers \ {c} : cont'[d] = cont[d]
    BY <1>1, <1>5, <2>2 DEF Contained, ContainerType
  <2>5. Clean' => Tidy'
    <3>. SUFFICES ASSUME Clean' PROVE Tidy'
      OBVIOUS
    <3>1. Tidy
      BY <1>1, <1>2, <2>3, CleanStays DEF RestoreInv
    <3>2. Ports'
      BY <1>1, <2>3, <2>4, <3>1 DEF Tidy, Ports
    <3>. QED BY <2>3, <2>4, <3>2 DEF Tidy, Backward, Undoing
  <2>6. Serving'
    BY <1>1, <1>2, <2>3, <2>4 DEF RestoreInv, Serving, Cutting
  <2>7. \A j \in Instances : Switched(j)' <=> Switched(j)
    BY <1>1, <2>3 DEF Switched, Forward, Promoting, Moving
  <2>8. Tagged' = Tagged /\ Finalized' = Finalized
    <3>1. DoneSet' = DoneSet
      BY <2>3 DEF DoneSet, SameLoop
    <3>. QED
      BY <1>1, <2>3, <3>1
         DEF Tagged, Finalized, SameLoop, SameFiles, Promoting, Moving
  <2>9. ASSUME req'.prev # None
        PROVE  /\ debris' = {}
               /\ \A b \in Builds : Restorable(b, req.prev)'
               /\ \A j \in Instances : Returns(j, req.prev)'
    <3>1. /\ debris = {}
          /\ \A b \in Builds : Restorable(b, req.prev)
          /\ \A j \in Instances : Returns(j, req.prev)
      BY <1>4, <2>3, <2>9
    <3>2. \A b \in Builds : Restorable(b, req.prev)'
      BY <1>1, <2>3, <2>8, <3>1 DEF Restorable, SameFiles
    <3>3. ASSUME NEW j \in Instances PROVE Returns(j, req.prev)'
      <4>1. CASE Switched(j)
        <5>1. j # i
          BY <2>1, <4>1 DEF Switched
        <5>2. cont[req.old[j]].ver = req.prev /\ req.old[j] \in Containers
          BY <3>1, <4>1, Pairs DEF Returns
        <5>. QED BY <2>3, <2>4, <2>7, <4>1, <5>1, <5>2 DEF Returns
      <4>2. CASE ~Switched(j)
        BY <1>1, <2>3, <2>4, <2>7, <3>1, <4>2 DEF Returns, InstanceIs
      <4>. QED BY <4>1, <4>2
    <3>. QED BY <1>1, <3>1, <3>2, <3>3
  <2>10. Vouched'
    BY <2>3, <2>9, RunningVouched
  <2>. QED BY <2>5, <2>6, <2>10 DEF RestoreInv
<1>6. CASE Fails /\ Revert /\ UNCHANGED cont
  <2>1. /\ req'.pc = "giveback" /\ req'.prev = req.prev /\ SameLoop /\ SameMoves
        /\ req'.saved = req.saved /\ req'.kept = req.kept
        /\ req'.installed = req.installed
    BY <1>1, <1>6 DEF Revert, Requests, SameLoop, SameMoves
  <2>2. Tagged' = Tagged /\ Finalized' = Finalized
    <3>1. DoneSet' = DoneSet
      BY <2>1 DEF DoneSet, SameLoop
    <3>. QED
      BY <1>1, <2>1, <3>1 DEF Tagged, Finalized, SameLoop, Promoting, Moving
  <2>3. req.prev # None => /\ debris' = {}
                           /\ \A b \in Builds : Restorable(b, req.prev)'
    BY <1>1, <1>4, <2>1, <2>2 DEF Restorable
  <2>. QED
    BY <1>1, <1>2, <1>3, <1>6, <2>1, <2>3, FileRestore
       DEF Forward, Backward, Promoting, Moving, Undoing, Cutting
<1>7. CASE /\ UNCHANGED cont
           /\ req' = [req EXCEPT !.pc = "build", !.done = Append(@, req.b)]
  <2>1. /\ req'.pc = "build" /\ req'.prev = req.prev /\ SameMoves /\ SameFiles
        /\ req'.done = Append(req.done, req.b)
    BY <1>1, <1>7 DEF Requests, SameMoves, SameFiles
  <2>2. req.b \in Builds /\ req.done \in Seq(Builds)
    BY <1>1 DEF SafeInv, Place, Hand, Promoting, Moving, Requests
  <2>3. DoneSet' = DoneSet \cup {req.b}
    BY <2>1, <2>2, SMTT(40) DEF DoneSet, Elems
  <2>4. Tagged' = Tagged /\ Finalized' = Finalized
    BY <1>1, <2>1, <2>3 DEF Tagged, Finalized, Promoting, Preparing, Moving
  <2>5. req.prev # None => /\ debris' = {}
                           /\ \A b \in Builds : Restorable(b, req.prev)'
    BY <1>1, <1>4, <2>1, <2>4 DEF Restorable, SameFiles
  <2>. QED
    BY <1>1, <1>2, <1>7, <2>1, <2>5, FileRestore
       DEF Forward, Backward, Promoting, Moving, Undoing, Cutting
<1>8. req.left # {} => (CHOOSE x \in req.left : TRUE) \in req.left
  OBVIOUS
<1>. QED
  BY <1>5, <1>6, <1>7, <1>8 DEF PauseOld

\* The port of the instance that is being moved is free.
LEMMA PortIsFree ==
  ASSUME SafeInv, RestoreInv, Clean, req.pc = "start"
  PROVE  \A d \in Containers : cont[d].of = req.inst => cont[d].st # "running"
<1>1. Tidy /\ Contained
  BY Types DEF RestoreInv, SafeInv
<1>2. /\ req.inst \in Instances /\ req.old[req.inst] \in Containers
      /\ owner[req.old[req.inst]] = req.inst
  BY DEF SafeInv, Place, Cutovers, Cutover, Cutting, InstancesOf
<1>3. cont[req.old[req.inst]].st = "exited"
  BY <1>1 DEF Tidy
<1>4. \A d \in Containers : cont[d].of = req.inst /\ cont[d].st = "running" =>
        owner[d] = req.inst
  BY <1>1, <1>2 DEF Tidy, Ports
<1>. QED
  BY <1>2, <1>3, <1>4, Owners, NoneApart

LEMMA StartNewRestore ==
  ASSUME failures' <= 1, SafeInv, SafeInv', RestoreInv, StartNew
  PROVE  RestoreInv'
<1>1. /\ req.pc = "start" /\ req \in Requests /\ Stored /\ Contained
      /\ UNCHANGED <<row, image, artifact, debris, owner>>
  BY Types DEF SafeInv, StartNew, At, files
<1>2. crashes' = crashes
  BY DEF StartNew, Works, Fails
<1>3. Fails => failures' = 1
  BY <1>1, LastFailure
<1>4. PICK i, c : i = req.inst /\ c = CHOOSE x \in Fresh : \A y \in Fresh : x <= y
  OBVIOUS
<1>5. /\ c \in Containers /\ cont[c] = Gone /\ owner[c] = None /\ c \notin retired
      /\ \A j \in Instances : req.old[j] # c
  <2>1. Fresh # {} /\ Fresh \subseteq Containers
    BY DEF StartNew, Fresh
  <2>2. c \in Fresh
    BY <1>4, <2>1, FirstContainer
  <2>. QED BY <2>2 DEF Fresh
<1>6. /\ i \in Instances /\ req.cut[i] = 0
      /\ req.old[i] \in Containers /\ owner[req.old[i]] = i
  BY <1>1, <1>4 DEF SafeInv, Place, Cutovers, Cutover, Cutting, InstancesOf
<1>7. /\ \/ cont' = [cont EXCEPT ![c] = [st |-> "running", of |-> i, ver |-> image[req.b]]]
         \/ cont' = [cont EXCEPT ![c] = [st |-> "exited", of |-> i, ver |-> image[req.b]]]
         \/ cont' = cont
      /\ \/ req' = [req EXCEPT !.pc = "commit", !.cut[i] = c]
         \/ /\ req' = [req EXCEPT !.pc = "retake", !.left = {}, !.final = TRUE,
                                  !.cut[i] = c]
            /\ ~PortFree(i, c) \/ Fails
  <2>1. CASE PortFree(i, c) /\ Works
    BY <1>4, <2>1 DEF StartNew
  <2>2. CASE ~PortFree(i, c) /\ Works
    BY <1>4, <2>2 DEF StartNew
  <2>3. CASE Fails
    BY <1>4, <2>3 DEF StartNew
  <2>. QED BY <1>4, <2>1, <2>2, <2>3 DEF StartNew
<1>8. /\ \A d \in Containers \ {c} : cont'[d] = cont[d]
      /\ cont'[c] = Gone \/ cont'[c].of = i
  BY <1>1, <1>5, <1>7 DEF Contained
<1>9. /\ req'.pc \in {"commit", "retake"} /\ req'.inst = i /\ req'.prev = req.prev
      /\ SameLoop /\ req'.old = req.old /\ req'.cut[i] = c
      /\ \A j \in Instances \ {i} : req'.cut[j] = req.cut[j]
      /\ req'.saved = req.saved /\ req'.kept = req.kept
      /\ req'.installed = req.installed
      /\ req'.pc = "retake" => ~PortFree(i, c) \/ Fails
  <2>1. CASE req' = [req EXCEPT !.pc = "commit", !.cut[i] = c]
    BY <1>1, <1>4, <1>5, <1>6, <2>1 DEF Requests, SameLoop
  <2>2. CASE /\ req' = [req EXCEPT !.pc = "retake", !.left = {}, !.final = TRUE,
                                   !.cut[i] = c]
             /\ ~PortFree(i, c) \/ Fails
    BY <1>1, <1>4, <1>5, <1>6, <2>2 DEF Requests, SameLoop
  <2>. QED BY <1>7, <2>1, <2>2
<1>10. Clean' => Tidy'
  <2>. SUFFICES ASSUME Clean' PROVE Tidy'
    OBVIOUS
  <2>1. Tidy /\ Clean
    BY <1>1, <1>2, <1>9, CleanStays DEF RestoreInv
  <2>2. PortFree(i, c)
    BY <1>1, <1>4, <2>1, PortIsFree DEF PortFree
  <2>3. Ports'
    <3>. SUFFICES ASSUME NEW j \in Instances, NEW d \in Containers,
                         cont'[d].of = j, cont'[d].st = "running"
                  PROVE  \/ owner'[d] = j
                         \/ /\ req'.pc \in {"commit", "retake"}
                            /\ req'.inst = j /\ d = req'.cut[j]
      BY DEF Ports
    <3>1. CASE d = c
      BY <1>8, <1>9, <3>1 DEF Gone
    <3>2. CASE d # c
      BY <1>1, <1>8, <2>1, <3>2 DEF Tidy, Ports
    <3>. QED BY <3>1, <3>2
  <2>4. req'.pc \in Backward => failures' = 1
    BY <1>3, <1>9, <2>2 DEF Backward, Undoing
  <2>5. cont'[req'.old[req'.inst]].st = "exited"
    BY <1>1, <1>4, <1>5, <1>6, <1>8, <1>9, <2>1, NoneApart DEF Tidy
  <2>. QED BY <2>3, <2>4, <2>5 DEF Tidy
<1>11. Serving'
  <2>1. \A d \in Containers : owner'[d] # None => owner[d] # None /\ cont'[d] = cont[d]
    BY <1>1, <1>5, <1>8
  <2>2. req'.old[req'.inst] = req.old[req.inst]
    BY <1>4, <1>9
  <2>. QED BY <1>1, <1>2, <1>9, <2>1, <2>2 DEF RestoreInv, Serving, Cutting
<1>12. \A j \in Instances : Switched(j)' <=> Switched(j)
  BY <1>1, <1>6, <1>9 DEF Switched, Forward, Backward, Promoting, Moving, Undoing
<1>13. Tagged' = Tagged /\ Finalized' = Finalized
  <2>1. DoneSet' = DoneSet
    BY <1>9 DEF DoneSet, SameLoop
  <2>. QED
    BY <1>1, <1>9, <2>1 DEF Tagged, Finalized, SameLoop, Promoting, Moving
<1>14. ASSUME req'.prev # None
       PROVE  /\ debris' = {}
              /\ \A b \in Builds : Restorable(b, req.prev)'
              /\ \A j \in Instances : Returns(j, req.prev)'
  <2>1. /\ debris = {}
        /\ \A b \in Builds : Restorable(b, req.prev)
        /\ \A j \in Instances : Returns(j, req.prev)
    BY <1>1, <1>9, <1>14, Before DEF Forward, Promoting, Moving
  <2>2. \A b \in Builds : Restorable(b, req.prev)'
    BY <1>1, <1>9, <1>13, <2>1 DEF Restorable
  <2>3. ASSUME NEW j \in Instances PROVE Returns(j, req.prev)'
    <3>1. CASE Switched(j)
      BY <1>5, <1>8, <1>9, <1>12, <2>1, <3>1, Pairs DEF Returns
    <3>2. CASE ~Switched(j)
      BY <1>1, <1>5, <1>8, <1>9, <1>12, <2>1, <3>2, NoneApart DEF Returns, InstanceIs
    <3>. QED BY <3>1, <3>2
  <2>. QED BY <1>1, <2>1, <2>2, <2>3
<1>15. Vouched'
  BY <1>9, <1>14, RunningVouched
<1>. QED
  BY <1>10, <1>11, <1>15 DEF RestoreInv

LEMMA CommitNewRestore ==
  ASSUME failures' <= 1, SafeInv, SafeInv', RestoreInv, CommitNew
  PROVE  RestoreInv'
<1>1. /\ req.pc = "commit" /\ req \in Requests /\ Stored /\ Contained
      /\ UNCHANGED <<row, image, artifact, debris, cont>>
  BY Types DEF SafeInv, CommitNew, At, files
<1>2. crashes' = crashes
  BY DEF CommitNew, Works, Fails
<1>3. PICK i, c, o : i = req.inst /\ c = req.cut[i] /\ o = req.old[i]
  OBVIOUS
<1>4. /\ i \in Instances /\ o \in Containers /\ owner[o] = i
      /\ c \in Containers /\ owner[c] = None /\ o # c /\ c # 0
      /\ cont[c].st = "running" /\ cont[c].of = i
      /\ PortFree(i, c)
  BY <1>1, <1>3, NoneApart, UpdateAssumption
     DEF SafeInv, Place, Cutovers, Cutover, Cutting, InstancesOf, Containers
<1>5. /\ req'.pc \in {"pause", "retake"} /\ req'.prev = req.prev /\ SameLoop /\ SameMoves
      /\ req'.saved = req.saved /\ req'.kept = req.kept
      /\ req'.installed = req.installed
  <2>1. CASE req' = [req EXCEPT !.pc = "pause", !.left = @ \ {i}, !.inst = None]
    BY <1>1, <2>1 DEF Requests, SameLoop, SameMoves
  <2>2. CASE req' = [req EXCEPT !.pc = "retake", !.left = {}, !.final = TRUE]
    BY <1>1, <2>2 DEF Requests, SameLoop, SameMoves
  <2>. QED BY <1>3, <2>1, <2>2 DEF CommitNew
<1>6. Tagged' = Tagged /\ Finalized' = Finalized
  <2>1. DoneSet' = DoneSet
    BY <1>5 DEF DoneSet, SameLoop
  <2>. QED
    BY <1>1, <1>5, <2>1 DEF Tagged, Finalized, SameLoop, Promoting, Moving
<1>7. ASSUME req'.prev # None
      PROVE  /\ debris' = {}
             /\ \A b \in Builds : Restorable(b, req.prev)'
             /\ \A j \in Instances : Returns(j, req.prev)
  <2>1. /\ debris = {}
        /\ \A b \in Builds : Restorable(b, req.prev)
        /\ \A j \in Instances : Returns(j, req.prev)
    BY <1>1, <1>5, <1>7, Before DEF Forward, Promoting, Moving
  <2>. QED BY <1>1, <1>5, <1>6, <2>1 DEF Restorable
<1>8. Clean' => Clean /\ Tidy
  BY <1>1, <1>2, <1>5, CleanStays DEF RestoreInv
<1>9. CASE /\ owner' = [owner EXCEPT ![c] = i, ![o] = None]
           /\ req' = [req EXCEPT !.pc = "pause", !.left = @ \ {i}, !.inst = None]
  <2>1. req'.pc = "pause"
    BY <1>1, <1>9 DEF Requests
  <2>2. /\ owner'[c] = i /\ owner'[o] = None
        /\ \A d \in Containers \ {c, o} : owner'[d] = owner[d]
    BY <1>1, <1>4, <1>9 DEF Contained
  <2>3. Clean' => Tidy'
    <3>. SUFFICES ASSUME Clean' PROVE Tidy'
      OBVIOUS
    <3>1. ASSUME NEW j \in Instances, NEW d \in Containers,
                 cont'[d].of = j, cont'[d].st = "running"
          PROVE  owner'[d] = j
      <4>1. CASE j = i
        BY <1>1, <1>4, <2>2, <3>1, <4>1 DEF PortFree
      <4>2. CASE j # i
        <5>1. owner[d] = j
          BY <1>1, <1>3, <1>8, <3>1, <4>2 DEF Tidy, Ports
        <5>. QED BY <1>4, <2>2, <4>2, <5>1, NoneApart
      <4>. QED BY <4>1, <4>2
    <3>. QED BY <2>1, <3>1 DEF Tidy, Ports, Backward, Undoing
  <2>4. Serving'
    <3>1. \A d \in Containers : owner'[d] # None =>
            d = c \/ (owner[d] # None /\ d # o)
      BY <2>2
    <3>. QED
      BY <1>1, <1>2, <1>3, <1>4, <3>1 DEF RestoreInv, Serving, Cutting
  <2>5. \A j \in Instances : Switched(j)' <=> Switched(j) \/ j = i
    BY <1>1, <1>3, <1>4, <1>5, <2>1 DEF Switched, SameMoves, Forward, Promoting, Moving
  <2>6. ~Switched(i)
    BY <1>1, <1>3 DEF Switched
  <2>7. ASSUME req'.prev # None, NEW j \in Instances PROVE Returns(j, req.prev)'
    <3>1. Returns(j, req.prev) /\ Returns(i, req.prev)
      BY <1>4, <1>7, <2>7
    <3>2. CASE j = i
      <4>1. cont[o].ver = req.prev
        BY <1>4, <2>6, <3>1 DEF Returns, InstanceIs
      <4>2. cont'[req'.old[j]].ver = req'.prev
        BY <1>1, <1>3, <1>5, <3>2, <4>1 DEF SameMoves
      <4>. QED BY <2>5, <3>2, <4>2 DEF Returns
    <3>3. CASE j # i /\ Switched(j)
      BY <1>1, <1>5, <2>5, <3>1, <3>3 DEF Returns, SameMoves
    <3>4. CASE j # i /\ ~Switched(j)
      <4>1. \A d \in Containers : owner'[d] = j => owner[d] = j
        BY <2>2, <2>7, <3>4, NoneApart
      <4>. QED
        BY <1>1, <1>5, <2>5, <3>1, <3>4, <4>1 DEF Returns, InstanceIs
    <3>. QED BY <3>2, <3>3, <3>4
  <2>8. Vouched'
    BY <1>7, <2>1, <2>7, RunningVouched
  <2>. QED BY <2>3, <2>4, <2>8 DEF RestoreInv
<1>10. CASE /\ Fails /\ UNCHANGED owner
            /\ req' = [req EXCEPT !.pc = "retake", !.left = {}, !.final = TRUE]
  <2>1. req'.pc = "retake" /\ req'.inst = req.inst
    BY <1>1, <1>10 DEF Requests
  <2>2. Clean' => Tidy'
    <3>. SUFFICES ASSUME Clean' PROVE Tidy'
      OBVIOUS
    <3>1. failures' = 1
      BY <1>1, <1>10, LastFailure
    <3>2. Ports'
      BY <1>1, <1>5, <1>8, <1>10, <2>1 DEF Tidy, Ports, SameMoves
    <3>. QED BY <2>1, <3>1, <3>2 DEF Tidy
  <2>3. Serving'
    BY <1>1, <1>2, <1>5, <1>10, <2>1 DEF RestoreInv, Serving, Cutting, SameMoves
  <2>4. \A j \in Instances : Switched(j)' <=> Switched(j)
    BY <1>1, <1>5, <2>1
       DEF Switched, SameMoves, Forward, Backward, Promoting, Moving, Undoing
  <2>5. ASSUME req'.prev # None PROVE \A j \in Instances : Returns(j, req.prev)'
    BY <1>1, <1>5, <1>7, <1>10, <2>4, <2>5 DEF Returns, InstanceIs, SameMoves
  <2>6. Vouched'
    BY <1>7, <2>1, <2>5, RunningVouched
  <2>. QED BY <2>2, <2>3, <2>6 DEF RestoreInv
<1>. QED
  BY <1>3, <1>9, <1>10 DEF CommitNew

LEMMA GiveBackRestore ==
  ASSUME failures' <= 1, SafeInv, SafeInv', RestoreInv, GiveBack
  PROVE  RestoreInv'
<1>1. /\ req.pc = "giveback" /\ req \in Requests /\ Stored /\ Contained /\ req.final
      /\ UNCHANGED <<row, image, artifact, debris, cont>>
  BY Types DEF SafeInv, Place, GiveBack, At, files
<1>2. crashes' = crashes
  BY DEF GiveBack, Works, Fails
<1>3. Clean => ~Fails
  BY <1>1, NoFailure DEF Backward, Undoing
<1>4. \A j \in Instances : Switched(j) <=> req.cut[j] # 0
  BY <1>1 DEF Switched, Backward, Undoing
<1>5. ASSUME req.prev # None
      PROVE  /\ debris' = {}
             /\ \A b \in Builds : Restorable(b, req.prev)
             /\ \A j \in Instances : Returns(j, req.prev)
  BY <1>1, <1>5, Before DEF Backward, Undoing
<1>6. CASE Works /\ Goto("unpromote") /\ UNCHANGED owner
  <2>1. /\ req'.pc = "unpromote" /\ req'.prev = req.prev /\ SameLoop /\ SameMoves
        /\ SameFiles
    BY <1>1, <1>6, GotoEffect DEF Steps, SamePlan
  <2>2. Tagged' = Tagged /\ Finalized' = Finalized
    <3>1. DoneSet' = DoneSet
      BY <2>1 DEF DoneSet, SameLoop
    <3>. QED
      BY <1>1, <2>1, <3>1
         DEF Tagged, Finalized, SameLoop, SameFiles, Promoting, Preparing, Moving
  <2>3. req.prev # None => /\ debris' = {}
                           /\ \A b \in Builds : Restorable(b, req.prev)'
    BY <1>1, <1>5, <2>1, <2>2 DEF Restorable, SameFiles
  <2>4. failures' = failures
    BY <1>6 DEF Works
  <2>. QED
    BY <1>1, <1>2, <1>6, <2>1, <2>3, <2>4, FileRestore DEF Backward, Undoing, Cutting
<1>7. ASSUME NEW i \in Moved, Works, req' = [req EXCEPT !.pc = "retake", !.inst = i],
             owner' = [owner EXCEPT ![req.old[i]] = i, ![req.cut[i]] = None]
      PROVE  RestoreInv'
  <2>1. PICK c, o : c = req.cut[i] /\ o = req.old[i]
    OBVIOUS
  <2>2. i \in Instances /\ Switched(i)
    BY <1>4 DEF Moved, InstancesOf
  <2>3. /\ c \in Containers /\ o \in Containers /\ owner[c] = i /\ owner[o] = None
        /\ c # o
    BY <2>1, <2>2, Pairs, NoneApart
  <2>4. /\ req'.pc = "retake" /\ req'.prev = req.prev /\ SameLoop /\ SameMoves
        /\ SameFiles /\ req'.inst = i
    BY <1>1, <1>7 DEF Requests, SameLoop, SameMoves, SameFiles
  <2>5. /\ owner'[o] = i /\ owner'[c] = None
        /\ \A d \in Containers \ {c, o} : owner'[d] = owner[d]
    BY <1>1, <1>7, <2>1, <2>3 DEF Contained
  <2>6. Clean' => Tidy'
    <3>. SUFFICES ASSUME Clean' PROVE Tidy'
      OBVIOUS
    <3>1. Tidy
      BY <1>1, <1>2, <2>4, CleanStays DEF RestoreInv
    <3>2. ASSUME NEW j \in Instances, NEW d \in Containers,
                 cont'[d].of = j, cont'[d].st = "running"
          PROVE  \/ owner'[d] = j
                 \/ req'.inst = j /\ d = req'.cut[j]
      <4>1. owner[d] = j
        BY <1>1, <3>1, <3>2 DEF Tidy, Ports
      <4>2. CASE j = i
        <5>1. d = c
          BY <2>2, <2>3, <4>1, <4>2, Owners, NoneApart
        <5>. QED BY <2>1, <2>4, <4>2, <5>1 DEF SameMoves
      <4>3. CASE j # i
        BY <2>3, <2>5, <4>1, <4>3, NoneApart
      <4>. QED BY <4>2, <4>3
    <3>3. failures' = 1
      BY <1>1, <1>7, <3>1 DEF Tidy, Backward, Undoing, Works
    <3>. QED BY <2>4, <3>2, <3>3 DEF Tidy, Ports
  <2>7. Serving'
    <3>1. \A d \in Containers : owner'[d] # None => d = o \/ owner[d] # None
      BY <2>5
    <3>2. req'.old[req'.inst] = o
      BY <2>1, <2>4 DEF SameMoves
    <3>. QED BY <1>1, <1>2, <2>4, <3>1, <3>2 DEF RestoreInv, Serving, Cutting
  <2>8. \A j \in Instances : Switched(j)' <=> Switched(j) /\ j # i
    BY <1>4, <2>4 DEF Switched, SameMoves, Backward, Undoing
  <2>9. Tagged' = Tagged /\ Finalized' = Finalized
    <3>1. DoneSet' = DoneSet
      BY <2>4 DEF DoneSet, SameLoop
    <3>. QED
      BY <1>1, <2>4, <3>1 DEF Tagged, Finalized, SameLoop
  <2>10. ASSUME req'.prev # None
         PROVE  /\ debris' = {}
                /\ \A b \in Builds : Restorable(b, req.prev)'
                /\ \A j \in Instances : Returns(j, req.prev)'
    <3>1. /\ debris' = {}
          /\ \A b \in Builds : Restorable(b, req.prev)
          /\ \A j \in Instances : Returns(j, req.prev)
      BY <1>5, <2>4, <2>10
    <3>2. \A b \in Builds : Restorable(b, req.prev)'
      BY <1>1, <2>4, <2>9, <3>1 DEF Restorable, SameFiles
    <3>3. ASSUME NEW j \in Instances PROVE Returns(j, req.prev)'
      <4>1. CASE j = i
        <5>1. cont[o].ver = req.prev
          BY <2>1, <2>2, <3>1 DEF Returns
        <5>2. \A d \in Containers : owner'[d] = i => d = o
          BY <2>2, <2>3, <2>5, Owners, NoneApart
        <5>. QED BY <1>1, <2>4, <2>8, <4>1, <5>1, <5>2 DEF Returns, InstanceIs
      <4>2. CASE j # i /\ Switched(j)
        BY <1>1, <2>4, <2>8, <3>1, <4>2 DEF Returns, SameMoves
      <4>3. CASE j # i /\ ~Switched(j)
        <5>1. \A d \in Containers : owner'[d] = j => owner[d] = j
          BY <2>5, <3>3, <4>3, NoneApart
        <5>. QED BY <1>1, <2>4, <2>8, <3>1, <4>3, <5>1 DEF Returns, InstanceIs
      <4>. QED BY <4>1, <4>2, <4>3
    <3>. QED BY <3>1, <3>2, <3>3
  <2>11. Vouched'
    BY <2>4, <2>10, RunningVouched
  <2>. QED BY <2>6, <2>7, <2>11 DEF RestoreInv
<1>8. ASSUME NEW i \in Moved, Fails, req' = [req EXCEPT !.cut[i] = 0], UNCHANGED owner
      PROVE  RestoreInv'
  <2>1. req'.pc = "giveback" /\ req'.prev = req.prev
    BY <1>1, <1>8 DEF Requests
  <2>2. ~Clean /\ ~Clean'
    BY <1>1, <1>2, <1>3, <1>8, <2>1, CleanStays
  <2>3. req'.prev = None
    BY <1>1, <2>1, <2>2, CleanPrev
  <2>4. Vouched'
    BY <2>1, <2>3, RunningVouched
  <2>5. Serving'
    BY <1>2, <2>2 DEF Serving, Clean
  <2>. QED BY <2>2, <2>4, <2>5 DEF RestoreInv
<1>9. Moved # {} => (CHOOSE x \in Moved : TRUE) \in Moved
  OBVIOUS
<1>. QED
  BY <1>6, <1>7, <1>8, <1>9 DEF GiveBack

LEMMA RetakeRestore ==
  ASSUME failures' <= 1, SafeInv, SafeInv', RestoreInv, Retake
  PROVE  RestoreInv'
<1>1. req \in Requests /\ Contained
  BY Types DEF SafeInv
<1>2. PICK c, o, i : c = req.cut[req.inst] /\ o = req.old[req.inst] /\ i = req.inst
  OBVIOUS
<1>3. /\ req.pc = "retake" /\ i \in Instances
      /\ o \in Containers /\ c \in Containers
      /\ owner[o] = i /\ owner[c] = None /\ o # c
      /\ \A d \in Containers \ {o, c} : cont'[d] = cont[d]
      /\ cont'[o].of = cont[o].of /\ cont'[o].ver = cont[o].ver
  BY <1>2, RetakeEffect
<1>4. /\ UNCHANGED <<row, image, artifact, debris, owner>>
      /\ req' = [req EXCEPT !.pc = "giveback", !.cut[i] = 0, !.inst = None]
  BY <1>2 DEF Retake, files
<1>5. crashes' = crashes
  BY DEF Retake, Works, Fails
<1>6. /\ req'.pc = "giveback" /\ req'.prev = req.prev /\ SameLoop /\ SameFiles
      /\ req'.old = req.old /\ req'.cut[i] = 0
      /\ \A j \in Instances \ {i} : req'.cut[j] = req.cut[j]
  <2>1. i \in Instances /\ req \in Requests
    BY <1>1, <1>3
  <2>. QED BY <1>4, <2>1 DEF Requests, SameLoop, SameFiles
<1>7. ASSUME Clean
      PROVE  /\ failures' = failures /\ failures = 1
             /\ Ports /\ cont' = Resume(Removed(c), i)
  <2>1. ~Fails
    BY <1>3, <1>7, NoFailure DEF Backward, Undoing
  <2>2. failures = 1 /\ Ports
    BY <1>3, <1>7 DEF RestoreInv, Tidy, Backward, Undoing
  <2>. QED BY <1>2, <2>1, <2>2 DEF Retake, Works
<1>8. ASSUME Clean
      PROVE  cont'[c] = Gone /\ cont'[o].st = "running"
  <2>1. PICK x : x = Removed(c)
    OBVIOUS
  <2>2. /\ x \in [Containers -> ContainerType] /\ x[c] = Gone
        /\ \A d \in Containers \ {c} : x[d] = cont[d]
    BY <1>1, <1>3, <2>1 DEF Removed, Contained, ContainerType, Gone
  <2>3. CASE \E d \in Containers : x[d].of = i /\ x[d].st = "running"
    <3>1. PICK d \in Containers : x[d].of = i /\ x[d].st = "running"
      BY <2>3
    <3>2. d # c /\ cont[d].of = i /\ cont[d].st = "running"
      BY <2>2, <3>1 DEF Gone
    <3>3. owner[d] = i
      BY <1>2, <1>3, <1>7, <1>8, <3>2 DEF Ports
    <3>4. d = o
      BY <1>3, <3>3, Owners, NoneApart
    <3>5. cont' = x
      BY <1>7, <1>8, <2>1, <2>3 DEF Resume
    <3>. QED BY <2>2, <3>1, <3>4, <3>5
  <2>4. CASE ~ \E d \in Containers : x[d].of = i /\ x[d].st = "running"
    <3>1. cont' = [x EXCEPT ![o].st = "running"]
      BY <1>2, <1>7, <1>8, <2>1, <2>4 DEF Resume
    <3>. QED BY <1>3, <2>2, <3>1 DEF ContainerType
  <2>. QED BY <2>3, <2>4
<1>9. cont[o].of = i
  BY <1>3, Owners, NoneApart
<1>10. Clean' => Tidy'
  <2>. SUFFICES ASSUME Clean' PROVE Tidy'
    OBVIOUS
  <2>1. Clean
    BY <1>3, <1>5, <1>6, CleanStays
  <2>2. ASSUME NEW j \in Instances, NEW d \in Containers,
               cont'[d].of = j, cont'[d].st = "running"
        PROVE  owner'[d] = j
    <3>1. d # c
      BY <1>8, <2>1, <2>2 DEF Gone
    <3>2. CASE d = o
      BY <1>3, <1>4, <1>9, <2>2, <3>2
    <3>3. CASE d # o
      BY <1>2, <1>3, <1>4, <1>7, <2>1, <2>2, <3>1, <3>3 DEF Ports
    <3>. QED BY <3>2, <3>3
  <2>. QED BY <1>6, <1>7, <2>1, <2>2 DEF Tidy, Ports
<1>11. Serving'
  <2>. SUFFICES ASSUME crashes = 0, NEW d \in Containers, owner[d] # None
                PROVE  cont'[d].st = "running"
    BY <1>4, <1>5 DEF Serving
  <2>1. CASE d = o
    BY <1>8, <2>1 DEF Clean
  <2>2. CASE d # o
    BY <1>2, <1>3, <2>2 DEF RestoreInv, Serving
  <2>. QED BY <2>1, <2>2
<1>12. \A j \in Instances : Switched(j) => j # i
  BY <1>2, <1>3 DEF Switched
<1>13. \A j \in Instances : Switched(j)' <=> Switched(j)
  BY <1>2, <1>3, <1>6 DEF Switched, Backward, Undoing
<1>14. Tagged' = Tagged /\ Finalized' = Finalized
  <2>1. DoneSet' = DoneSet
    BY <1>6 DEF DoneSet, SameLoop
  <2>. QED
    BY <1>3, <1>6, <2>1 DEF Tagged, Finalized, SameLoop
<1>15. ASSUME req'.prev # None
       PROVE  /\ debris' = {}
              /\ \A b \in Builds : Restorable(b, req.prev)'
              /\ \A j \in Instances : Returns(j, req.prev)'
  <2>1. /\ debris = {}
        /\ \A b \in Builds : Restorable(b, req.prev)
        /\ \A j \in Instances : Returns(j, req.prev)
    BY <1>3, <1>6, <1>15, Before DEF Backward, Undoing
  <2>2. \A b \in Builds : Restorable(b, req.prev)'
    BY <1>4, <1>6, <1>14, <2>1 DEF Restorable, SameFiles
  <2>3. ASSUME NEW j \in Instances PROVE Returns(j, req.prev)'
    <3>1. CASE Switched(j)
      <4>1. cont[c] = Gone \/ cont[c].of = i
        BY <1>2, <1>3 DEF SafeInv, Cutovers, Cutover
      <4>2. req.old[j] # c /\ req.old[j] # o /\ req.old[j] \in Containers
        BY <1>3, <1>12, <3>1, <4>1, Pairs, NoneApart DEF Gone
      <4>. QED BY <1>3, <1>6, <1>13, <2>1, <3>1, <4>2 DEF Returns
    <3>2. CASE ~Switched(j)
      <4>1. \A d \in Containers : owner[d] = j => cont'[d].ver = cont[d].ver
        BY <1>3, NoneApart
      <4>. QED BY <1>4, <1>6, <1>13, <2>1, <3>2, <4>1 DEF Returns, InstanceIs
    <3>. QED BY <3>1, <3>2
  <2>. QED BY <1>4, <2>1, <2>2, <2>3
<1>16. Vouched'
  BY <1>6, <1>15, RunningVouched
<1>. QED
  BY <1>10, <1>11, <1>16 DEF RestoreInv

LEMMA StutterRestore == RestoreInv /\ UNCHANGED vars => RestoreInv'
<1>. SUFFICES ASSUME RestoreInv, UNCHANGED vars PROVE RestoreInv'
  OBVIOUS
<1>1. UNCHANGED <<digest, row, owner, image, artifact, debris, cont, req, failures,
                  crashes>>
  BY DEF vars, files
<1>2. (Clean' => Tidy') /\ Serving'
  BY <1>1 DEF RestoreInv, Clean, Tidy, Ports, Serving
<1>3. /\ Tagged' = Tagged /\ Finalized' = Finalized
      /\ \A i \in Instances : Switched(i)' <=> Switched(i)
  BY <1>1 DEF Tagged, Finalized, DoneSet, Switched
<1>4. Vouched'
  BY <1>1, <1>3 DEF RestoreInv, Vouched, DigestVouches, NoDebris, Uniform, Restorable,
                    Returns, InstanceIs
<1>. QED
  BY <1>2, <1>4 DEF RestoreInv

LEMMA NextRestore ==
  ASSUME failures' <= 1, SafeInv, SafeInv', RestoreInv, [Next]_vars
  PROVE  RestoreInv'
BY EditRestore, UpdateRestore, ExecuteBuildRestore, TagImagesRestore,
   KeepArtifactRestore, InstallArtifactRestore, FinalizeBuildRestore,
   PauseOldRestore, StartNewRestore, CommitNewRestore, GiveBackRestore,
   RetakeRestore, UnpromoteRestore, UnfinalizeRestore, DiscardRestore,
   RestoreMetadataRestore, FinishRestore, CleanupRestore, CompleteRestore,
   CrashRestore, RecoverRestore, StutterRestore
   DEF Next, Step

LEMMA FailuresGrow ==
  ASSUME SafeInv, [Next]_vars
  PROVE  failures' <= 1 => failures <= 1
<1>1. failures \in Nat
  BY Types, UpdateAssumption DEF SafeInv, Stored
<1>2. failures' = failures \/ failures' = failures + 1
  <2>1. CASE UNCHANGED vars
    BY <2>1 DEF vars
  <2>2. CASE Next
    <3>1. ASSUME NEW v \in Versions, Edit(v) PROVE failures' = failures
      BY <3>1 DEF Edit
    <3>2. CASE Update
      BY <3>2 DEF Update
    <3>3. CASE Crash
      BY <3>3 DEF Crash
    <3>4. CASE Recover
      BY <3>4 DEF Recover, Works, Fails
    <3>5. CASE Step
      BY <3>5 DEF Step, Works, Fails, ExecuteBuild, TagImages, KeepArtifact,
                  InstallArtifact, FinalizeBuild, PauseOld, StartNew, CommitNew,
                  GiveBack, Retake, Unpromote, Unfinalize, Discard,
                  RestoreMetadata, Finish, Cleanup, Complete
    <3>. QED BY <2>2, <3>1, <3>2, <3>3, <3>4, <3>5 DEF Next
  <2>. QED BY <2>1, <2>2
<1>. QED
  BY <1>1, <1>2

LEMMA AlwaysRestores == Spec => [](failures <= 1 => RestoreInv)
<1>1. Init => (failures <= 1 => RestoreInv)
  BY RestoreInit
<1>2. SafeInv /\ SafeInv' /\ (failures <= 1 => RestoreInv) /\ [Next]_vars
        => (failures <= 1 => RestoreInv)'
  BY NextRestore, FailuresGrow
<1>. QED
  BY <1>1, <1>2, AlwaysSafe, PTL DEF Spec

\* A digest in the database vouches for every build and every instance of the
\* challenge, however often the process died, until a second step fails.
THEOREM OneFailureVouches == Spec => [](failures <= 1 => DigestVouches)
<1>1. RestoreInv => DigestVouches
  BY DEF RestoreInv, Vouched
<1>. QED
  BY <1>1, AlwaysRestores, PTL

\* Until a second step fails, no staged image and no saved artifact is left
\* without the marker of an incomplete update.
THEOREM OneFailureNoDebris == Spec => [](failures <= 1 => NoDebris)
<1>1. RestoreInv => NoDebris
  BY DEF RestoreInv, Vouched
<1>. QED
  BY <1>1, AlwaysRestores, PTL

\* An update that a failure turns back leaves its instances with running
\* containers; only a failure of the roll-back itself can stop one.
THEOREM OneFailureKeepsRunning == Spec => [](failures <= 1 => KeepsRunning)
<1>1. RestoreInv => KeepsRunning
  BY DEF RestoreInv, Serving, KeepsRunning, At, Cutting
<1>. QED
  BY <1>1, AlwaysRestores, PTL

=============================================================================
