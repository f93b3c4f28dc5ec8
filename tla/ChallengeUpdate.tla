--------------------------- MODULE ChallengeUpdate ---------------------------
(***************************************************************************)
(* Update of one challenge whose source changed: updateChallengesInternal  *)
(* (cmgr/database_challenges.go) and the staged builds and instance        *)
(* cutovers it is made of (docker.go).                                     *)
(*                                                                         *)
(* Every build of the challenge is built again under a staging name,       *)
(* promoted to its canonical name, and its instances move to containers of *)
(* the new images; the old containers and artifacts are kept until all the *)
(* builds have succeeded.  An error takes everything back in reverse.  An  *)
(* empty source digest marks the update as incomplete meanwhile.  Update   *)
(* holds the operation barrier exclusively, so only failures and the death *)
(* of the process disturb it.  An instance has one container, which binds  *)
(* the instance's host port while it runs.                                 *)
(***************************************************************************)
EXTENDS Integers, FiniteSets, Sequences, SequencesExt

CONSTANTS
  Builds,         \* builds of the challenge
  Instances,      \* instances of these builds
  BuildOf,        \* BuildOf[i]: the build of instance i
  MaxVersion,     \* bound on versions of the challenge's source
  HasArtifacts,   \* versions whose builds come with artifacts
  MaxContainers,  \* bound on containers that exist at once
  MaxFailures,    \* bound on failures of Docker, the disk or the database
  MaxCrashes,     \* bound on deaths of the process
  None

Versions   == 1 .. MaxVersion
Containers == 1 .. MaxContainers

ASSUME UpdateAssumption ==
  /\ BuildOf \in [Instances -> Builds]
  /\ MaxVersion \in Nat \ {0} /\ HasArtifacts \subseteq Versions
  /\ MaxContainers \in Nat /\ MaxFailures \in Nat /\ MaxCrashes \in Nat
  /\ None \notin Versions \cup Instances \cup Builds

VARIABLES
  source,    \* version of the challenge's directory
  \* The database
  digest,    \* challenges.sourcedigest; None is the empty one
  row,       \* row[b]: the version the builds row describes
  owner,     \* owner[c]: the instance of containers row c, None if no row
  retired,   \* retiredContainers
  \* Docker and the disk
  image,     \* image[b]: version under the canonical image name
  artifact,  \* artifact[b]: version of the canonical artifact file, or None
  debris,    \* builds with staged or saved files of abandoned attempts
  cont,      \* cont[c]: the container
  \* cmgr
  req,       \* the update under way: program counter and local variables
  failures,
  crashes

files == <<image, artifact, debris>>
vars  == <<source, digest, row, owner, retired, files, cont, req, failures,
           crashes>>

InstancesOf(b) == {i \in Instances : BuildOf[i] = b}
ArtifactOf(v)  == IF v \in HasArtifacts THEN v ELSE None

Gone   == [st |-> "none", of |-> None, ver |-> None]
Saved  == [row : Versions, image : Versions, artifact : Versions \cup {None}]
Blank  == [row |-> 1, image |-> 1, artifact |-> None]

Idle == [pc |-> "idle", new |-> 1, prev |-> None, todo |-> {}, b |-> None,
         done |-> <<>>, left |-> {}, inst |-> None,
         old |-> [i \in Instances |-> 0], cut |-> [i \in Instances |-> 0],
         saved |-> [b \in Builds |-> Blank], staged |-> {}, kept |-> {},
         installed |-> {}, final |-> FALSE, errs |-> FALSE]

Steps == {"idle", "build", "tag", "keep", "install", "finalize", "pause",
          "start", "commit", "giveback", "retake", "unpromote", "unfinalize",
          "discard", "restore", "finish", "cleanup", "complete"}

TypeOK ==
  /\ source \in Versions /\ digest \in Versions \cup {None}
  /\ row \in [Builds -> Versions] /\ image \in [Builds -> Versions]
  /\ artifact \in [Builds -> Versions \cup {None}]
  /\ debris \subseteq Builds
  /\ owner \in [Containers -> Instances \cup {None}]
  /\ retired \subseteq Containers
  /\ cont \in [Containers -> [st : {"none", "running", "exited"},
                              of : Instances \cup {None},
                              ver : Versions \cup {None}]]
  /\ req \in [pc : Steps, new : Versions, prev : Versions \cup {None},
              todo : SUBSET Builds,       \* builds still to visit
              b : Builds \cup {None},     \* the build in hand
              done : Seq(Builds),         \* completedUpdates
              left : SUBSET Instances,    \* instances still to move
              inst : Instances \cup {None},
              old : [Instances -> Containers \cup {0}],
              cut : [Instances -> Containers \cup {0}],
              saved : [Builds -> Saved],  \* previous, canonicalImageIDs, ...
              staged : SUBSET Builds,     \* staged images exist
              kept : SUBSET Builds,       \* hadArtifact: a backup exists
              installed : SUBSET Builds,  \* installedArtifact
              final : BOOLEAN,            \* finalizeBuild was called
              errs : BOOLEAN]
  /\ failures \in 0 .. MaxFailures /\ crashes \in 0 .. MaxCrashes

\* The first version is built and every instance runs it.
Init ==
  /\ source = 1 /\ digest = 1
  /\ row = [b \in Builds |-> 1] /\ image = row
  /\ artifact = [b \in Builds |-> ArtifactOf(1)]
  /\ debris = {} /\ retired = {}
  /\ owner \in [Containers -> Instances \cup {None}]
  /\ \A i \in Instances :
       \E c \in Containers : /\ owner[c] = i
                             /\ \A d \in Containers : owner[d] = i => d = c
  /\ \A c, d \in Containers : c < d /\ owner[d] # None => owner[c] # None
  /\ cont = [c \in Containers |->
       IF owner[c] = None THEN Gone
       ELSE [st |-> "running", of |-> owner[c], ver |-> 1]]
  /\ req = Idle
  /\ failures = 0 /\ crashes = 0

-----------------------------------------------------------------------------
Works == UNCHANGED <<failures, crashes>>
Fails == /\ failures < MaxFailures /\ failures' = failures + 1
         /\ UNCHANGED crashes

At(p)   == req.pc = p
Goto(p) == req' = [req EXCEPT !.pc = p]

\* Docker starts a container unless another one has the instance's port.
PortFree(i, c) == \A d \in Containers \ {c} :
                    cont[d].of = i => cont[d].st # "running"

Fresh == {c \in Containers : cont[c] = Gone /\ owner[c] = None
                               /\ c \notin retired
                               /\ \A i \in Instances : req.old[i] # c}

\* A container is removed; the old container of i is started if it can be.
Removed(c)   == [cont EXCEPT ![c] = Gone]
Resume(x, i) == IF \E d \in Containers : x[d].of = i /\ x[d].st = "running"
                THEN x ELSE [x EXCEPT ![req.old[i]].st = "running"]

-----------------------------------------------------------------------------
(* The author edits the challenge.                                         *)

Edit(v) ==
  /\ At("idle") /\ v # source
  /\ source' = v
  /\ UNCHANGED <<digest, row, owner, retired, files, cont, req, failures,
                 crashes>>

-----------------------------------------------------------------------------
(* updateChallengesInternal: forwards                                      *)

\* DetectChanges reports a change if the digest is empty or differs.
Modified == digest = None \/ digest # source

\* The bound on containers leaves room for an update.
RoomForAll == Cardinality(Fresh) >= Cardinality(Instances)

\* Mistake: the new digest is written at once.
UpdateUnmarked ==
  /\ At("idle") /\ Modified /\ RoomForAll
  /\ digest' = source
  /\ req' = [Idle EXCEPT !.pc = "build", !.new = source, !.prev = digest,
                         !.todo = Builds]
  /\ UNCHANGED <<source, row, owner, retired, files, cont, failures, crashes>>

\* The marker is written; the files of this attempt get a name of their own.
Update ==
  /\ At("idle") /\ Modified /\ RoomForAll
  /\ digest' = None
  /\ req' = [Idle EXCEPT !.pc = "build", !.new = source, !.prev = digest,
                         !.todo = Builds]
  /\ UNCHANGED <<source, row, owner, retired, files, cont, failures, crashes>>

\* Take back the completed updates, last one first, then the metadata.
Unwind(r) ==
  IF r.done = <<>> THEN [r EXCEPT !.pc = "restore"]
  ELSE [r EXCEPT !.pc = "giveback", !.b = Last(r.done), !.final = TRUE,
                 !.done = Front(@), !.left = {}]

\* executeBuild, and what can fail before it.
ExecuteBuild ==
  LET b == CHOOSE x \in req.todo : TRUE IN
  /\ At("build")
  /\ \/ /\ req.todo # {} /\ Works
        /\ req' = [req EXCEPT !.pc = "tag", !.b = b, !.final = FALSE,
             !.todo = @ \ {b}, !.staged = @ \cup {b},
             !.saved[b] = [row |-> row[b], image |-> image[b],
                           artifact |-> artifact[b]]]
     \/ /\ req.todo # {} /\ Fails
        /\ \/ req' = Unwind(req)
           \/ req' = [req EXCEPT !.pc = "discard", !.b = b,
                                 !.staged = @ \cup {b}]
     \/ /\ req.todo = {} /\ Works
        /\ req' = [req EXCEPT !.pc = "finish", !.left = Instances,
                              !.todo = Builds, !.done = <<>>]
  /\ UNCHANGED <<source, digest, row, owner, retired, files, cont>>

\* promoteStagedBuild: tag the images, put the current artifacts aside,
\* install the new ones.  An error goes through rollbackStagedBuild.
TagImages ==
  /\ At("tag")
  /\ \/ Works /\ image' = [image EXCEPT ![req.b] = req.new] /\ Goto("keep")
     \/ /\ Fails /\ Goto("unpromote")
        /\ image' \in {image, [image EXCEPT ![req.b] = req.new]}
  /\ UNCHANGED <<source, digest, row, owner, retired, artifact, debris, cont>>

KeepArtifact ==
  /\ At("keep")
  /\ \/ /\ artifact[req.b] # None /\ Works
        /\ artifact' = [artifact EXCEPT ![req.b] = None]
        /\ req' = [req EXCEPT !.pc = "install", !.kept = @ \cup {req.b}]
     \/ /\ artifact[req.b] = None /\ Works
        /\ Goto("install") /\ UNCHANGED artifact
     \/ Fails /\ Goto("unpromote") /\ UNCHANGED artifact
  /\ UNCHANGED <<source, digest, row, owner, retired, image, debris, cont>>

InstallArtifact ==
  /\ At("install")
  /\ \/ /\ req.new \in HasArtifacts /\ Works
        /\ artifact' = [artifact EXCEPT ![req.b] = req.new]
        /\ req' = [req EXCEPT !.pc = "finalize",
                              !.installed = @ \cup {req.b}]
     \/ /\ req.new \notin HasArtifacts /\ Works
        /\ Goto("finalize") /\ UNCHANGED artifact
     \/ /\ req.new \in HasArtifacts /\ Fails
        /\ Goto("unpromote") /\ UNCHANGED artifact
  /\ UNCHANGED <<source, digest, row, owner, retired, image, debris, cont>>

\* rollbackBuildUpdate of the build in hand
Revert == req' = [req EXCEPT !.pc = "giveback", !.left = {}, !.final = TRUE]

FinalizeBuild ==
  /\ At("finalize")
  /\ \/ /\ Works
        /\ row' = [row EXCEPT ![req.b] = req.new]
        /\ req' = [req EXCEPT !.pc = "pause", !.left = InstancesOf(req.b)]
     \/ Fails /\ Revert /\ UNCHANGED row
  /\ UNCHANGED <<source, digest, owner, retired, files, cont>>

Active(i) == CHOOSE c \in Containers : owner[c] = i

\* Mistake: the old container is not remembered.
PauseForgets ==
  LET i == CHOOSE x \in req.left : TRUE IN
  /\ At("pause")
  /\ IF req.left = {}
     THEN req' = [req EXCEPT !.pc = "build", !.done = Append(@, req.b)]
          /\ UNCHANGED cont
     ELSE /\ cont' = [cont EXCEPT ![Active(i)].st = "exited"]
          /\ req' = [req EXCEPT !.pc = "start", !.inst = i]
  /\ UNCHANGED <<source, digest, row, owner, retired, files, failures, crashes>>

\* prepareInstanceCutover: stop the old container ...
PauseOld ==
  LET i == CHOOSE x \in req.left : TRUE
      c == Active(i)
  IN
  /\ At("pause")
  /\ \/ /\ req.left # {} /\ Works
        /\ cont' = [cont EXCEPT ![c].st = "exited"]
        /\ req' = [req EXCEPT !.pc = "start", !.inst = i, !.old[i] = c]
     \/ req.left # {} /\ Fails /\ Revert /\ UNCHANGED cont
     \/ /\ req.left = {} /\ Works /\ UNCHANGED cont
        /\ req' = [req EXCEPT !.pc = "build", !.done = Append(@, req.b)]
  /\ UNCHANGED <<source, digest, row, owner, retired, files>>

\* ... create, retire and start its replacement on the same port ...  A
\* replacement that fails may exist or not.
StartNew ==
  LET i == req.inst
      c == CHOOSE x \in Fresh : \A y \in Fresh : x <= y
      new(st) == [cont EXCEPT ![c] = [st |-> st, of |-> i,
                                      ver |-> image[req.b]]]
      failed == [req EXCEPT !.pc = "retake", !.left = {}, !.final = TRUE,
                            !.cut[i] = c]
  IN
  /\ At("start") /\ Fresh # {}
  /\ \/ /\ PortFree(i, c) /\ Works
        /\ cont' = new("running") /\ retired' = retired \cup {c}
        /\ req' = [req EXCEPT !.pc = "commit", !.cut[i] = c]
     \/ /\ ~PortFree(i, c) /\ Works
        /\ cont' = new("exited") /\ retired' = retired \cup {c}
        /\ req' = failed
     \/ /\ Fails
        /\ \/ UNCHANGED <<cont, retired>>
           \/ cont' = new("exited") /\ retired' = retired \cup {c}
        /\ req' = failed
  /\ UNCHANGED <<source, digest, row, owner, files>>

\* Mistake: the old container is removed with the commit.
CommitAndRemove ==
  LET i == req.inst IN
  /\ At("commit")
  /\ owner' = [owner EXCEPT ![req.cut[i]] = i, ![req.old[i]] = None]
  /\ retired' = retired \ {req.cut[i]}
  /\ cont' = Removed(req.old[i])
  /\ req' = [req EXCEPT !.pc = "pause", !.left = @ \ {i}, !.inst = None]
  /\ UNCHANGED <<source, digest, row, files, failures, crashes>>

\* ... and replaceInstanceRuntimeMetadata: the new container is active, the
\* old one retired.
CommitNew ==
  LET i == req.inst
      c == req.cut[i]
  IN
  /\ At("commit")
  /\ \/ /\ Works
        /\ owner' = [owner EXCEPT ![c] = i, ![req.old[i]] = None]
        /\ retired' = (retired \ {c}) \cup {req.old[i]}
        /\ req' = [req EXCEPT !.pc = "pause", !.left = @ \ {i}, !.inst = None]
     \/ /\ Fails
        /\ req' = [req EXCEPT !.pc = "retake", !.left = {}, !.final = TRUE]
        /\ UNCHANGED <<owner, retired>>
  /\ UNCHANGED <<source, digest, row, files, cont>>

-----------------------------------------------------------------------------
(* Backwards: rollbackBuildUpdate                                          *)

Moved == {i \in InstancesOf(req.b) : req.cut[i] # 0}

\* rollbackInstanceCutover: the old container is active again ...
GiveBack ==
  LET i == CHOOSE x \in Moved : TRUE IN
  /\ At("giveback")
  /\ \/ /\ Moved # {} /\ Works
        /\ owner' = [owner EXCEPT ![req.old[i]] = i, ![req.cut[i]] = None]
        /\ retired' = (retired \ {req.old[i]}) \cup {req.cut[i]}
        /\ req' = [req EXCEPT !.pc = "retake", !.inst = i]
     \/ /\ Moved # {} /\ Fails
        /\ req' = [req EXCEPT !.cut[i] = 0]
        /\ UNCHANGED <<owner, retired>>
     \/ /\ Moved = {} /\ Works
        /\ Goto("unpromote") /\ UNCHANGED <<owner, retired>>
  /\ UNCHANGED <<source, digest, row, files, cont>>

\* Mistake: the old container stays stopped.
RetakeStopped ==
  /\ At("retake")
  /\ cont' = Removed(req.cut[req.inst])
  /\ retired' = retired \ {req.cut[req.inst]}
  /\ req' = [req EXCEPT !.pc = "giveback", !.cut[req.inst] = 0, !.inst = None]
  /\ UNCHANGED <<source, digest, row, owner, files, failures, crashes>>

\* ... the replacement is removed and the old one started.  An abandoned
\* prepareInstanceCutover does the same.
Retake ==
  LET i == req.inst
      c == req.cut[i]
  IN
  /\ At("retake")
  /\ \/ /\ Works
        /\ cont' = Resume(Removed(c), i) /\ retired' = retired \ {c}
     \/ /\ Fails
        /\ \/ cont' = Resume(cont, i) /\ UNCHANGED retired
           \/ cont' = Resume(Removed(c), i) /\ UNCHANGED retired
           \/ cont' = Removed(c) /\ retired' = retired \ {c}
  /\ req' = [req EXCEPT !.pc = "giveback", !.cut[i] = 0, !.inst = None]
  /\ UNCHANGED <<source, digest, row, owner, files>>

\* rollbackStagedBuild: the images and the artifacts, each on its own.
Unpromote ==
  LET b == req.b
      back == [image EXCEPT ![b] = req.saved[b].image]
      file == [artifact EXCEPT ![b] =
                 IF b \in req.kept THEN req.saved[b].artifact
                 ELSE IF b \in req.installed THEN None ELSE @]
      lost == [artifact EXCEPT ![b] = None]
  IN
  /\ At("unpromote")
  /\ \/ Works /\ image' = back /\ artifact' = file /\ UNCHANGED debris
     \/ Fails /\ UNCHANGED <<image, debris>> /\ artifact' = file
     \/ /\ Fails /\ b \in req.kept
        /\ image' = back /\ artifact' = lost /\ debris' = debris \cup {b}
  /\ req' = [req EXCEPT !.pc = IF req.final THEN "unfinalize" ELSE "discard",
                        !.kept = @ \ {b}, !.installed = @ \ {b}]
  /\ UNCHANGED <<source, digest, row, owner, retired, cont>>

\* finalizeBuild(previous)
Unfinalize ==
  /\ At("unfinalize")
  /\ \/ Works /\ row' = [row EXCEPT ![req.b] = req.saved[req.b].row]
     \/ Fails /\ UNCHANGED row
  /\ Goto("discard")
  /\ UNCHANGED <<source, digest, owner, retired, files, cont>>

\* discardStagedBuild, and on to the next completed update.
Discard ==
  /\ At("discard")
  /\ \/ Works /\ UNCHANGED debris
     \/ Fails /\ debris' = debris \cup {req.b}
  /\ req' = Unwind([req EXCEPT !.staged = @ \ {req.b}])
  /\ UNCHANGED <<source, digest, row, owner, retired, image, artifact, cont>>

\* updateChallengesInternal(previousMetadata, false, false)
RestoreMetadata ==
  /\ At("restore")
  /\ \/ Works /\ digest' = req.prev
     \/ Fails /\ UNCHANGED digest
  /\ req' = Idle
  /\ UNCHANGED <<source, row, owner, retired, files, cont>>

-----------------------------------------------------------------------------
(* All the builds have succeeded.                                          *)

\* finishBuildUpdate: the old containers, then staged names and backups.  An
\* error leaves the marker.
Finish ==
  LET i == CHOOSE x \in req.left : TRUE
      b == CHOOSE x \in req.todo : TRUE
  IN
  /\ At("finish")
  /\ \/ /\ req.left # {}
        /\ \/ /\ Works
              /\ cont' = Removed(req.old[i])
              /\ retired' = retired \ {req.old[i]}
              /\ req' = [req EXCEPT !.left = @ \ {i}]
           \/ /\ Fails
              /\ cont' \in {cont, Removed(req.old[i])}
              /\ req' = [req EXCEPT !.left = @ \ {i}, !.errs = TRUE]
              /\ UNCHANGED retired
        /\ UNCHANGED debris
     \/ /\ req.left = {} /\ req.todo # {}
        /\ \/ Works /\ UNCHANGED debris
              /\ req' = [req EXCEPT !.todo = @ \ {b}, !.staged = @ \ {b},
                                    !.kept = @ \ {b}]
           \/ Fails /\ debris' = debris \cup {b}
              /\ req' = [req EXCEPT !.todo = @ \ {b}, !.staged = @ \ {b},
                                    !.kept = @ \ {b}, !.errs = TRUE]
        /\ UNCHANGED <<cont, retired>>
     \/ /\ req.left = {} /\ req.todo = {} /\ Works
        /\ IF req.errs THEN req' = Idle ELSE Goto("cleanup")
        /\ UNCHANGED <<cont, retired, debris>>
  /\ UNCHANGED <<source, digest, row, owner, image, artifact>>

\* Mistake: what earlier attempts left is not looked for.
CleanupNothing ==
  /\ At("cleanup")
  /\ Goto("complete")
  /\ UNCHANGED <<source, digest, row, owner, retired, files, cont, failures,
                 crashes>>

\* cleanupInterruptedBuildResources
Cleanup ==
  /\ At("cleanup")
  /\ \/ Works /\ debris' = {} /\ Goto("complete")
     \/ Fails /\ debris' \in SUBSET debris /\ req' = Idle
  /\ UNCHANGED <<source, digest, row, owner, retired, image, artifact, cont>>

\* Mistake: the metadata written last still have the empty digest.
CompleteMarked ==
  /\ At("complete")
  /\ req' = Idle
  /\ UNCHANGED <<source, digest, row, owner, retired, files, cont, failures,
                 crashes>>

\* replaceChallengeMetadata(metadata) clears the marker.
Complete ==
  /\ At("complete")
  /\ \/ Works /\ digest' = req.new
     \/ Fails /\ UNCHANGED digest
  /\ req' = Idle
  /\ UNCHANGED <<source, row, owner, retired, files, cont>>

-----------------------------------------------------------------------------
(* Death and start-up recovery                                             *)

Crash ==
  /\ ~At("idle") /\ crashes < MaxCrashes
  /\ crashes' = crashes + 1 /\ UNCHANGED failures
  /\ debris' = debris \cup req.staged \cup req.kept
  /\ req' = Idle
  /\ UNCHANGED <<source, digest, row, owner, retired, image, artifact, cont>>

\* retryRetiredResources: remove the retired containers, start the active
\* ones that stopped.  Of the ones in spared it can do neither.
Recover ==
  /\ At("idle")
  /\ \E spared \in SUBSET Containers :
       LET removed == retired \ spared
           free(c) == \A d \in Containers \ (removed \cup {c}) :
                        cont[d].of = cont[c].of => cont[d].st # "running"
       IN
       /\ IF spared = {} THEN Works ELSE Fails
       /\ retired' = retired \ removed
       /\ cont' = [c \in Containers |->
            IF c \in removed THEN Gone
            ELSE IF /\ owner[c] # None /\ cont[c].st = "exited"
                    /\ c \notin spared /\ free(c)
            THEN [cont[c] EXCEPT !.st = "running"] ELSE cont[c]]
  /\ UNCHANGED <<source, digest, row, owner, files, req>>

Step ==
  \/ ExecuteBuild \/ TagImages \/ KeepArtifact \/ InstallArtifact
  \/ FinalizeBuild \/ PauseOld \/ StartNew \/ CommitNew
  \/ GiveBack \/ Retake \/ Unpromote \/ Unfinalize \/ Discard
  \/ RestoreMetadata \/ Finish \/ Cleanup \/ Complete

Next ==
  \/ \E v \in Versions : Edit(v)
  \/ Update \/ Step \/ Crash \/ Recover

Spec == Init /\ [][Next]_vars

-----------------------------------------------------------------------------
(* Safety                                                                  *)

\* Everything of build b and its instances is of version v.
Uniform(v) ==
  /\ \A b \in Builds : row[b] = v /\ image[b] = v /\ artifact[b] = ArtifactOf(v)
  /\ \A c \in Containers : owner[c] # None => cont[c].ver = v

\* A digest in the database vouches for the whole challenge: as long as some
\* build or instance is of another version, or lost its artifacts, the marker
\* is there and the next update builds everything again.
DigestVouches == digest # None => Uniform(digest)

\* No attempt is forgotten: staged images and saved artifacts are left only
\* under the marker.
NoDebris == digest # None => debris = {}

\* Every instance has exactly one active container at any moment of an
\* update, a roll-back or a crash; Docker has it and recovery will not remove
\* it.
AlwaysOneActive ==
  \A i \in Instances :
    /\ \E c \in Containers : owner[c] = i
    /\ \A c \in Containers : owner[c] = i =>
         /\ cont[c].st # "none" /\ c \notin retired
         /\ \A d \in Containers : owner[d] = i => d = c

\* An update that fails keeps the instances running.
KeepsRunning ==
  At("idle") /\ crashes = 0 =>
    \A c \in Containers : owner[c] # None => cont[c].st = "running"

-----------------------------------------------------------------------------
(* Liveness                                                                *)

FairSpec == Spec /\ WF_vars(Step) /\ WF_vars(Update) /\ SF_vars(Recover)

\* If the author stops editing and updates are repeated, the challenge ends
\* up uniform in the version of its directory, with every instance running,
\* however often the update was interrupted.
UpdatesConverge ==
  \A v \in Versions :
    <>[](source = v) =>
      <>[](/\ Uniform(v) /\ digest = v
           /\ \A c \in Containers : owner[c] # None => cont[c].st = "running")
=============================================================================
