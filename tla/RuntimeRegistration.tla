------------------------ MODULE RuntimeRegistration ------------------------
(***************************************************************************)
(* cmgr-oci-interceptor register (internal/ociinterceptor/register.go):    *)
(* the command enters the interceptor as a runtime in Docker's daemon.json *)
(* and makes the daemon load it, or takes everything back.  Then what the  *)
(* entry is for (runtime.go, interceptor.go): containers with seccomp      *)
(* tweaks are started through it, or not at all.                           *)
(*                                                                         *)
(* The file and the daemon's loaded copy of it are two states.  Commands   *)
(* run beside each other and serialise on a lock file; the administrator   *)
(* edits the same file; at any step a call may fail, the command may die   *)
(* or the power may fail, any number of times.                             *)
(***************************************************************************)
EXTENDS Integers, Sequences, FiniteSets

CONSTANTS
  Commands,      \* register commands that may run at once
  Interceptors,  \* installed interceptor executables
  Foreign,       \* entries under the interceptor's name made by other means
  Bases,         \* everything else that daemon.json may say
  Empty,         \* the one of them that says nothing
  Parses,        \* those that are JSON objects
  ValidAlone,    \* those dockerd accepts without an entry for a runtime
  ValidMerged,   \* those it accepts with one
  Validation,    \* does the installed dockerd know --validate?
  NoFile, None

\* runtimeArguments
RuntimeArguments == <<"protocol", "path">>
Wanted  == [exe : Interceptors, args : {RuntimeArguments}]
Entries == Wanted \cup Foreign

ASSUME ParametersAssumption ==
  /\ Parses \subseteq Bases /\ ValidAlone \subseteq Parses
  /\ ValidMerged \subseteq ValidAlone /\ Empty \in ValidMerged
  /\ None \notin Entries /\ None \notin Commands
  /\ NoFile \notin [base : Bases, entry : Entries \cup {None}]
  /\ Validation \in BOOLEAN

VARIABLES
  file,      \* daemon.json
  disk,      \* what a power loss may leave of it
  lock,      \* the command that has locked daemon.json.cmgr.lock
  cmd,       \* cmd[c]: the command, its next step and its variables
  up,        \* does the Docker daemon run?
  active,    \* the entry it has loaded
  pending,   \* a signal to reload that it has not acted upon
  launch,    \* a container with a tweak: the entry cmgr checked, the outcome
  settings,  \* history: what the administrator last wrote besides the entry
  promised,  \* history: the entry last reported as registered
  synced     \* history: the last change of the file was reported as loaded

Files == [base : Bases, entry : Entries \cup {None}] \cup {NoFile}

daemon  == <<up, active, pending>>
history == <<settings, promised, synced>>
others  == <<daemon, launch>>
vars == <<file, disk, lock, cmd, daemon, launch, history>>

EntryOf(f) == IF f = NoFile THEN None ELSE f.entry
BaseOf(f)  == IF f = NoFile THEN Empty ELSE f.base

\* dockerd on a configuration file.
Accepts(f) == BaseOf(f) \in IF EntryOf(f) = None THEN ValidAlone ELSE ValidMerged

\* The points where a command runs no more.  A reported success, and a
\* reported roll-back, are told from other ends.
Ended == {"idle", "registered", "restored"}
Steps == {"lock", "snapshot", "read", "replace", "sync", "validate", "reload",
          "wait", "undo", "undosync", "restore", "backsync", "again"}

Idle == [pc |-> "idle", want |-> None, flags |-> {}, original |-> NoFile,
         doc |-> NoFile, changed |-> FALSE]

CommandStates ==
  [pc : Ended \cup Steps,
   want : Wanted \cup {None},               \* the entry to register
   flags : SUBSET {"force", "no-reload"},
   original : Files,                        \* the snapshot
   doc : Files,                             \* the merged document
   changed : BOOLEAN]                       \* did this call replace the file?

Running(c) == cmd[c].pc \in Steps

Goto(c, l) == cmd' = [cmd EXCEPT ![c].pc = l]

\* RunRegisterCommand returns; the deferred call unlocks.  One that leaves
\* its own version of the file behind voids what was promised before.
Return(c, end) ==
  /\ cmd' = [cmd EXCEPT ![c] = [Idle EXCEPT !.pc = end]]
  /\ lock' = None

Abandon(c) ==
  /\ Return(c, "idle")
  /\ promised' = IF cmd[c].changed THEN None ELSE promised
  /\ UNCHANGED <<settings, synced>>

\* An error before anything was changed.
Refuse(c) == Return(c, "idle") /\ UNCHANGED history

-----------------------------------------------------------------------------
(* The command                                                             *)

\* RunRegisterCommand up to the lock: options, privileges, resolving and
\* checking the two executables change nothing, so a command that fails
\* there does nothing at all.
RunRegisterCommand(c, e, opts) ==
  /\ ~Running(c)
  /\ cmd' = [cmd EXCEPT ![c] = [Idle EXCEPT !.pc = "lock", !.want = e,
                                            !.flags = opts]]
  /\ UNCHANGED <<file, disk, lock, history, others>>

\* Mistake: the lock is not waited for.
LockIgnored(c) ==
  /\ cmd[c].pc = "lock"
  /\ lock' = c /\ Goto(c, "snapshot")
  /\ UNCHANGED <<file, disk, history, others>>

\* acquireRegistrationLock waits for the file lock.
AcquireRegistrationLock(c) ==
  /\ cmd[c].pc = "lock"
  /\ \/ lock = None /\ lock' = c /\ Goto(c, "snapshot")
     \/ cmd' = [cmd EXCEPT ![c] = Idle] /\ UNCHANGED lock
  /\ UNCHANGED <<file, disk, history, others>>

SnapshotFile(c) ==
  /\ cmd[c].pc = "snapshot"
  /\ \/ /\ cmd' = [cmd EXCEPT ![c].original = file, ![c].pc = "read"]
        /\ UNCHANGED <<lock, history>>
     \/ Refuse(c)
  /\ UNCHANGED <<file, disk, others>>

\* A registration that is there already is not written again.
Configured(c) ==
  /\ EntryOf(file) = cmd[c].want
  /\ IF "no-reload" \in cmd[c].flags
     THEN Refuse(c)
     ELSE Goto(c, "reload") /\ UNCHANGED <<lock, history>>

\* Mistake: the merged document has nothing but the runtime.
MergedAlone(f, e) == [base |-> Empty, entry |-> e]

Merged(f, e) == [base |-> BaseOf(f), entry |-> e]

\* RegisterRuntime reads the file and merges the entry into it.  It gives up
\* when it cannot read or parse it and, without --force, if there is a
\* different entry.
ReadConfiguration(c) ==
  /\ cmd[c].pc = "read"
  /\ \/ BaseOf(file) \in Parses /\ Configured(c)
     \/ /\ BaseOf(file) \in Parses /\ EntryOf(file) # cmd[c].want
        /\ EntryOf(file) = None \/ "force" \in cmd[c].flags
        /\ cmd' = [cmd EXCEPT ![c].doc = Merged(file, cmd[c].want),
                             ![c].pc = "replace"]
        /\ UNCHANGED <<lock, history>>
     \/ Refuse(c)
  /\ UNCHANGED <<file, disk, others>>

\* replaceFile: the document is written and synced under another name, then
\* renamed.  The rename itself is not yet on the disk.
ReplaceFile(c) ==
  /\ cmd[c].pc = "replace"
  /\ \/ /\ file' = cmd[c].doc
        /\ cmd' = [cmd EXCEPT ![c].doc = NoFile, ![c].changed = TRUE,
                             ![c].pc = "sync"]
        /\ synced' = FALSE
        /\ UNCHANGED <<lock, settings, promised>>
     \/ Refuse(c) /\ UNCHANGED file
  /\ UNCHANGED <<disk, others>>

\* Mistake: the directory is not synced.
NoSync(c) ==
  /\ cmd[c].pc = "sync"
  /\ Goto(c, "validate")
  /\ UNCHANGED <<file, disk, lock, history, others>>

\* syncDirectory.  Its failure is returned as an error of RegisterRuntime,
\* although the file has been replaced by then.
SyncDirectory(c) ==
  /\ cmd[c].pc = "sync"
  /\ \/ disk' = file /\ Goto(c, "validate") /\ UNCHANGED <<lock, history>>
     \/ Abandon(c) /\ UNCHANGED disk
  /\ UNCHANGED <<file, others>>

\* The end of a command with an exit status of 0 that changed the file.
Registered(c) ==
  /\ Return(c, "registered")
  /\ promised' = cmd[c].want
  /\ UNCHANGED settings

\* validateDockerConfiguration, called only if the file was changed.  Not
\* being able to run dockerd counts as a rejection.
ValidateDockerConfiguration(c) ==
  /\ cmd[c].pc = "validate"
  /\ \/ /\ Accepts(file) \/ ~Validation
        /\ IF "no-reload" \in cmd[c].flags
           THEN Registered(c) /\ UNCHANGED synced
           ELSE Goto(c, "reload") /\ UNCHANGED <<lock, history>>
     \/ /\ Validation
        /\ Goto(c, "undo") /\ UNCHANGED <<lock, history>>
  /\ UNCHANGED <<file, disk, others>>

\* reloadDocker: systemctl signals a daemon that runs.  When it reports an
\* error the signal may have been sent all the same.
ReloadDocker(c) ==
  /\ cmd[c].pc = "reload"
  /\ \/ up /\ pending' = TRUE /\ Goto(c, "wait")
     \/ /\ \/ ~up /\ UNCHANGED pending
           \/ up /\ pending' \in {pending, TRUE}
        /\ Goto(c, IF cmd[c].changed THEN "restore" ELSE "again")
  /\ UNCHANGED <<file, disk, lock, up, active, launch, history>>

\* waitForRuntimeRegistration: the daemon reports the expected entry, or for
\* five seconds it does not, or does not answer.
WaitForRuntime(c) ==
  /\ cmd[c].pc = "wait"
  /\ \/ /\ up /\ active = cmd[c].want
        /\ IF cmd[c].changed THEN Registered(c)
                         ELSE Return(c, "idle") /\ UNCHANGED <<settings, promised>>
        /\ synced' = TRUE
     \/ /\ Goto(c, IF cmd[c].changed THEN "restore" ELSE "again")
        /\ UNCHANGED <<lock, history>>
  /\ UNCHANGED <<file, disk, others>>

\* The first half of restoreFile, after a rejected validation ("undo") or in
\* rollbackRegistration ("restore"): the snapshot replaces the file, or the
\* file is removed if there was none.
RestoreFile(c) ==
  /\ cmd[c].pc \in {"undo", "restore"}
  /\ \/ /\ file' = cmd[c].original
        /\ synced' = FALSE
        /\ Goto(c, IF cmd[c].pc = "undo" THEN "undosync" ELSE "backsync")
        /\ UNCHANGED <<lock, settings, promised>>
     \/ Abandon(c) /\ UNCHANGED file
  /\ UNCHANGED <<disk, others>>

\* Mistake: the roll-back does not make the daemon load the restored file.
RestoreWithoutReload(c) ==
  /\ cmd[c].pc \in {"undosync", "backsync"}
  /\ disk' = file
  /\ Return(c, "restored")
  /\ synced' = (cmd[c].pc = "backsync")
  /\ UNCHANGED <<file, settings, promised, others>>

\* Its second half, syncDirectory.
RestoreSync(c) ==
  /\ cmd[c].pc \in {"undosync", "backsync"}
  /\ \/ /\ disk' = file /\ UNCHANGED history
        /\ IF cmd[c].pc = "undosync" THEN Return(c, "restored")
                               ELSE Goto(c, "again") /\ UNCHANGED lock
     \/ Abandon(c) /\ UNCHANGED disk
  /\ UNCHANGED <<file, others>>

\* rollbackRegistration reloads Docker, whether or not a file was restored.
ReloadAgain(c) ==
  /\ cmd[c].pc = "again"
  /\ \/ /\ up /\ pending' = TRUE /\ synced' = TRUE
        /\ Return(c, IF cmd[c].changed THEN "restored" ELSE "idle")
        /\ UNCHANGED <<settings, promised>>
     \/ /\ \/ ~up /\ UNCHANGED pending
           \/ up /\ pending' \in {pending, TRUE}
        /\ Return(c, "idle") /\ UNCHANGED history
  /\ UNCHANGED <<file, disk, up, active, launch>>

-----------------------------------------------------------------------------
(* The Docker daemon (external)                                            *)

\* On the signal the daemon reads the file; it keeps what it has loaded if
\* it rejects it.
DaemonReloads ==
  /\ up /\ pending
  /\ pending' = FALSE
  /\ active' = IF Accepts(file) THEN EntryOf(file) ELSE active
  /\ UNCHANGED <<file, disk, lock, cmd, up, launch, history>>

\* Started on file f, it runs only if it accepts it.
DaemonOn(f) ==
  /\ up' = Accepts(f)
  /\ active' = IF Accepts(f) THEN EntryOf(f) ELSE None
  /\ pending' = FALSE

DaemonRestarts ==
  /\ DaemonOn(file)
  /\ UNCHANGED <<file, disk, lock, cmd, launch, history>>

-----------------------------------------------------------------------------
(* A container with a seccomp tweak                                        *)

Count(args, a) == Cardinality({i \in DOMAIN args : args[i] = a})

\* parseRuntimeArguments: exactly one protocol argument, of the right
\* protocol, and exactly one safe absolute path to the real runtime.
Parsed(args) ==
  /\ Count(args, "protocol") = 1 /\ Count(args, "other protocol") = 0
  /\ Count(args, "path") = 1 /\ Count(args, "unsafe path") = 0

Forwarded(args) ==
  SelectSeq(args, LAMBDA a : a \notin {"protocol", "other protocol",
                                       "path", "unsafe path"})

\* Mistake: any entry under the name will do.
ReadyByName(e) == e # None

\* seccompRuntimeReady, RuntimeRegistrationCompatible
Compatible(e) ==
  /\ e # None
  /\ Parsed(e.args)
  /\ Forwarded(e.args) = <<>>

\* RunRuntime on the arguments the daemon calls it with.  Unless it finds
\* exactly one bundle, one request for tweaks in its environment and a
\* seccomp profile to apply them to, it refuses; otherwise it takes the
\* request out and adds the rule.
RunRuntime(args, requests, profile) ==
  LET all  == args \o <<"create", "bundle">>
      forwarded == Forwarded(all)
  IN IF Parsed(all) /\ Count(forwarded, "bundle") = 1
        /\ requests = 1 /\ profile
     THEN "tweaked" ELSE "refused"

\* The program of entry e.  Another runtime than the interceptor refuses
\* arguments it does not know and otherwise just runs the container.
Invoke(e, requests, profile) ==
  CASE e = None -> "refused"
    [] e # None /\ e.exe \in Interceptors -> RunRuntime(e.args, requests, profile)
    [] OTHER -> IF e.args = <<>> THEN "plain" ELSE "refused"

\* configureContainerSeccomp asks the daemon for its runtimes and sets
\* runtime and request.
ConfigureContainerSeccomp ==
  /\ up /\ Compatible(active)
  /\ launch' = [entry |-> active, ran |-> "no"]
  /\ UNCHANGED <<file, disk, lock, cmd, daemon, history>>

\* The container is started later, with the entry the daemon has then.  Its
\* image may bring a request of its own, the daemon may run without profiles.
StartContainer(requests, profile) ==
  /\ up /\ launch.entry # None
  /\ launch' = [entry |-> None, ran |-> Invoke(active, requests, profile)]
  /\ UNCHANGED <<file, disk, lock, cmd, daemon, history>>

-----------------------------------------------------------------------------
(* Environment                                                             *)

\* The administrator edits the file while no command has it locked: other
\* settings, and the entry kept or replaced.
Edit(b, e) ==
  /\ lock = None
  /\ e \in {EntryOf(file)} \cup Foreign
  /\ file' = [base |-> b, entry |-> e] /\ disk' = file'
  /\ settings' = b /\ promised' = None /\ synced' = FALSE
  /\ UNCHANGED <<lock, cmd, daemon, launch>>

\* The command dies; the kernel releases its lock.
Die(c) ==
  /\ Running(c)
  /\ cmd' = [cmd EXCEPT ![c] = Idle]
  /\ lock' = IF lock = c THEN None ELSE lock
  /\ promised' = IF cmd[c].changed THEN None ELSE promised
  /\ UNCHANGED <<file, disk, settings, synced, others>>

\* The power fails: a rename that was not synced may be undone.
PowerLoss ==
  /\ file' \in {file, disk} /\ disk' = file'
  /\ cmd' = [c \in Commands |-> IF Running(c) THEN Idle ELSE cmd[c]]
  /\ lock' = None
  /\ promised' = IF \E c \in Commands : Running(c) /\ cmd[c].changed
                 THEN None ELSE promised
  /\ DaemonOn(file')
  /\ UNCHANGED <<launch, settings, synced>>

-----------------------------------------------------------------------------
Init ==
  /\ file \in [base : Bases, entry : Foreign \cup {None}] \cup {NoFile}
  /\ disk = file
  /\ lock = None
  /\ cmd = [c \in Commands |-> Idle]
  /\ up = Accepts(file)
  /\ active = (IF Accepts(file) THEN EntryOf(file) ELSE None)
  /\ pending = FALSE
  /\ launch = [entry |-> None, ran |-> "no"]
  /\ settings = BaseOf(file) /\ promised = None /\ synced = FALSE

Step(c) ==
  \/ AcquireRegistrationLock(c) \/ SnapshotFile(c) \/ ReadConfiguration(c)
  \/ ReplaceFile(c) \/ SyncDirectory(c) \/ ValidateDockerConfiguration(c)
  \/ ReloadDocker(c) \/ WaitForRuntime(c)
  \/ RestoreFile(c) \/ RestoreSync(c) \/ ReloadAgain(c)
  \/ Die(c)

Next ==
  \/ \E c \in Commands, e \in Wanted, opts \in SUBSET {"force", "no-reload"} :
       RunRegisterCommand(c, e, opts)
  \/ \E c \in Commands : Step(c)
  \/ DaemonReloads \/ DaemonRestarts
  \/ ConfigureContainerSeccomp
  \/ \E requests \in 1 .. 2, profile \in BOOLEAN : StartContainer(requests, profile)
  \/ \E b \in Bases, e \in Entries \cup {None} : Edit(b, e)
  \/ PowerLoss

Spec == Init /\ [][Next]_vars

-----------------------------------------------------------------------------
(* Properties                                                              *)

\* Type correctness.
TypeOK ==
  /\ file \in Files /\ disk \in Files
  /\ lock \in Commands \cup {None}
  /\ cmd \in [Commands -> CommandStates]
  /\ up \in BOOLEAN /\ active \in Entries \cup {None} /\ pending \in BOOLEAN
  /\ launch \in [entry : Entries \cup {None},
                 ran : {"no", "refused", "tweaked", "plain"}]
  /\ settings \in Bases /\ promised \in Entries \cup {None}
  /\ synced \in BOOLEAN

\* Whatever commands merge, restore or leave behind, and whatever a power
\* loss undoes, the other settings of daemon.json are those the
\* administrator wrote last.
SettingsKept == BaseOf(file) = settings /\ BaseOf(disk) = settings

\* A command that reports a restored configuration has put back, on the
\* disk too, exactly the file it found, and nothing else was written to it
\* in the meantime.
RollbackComplete ==
  [][\A c \in Commands :
       cmd'[c].pc = "restored" /\ cmd[c].pc # "restored"
         => file' = cmd[c].original /\ disk' = cmd[c].original]_vars

\* What a command reported as registered stays in the file and on the disk,
\* whatever later commands, that fail or are refused, and power losses do.
\* Only a further registration, one that died or could not be rolled back,
\* or the administrator ends the promise.
RegisteredStays ==
  promised # None /\ (\A c \in Commands : ~cmd[c].changed)
    => EntryOf(file) = promised /\ EntryOf(disk) = promised

\* Once a command has reported a registration as loaded, or a roll-back as
\* reloaded, and the daemon has acted on its signals, it runs with what the
\* file says, as long as it accepts the file.
DaemonFollows ==
  synced /\ up /\ ~pending /\ Accepts(file) => active = EntryOf(file)

\* A container is never run without its tweaks by the entry that cmgr found
\* to be compatible: either the tweaks are applied or it does not run.
TweakNotOmitted ==
  [][launch'.ran = "plain" /\ launch.ran # "plain"
       => active # launch.entry /\ active \notin Wanted]_vars

=============================================================================
