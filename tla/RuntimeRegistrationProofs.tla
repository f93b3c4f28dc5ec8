--------------------- MODULE RuntimeRegistrationProofs ---------------------
(***************************************************************************)
(* Proofs about RuntimeRegistration, for any number of commands, entries   *)
(* and settings, and any number of failures, deaths and power losses.      *)
(*                                                                         *)
(* The argument: every step but waiting for the lock is done with the      *)
(* lock, so that between its snapshot and its end nobody but the command   *)
(* itself writes to the file.  Hence the snapshot has the administrator's  *)
(* settings and the promised entry, and the file is the merged one or the  *)
(* snapshot, depending on the step.                                        *)
(***************************************************************************)
EXTENDS RuntimeRegistration, FiniteSetTheorems, TLAPS

Changing == {"sync", "validate", "reload", "wait", "undo", "undosync",
             "restore", "backsync", "again"}
Snapped  == Changing \cup {"read", "replace"}

\* Only the holder of the lock has a snapshot or a changed file.
Locked == \A c \in Commands :
  /\ cmd[c].pc \in Steps \ {"lock"} => lock = c
  /\ cmd[c].pc \in Steps => cmd[c].want \in Wanted
  /\ cmd[c].changed => cmd[c].pc \in Changing
  /\ cmd[c].pc \in Changing \ {"reload", "wait", "again"} => cmd[c].changed

\* What the snapshot and the merged document are.
Copies == \A c \in Commands :
  /\ cmd[c].pc \in Snapped =>
       /\ BaseOf(cmd[c].original) = settings
       /\ promised # None => EntryOf(cmd[c].original) = promised
  /\ cmd[c].pc = "replace" =>
       /\ BaseOf(cmd[c].doc) = settings
       /\ EntryOf(cmd[c].doc) = cmd[c].want

\* What the file is at each step.
Progress == \A c \in Commands :
  /\ cmd[c].pc \in {"sync", "validate", "reload", "wait"}
       => EntryOf(file) = cmd[c].want
  /\ cmd[c].pc \in {"validate", "reload", "wait"} /\ cmd[c].changed
       => disk = file
  /\ cmd[c].pc \in {"undosync", "backsync"} => file = cmd[c].original
  /\ cmd[c].pc = "again" /\ cmd[c].changed
       => file = cmd[c].original /\ disk = cmd[c].original

\* The entry of the container that is about to be started was checked.
Checked == launch.entry # None => Compatible(launch.entry)

IInv == /\ TypeOK /\ Locked /\ Copies /\ Progress /\ Checked
        /\ SettingsKept /\ RegisteredStays /\ DaemonFollows

-----------------------------------------------------------------------------
LEMMA FileParts ==
  ASSUME NEW f \in Files
  PROVE  EntryOf(f) \in Entries \cup {None} /\ BaseOf(f) \in Bases
BY ParametersAssumption DEF Files, EntryOf, BaseOf

LEMMA IdleType ==
  ASSUME NEW l \in Ended
  PROVE  Idle \in CommandStates /\ [Idle EXCEPT !.pc = l] \in CommandStates
BY ParametersAssumption DEF CommandStates, Idle, Files, Ended

LEMMA GotoType ==
  ASSUME TypeOK, NEW c \in Commands, NEW l \in Ended \cup Steps, Goto(c, l)
  PROVE  cmd' \in [Commands -> CommandStates]
BY DEF TypeOK, CommandStates, Goto

LEMMA ReturnType ==
  ASSUME TypeOK, NEW c \in Commands, NEW l \in Ended, Return(c, l)
  PROVE  cmd' \in [Commands -> CommandStates]
BY IdleType DEF TypeOK, Return

LEMMA SnapshotType ==
  ASSUME TypeOK, NEW c \in Commands, NEW f \in Files,
         cmd' = [cmd EXCEPT ![c].original = f, ![c].pc = "read"]
  PROVE  cmd' \in [Commands -> CommandStates]
<1>1. cmd[c] \in CommandStates
  BY DEF TypeOK
<1>2. [cmd[c] EXCEPT !.original = f, !.pc = "read"] \in CommandStates
  BY <1>1 DEF CommandStates, Steps
<1>3. cmd' = [cmd EXCEPT ![c] = [cmd[c] EXCEPT !.original = f, !.pc = "read"]]
  BY DEF TypeOK
<1>. QED BY <1>2, <1>3 DEF TypeOK

LEMMA MergeType ==
  ASSUME TypeOK, NEW c \in Commands, NEW f \in Files,
         cmd' = [cmd EXCEPT ![c].doc = f, ![c].pc = "replace"]
  PROVE  cmd' \in [Commands -> CommandStates]
<1>1. cmd[c] \in CommandStates
  BY DEF TypeOK
<1>2. [cmd[c] EXCEPT !.doc = f, !.pc = "replace"] \in CommandStates
  BY <1>1 DEF CommandStates, Steps
<1>3. cmd' = [cmd EXCEPT ![c] = [cmd[c] EXCEPT !.doc = f, !.pc = "replace"]]
  BY DEF TypeOK
<1>. QED BY <1>2, <1>3 DEF TypeOK

LEMMA ReplaceType ==
  ASSUME TypeOK, NEW c \in Commands, NoFile \in Files,
         cmd' = [cmd EXCEPT ![c].doc = NoFile, ![c].changed = TRUE,
                            ![c].pc = "sync"]
  PROVE  cmd' \in [Commands -> CommandStates]
<1>1. cmd[c] \in CommandStates
  BY DEF TypeOK
<1>2. [cmd[c] EXCEPT !.doc = NoFile, !.changed = TRUE,
                       !.pc = "sync"] \in CommandStates
  BY <1>1 DEF CommandStates, Steps
<1>3. cmd' = [cmd EXCEPT ![c] = [cmd[c] EXCEPT !.doc = NoFile, !.changed = TRUE,
                       !.pc = "sync"]]
  BY DEF TypeOK
<1>. QED BY <1>2, <1>3 DEF TypeOK

LEMMA InvokeType ==
  ASSUME NEW e, NEW r, NEW p
  PROVE  Invoke(e, r, p) \in {"refused", "tweaked", "plain"}
<1>1. RunRuntime(e.args, r, p) \in {"refused", "tweaked"}
  BY DEF RunRuntime
<1>. QED BY <1>1 DEF Invoke

LEMMA InitInv == Init => IInv
<1>. SUFFICES ASSUME Init PROVE IInv
  OBVIOUS
<1>. USE ParametersAssumption
<1>1. file \in Files
  BY DEF Init, Files, Entries
<1>2. EntryOf(file) \in Entries \cup {None} /\ BaseOf(file) \in Bases
  BY <1>1, FileParts
<1>3. cmd \in [Commands -> CommandStates]
  BY IdleType DEF Init, Ended
<1>4. /\ active \in Entries \cup {None}
      /\ launch \in [entry : Entries \cup {None},
                     ran : {"no", "refused", "tweaked", "plain"}]
  BY <1>2 DEF Init
<1>5. /\ settings \in Bases /\ promised \in Entries \cup {None}
      /\ synced \in BOOLEAN /\ up \in BOOLEAN /\ pending \in BOOLEAN
  <2>1. Accepts(file) \in BOOLEAN
    BY DEF Accepts
  <2>. QED BY <1>2, <2>1 DEF Init
<1>6. TypeOK
  BY <1>1, <1>3, <1>4, <1>5 DEF Init, TypeOK
<1>7. \A c \in Commands : cmd[c] = Idle
  BY DEF Init
<1>8. Locked /\ Copies /\ Progress
  BY <1>7 DEF Locked, Copies, Progress, Idle, Steps, Changing, Snapped
<1>9. Checked /\ SettingsKept /\ RegisteredStays /\ DaemonFollows
  BY DEF Init, Checked, SettingsKept, RegisteredStays, DaemonFollows
<1>. QED BY <1>6, <1>8, <1>9 DEF IInv

LEMMA AcquireRegistrationLockInv ==
  ASSUME IInv, NEW c \in Commands, AcquireRegistrationLock(c)
  PROVE  IInv'
<1>. USE ParametersAssumption DEF IInv, Refuse, Abandon, Idle, Running, daemon,
    history, others
<1>a. \/ Goto(c, "snapshot")
      \/ cmd' = [cmd EXCEPT ![c] = Idle]
  BY DEF AcquireRegistrationLock
<1>b. /\ cmd[c].want \in Entries \cup {None} /\ cmd[c].original \in Files
      /\ cmd[c].doc \in Files /\ NoFile \in Files
  BY DEF TypeOK, CommandStates, Entries, Files
<1>1. cmd' \in [Commands -> CommandStates]
  <2>1. CASE Goto(c, "snapshot")
    BY <2>1, GotoType DEF Steps, Ended
  <2>2. CASE cmd' = [cmd EXCEPT ![c] = Idle]
    BY <2>2, IdleType DEF TypeOK, Ended
  <2>. QED BY <1>a, <2>1, <2>2
<1>2. TypeOK'
  BY <1>1, <1>b DEF AcquireRegistrationLock, TypeOK, Return
<1>3. Locked'
  BY <1>a DEF AcquireRegistrationLock, Goto, Return, TypeOK, Locked,
      CommandStates, Steps, Ended, Changing
<1>4. Copies'
  BY <1>a DEF AcquireRegistrationLock, Goto, Return, TypeOK, Locked, Copies,
      SettingsKept, RegisteredStays,
         CommandStates, Steps, Ended, Changing, Snapped
<1>5. Progress'
  BY <1>a DEF AcquireRegistrationLock, Goto, Return, TypeOK, Locked, Copies,
      Progress, CommandStates, Steps,
         Ended, Changing, Snapped
<1>6. Checked'
  BY <1>a DEF AcquireRegistrationLock, Goto, Return, TypeOK, Checked
<1>7. SettingsKept'
  BY <1>a DEF AcquireRegistrationLock, Goto, Return, TypeOK, Locked, Copies,
      SettingsKept, Steps, Changing,
         Snapped
<1>8. RegisteredStays'
  BY <1>a DEF AcquireRegistrationLock, Goto, Return, TypeOK, Locked, Copies,
      Progress, RegisteredStays,
         CommandStates, Steps, Ended, Changing, Snapped
<1>9. DaemonFollows'
  BY DEF AcquireRegistrationLock, Goto, Return, TypeOK, Locked, Copies,
      Progress, DaemonFollows, Steps,
         Changing, Snapped
<1>. QED BY <1>2, <1>3, <1>4, <1>5, <1>6, <1>7, <1>8, <1>9 DEF IInv

LEMMA SnapshotFileInv ==
  ASSUME IInv, NEW c \in Commands, SnapshotFile(c)
  PROVE  IInv'
<1>. USE ParametersAssumption DEF IInv, Refuse, Abandon, Idle, Running, daemon,
    history, others
<1>a. \/ cmd' = [cmd EXCEPT ![c].original = file, ![c].pc = "read"]
      \/ Return(c, "idle")
  BY DEF SnapshotFile
<1>b. /\ cmd[c].want \in Entries \cup {None} /\ cmd[c].original \in Files
      /\ cmd[c].doc \in Files /\ NoFile \in Files
  BY DEF TypeOK, CommandStates, Entries, Files
<1>1. cmd' \in [Commands -> CommandStates]
  <2>1. CASE cmd' = [cmd EXCEPT ![c].original = file, ![c].pc = "read"]
    BY <2>1, SnapshotType DEF TypeOK
  <2>2. CASE Return(c, "idle")
    BY <2>2, ReturnType DEF Ended
  <2>. QED BY <1>a, <2>1, <2>2
<1>2. TypeOK'
  BY <1>1, <1>b DEF SnapshotFile, TypeOK, Return
<1>3. Locked'
  BY <1>a DEF SnapshotFile, Goto, Return, TypeOK, Locked, CommandStates, Steps,
      Ended, Changing
<1>4. Copies'
  BY <1>a DEF SnapshotFile, Goto, Return, TypeOK, Locked, Copies, SettingsKept,
      RegisteredStays,
         CommandStates, Steps, Ended, Changing, Snapped
<1>5. Progress'
  BY <1>a DEF SnapshotFile, Goto, Return, TypeOK, Locked, Copies, Progress,
      CommandStates, Steps,
         Ended, Changing, Snapped
<1>6. Checked'
  BY <1>a DEF SnapshotFile, Goto, Return, TypeOK, Checked
<1>7. SettingsKept'
  BY <1>a DEF SnapshotFile, Goto, Return, TypeOK, Locked, Copies, SettingsKept,
      Steps, Changing,
         Snapped
<1>8. RegisteredStays'
  BY <1>a DEF SnapshotFile, Goto, Return, TypeOK, Locked, Copies, Progress,
      RegisteredStays,
         CommandStates, Steps, Ended, Changing, Snapped
<1>9. DaemonFollows'
  BY DEF SnapshotFile, Goto, Return, TypeOK, Locked, Copies, Progress,
      DaemonFollows, Steps,
         Changing, Snapped
<1>. QED BY <1>2, <1>3, <1>4, <1>5, <1>6, <1>7, <1>8, <1>9 DEF IInv

LEMMA ReadConfigurationInv ==
  ASSUME IInv, NEW c \in Commands, ReadConfiguration(c)
  PROVE  IInv'
<1>. USE ParametersAssumption DEF IInv, Refuse, Abandon, Idle, Running, daemon,
    history, others
<1>a. \/ cmd' = [cmd EXCEPT ![c].doc = Merged(file, cmd[c].want),
                            ![c].pc = "replace"]
      \/ Goto(c, "reload")
      \/ Return(c, "idle")
  BY DEF ReadConfiguration, Configured
<1>b. /\ cmd[c].want \in Entries \cup {None} /\ cmd[c].original \in Files
      /\ cmd[c].doc \in Files /\ NoFile \in Files
  BY DEF TypeOK, CommandStates, Entries, Files
<1>c. Merged(file, cmd[c].want) \in Files
  BY <1>b, FileParts DEF Merged, TypeOK, Files
<1>1. cmd' \in [Commands -> CommandStates]
  <2>1. CASE cmd' = [cmd EXCEPT ![c].doc = Merged(file, cmd[c].want),
                            ![c].pc = "replace"]
    BY <2>1, <1>c, MergeType
  <2>2. CASE Goto(c, "reload")
    BY <2>2, GotoType DEF Steps, Ended
  <2>3. CASE Return(c, "idle")
    BY <2>3, ReturnType DEF Ended
  <2>. QED BY <1>a, <2>1, <2>2, <2>3
<1>2. TypeOK'
  BY <1>1, <1>b DEF ReadConfiguration, Configured, TypeOK, Return
<1>3. Locked'
  BY <1>a DEF ReadConfiguration, Configured, Goto, Return, TypeOK, Locked,
      CommandStates, Steps, Ended, Changing
<1>4. Copies'
  BY <1>a DEF ReadConfiguration, Configured, Goto, Return, TypeOK, Locked,
      Copies, SettingsKept, RegisteredStays,
         CommandStates, Steps, Ended, Changing, Snapped, Merged, BaseOf, EntryOf
<1>5. Progress'
  BY <1>a DEF ReadConfiguration, Configured, Goto, Return, TypeOK, Locked,
      Copies, Progress, CommandStates, Steps,
         Ended, Changing, Snapped
<1>6. Checked'
  BY <1>a DEF ReadConfiguration, Configured, Goto, Return, TypeOK, Checked
<1>7. SettingsKept'
  BY <1>a DEF ReadConfiguration, Configured, Goto, Return, TypeOK, Locked,
      Copies, SettingsKept, Steps, Changing,
         Snapped
<1>8. RegisteredStays'
  BY <1>a DEF ReadConfiguration, Configured, Goto, Return, TypeOK, Locked,
      Copies, Progress, RegisteredStays,
         CommandStates, Steps, Ended, Changing, Snapped
<1>9. DaemonFollows'
  BY DEF ReadConfiguration, Configured, Goto, Return, TypeOK, Locked, Copies,
      Progress, DaemonFollows, Steps,
         Changing, Snapped
<1>. QED BY <1>2, <1>3, <1>4, <1>5, <1>6, <1>7, <1>8, <1>9 DEF IInv

LEMMA ReplaceFileInv ==
  ASSUME IInv, NEW c \in Commands, ReplaceFile(c)
  PROVE  IInv'
<1>. USE ParametersAssumption DEF IInv, Refuse, Abandon, Idle, Running, daemon,
    history, others
<1>a. \/ cmd' = [cmd EXCEPT ![c].doc = NoFile, ![c].changed = TRUE,
                            ![c].pc = "sync"]
      \/ Return(c, "idle")
  BY DEF ReplaceFile
<1>b. /\ cmd[c].want \in Entries \cup {None} /\ cmd[c].original \in Files
      /\ cmd[c].doc \in Files /\ NoFile \in Files
  BY DEF TypeOK, CommandStates, Entries, Files
<1>1. cmd' \in [Commands -> CommandStates]
  <2>1. CASE cmd' = [cmd EXCEPT ![c].doc = NoFile, ![c].changed = TRUE,
                            ![c].pc = "sync"]
    BY <2>1, <1>b, ReplaceType
  <2>2. CASE Return(c, "idle")
    BY <2>2, ReturnType DEF Ended
  <2>. QED BY <1>a, <2>1, <2>2
<1>2. TypeOK'
  BY <1>1, <1>b DEF ReplaceFile, TypeOK, Return
<1>3. Locked'
  BY <1>a DEF ReplaceFile, Goto, Return, TypeOK, Locked, CommandStates, Steps,
      Ended, Changing
<1>4. Copies'
  BY <1>a DEF ReplaceFile, Goto, Return, TypeOK, Locked, Copies, SettingsKept,
      RegisteredStays,
         CommandStates, Steps, Ended, Changing, Snapped
<1>5. Progress'
  BY <1>a DEF ReplaceFile, Goto, Return, TypeOK, Locked, Copies, Progress,
      CommandStates, Steps,
         Ended, Changing, Snapped
<1>6. Checked'
  BY <1>a DEF ReplaceFile, Goto, Return, TypeOK, Checked
<1>7. SettingsKept'
  BY <1>a DEF ReplaceFile, Goto, Return, TypeOK, Locked, Copies, SettingsKept,
      Steps, Changing,
         Snapped
<1>8. RegisteredStays'
  BY <1>a DEF ReplaceFile, Goto, Return, TypeOK, Locked, Copies, Progress,
      RegisteredStays,
         CommandStates, Steps, Ended, Changing, Snapped
<1>9. DaemonFollows'
  BY DEF ReplaceFile, Goto, Return, TypeOK, Locked, Copies, Progress,
      DaemonFollows, Steps,
         Changing, Snapped
<1>. QED BY <1>2, <1>3, <1>4, <1>5, <1>6, <1>7, <1>8, <1>9 DEF IInv

LEMMA SyncDirectoryInv ==
  ASSUME IInv, NEW c \in Commands, SyncDirectory(c)
  PROVE  IInv'
<1>. USE ParametersAssumption DEF IInv, Refuse, Abandon, Idle, Running, daemon,
    history, others
<1>a. \/ Goto(c, "validate")
      \/ Return(c, "idle")
  BY DEF SyncDirectory
<1>b. /\ cmd[c].want \in Entries \cup {None} /\ cmd[c].original \in Files
      /\ cmd[c].doc \in Files /\ NoFile \in Files
  BY DEF TypeOK, CommandStates, Entries, Files
<1>1. cmd' \in [Commands -> CommandStates]
  <2>1. CASE Goto(c, "validate")
    BY <2>1, GotoType DEF Steps, Ended
  <2>2. CASE Return(c, "idle")
    BY <2>2, ReturnType DEF Ended
  <2>. QED BY <1>a, <2>1, <2>2
<1>2. TypeOK'
  BY <1>1, <1>b DEF SyncDirectory, TypeOK, Return
<1>3. Locked'
  BY <1>a DEF SyncDirectory, Goto, Return, TypeOK, Locked, CommandStates,
      Steps, Ended, Changing
<1>4. Copies'
  BY <1>a DEF SyncDirectory, Goto, Return, TypeOK, Locked, Copies,
      SettingsKept, RegisteredStays,
         CommandStates, Steps, Ended, Changing, Snapped
<1>5. Progress'
  BY <1>a DEF SyncDirectory, Goto, Return, TypeOK, Locked, Copies, Progress,
      CommandStates, Steps,
         Ended, Changing, Snapped
<1>6. Checked'
  BY <1>a DEF SyncDirectory, Goto, Return, TypeOK, Checked
<1>7. SettingsKept'
  BY <1>a DEF SyncDirectory, Goto, Return, TypeOK, Locked, Copies,
      SettingsKept, Steps, Changing,
         Snapped
<1>8. RegisteredStays'
  BY <1>a DEF SyncDirectory, Goto, Return, TypeOK, Locked, Copies, Progress,
      RegisteredStays,
         CommandStates, Steps, Ended, Changing, Snapped
<1>9. DaemonFollows'
  BY DEF SyncDirectory, Goto, Return, TypeOK, Locked, Copies, Progress,
      DaemonFollows, Steps,
         Changing, Snapped
<1>. QED BY <1>2, <1>3, <1>4, <1>5, <1>6, <1>7, <1>8, <1>9 DEF IInv

LEMMA ValidateDockerConfigurationInv ==
  ASSUME IInv, NEW c \in Commands, ValidateDockerConfiguration(c)
  PROVE  IInv'
<1>. USE ParametersAssumption DEF IInv, Refuse, Abandon, Idle, Running, daemon,
    history, others
<1>a. \/ Return(c, "registered")
      \/ Goto(c, "reload")
      \/ Goto(c, "undo")
  BY DEF ValidateDockerConfiguration, Registered
<1>b. /\ cmd[c].want \in Entries \cup {None} /\ cmd[c].original \in Files
      /\ cmd[c].doc \in Files /\ NoFile \in Files
  BY DEF TypeOK, CommandStates, Entries, Files
<1>1. cmd' \in [Commands -> CommandStates]
  <2>1. CASE Return(c, "registered")
    BY <2>1, ReturnType DEF Ended
  <2>2. CASE Goto(c, "reload")
    BY <2>2, GotoType DEF Steps, Ended
  <2>3. CASE Goto(c, "undo")
    BY <2>3, GotoType DEF Steps, Ended
  <2>. QED BY <1>a, <2>1, <2>2, <2>3
<1>2. TypeOK'
  BY <1>1, <1>b DEF ValidateDockerConfiguration, Registered, TypeOK, Return
<1>3. Locked'
  BY <1>a DEF ValidateDockerConfiguration, Registered, Goto, Return, TypeOK,
      Locked, CommandStates, Steps, Ended, Changing
<1>4. Copies'
  BY <1>a DEF ValidateDockerConfiguration, Registered, Goto, Return, TypeOK,
      Locked, Copies, SettingsKept, RegisteredStays,
         CommandStates, Steps, Ended, Changing, Snapped
<1>5. Progress'
  BY <1>a DEF ValidateDockerConfiguration, Registered, Goto, Return, TypeOK,
      Locked, Copies, Progress, CommandStates, Steps,
         Ended, Changing, Snapped
<1>6. Checked'
  BY <1>a DEF ValidateDockerConfiguration, Registered, Goto, Return, TypeOK,
      Checked
<1>7. SettingsKept'
  BY <1>a DEF ValidateDockerConfiguration, Registered, Goto, Return, TypeOK,
      Locked, Copies, SettingsKept, Steps, Changing,
         Snapped
<1>8. RegisteredStays'
  BY <1>a DEF ValidateDockerConfiguration, Registered, Goto, Return, TypeOK,
      Locked, Copies, Progress, RegisteredStays,
         CommandStates, Steps, Ended, Changing, Snapped
<1>9. DaemonFollows'
  BY DEF ValidateDockerConfiguration, Registered, Goto, Return, TypeOK, Locked,
      Copies, Progress, DaemonFollows, Steps,
         Changing, Snapped
<1>. QED BY <1>2, <1>3, <1>4, <1>5, <1>6, <1>7, <1>8, <1>9 DEF IInv

LEMMA ReloadDockerInv ==
  ASSUME IInv, NEW c \in Commands, ReloadDocker(c)
  PROVE  IInv'
<1>. USE ParametersAssumption DEF IInv, Refuse, Abandon, Idle, Running, daemon,
    history, others
<1>a. \/ Goto(c, "wait")
      \/ Goto(c, "restore") /\ cmd[c].changed
      \/ Goto(c, "again") /\ ~cmd[c].changed
  BY DEF ReloadDocker
<1>b. /\ cmd[c].want \in Entries \cup {None} /\ cmd[c].original \in Files
      /\ cmd[c].doc \in Files /\ NoFile \in Files
  BY DEF TypeOK, CommandStates, Entries, Files
<1>c. /\ cmd[c].pc = "reload" /\ pending' \in BOOLEAN
      /\ UNCHANGED <<file, disk, lock, settings, promised, synced>>
  BY DEF ReloadDocker, TypeOK
<1>1. cmd' \in [Commands -> CommandStates]
  <2>1. CASE Goto(c, "wait")
    BY <2>1, GotoType DEF Steps, Ended
  <2>2. CASE Goto(c, "restore") /\ cmd[c].changed
    BY <2>2, GotoType DEF Steps, Ended
  <2>3. CASE Goto(c, "again") /\ ~cmd[c].changed
    BY <2>3, GotoType DEF Steps, Ended
  <2>. QED BY <1>a, <2>1, <2>2, <2>3
<1>2. TypeOK'
  BY <1>1, <1>b DEF ReloadDocker, TypeOK, Return
<1>3. Locked'
  BY <1>a, <1>c DEF Goto, TypeOK, Locked, CommandStates, Steps, Ended, Changing
<1>4. Copies'
  BY <1>a, <1>c DEF ReloadDocker, Goto, Return, TypeOK, Locked, Copies,
      SettingsKept, RegisteredStays,
         CommandStates, Steps, Ended, Changing, Snapped
<1>5. Progress'
  BY <1>a, <1>c DEF Goto, TypeOK, Locked, Copies, Progress, CommandStates,
      Steps,
         Ended, Changing, Snapped
<1>6. Checked'
  BY <1>a, <1>c DEF ReloadDocker, Goto, Return, TypeOK, Checked
<1>7. SettingsKept'
  BY <1>a, <1>c DEF ReloadDocker, Goto, Return, TypeOK, Locked, Copies,
      SettingsKept, Steps, Changing,
         Snapped
<1>8. RegisteredStays'
  BY <1>a, <1>c DEF ReloadDocker, Goto, Return, TypeOK, Locked, Copies,
      Progress, RegisteredStays,
         CommandStates, Steps, Ended, Changing, Snapped
<1>9. DaemonFollows'
  BY DEF ReloadDocker, Goto, Return, TypeOK, Locked, Copies, Progress,
      DaemonFollows, Steps,
         Changing, Snapped
<1>. QED BY <1>2, <1>3, <1>4, <1>5, <1>6, <1>7, <1>8, <1>9 DEF IInv

LEMMA WaitForRuntimeInv ==
  ASSUME IInv, NEW c \in Commands, WaitForRuntime(c)
  PROVE  IInv'
<1>. USE ParametersAssumption DEF IInv, Refuse, Abandon, Idle, Running, daemon,
    history, others
<1>a. \/ Return(c, "registered")
      \/ Return(c, "idle")
      \/ Goto(c, "restore")
      \/ Goto(c, "again")
  BY DEF WaitForRuntime, Registered
<1>b. /\ cmd[c].want \in Entries \cup {None} /\ cmd[c].original \in Files
      /\ cmd[c].doc \in Files /\ NoFile \in Files
  BY DEF TypeOK, CommandStates, Entries, Files
<1>1. cmd' \in [Commands -> CommandStates]
  <2>1. CASE Return(c, "registered")
    BY <2>1, ReturnType DEF Ended
  <2>2. CASE Return(c, "idle")
    BY <2>2, ReturnType DEF Ended
  <2>3. CASE Goto(c, "restore")
    BY <2>3, GotoType DEF Steps, Ended
  <2>4. CASE Goto(c, "again")
    BY <2>4, GotoType DEF Steps, Ended
  <2>. QED BY <1>a, <2>1, <2>2, <2>3, <2>4
<1>2. TypeOK'
  BY <1>1, <1>b DEF WaitForRuntime, Registered, TypeOK, Return
<1>3. Locked'
  BY <1>a DEF WaitForRuntime, Registered, Goto, Return, TypeOK, Locked,
      CommandStates, Steps, Ended, Changing
<1>4. Copies'
  BY <1>a DEF WaitForRuntime, Registered, Goto, Return, TypeOK, Locked, Copies,
      SettingsKept, RegisteredStays,
         CommandStates, Steps, Ended, Changing, Snapped
<1>5. Progress'
  BY <1>a DEF WaitForRuntime, Registered, Goto, Return, TypeOK, Locked, Copies,
      Progress, CommandStates, Steps,
         Ended, Changing, Snapped
<1>6. Checked'
  BY <1>a DEF WaitForRuntime, Registered, Goto, Return, TypeOK, Checked
<1>7. SettingsKept'
  BY <1>a DEF WaitForRuntime, Registered, Goto, Return, TypeOK, Locked, Copies,
      SettingsKept, Steps, Changing,
         Snapped
<1>8. RegisteredStays'
  BY <1>a DEF WaitForRuntime, Registered, Goto, Return, TypeOK, Locked, Copies,
      Progress, RegisteredStays,
         CommandStates, Steps, Ended, Changing, Snapped
<1>9. DaemonFollows'
  BY DEF WaitForRuntime, Registered, Goto, Return, TypeOK, Locked, Copies,
      Progress, DaemonFollows, Steps,
         Changing, Snapped
<1>. QED BY <1>2, <1>3, <1>4, <1>5, <1>6, <1>7, <1>8, <1>9 DEF IInv

LEMMA RestoreFileInv ==
  ASSUME IInv, NEW c \in Commands, RestoreFile(c)
  PROVE  IInv'
<1>. USE ParametersAssumption DEF IInv, Refuse, Abandon, Idle, Running, daemon,
    history, others
<1>a. \/ Goto(c, "undosync")
      \/ Goto(c, "backsync")
      \/ Return(c, "idle")
  BY DEF RestoreFile
<1>b. /\ cmd[c].want \in Entries \cup {None} /\ cmd[c].original \in Files
      /\ cmd[c].doc \in Files /\ NoFile \in Files
  BY DEF TypeOK, CommandStates, Entries, Files
<1>1. cmd' \in [Commands -> CommandStates]
  <2>1. CASE Goto(c, "undosync")
    BY <2>1, GotoType DEF Steps, Ended
  <2>2. CASE Goto(c, "backsync")
    BY <2>2, GotoType DEF Steps, Ended
  <2>3. CASE Return(c, "idle")
    BY <2>3, ReturnType DEF Ended
  <2>. QED BY <1>a, <2>1, <2>2, <2>3
<1>2. TypeOK'
  BY <1>1, <1>b DEF RestoreFile, TypeOK, Return
<1>3. Locked'
  BY <1>a DEF RestoreFile, Goto, Return, TypeOK, Locked, CommandStates, Steps,
      Ended, Changing
<1>4. Copies'
  BY <1>a DEF RestoreFile, Goto, Return, TypeOK, Locked, Copies, SettingsKept,
      RegisteredStays,
         CommandStates, Steps, Ended, Changing, Snapped
<1>5. Progress'
  BY <1>a DEF RestoreFile, Goto, Return, TypeOK, Locked, Copies, Progress,
      CommandStates, Steps,
         Ended, Changing, Snapped
<1>6. Checked'
  BY <1>a DEF RestoreFile, Goto, Return, TypeOK, Checked
<1>7. SettingsKept'
  BY <1>a DEF RestoreFile, Goto, Return, TypeOK, Locked, Copies, SettingsKept,
      Steps, Changing,
         Snapped
<1>8. RegisteredStays'
  BY <1>a DEF RestoreFile, Goto, Return, TypeOK, Locked, Copies, Progress,
      RegisteredStays,
         CommandStates, Steps, Ended, Changing, Snapped
<1>9. DaemonFollows'
  BY DEF RestoreFile, Goto, Return, TypeOK, Locked, Copies, Progress,
      DaemonFollows, Steps,
         Changing, Snapped
<1>. QED BY <1>2, <1>3, <1>4, <1>5, <1>6, <1>7, <1>8, <1>9 DEF IInv

LEMMA RestoreSyncInv ==
  ASSUME IInv, NEW c \in Commands, RestoreSync(c)
  PROVE  IInv'
<1>. USE ParametersAssumption DEF IInv, Refuse, Abandon, Idle, Running, daemon,
    history, others
<1>a. \/ Return(c, "restored")
      \/ Goto(c, "again")
      \/ Return(c, "idle")
  BY DEF RestoreSync
<1>b. /\ cmd[c].want \in Entries \cup {None} /\ cmd[c].original \in Files
      /\ cmd[c].doc \in Files /\ NoFile \in Files
  BY DEF TypeOK, CommandStates, Entries, Files
<1>1. cmd' \in [Commands -> CommandStates]
  <2>1. CASE Return(c, "restored")
    BY <2>1, ReturnType DEF Ended
  <2>2. CASE Goto(c, "again")
    BY <2>2, GotoType DEF Steps, Ended
  <2>3. CASE Return(c, "idle")
    BY <2>3, ReturnType DEF Ended
  <2>. QED BY <1>a, <2>1, <2>2, <2>3
<1>2. TypeOK'
  BY <1>1, <1>b DEF RestoreSync, TypeOK, Return
<1>3. Locked'
  BY <1>a DEF RestoreSync, Goto, Return, TypeOK, Locked, CommandStates, Steps,
      Ended, Changing
<1>4. Copies'
  BY <1>a DEF RestoreSync, Goto, Return, TypeOK, Locked, Copies, SettingsKept,
      RegisteredStays,
         CommandStates, Steps, Ended, Changing, Snapped
<1>5. Progress'
  BY <1>a DEF RestoreSync, Goto, Return, TypeOK, Locked, Copies, Progress,
      CommandStates, Steps,
         Ended, Changing, Snapped
<1>6. Checked'
  BY <1>a DEF RestoreSync, Goto, Return, TypeOK, Checked
<1>7. SettingsKept'
  BY <1>a DEF RestoreSync, Goto, Return, TypeOK, Locked, Copies, SettingsKept,
      Steps, Changing,
         Snapped
<1>8. RegisteredStays'
  BY <1>a DEF RestoreSync, Goto, Return, TypeOK, Locked, Copies, Progress,
      RegisteredStays,
         CommandStates, Steps, Ended, Changing, Snapped
<1>9. DaemonFollows'
  BY DEF RestoreSync, Goto, Return, TypeOK, Locked, Copies, Progress,
      DaemonFollows, Steps,
         Changing, Snapped
<1>. QED BY <1>2, <1>3, <1>4, <1>5, <1>6, <1>7, <1>8, <1>9 DEF IInv

LEMMA ReloadAgainInv ==
  ASSUME IInv, NEW c \in Commands, ReloadAgain(c)
  PROVE  IInv'
<1>. USE ParametersAssumption DEF IInv, Refuse, Abandon, Idle, Running, daemon,
    history, others
<1>a. \/ Return(c, "restored")
      \/ Return(c, "idle")
  BY DEF ReloadAgain
<1>b. /\ cmd[c].want \in Entries \cup {None} /\ cmd[c].original \in Files
      /\ cmd[c].doc \in Files /\ NoFile \in Files
  BY DEF TypeOK, CommandStates, Entries, Files
<1>1. cmd' \in [Commands -> CommandStates]
  <2>1. CASE Return(c, "restored")
    BY <2>1, ReturnType DEF Ended
  <2>2. CASE Return(c, "idle")
    BY <2>2, ReturnType DEF Ended
  <2>. QED BY <1>a, <2>1, <2>2
<1>2. TypeOK'
  BY <1>1, <1>b DEF ReloadAgain, TypeOK, Return
<1>3. Locked'
  BY <1>a DEF ReloadAgain, Goto, Return, TypeOK, Locked, CommandStates, Steps,
      Ended, Changing
<1>4. Copies'
  BY <1>a DEF ReloadAgain, Goto, Return, TypeOK, Locked, Copies, SettingsKept,
      RegisteredStays,
         CommandStates, Steps, Ended, Changing, Snapped
<1>5. Progress'
  BY <1>a DEF ReloadAgain, Goto, Return, TypeOK, Locked, Copies, Progress,
      CommandStates, Steps,
         Ended, Changing, Snapped
<1>6. Checked'
  BY <1>a DEF ReloadAgain, Goto, Return, TypeOK, Checked
<1>7. SettingsKept'
  BY <1>a DEF ReloadAgain, Goto, Return, TypeOK, Locked, Copies, SettingsKept,
      Steps, Changing,
         Snapped
<1>8. RegisteredStays'
  <2>1. cmd[c].pc = "again" /\ UNCHANGED <<file, disk, promised>>
    BY DEF ReloadAgain
  <2>2. \A d \in Commands \ {c} : cmd'[d] = cmd[d]
    BY <1>a DEF Return, TypeOK
  <2>3. CASE cmd[c].changed
    BY <2>1, <2>3
       DEF Progress, Copies, RegisteredStays, Snapped, Changing
  <2>4. CASE ~cmd[c].changed
    BY <2>1, <2>2, <2>4 DEF RegisteredStays
  <2>. QED BY <2>3, <2>4
<1>9. DaemonFollows'
  BY DEF ReloadAgain, Goto, Return, TypeOK, Locked, Copies, Progress,
      DaemonFollows, Steps,
         Changing, Snapped
<1>. QED BY <1>2, <1>3, <1>4, <1>5, <1>6, <1>7, <1>8, <1>9 DEF IInv

LEMMA DieInv ==
  ASSUME IInv, NEW c \in Commands, Die(c)
  PROVE  IInv'
<1>. USE ParametersAssumption DEF IInv, Refuse, Abandon, Idle, Running, daemon,
    history, others
<1>a. \/ cmd' = [cmd EXCEPT ![c] = Idle]
  BY DEF Die
<1>b. /\ cmd[c].want \in Entries \cup {None} /\ cmd[c].original \in Files
      /\ cmd[c].doc \in Files /\ NoFile \in Files
  BY DEF TypeOK, CommandStates, Entries, Files
<1>1. cmd' \in [Commands -> CommandStates]
  <2>1. CASE cmd' = [cmd EXCEPT ![c] = Idle]
    BY <2>1, IdleType DEF TypeOK, Ended
  <2>. QED BY <1>a, <2>1
<1>2. TypeOK'
  BY <1>1, <1>b DEF Die, TypeOK, Return
<1>3. Locked'
  BY <1>a DEF Die, Goto, Return, TypeOK, Locked, CommandStates, Steps, Ended,
      Changing
<1>4. Copies'
  BY <1>a DEF Die, Goto, Return, TypeOK, Locked, Copies, SettingsKept,
      RegisteredStays,
         CommandStates, Steps, Ended, Changing, Snapped
<1>5. Progress'
  BY <1>a DEF Die, Goto, Return, TypeOK, Locked, Copies, Progress,
      CommandStates, Steps,
         Ended, Changing, Snapped
<1>6. Checked'
  BY <1>a DEF Die, Goto, Return, TypeOK, Checked
<1>7. SettingsKept'
  BY <1>a DEF Die, Goto, Return, TypeOK, Locked, Copies, SettingsKept, Steps,
      Changing,
         Snapped
<1>8. RegisteredStays'
  BY <1>a DEF Die, Goto, Return, TypeOK, Locked, Copies, Progress,
      RegisteredStays,
         CommandStates, Steps, Ended, Changing, Snapped
<1>9. DaemonFollows'
  BY DEF Die, Goto, Return, TypeOK, Locked, Copies, Progress, DaemonFollows,
      Steps,
         Changing, Snapped
<1>. QED BY <1>2, <1>3, <1>4, <1>5, <1>6, <1>7, <1>8, <1>9 DEF IInv

LEMMA RunRegisterCommandInv ==
  ASSUME IInv, NEW c \in Commands, NEW e \in Wanted,
         NEW opts \in SUBSET {"force", "no-reload"},
         RunRegisterCommand(c, e, opts)
  PROVE  IInv'
<1>. DEFINE r == [Idle EXCEPT !.pc = "lock", !.want = e, !.flags = opts]
<1>. USE ParametersAssumption DEF IInv, RunRegisterCommand, daemon, history,
    others
<1>1. /\ r \in CommandStates /\ r.pc = "lock" /\ ~r.changed /\ r.want = e
  BY DEF Idle, CommandStates, Steps, Files
<1>2. cmd' = [cmd EXCEPT ![c] = r] /\ cmd' \in [Commands -> CommandStates]
  BY <1>1 DEF TypeOK
<1>3. ~cmd[c].changed
  BY DEF Running, Locked, Changing, Steps
<1>. HIDE DEF r
<1>4. TypeOK'
  BY <1>2 DEF TypeOK
<1>5. Locked'
  BY <1>1, <1>2, ZenonT(60) DEF TypeOK, Locked, Steps, Changing, Snapped
<1>8. Copies'
  BY <1>1, <1>2 DEF TypeOK, Locked, Copies, Steps, Changing, Snapped
<1>9. Progress'
  BY <1>1, <1>2 DEF TypeOK, Locked, Progress, Steps, Changing, Snapped
<1>6. RegisteredStays'
  BY <1>1, <1>2, <1>3 DEF TypeOK, RegisteredStays
<1>7. Checked' /\ SettingsKept' /\ DaemonFollows'
  BY DEF Checked, SettingsKept, DaemonFollows
<1>. QED BY <1>4, <1>5, <1>6, <1>7, <1>8, <1>9 DEF IInv

\* The daemon and the containers do not touch the file or the commands.
LEMMA DaemonInv ==
  ASSUME IInv, \/ DaemonReloads \/ DaemonRestarts \/ ConfigureContainerSeccomp
               \/ \E r \in 1 .. 2, p \in BOOLEAN : StartContainer(r, p)
               \/ UNCHANGED vars
  PROVE  IInv'
<1>. USE ParametersAssumption DEF IInv
<1>1. UNCHANGED <<file, disk, lock, cmd, settings, promised, synced>>
  BY DEF DaemonReloads, DaemonRestarts, ConfigureContainerSeccomp,
         StartContainer, vars, daemon, history
<1>2. Locked' /\ Copies' /\ Progress' /\ SettingsKept' /\ RegisteredStays'
  BY <1>1 DEF Locked, Copies, Progress, SettingsKept, RegisteredStays
<1>3. EntryOf(file) \in Entries \cup {None} /\ Accepts(file) \in BOOLEAN
  BY FileParts DEF TypeOK, Accepts
<1>4. CASE DaemonReloads
  BY <1>1, <1>2, <1>3, <1>4 DEF DaemonReloads, TypeOK, Checked, DaemonFollows
<1>5. CASE DaemonRestarts
  BY <1>1, <1>2, <1>3, <1>5
  DEF DaemonRestarts, DaemonOn, TypeOK, Checked, DaemonFollows
<1>6. CASE ConfigureContainerSeccomp
  BY <1>1, <1>2, <1>6
  DEF ConfigureContainerSeccomp, daemon, TypeOK, Checked, DaemonFollows
<1>7. ASSUME NEW r \in 1 .. 2, NEW p \in BOOLEAN, StartContainer(r, p)
      PROVE  IInv'
  BY <1>1, <1>2, <1>7, InvokeType
  DEF StartContainer, daemon, TypeOK, Checked, DaemonFollows
<1>8. CASE UNCHANGED vars
  BY <1>1, <1>2, <1>8 DEF vars, daemon, TypeOK, Checked, DaemonFollows
<1>. QED BY <1>4, <1>5, <1>6, <1>7, <1>8

LEMMA EditInv ==
  ASSUME IInv, NEW b \in Bases, NEW e \in Entries \cup {None}, Edit(b, e)
  PROVE  IInv'
<1>. USE ParametersAssumption DEF IInv, Edit, daemon
<1>1. /\ file' \in Files /\ disk' = file' /\ BaseOf(file') = b
  BY DEF Files, BaseOf
<1>2. \A c \in Commands : cmd[c].pc \notin Steps \ {"lock"}
  BY DEF Locked
<1>3. Locked' /\ Copies' /\ Progress'
  BY <1>2 DEF Locked, Copies, Progress, Steps, Changing, Snapped
<1>4. TypeOK'
  BY <1>1 DEF TypeOK
<1>5. Checked' /\ SettingsKept' /\ RegisteredStays' /\ DaemonFollows'
  BY <1>1 DEF Checked, SettingsKept, RegisteredStays, DaemonFollows
<1>. QED BY <1>3, <1>4, <1>5 DEF IInv

\* The entry of the file after a power loss is that before, or that of the
\* disk; they differ only while a registration is unfinished.
LEMMA PowerLossInv ==
  ASSUME IInv, PowerLoss
  PROVE  IInv'
<1>. USE ParametersAssumption DEF IInv, PowerLoss
<1>1. file' \in Files /\ disk' = file' /\ BaseOf(file') = settings
  BY DEF TypeOK, SettingsKept
<1>2. /\ cmd' \in [Commands -> CommandStates]
      /\ \A c \in Commands : cmd'[c].pc \in Ended /\ ~cmd'[c].changed
  <2>1. Idle \in CommandStates /\ Idle.pc \in Ended /\ ~Idle.changed
    BY IdleType DEF Ended, Idle
  <2>2. ASSUME NEW c \in Commands, ~Running(c)
        PROVE  cmd[c].pc \in Ended /\ ~cmd[c].changed
    BY <2>2 DEF Running, TypeOK, CommandStates, Locked, Steps, Changing
  <2>. QED BY <2>1, <2>2 DEF TypeOK
<1>3. EntryOf(file') \in Entries \cup {None} /\ Accepts(file') \in BOOLEAN
  BY <1>1, FileParts DEF Accepts
<1>4. TypeOK'
  BY <1>1, <1>2, <1>3 DEF TypeOK, DaemonOn
<1>5. Locked' /\ Copies' /\ Progress'
  BY <1>2 DEF Locked, Copies, Progress, Steps, Ended, Changing, Snapped
<1>6. RegisteredStays'
  <2>1. ASSUME promised' # None
        PROVE  promised' = promised /\ \A c \in Commands : ~cmd[c].changed
    BY <2>1 DEF Locked, Running, Changing, Steps
  <2>. QED BY <1>1, <2>1 DEF RegisteredStays
<1>7. Checked' /\ SettingsKept' /\ DaemonFollows'
  BY <1>1 DEF Checked, SettingsKept, DaemonFollows, DaemonOn
<1>. QED BY <1>4, <1>5, <1>6, <1>7 DEF IInv

LEMMA NextInv == IInv /\ [Next]_vars => IInv'
<1>. SUFFICES ASSUME IInv, [Next]_vars PROVE IInv'
  OBVIOUS
<1>1. ASSUME NEW c \in Commands, Step(c) PROVE IInv'
  BY <1>1, AcquireRegistrationLockInv, SnapshotFileInv, ReadConfigurationInv,
     ReplaceFileInv, SyncDirectoryInv, ValidateDockerConfigurationInv,
     ReloadDockerInv, WaitForRuntimeInv, RestoreFileInv, RestoreSyncInv,
     ReloadAgainInv, DieInv
  DEF Step
<1>. QED BY <1>1, RunRegisterCommandInv, DaemonInv, EditInv, PowerLossInv DEF
    Next

LEMMA StepFrame ==
  ASSUME NEW c \in Commands, Step(c)
  PROVE  UNCHANGED launch
<1>1. CASE AcquireRegistrationLock(c)
  BY <1>1 DEF AcquireRegistrationLock, others
<1>2. CASE SnapshotFile(c)
  BY <1>2 DEF SnapshotFile, others
<1>3. CASE ReadConfiguration(c)
  BY <1>3 DEF ReadConfiguration, others
<1>4. CASE ReplaceFile(c)
  BY <1>4 DEF ReplaceFile, others
<1>5. CASE SyncDirectory(c) \/ RestoreSync(c)
  BY <1>5 DEF SyncDirectory, RestoreSync, others
<1>6. CASE ValidateDockerConfiguration(c)
  BY <1>6 DEF ValidateDockerConfiguration, others
<1>7. CASE ReloadDocker(c) \/ ReloadAgain(c)
  BY <1>7 DEF ReloadDocker, ReloadAgain
<1>8. CASE WaitForRuntime(c)
  BY <1>8 DEF WaitForRuntime, others
<1>9. CASE RestoreFile(c) \/ Die(c)
  BY <1>9 DEF RestoreFile, Die, others
<1>. QED BY <1>1, <1>2, <1>3, <1>4, <1>5, <1>6, <1>7, <1>8, <1>9 DEF Step

-----------------------------------------------------------------------------
\* The inductive invariant holds in every reachable state.
THEOREM Invariance == Spec => []IInv
BY InitInv, NextInv, PTL DEF Spec

\* The file, the commands and the daemon are always of their type.
THEOREM TypeCorrect == Spec => []TypeOK
BY Invariance, PTL DEF IInv

\* However many commands run, fail, die or are cut off by power losses, the
\* administrator's other settings stay as they are.
THEOREM SettingsPreserved == Spec => []SettingsKept
BY Invariance, PTL DEF IInv

\* A registration that was reported survives other commands and power losses.
THEOREM RegistrationDurable == Spec => []RegisteredStays
BY Invariance, PTL DEF IInv

\* After a reported reload the daemon runs with the entry of the file.
THEOREM DaemonAgrees == Spec => []DaemonFollows
BY Invariance, PTL DEF IInv

\* A reported roll-back put the snapshot back, in memory and on the disk.
THEOREM RollbackExact == Spec => RollbackComplete
<1>. DEFINE A == \A c \in Commands :
                   cmd'[c].pc = "restored" /\ cmd[c].pc # "restored"
                     => file' = cmd[c].original /\ disk' = cmd[c].original
<1>1. IInv /\ [Next]_vars => [A]_vars
  <2>. SUFFICES ASSUME IInv, Next, NEW d \in Commands,
                       cmd'[d].pc = "restored", cmd[d].pc # "restored"
                PROVE  file' = cmd[d].original /\ disk' = cmd[d].original
    OBVIOUS
  <2>1. ASSUME NEW c \in Commands, Step(c), ~RestoreSync(c), ~ReloadAgain(c)
        PROVE  FALSE
    <3>1. \/ \E l \in Steps : Goto(c, l)
          \/ \E l \in {"idle", "registered"} : Return(c, l)
          \/ cmd' = [cmd EXCEPT ![c] = Idle]
          \/ \E x \in {"read", "replace", "sync"} :
               cmd'[c].pc = x /\ \A y \in Commands \ {c} : cmd'[y] = cmd[y]
      <4>. USE DEF IInv, TypeOK, CommandStates, Steps
      <4>1. CASE AcquireRegistrationLock(c)
        BY <4>1 DEF AcquireRegistrationLock
      <4>2. CASE SnapshotFile(c)
        BY <4>2 DEF SnapshotFile, Refuse
      <4>3. CASE ReadConfiguration(c)
        BY <4>3 DEF ReadConfiguration, Configured, Refuse
      <4>4. CASE ReplaceFile(c)
        BY <4>4 DEF ReplaceFile, Refuse
      <4>5. CASE SyncDirectory(c)
        BY <4>5 DEF SyncDirectory, Abandon
      <4>6. CASE ValidateDockerConfiguration(c)
        BY <4>6 DEF ValidateDockerConfiguration, Registered
      <4>7. CASE ReloadDocker(c)
        BY <4>7 DEF ReloadDocker
      <4>8. CASE WaitForRuntime(c)
        BY <4>8 DEF WaitForRuntime, Registered
      <4>9. CASE RestoreFile(c)
        BY <4>9 DEF RestoreFile, Abandon
      <4>10. CASE Die(c)
        BY <4>10 DEF Die
      <4>. QED BY <2>1, <4>1, <4>2, <4>3, <4>4, <4>5, <4>6, <4>7, <4>8, <4>9,
                  <4>10 DEF Step
    <3>. QED BY <3>1 DEF IInv, TypeOK, CommandStates, Goto, Return, Idle, Steps
  <2>2. ASSUME NEW c \in Commands, RestoreSync(c) \/ ReloadAgain(c)
        PROVE  file' = cmd[d].original /\ disk' = cmd[d].original
    <3>0. \A y \in Commands \ {c} : cmd'[y] = cmd[y]
      <4>. USE DEF IInv, TypeOK
      <4>1. CASE RestoreSync(c)
        BY <4>1 DEF RestoreSync, Goto, Return, Abandon
      <4>2. CASE ReloadAgain(c) BY <4>2 DEF ReloadAgain, Return
      <4>. QED BY <2>2, <4>1, <4>2
    <3>1. c = d BY <3>0
    <3>2. CASE RestoreSync(c)
      BY <3>1, <3>2 DEF IInv, TypeOK, Progress, RestoreSync, Goto, Return,
           Abandon, Idle, CommandStates
    <3>3. CASE ReloadAgain(c)
      <4>1. cmd[c].pc = "again" /\ UNCHANGED <<file, disk>>
        BY <3>3 DEF ReloadAgain
      <4>2. ~Return(c, "idle")
        BY <3>1 DEF IInv, TypeOK, Return, Idle
      <4>3. cmd[c].changed BY <3>3, <4>2 DEF ReloadAgain
      <4>. QED BY <3>1, <4>1, <4>3 DEF IInv, Progress
    <3>. QED BY <2>2, <3>2, <3>3
  <2>3. ASSUME NEW c \in Commands, NEW e \in Wanted,
               NEW opts \in SUBSET {"force", "no-reload"},
               RunRegisterCommand(c, e, opts)
        PROVE  FALSE
    BY <2>3 DEF IInv, TypeOK, RunRegisterCommand, Idle, CommandStates
  <2>4. ~PowerLoss
    BY DEF PowerLoss, IInv, TypeOK, Running, Idle
  <2>5. ~UNCHANGED cmd
    OBVIOUS
  <2>. QED BY <2>1, <2>2, <2>3, <2>4, <2>5
           DEF Next, DaemonReloads, DaemonRestarts, ConfigureContainerSeccomp,
               StartContainer, Edit
<1>. QED BY Invariance, <1>1, PTL DEF Spec, RollbackComplete

\* The check of cmgr and the parser of the interceptor agree: a container
\* whose entry was found compatible is not run without its tweaks by it.
THEOREM TweaksApplied == Spec => TweakNotOmitted
<1>. DEFINE A == launch'.ran = "plain" /\ launch.ran # "plain"
                   => active # launch.entry /\ active \notin Wanted
<1>1. IInv /\ [Next]_vars => [A]_vars
  <2>. SUFFICES ASSUME IInv, Next, launch'.ran = "plain", launch.ran # "plain"
                PROVE  active # launch.entry /\ active \notin Wanted
    OBVIOUS
  <2>1. PICK r \in 1 .. 2, p \in BOOLEAN : StartContainer(r, p)
    <3>1. ASSUME NEW c \in Commands, Step(c) PROVE UNCHANGED launch
      BY <3>1, StepFrame
    <3>2. ASSUME NEW c \in Commands, NEW e \in Wanted,
                 NEW opts \in SUBSET {"force", "no-reload"},
                 RunRegisterCommand(c, e, opts)
          PROVE  UNCHANGED launch
      BY <3>2 DEF RunRegisterCommand, others
    <3>3. ASSUME NEW b \in Bases, NEW e \in Entries \cup {None}, Edit(b, e)
          PROVE  UNCHANGED launch
      BY <3>3 DEF Edit
    <3>4. DaemonReloads \/ DaemonRestarts \/ PowerLoss => UNCHANGED launch
      BY DEF DaemonReloads, DaemonRestarts, PowerLoss
    <3>5. ConfigureContainerSeccomp => launch'.ran = "no"
      BY DEF ConfigureContainerSeccomp
    <3>. QED BY <3>1, <3>2, <3>3, <3>4, <3>5 DEF Next
  <2>2. Invoke(active, r, p) = "plain"
    BY <2>1 DEF StartContainer
  <2>3. active # None /\ active.exe \notin Interceptors /\ active.args = <<>>
    BY <2>2 DEF Invoke, RunRuntime
  <2>4. active \notin Wanted
    BY <2>3 DEF Wanted
  <2>5. active # launch.entry
    <3>1. Compatible(launch.entry)
      BY <2>1 DEF IInv, Checked, StartContainer
    <3>2. SUFFICES ASSUME Parsed(<<>>) PROVE FALSE
      BY <2>3, <3>1 DEF Compatible
    <3>3. {i \in DOMAIN <<>> : <<>>[i] = "protocol"} = {}
      OBVIOUS
    <3>4. Count(<<>>, "protocol") # 1
      BY <3>3, FS_EmptySet DEF Count
    <3>. QED BY <3>2, <3>4 DEF Parsed
  <2>. QED BY <2>4, <2>5
<1>. QED BY Invariance, <1>1, PTL DEF Spec, TweakNotOmitted

=============================================================================
