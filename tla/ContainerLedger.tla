--------------------------- MODULE ContainerLedger ---------------------------
(***************************************************************************)
(* What Start, Stop, a rollback and start-up recovery promise together     *)
(* about each container, in terms of two stores that fail separately: the  *)
(* record the database has of it and its state in Docker.                  *)
(*                                                                         *)
(* "Treat every new container as retired until its active instance         *)
(* metadata commits" (startContainers in cmgr/docker.go): a container is   *)
(* recorded before it runs, becomes an instance's by a commit that takes   *)
(* it from the retired ones, and loses its record only when Docker has it  *)
(* no more.  Instances, networks, ports and requests are not mentioned;    *)
(* InstanceLifecycle, which has them, implements this.                     *)
(***************************************************************************)
EXTENDS Integers

CONSTANTS Containers, Instances

VARIABLES
  record,   \* record[c]: the instance of c, or Retired, or Unknown
  state     \* state[c]: "none", "created", "running", "exited"

Unknown == 0
Retired == -1

\* Containers that serve an instance, and containers yet to be created.
Init ==
  /\ record \in [Containers -> Instances \cup {Unknown}]
  /\ state = [c \in Containers |->
                IF record[c] = Unknown THEN "none" ELSE "running"]

SameRecord(c) == record'[c] = record[c]
SameState(c)  == state'[c] = state[c]

\* Docker creates a container that nothing mentions.
Create(c) == /\ state[c] = "none" /\ record[c] = Unknown
             /\ state'[c] = "created" /\ SameRecord(c)

\* It is recorded for removal until it is committed.
Retire(c) == /\ record[c] = Unknown
             /\ record'[c] = Retired /\ SameState(c)

\* Only a recorded container is started, or started again.
Run(c) == /\ record[c] # Unknown /\ state[c] \in {"created", "exited"}
          /\ state'[c] = "running" /\ SameRecord(c)

\* An instance gets its containers from the retired ones.
Commit(c) == /\ record[c] = Retired
             /\ record'[c] \in Instances /\ SameState(c)

Exit(c) == /\ state[c] = "running"
           /\ state'[c] = "exited" /\ SameRecord(c)

\* cmgr, or somebody else, removes a container.
Remove(c) == /\ state[c] # "none"
             /\ state'[c] = "none" /\ SameRecord(c)

\* A record goes with its container or after it.
Forget(c) == /\ record[c] # Unknown
             /\ record'[c] = Unknown /\ state'[c] = "none"

Moves(c) == \/ Create(c) \/ Retire(c) \/ Run(c) \/ Commit(c)
            \/ Exit(c) \/ Remove(c) \/ Forget(c)

\* A transaction, or a step of recovery, concerns any number of containers.
Next == \A c \in Containers : Moves(c) \/ (SameRecord(c) /\ SameState(c))

Spec == Init /\ [][Next]_<<record, state>>

\* A container that ever ran, and that Docker still has, is recorded.
RanIsRecorded ==
  \A c \in Containers : state[c] \in {"running", "exited"}
                          => record[c] # Unknown
=============================================================================
