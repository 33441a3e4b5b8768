----------------------------- MODULE StateStore -----------------------------
(***************************************************************************)
(* FileStateStore (internal/status/state_store.go, state_recovery.go) on   *)
(* top of saveEncodedFile (internal/keyregistry/state.go).                 *)
(*                                                                         *)
(* The registry lives in two files of one directory: the state and its     *)
(* replay checkpoint.  Each is replaced by writing a temporary file,       *)
(* renaming it over the old one, and syncing the directory.  A rename is   *)
(* visible at once and durable only after a directory sync.  "disk" is the *)
(* visible pair; "durable" is the set of pairs that a power loss may leave *)
(* behind: the pair of the last successful sync and every pair that a      *)
(* rename has made visible since (a journaling file system keeps the order *)
(* of the renames of one directory).                                       *)
(*                                                                         *)
(* Save, Recover and Load are called by one writer at a time, under the    *)
(* lock of LockState; "io" is the call in progress.  Its caller starts it  *)
(* with BeginSave, BeginRecover or BeginLoad and resumes when io.at is     *)
(* "ok" or "failed".  Options (a missing file, a nil previous state) are   *)
(* sets with at most one element.                                          *)
(***************************************************************************)
EXTENDS StateFiles

CONSTANT Faults    \* which of the faults below may happen

AllFaults == {"write",    \* a write fails before its rename: nothing changes
              "sync",     \* a rename succeeds and the directory sync fails
              "stop",     \* the process ends (kill, signal, panic): files stay
              "power"}    \* the host loses power: unsynced renames may vanish

ASSUME FaultsAssumption == Faults \subseteq AllFaults

VARIABLES disk,     \* [state, checkpoint]: the visible files
          durable,  \* the directory images a power loss can leave
          io        \* [at, next]: the store call in progress

storeVars == <<disk, durable, io>>

NoFiles == [state |-> {}, checkpoint |-> {}]

\* Both files agree on one state, or are both missing.
PairOf(option) == [state |-> option,
                   checkpoint |-> {NewStateCheckpoint(s) : s \in option}]

Idle == [at |-> "idle", next |-> {}]

StoreInit == /\ disk = NoFiles
             /\ durable = {NoFiles}
             /\ io = Idle

-----------------------------------------------------------------------------
(* saveEncodedFile, in two steps for each of the two files.                *)

\* Create, encode, chmod, sync and close of the temporary file and its rename.
\* Any of them may fail, and then the visible file is unchanged.
Rename(image, syncStep) ==
  \/ /\ disk' = image
     /\ durable' = durable \union {image}
     /\ io' = [io EXCEPT !.at = syncStep]
  \/ /\ "write" \in Faults
     /\ io' = [io EXCEPT !.at = "failed"]
     /\ UNCHANGED <<disk, durable>>

\* Mutant: the directory is not synced.
SyncParentDirSkipped(nextStep) ==
  io' = [io EXCEPT !.at = nextStep] /\ UNCHANGED <<disk, durable>>

\* syncParentDir: a barrier for every earlier rename in the directory.
SyncParentDir(nextStep) ==
  /\ \/ /\ durable' = {disk}
        /\ io' = [io EXCEPT !.at = nextStep]
     \/ /\ "sync" \in Faults
        /\ io' = [io EXCEPT !.at = "failed"]
        /\ UNCHANGED durable
  /\ UNCHANGED disk

WriteState ==
  /\ io.at = "state"
  /\ Rename([disk EXCEPT !.state = io.next], "stateSync")

SyncState ==
  /\ io.at = "stateSync"
  /\ SyncParentDir("checkpoint")

WriteCheckpoint ==
  /\ io.at = "checkpoint"
  /\ Rename([disk EXCEPT !.checkpoint =
               {NewStateCheckpoint(s) : s \in io.next}], "checkpointSync")

SyncCheckpoint ==
  /\ io.at = "checkpointSync"
  /\ SyncParentDir("ok")

StoreStep == WriteState \/ SyncState \/ WriteCheckpoint \/ SyncCheckpoint

-----------------------------------------------------------------------------
(* The calls.                                                              *)

\* Save: the state file first, then its checkpoint.
BeginSave(next) ==
  /\ io' = [at |-> "state", next |-> {next}]
  /\ UNCHANGED <<disk, durable>>

\* checkRecoveryFiles: both files hold only the confirmed state "previous" or
\* the attempted state; a file may be missing only during bootstrap, and a
\* checkpoint without a state is refused.
checkRecoveryFiles(image, previous, attempted) ==
  LET known == previous \union {attempted}
  IN /\ previous # {} => image.state # {} /\ image.checkpoint # {}
     /\ image.state \subseteq known
     /\ \A c \in image.checkpoint :
          /\ image.state # {}
          /\ \A s \in image.state : ValidateState(c, s)
          /\ c \in {NewStateCheckpoint(s) : s \in known}

\* validateRecoveryTransition: the attempt extends the confirmed state, or is
\* the first generation.
validateRecoveryTransition(previous, attempted) ==
  IF previous = {}
  THEN attempted.generation = 1 /\ attempted.previousHash = NoHash
  ELSE \A p \in previous : /\ attempted.generation > p.generation
                           /\ attempted.previousHash = computeHash(p)

\* Recover: refuse unrelated files, else repeat the whole save.
BeginRecover(previous, attempted) ==
  /\ io' = [at |-> IF /\ validateRecoveryTransition(previous, attempted)
                      /\ checkRecoveryFiles(disk, previous, attempted)
                   THEN "state" ELSE "failed",
            next |-> {attempted}]
  /\ UNCHANGED <<disk, durable>>

\* Confirm: both files still hold exactly the expected state; writes nothing.
Confirm(image, expected) == image = PairOf({expected})

\* Mutant: a state without a checkpoint is always a rollback.
LoadAssessmentNeedsCheckpoint(image) ==
  IF image.state = {} /\ image.checkpoint = {} THEN "absent"
  ELSE IF image.state = {} \/ image.checkpoint = {}
          \/ \E s \in image.state, c \in image.checkpoint : ~ValidateState(c, s)
  THEN "refused"
  ELSE IF \E s \in image.state, c \in image.checkpoint :
            s.generation > c.generation
  THEN "behind"
  ELSE "current"

\* What Load finds before it writes anything.  "absent" is ErrStateNotFound,
\* "refused" any rollback error, "behind" an interrupted save whose
\* checkpoint Load must still write, "current" a matching pair.
LoadAssessment(image) ==
  IF image.state = {}
  THEN IF image.checkpoint = {} THEN "absent" ELSE "refused"
  ELSE IF image.checkpoint = {} THEN "behind"
  ELSE IF \E s \in image.state, c \in image.checkpoint : ~ValidateState(c, s)
  THEN "refused"
  ELSE IF \E s \in image.state, c \in image.checkpoint :
            s.generation > c.generation
  THEN "behind"
  ELSE "current"

\* Load: completes an interrupted save by writing the checkpoint, and returns
\* a matching pair as it is.  An absent state is a result too (io.next = {}).
BeginLoad ==
  /\ io' = [at |-> IF LoadAssessment(disk) = "refused" THEN "failed"
                   ELSE IF LoadAssessment(disk) = "behind" THEN "checkpoint"
                   ELSE "ok",
            next |-> disk.state]
  /\ UNCHANGED <<disk, durable>>

-----------------------------------------------------------------------------
(* Faults of the host.                                                     *)

\* The process ends at any point: the visible files stay.
ProcessStops ==
  /\ "stop" \in Faults
  /\ io' = Idle
  /\ UNCHANGED <<disk, durable>>

\* The host loses power: one of the possible images is what remains.
PowerLoss ==
  /\ "power" \in Faults
  /\ \E image \in durable : disk' = image /\ durable' = {image}
  /\ io' = Idle

=============================================================================
