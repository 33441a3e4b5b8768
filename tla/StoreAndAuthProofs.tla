------------------------- MODULE StoreAndAuthProofs -------------------------
(***************************************************************************)
(* The two services that a node stands on: its state store and its token   *)
(* manager.  They share no state.                                          *)
(*                                                                         *)
(* The persistence protocol, for every set of Contents, every bound on the *)
(* generations and every combination of Faults.  Its inductive invariant   *)
(* says, stage by stage, which directory images are possible: the pair of  *)
(* the state the process starts from, the pair of the state it is about to *)
(* save, and the one image in between, in which the new state already has  *)
(* the old checkpoint.                                                     *)
(*                                                                         *)
(* The token manager, for every number of callers and tokens, every lease, *)
(* backoff and wall clock.                                                 *)
(***************************************************************************)
EXTENDS Persistence, AuthManager, TLAPS

-----------------------------------------------------------------------------
(* The state store.                                                        *)

\* An option of a state file.
IsOption(o) == o = {} \/ \E s \in o : o = {s} /\ IsState(s)

\* The images a save of "next" on top of "previous" moves through.
HalfSaved(previous, next) ==
  [state |-> {next}, checkpoint |-> PairOf(previous).checkpoint]

Between(previous, next) ==
  {PairOf(previous), HalfSaved(previous, next), PairOf({next})}

\* A directory that Load accepts: nothing at all, a matching pair, or a state
\* whose checkpoint is missing (generation one) or one generation behind.
Acceptable(image) ==
  \/ image = NoFiles
  \/ \E s \in image.state :
       /\ IsState(s)
       /\ \/ image = PairOf({s})
          \/ s.generation = 1 /\ image = HalfSaved({}, s)
          \/ \E c \in image.checkpoint :
               /\ image = [state |-> {s}, checkpoint |-> {c}]
               /\ c = [generation |-> c.generation,
                       currentHash |-> c.currentHash]
               /\ c.generation \in Nat
               /\ s.generation = c.generation + 1
               /\ s.previousHash = c.currentHash

\* A save of "next" on top of "previous" is under way and io is at its step.
Saving(previous, next) ==
  /\ IsOption(previous) /\ IsState(next) /\ Links(previous, next)
  /\ io.next = {next}
  /\ disk \in Between(previous, next)
  /\ io.at \in {"state", "stateSync", "checkpoint", "checkpointSync",
                "ok", "failed"}
  /\ io.at \in {"stateSync", "checkpoint"} => disk.state = {next}
  /\ io.at \in {"checkpointSync", "ok"} => disk = PairOf({next})

\* A commit that waits for its recovery.
Unsaved(c) ==
  /\ IsOption(c.previous) /\ IsState(c.next) /\ Links(c.previous, c.next)
  /\ disk \in Between(c.previous, c.next)

LoadingInv ==
  /\ published = {} /\ commit = {} /\ base = {}
  /\ holder \in Writers
  /\ io.next = disk.state
  /\ io.at \in {"checkpoint", "checkpointSync", "ok", "failed"}
  /\ io.at = "checkpoint" => disk.state # {}
  /\ io.at \in {"checkpointSync", "ok"} => disk = PairOf(io.next)

IdleInv ==
  /\ holder = "serve" /\ io = Idle
  /\ \/ commit = {} /\ disk = PairOf(published)
     \/ \E c \in commit : commit = {c} /\ Unsaved(c)

RecoveringInv ==
  /\ holder = "serve"
  /\ \E c \in commit : commit = {c} /\ Saving(c.previous, c.next)

ObservingInv ==
  /\ holder \in Writers /\ io = Idle
  /\ disk = PairOf(base)
  /\ holder = "cli" => published = {} /\ commit = {}
  /\ \/ commit = {} /\ (holder = "serve" => base = published)
     \/ \E c \in commit : /\ commit = {c} /\ base = {c.next}
                          /\ Unsaved(c)

SavingInv ==
  \/ /\ holder = "serve"
     /\ \E c \in commit : /\ commit = {c} /\ c.previous = base
                          /\ Saving(c.previous, c.next)
  \/ /\ holder = "cli" /\ published = {} /\ commit = {}
     /\ \E next \in io.next : Saving(base, next)

\* The inductive invariant.
ProtocolInv ==
  /\ disk \in durable
  /\ \A image \in durable : Acceptable(image)
  /\ io = [at |-> io.at, next |-> io.next]
  /\ IsOption(published) /\ IsOption(base) /\ IsOption(confirmed)
  /\ \/ /\ stage = "none" /\ holder = "none" /\ io = Idle
        /\ published = {} /\ commit = {} /\ base = {}
     \/ stage = "loading" /\ LoadingInv
     \/ stage = "idle" /\ IdleInv
     \/ stage = "recovering" /\ RecoveringInv
     \/ stage = "observing" /\ ObservingInv
     \/ stage = "saving" /\ SavingInv

-----------------------------------------------------------------------------
(* Facts about the values.                                                 *)

\* What Successors builds is a state that is linked to its predecessor.
LEMMA SuccessorsLinked ==
  ASSUME NEW o, IsOption(o), NEW next \in Successors(o)
  PROVE  IsState(next) /\ Links(o, next)
<1>1. CASE o = {}
  BY <1>1 DEF Successors, IsState, Links
<1>2. CASE \E s \in o : o = {s} /\ IsState(s)
  <2>1. PICK s \in o : o = {s} /\ IsState(s)
    BY <1>2
  <2>2. PICK c \in Contents :
          next = [generation |-> s.generation + 1,
                  previousHash |-> computeHash(s), content |-> c]
    BY <2>1 DEF Successors
  <2> QED
    BY <2>1, <2>2 DEF IsState, Links
<1> QED
  BY <1>1, <1>2 DEF IsOption

\* Every image of a save is one that Load accepts.
LEMMA BetweenAcceptable ==
  ASSUME NEW previous, IsOption(previous), NEW next, IsState(next),
         Links(previous, next), NEW image \in Between(previous, next)
  PROVE  Acceptable(image)
<1>1. CASE image = PairOf({next})
  BY <1>1, Zenon DEF Acceptable, PairOf
<1>2. CASE previous = {}
  <2>1. PairOf(previous) = NoFiles
    BY <1>2 DEF PairOf, NoFiles
  <2>2. CASE image = PairOf(previous)
    BY <2>1, <2>2 DEF Acceptable
  <2>3. CASE image = HalfSaved(previous, next)
    BY <1>2, <2>3, Zenon DEF Acceptable, HalfSaved, Links
  <2> QED
    BY <1>1, <2>2, <2>3 DEF Between
<1>3. CASE \E s \in previous : previous = {s} /\ IsState(s)
  <2>1. PICK s \in previous : previous = {s} /\ IsState(s)
    BY <1>3
  <2>2. CASE image = PairOf(previous)
    BY <2>1, <2>2, Zenon DEF Acceptable, PairOf
  <2>3. CASE image = HalfSaved(previous, next)
    <3>1. image = [state |-> {next}, checkpoint |-> {NewStateCheckpoint(s)}]
      BY <2>1, <2>3 DEF HalfSaved, PairOf
    <3>2. next.generation = s.generation + 1
          /\ next.previousHash = computeHash(s)
      BY <2>1 DEF Links
    <3> QED
      BY <2>1, <3>1, <3>2, Zenon DEF Acceptable, NewStateCheckpoint, IsState
  <2> QED
    BY <1>1, <2>2, <2>3 DEF Between
<1> QED
  BY <1>2, <1>3 DEF IsOption

\* What Load makes of an acceptable image.
LEMMA AcceptableLoads ==
  ASSUME NEW image, Acceptable(image)
  PROVE  /\ LoadAssessment(image) \in {"absent", "behind", "current"}
         /\ IsOption(image.state)
         /\ LoadAssessment(image) = "behind" => image.state # {}
         /\ LoadAssessment(image) # "behind" => image = PairOf(image.state)
<1>1. CASE image = NoFiles
  BY <1>1 DEF NoFiles, LoadAssessment, PairOf, IsOption
<1>2. CASE image # NoFiles
  <2>1. PICK s \in image.state :
          /\ IsState(s)
          /\ \/ image = PairOf({s})
             \/ s.generation = 1 /\ image = HalfSaved({}, s)
             \/ \E c \in image.checkpoint :
                  /\ image = [state |-> {s}, checkpoint |-> {c}]
                  /\ c = [generation |-> c.generation,
                          currentHash |-> c.currentHash]
                  /\ c.generation \in Nat
                  /\ s.generation = c.generation + 1
                  /\ s.previousHash = c.currentHash
    BY <1>2, Zenon DEF Acceptable
  <2>2. CASE image = PairOf({s})
    <3>1. image.state = {s} /\ image.checkpoint = {NewStateCheckpoint(s)}
      BY <2>2 DEF PairOf
    <3>2. ValidateState(NewStateCheckpoint(s), s)
          /\ ~(s.generation > NewStateCheckpoint(s).generation)
      BY <2>1 DEF ValidateState, NewStateCheckpoint, IsState
    <3>3. LoadAssessment(image) = "current"
      BY <3>1, <3>2 DEF LoadAssessment
    <3> QED
      BY <2>1, <2>2, <3>1, <3>3 DEF IsOption
  <2>3. CASE image = HalfSaved({}, s)
    <3>1. image.state = {s} /\ image.checkpoint = {}
      BY <2>3 DEF HalfSaved, PairOf
    <3>2. LoadAssessment(image) = "behind"
      BY <3>1 DEF LoadAssessment
    <3> QED
      BY <2>1, <3>1, <3>2 DEF IsOption
  <2>4. ASSUME NEW c \in image.checkpoint,
               image = [state |-> {s}, checkpoint |-> {c}],
               c.generation \in Nat,
               s.generation = c.generation + 1,
               s.previousHash = c.currentHash
        PROVE  LoadAssessment(image) = "behind" /\ image.state = {s}
    <3>1. image.state = {s} /\ image.checkpoint = {c}
      BY <2>4
    <3>2. ValidateState(c, s) /\ s.generation > c.generation
      BY <2>4 DEF ValidateState
    <3> QED
      BY <3>1, <3>2 DEF LoadAssessment
  <2> QED
    BY <2>1, <2>2, <2>3, <2>4 DEF IsOption
<1> QED
  BY <1>1, <1>2

\* Recover accepts every image of the save it repeats.
LEMMA BetweenRecovers ==
  ASSUME NEW previous, IsOption(previous), NEW next, IsState(next),
         Links(previous, next), NEW image \in Between(previous, next)
  PROVE  /\ validateRecoveryTransition(previous, next)
         /\ checkRecoveryFiles(image, previous, next)
<1>1. CASE previous = {}
  <2>1. validateRecoveryTransition(previous, next)
    BY <1>1 DEF validateRecoveryTransition, Links
  <2>2. \/ image = NoFiles
        \/ image = [state |-> {next}, checkpoint |-> {}]
        \/ image = [state |-> {next}, checkpoint |-> {NewStateCheckpoint(next)}]
    BY <1>1 DEF Between, HalfSaved, PairOf, NoFiles
  <2>3. ValidateState(NewStateCheckpoint(next), next)
    BY DEF ValidateState, NewStateCheckpoint
  <2> QED
    BY <1>1, <2>1, <2>2, <2>3 DEF checkRecoveryFiles, NoFiles
<1>2. CASE \E s \in previous : previous = {s} /\ IsState(s)
  <2>1. PICK s \in previous : previous = {s} /\ IsState(s)
    BY <1>2
  <2>2. next.generation = s.generation + 1 /\ next.previousHash = computeHash(s)
    BY <2>1 DEF Links
  <2>3. validateRecoveryTransition(previous, next)
    BY <2>1, <2>2 DEF validateRecoveryTransition, IsState
  <2>4. \/ image = [state |-> {s}, checkpoint |-> {NewStateCheckpoint(s)}]
        \/ image = [state |-> {next}, checkpoint |-> {NewStateCheckpoint(s)}]
        \/ image = [state |-> {next}, checkpoint |-> {NewStateCheckpoint(next)}]
    BY <2>1 DEF Between, HalfSaved, PairOf
  <2>5. /\ ValidateState(NewStateCheckpoint(next), next)
        /\ ValidateState(NewStateCheckpoint(s), s)
        /\ ValidateState(NewStateCheckpoint(s), next)
    BY <2>2 DEF ValidateState, NewStateCheckpoint
  <2> QED
    BY <2>1, <2>3, <2>4, <2>5 DEF checkRecoveryFiles
<1> QED
  BY <1>1, <1>2 DEF IsOption

-----------------------------------------------------------------------------
(* The inductive invariant.                                                *)

DiskInv ==
  /\ disk \in durable
  /\ \A image \in durable : Acceptable(image)
  /\ io = [at |-> io.at, next |-> io.next]

\* One step of a save keeps to the images between its two states.
LEMMA SavingStep ==
  ASSUME NEW previous, NEW next, Saving(previous, next), DiskInv, StoreStep
  PROVE  Saving(previous, next)' /\ DiskInv'
<1> USE DEF Saving, DiskInv
<1>0. /\ disk = [state |-> disk.state, checkpoint |-> disk.checkpoint]
      /\ disk \in {PairOf(previous), HalfSaved(previous, next), PairOf({next})}
      /\ IsOption(previous) /\ IsState(next) /\ Links(previous, next)
  BY DEF Between, HalfSaved, PairOf
<1>1. ASSUME NEW image \in Between(previous, next), NEW step,
             Rename(image, step), UNCHANGED io.next
      PROVE  DiskInv'
  <2>1. Acceptable(image)
    BY <1>0, BetweenAcceptable
  <2> QED
    BY <1>1, <2>1 DEF Rename
<1>2. CASE WriteState
  <2>1. [disk EXCEPT !.state = io.next] \in
          {HalfSaved(previous, next), PairOf({next})}
    BY <1>0 DEF HalfSaved, PairOf
  <2>2. Saving(previous, next)'
    BY <1>2, <2>1 DEF WriteState, Rename, Between, HalfSaved, PairOf
  <2>3. DiskInv'
    BY <1>1, <1>2, <2>1, Zenon DEF WriteState, Rename, Between
  <2> QED
    BY <2>2, <2>3
<1>3. CASE SyncState
  BY <1>3 DEF SyncState, SyncParentDir
<1>4. CASE WriteCheckpoint
  <2>1. [disk EXCEPT !.checkpoint = {NewStateCheckpoint(s) : s \in io.next}]
          = PairOf({next})
    BY <1>0, <1>4 DEF WriteCheckpoint, HalfSaved, PairOf
  <2>2. Saving(previous, next)'
    BY <1>4, <2>1 DEF WriteCheckpoint, Rename, Between
  <2>3. DiskInv'
    <3>1. Rename(PairOf({next}), "checkpointSync")
      BY <1>4, <2>1, Zenon DEF WriteCheckpoint
    <3>2. UNCHANGED io.next
      BY ONLY <3>1, DiskInv DEF Rename, DiskInv
    <3>3. PairOf({next}) \in Between(previous, next)
      BY ONLY Zenon DEF Between
    <3>. QED BY <1>1, <3>1, <3>2, <3>3, Zenon
  <2> QED
    BY <2>2, <2>3
<1>5. CASE SyncCheckpoint
  BY <1>5 DEF SyncCheckpoint, SyncParentDir
<1> QED
  BY <1>2, <1>3, <1>4, <1>5 DEF StoreStep

\* No files and no process: the inductive invariant holds initially.
LEMMA InitInv == Init => ProtocolInv
BY DEF Init, StoreInit, ProtocolInv, Acceptable, Idle, IsOption

\* Leaving the process keeps the files and forgets everything else.
LEMMA ExitInv ==
  ASSUME DiskInv', Exit, io' = Idle, IsOption(confirmed')
  PROVE  ProtocolInv'
BY DEF DiskInv, Exit, ProtocolInv, Idle, IsOption

\* Taking the lock and assessing the files.
LEMMA StartStep ==
  ASSUME ProtocolInv, NEW w \in Writers, Start(w)
  PROVE  ProtocolInv'
<1>1. /\ Acceptable(disk)
      /\ published = {} /\ commit = {} /\ base = {} /\ IsOption(confirmed)
  BY DEF ProtocolInv, LoadingInv, IdleInv, RecoveringInv, ObservingInv, SavingInv,
         Start, Writers
<1>2. DiskInv'
  BY DEF ProtocolInv, DiskInv, Start, BeginLoad
<1>3. LoadingInv'
  BY <1>1, AcceptableLoads DEF LoadingInv, Start, BeginLoad
<1> QED
  BY <1>1, <1>2, <1>3 DEF ProtocolInv, DiskInv, Start, IsOption

\* Load returns to serve or to a command, or ends the process.
LEMMA LoadSteps ==
  ASSUME ProtocolInv, ServeLoaded \/ CliLoaded \/ LoadFailed
  PROVE  ProtocolInv'
<1>1. /\ LoadingInv /\ DiskInv /\ IsOption(confirmed)
      /\ IsOption(disk.state) /\ io.next = disk.state
  BY AcceptableLoads DEF ProtocolInv, DiskInv, LoadingInv, ServeLoaded, CliLoaded,
                         LoadFailed
<1>2. DiskInv'
  BY <1>1 DEF DiskInv, ServeLoaded, CliLoaded, LoadFailed, Return, Idle
<1>3. CASE ServeLoaded
  <2>1. IdleInv'
    BY <1>1, <1>3 DEF ServeLoaded, LoadingInv, IdleInv, Return
  <2> QED
    BY <1>1, <1>2, <1>3, <2>1 DEF ServeLoaded, ProtocolInv, DiskInv, LoadingInv, IsOption
<1>4. CASE CliLoaded
  <2>1. ObservingInv'
    BY <1>1, <1>4 DEF CliLoaded, LoadingInv, ObservingInv, Return, Writers
  <2> QED
    BY <1>1, <1>2, <1>4, <2>1 DEF CliLoaded, ProtocolInv, DiskInv, LoadingInv
<1>5. CASE LoadFailed
  BY <1>1, <1>2, <1>5, ExitInv DEF LoadFailed, Return
<1> QED
  BY <1>3, <1>4, <1>5

\* The steps of a metadata probe between its store calls.
LEMMA ProbeSteps ==
  ASSUME ProtocolInv, ServeProbe
  PROVE  ProtocolInv'
<1>0. DiskInv /\ IsOption(published) /\ IsOption(base) /\ IsOption(confirmed)
  BY DEF ProtocolInv, DiskInv
<1>1. CASE ProbeFromPublished
  <2>1. IdleInv /\ commit = {} /\ disk = PairOf(published)
    BY <1>1 DEF ProtocolInv, ProbeFromPublished, IdleInv
  <2>2. ObservingInv'
    BY <1>1, <2>1 DEF ProbeFromPublished, IdleInv, ObservingInv, storeVars, Writers
  <2> QED
    BY <1>0, <1>1, <2>2 DEF ProtocolInv, DiskInv, ProbeFromPublished, storeVars
<1>2. CASE ProbeFromCommit
  <2>1. PICK c \in commit : commit = {c} /\ Unsaved(c)
    BY <1>2 DEF ProtocolInv, ProbeFromCommit, IdleInv
  <2>2. BeginRecover(c.previous, c.next)
    BY <1>2, <2>1 DEF ProbeFromCommit
  <2>3. io' = [at |-> "state", next |-> {c.next}] /\ UNCHANGED <<disk, durable>>
    BY <2>1, <2>2, BetweenRecovers DEF BeginRecover, Unsaved
  <2>4. Saving(c.previous, c.next)'
    BY <2>1, <2>3 DEF Saving, Unsaved
  <2>5. RecoveringInv'
    BY <1>2, <2>1, <2>4 DEF ProbeFromCommit, RecoveringInv
  <2> QED
    BY <1>0, <1>2, <2>3, <2>5 DEF ProtocolInv, DiskInv, ProbeFromCommit
<1>3. CASE RecoverDone
  <2>1. PICK c \in commit : commit = {c} /\ Saving(c.previous, c.next)
    BY <1>3 DEF ProtocolInv, RecoverDone, RecoveringInv
  <2>2. holder = "serve" /\ disk = PairOf({c.next})
    BY <1>3, <2>1 DEF ProtocolInv, RecoverDone, RecoveringInv, Saving
  <2>3. base' = {c.next} /\ Unsaved(c)'
    BY <1>3, <2>1, <2>2 DEF RecoverDone, Saving, Unsaved, Return
  <2>4. ObservingInv'
    BY <1>3, <2>1, <2>2, <2>3 DEF RecoverDone, ObservingInv, Return, Writers
  <2>5. IsOption(base')
    BY <2>1, <2>3 DEF IsOption, Saving
  <2> QED
    BY <1>0, <1>3, <2>4, <2>5 DEF ProtocolInv, DiskInv, RecoverDone, Return, Idle
<1>4. CASE RecoverFailed
  <2>1. PICK c \in commit : commit = {c} /\ Saving(c.previous, c.next)
    BY <1>4 DEF ProtocolInv, RecoverFailed, RecoveringInv
  <2>2. IdleInv'
    BY <1>4, <2>1 DEF ProtocolInv, RecoverFailed, RecoveringInv, IdleInv, Saving,
                      Unsaved, Return
  <2> QED
    BY <1>0, <1>4, <2>2 DEF ProtocolInv, DiskInv, RecoverFailed, Return, Idle
<1>5. CASE ObserveFailed
  <2>1. ObservingInv
    BY <1>5 DEF ProtocolInv, ObserveFailed
  <2>2. IdleInv'
    BY <1>5, <2>1 DEF ObserveFailed, ObservingInv, IdleInv, Unsaved, storeVars
  <2> QED
    BY <1>0, <1>5, <2>2 DEF ProtocolInv, DiskInv, ObserveFailed, storeVars
<1>6. CASE ObserveUnchanged
  <2>1. ObservingInv
    BY <1>6 DEF ProtocolInv, ObserveUnchanged
  <2>2. IdleInv'
    BY <1>6, <2>1 DEF ObserveUnchanged, Publish, ObservingInv, IdleInv, storeVars
  <2> QED
    BY <1>0, <1>6, <2>2 DEF ProtocolInv, DiskInv, ObserveUnchanged, Publish, storeVars
<1>7. CASE ObserveChanged
  <2>1. ObservingInv
    BY <1>7 DEF ProtocolInv, ObserveChanged
  <2>2. PICK next \in Successors(base) :
          commit' = {[previous |-> base, next |-> next]} /\ BeginSave(next)
    BY <1>7 DEF ObserveChanged
  <2>3. IsState(next) /\ Links(base, next)
    BY <1>0, <2>2, SuccessorsLinked
  <2>4. Saving(base, next)'
    BY <1>0, <1>7, <2>1, <2>2, <2>3
       DEF ObserveChanged, ObservingInv, BeginSave, Saving, Between
  <2>5. SavingInv'
    BY <1>7, <2>2, <2>4, ZenonT(30) DEF ObserveChanged, SavingInv
  <2> QED
    BY <1>0, <1>7, <2>2, <2>5 DEF ProtocolInv, DiskInv, ObserveChanged, BeginSave
<1>8. CASE SaveDone
  <2>1. PICK c \in commit : commit = {c} /\ Saving(c.previous, c.next)
    BY <1>8 DEF ProtocolInv, SaveDone, SavingInv
  <2>2. IdleInv' /\ IsOption(published')
    BY <1>8, <2>1 DEF SaveDone, Publish, IdleInv, Saving, Return, IsOption
  <2> QED
    BY <1>0, <1>8, <2>2 DEF ProtocolInv, DiskInv, SaveDone, Publish, Return, Idle
<1>9. CASE SaveFailed
  <2>1. PICK c \in commit : commit = {c} /\ Saving(c.previous, c.next)
    BY <1>9 DEF ProtocolInv, SaveFailed, SavingInv
  <2>2. IdleInv'
    BY <1>9, <2>1 DEF SaveFailed, IdleInv, Saving, Unsaved, Return
  <2> QED
    BY <1>0, <1>9, <2>2 DEF ProtocolInv, DiskInv, SaveFailed, Return, Idle
<1> QED
  BY <1>1, <1>2, <1>3, <1>4, <1>5, <1>6, <1>7, <1>8, <1>9 DEF ServeProbe

\* The steps of a command between its store calls.
LEMMA CliSteps ==
  ASSUME ProtocolInv, CliSave \/ CliExit
  PROVE  ProtocolInv'
<1>0. DiskInv /\ IsOption(published) /\ IsOption(base) /\ IsOption(confirmed)
  BY DEF ProtocolInv, DiskInv
<1>1. CASE CliSave
  <2>1. ObservingInv
    BY <1>1 DEF ProtocolInv, CliSave
  <2>2. PICK next \in Successors(base) : BeginSave(next)
    BY <1>1 DEF CliSave
  <2>3. IsState(next) /\ Links(base, next)
    BY <1>0, <2>2, SuccessorsLinked
  <2>4. Saving(base, next)' /\ io'.next = {next}
    BY <1>0, <1>1, <2>1, <2>2, <2>3
       DEF CliSave, ObservingInv, BeginSave, Saving, Between
  <2>5. SavingInv'
    BY <1>1, <2>1, <2>4 DEF CliSave, SavingInv, ObservingInv
  <2> QED
    BY <1>0, <1>1, <2>2, <2>5 DEF ProtocolInv, DiskInv, CliSave, BeginSave
<1>2. CASE CliExit
  <2>1. DiskInv' /\ io' = Idle
    BY <1>0, <1>2 DEF DiskInv, CliExit, Return, Idle
  <2> QED
    BY <1>0, <1>2, <2>1, ExitInv DEF CliExit
<1> QED
  BY <1>1, <1>2

\* A store call belongs to the load, the recovery or the save in progress.
LEMMA StoreProgressStep ==
  ASSUME ProtocolInv, StoreProgress
  PROVE  ProtocolInv'
<1> USE DEF StoreProgress, procVars
<1>0. DiskInv /\ IsOption(published) /\ IsOption(base) /\ IsOption(confirmed)
  BY DEF ProtocolInv, DiskInv
<1>1. stage \in {"loading", "recovering", "saving"}
  BY DEF ProtocolInv, IdleInv, ObservingInv, Idle, StoreStep, WriteState, SyncState,
         WriteCheckpoint, SyncCheckpoint
<1>2. CASE stage = "loading"
  <2>1. LoadingInv /\ IsOption(disk.state)
    BY <1>0, <1>2, AcceptableLoads DEF ProtocolInv, DiskInv
  <2>2. CASE WriteCheckpoint
    <3>1. PICK s \in disk.state : disk.state = {s} /\ IsState(s)
      BY <2>1, <2>2 DEF LoadingInv, WriteCheckpoint, IsOption
    <3>2. disk = [state |-> disk.state, checkpoint |-> disk.checkpoint]
      BY <1>0 DEF DiskInv, Acceptable, NoFiles, PairOf, HalfSaved
    <3>3. [disk EXCEPT !.checkpoint = {NewStateCheckpoint(x) : x \in io.next}]
            = PairOf({s})
      BY <2>1, <3>1, <3>2 DEF LoadingInv, PairOf
    <3>4. Acceptable(PairOf({s}))
      BY <3>1, Zenon DEF Acceptable, PairOf
    <3>5. DiskInv'
      BY <1>0, <2>2, <3>3, <3>4, Zenon DEF DiskInv, WriteCheckpoint, Rename
    <3>6. LoadingInv'
      BY <1>0, <2>1, <2>2, <3>1, <3>3, ZenonT(30)
         DEF LoadingInv, DiskInv, WriteCheckpoint, Rename, PairOf
    <3> QED
      BY <1>0, <1>2, <3>5, <3>6 DEF ProtocolInv, DiskInv
  <2>3. CASE SyncCheckpoint
    <3>1. DiskInv' /\ LoadingInv'
      BY <1>0, <2>1, <2>3
         DEF DiskInv, LoadingInv, SyncCheckpoint, SyncParentDir
    <3> QED
      BY <1>0, <1>2, <3>1 DEF ProtocolInv, DiskInv
  <2> QED
    BY <2>1, <2>2, <2>3
       DEF LoadingInv, StoreStep, WriteState, SyncState
<1>3. CASE stage = "recovering"
  <2>1. PICK c \in commit : commit = {c} /\ Saving(c.previous, c.next)
    BY <1>3 DEF ProtocolInv, RecoveringInv
  <2>2. Saving(c.previous, c.next)' /\ DiskInv'
    BY <1>0, <2>1, SavingStep
  <2>3. RecoveringInv'
    BY <1>3, <2>1, <2>2 DEF ProtocolInv, RecoveringInv
  <2> QED
    BY <1>0, <1>3, <2>2, <2>3 DEF ProtocolInv, DiskInv
<1>4. CASE stage = "saving"
  <2>0. SavingInv
    BY <1>4 DEF ProtocolInv
  <2>1. CASE holder = "serve"
    <3>1. PICK c \in commit :
            commit = {c} /\ c.previous = base /\ Saving(c.previous, c.next)
      BY <2>0, <2>1 DEF SavingInv
    <3>2. Saving(c.previous, c.next)' /\ DiskInv'
      BY <1>0, <3>1, SavingStep
    <3>3. SavingInv'
      BY <2>1, <3>1, <3>2 DEF SavingInv
    <3> QED
      BY <1>0, <1>4, <3>2, <3>3 DEF ProtocolInv, DiskInv
  <2>2. CASE holder = "cli"
    <3>1. published = {} /\ commit = {}
          /\ \E next \in io.next : Saving(base, next)
      BY <2>0, <2>2 DEF SavingInv
    <3>2. PICK next : Saving(base, next)
      BY <3>1
    <3>3. Saving(base, next)' /\ DiskInv'
      BY <1>0, <3>2, SavingStep
    <3>4. next \in io'.next
      BY <3>3 DEF Saving
    <3>5. SavingInv'
      BY <2>2, <3>1, <3>3, <3>4 DEF SavingInv
    <3> QED
      BY <1>0, <1>4, <3>3, <3>5 DEF ProtocolInv, DiskInv
  <2> QED
    BY <2>0, <2>1, <2>2 DEF SavingInv
<1> QED
  BY <1>1, <1>2, <1>3, <1>4

\* A stop leaves the files, a power loss one of the durable images.
LEMMA FaultSteps ==
  ASSUME ProtocolInv, ProcessStop \/ HostLosesPower
  PROVE  ProtocolInv'
<1>1. DiskInv' /\ io' = Idle /\ Exit /\ IsOption(confirmed')
  BY DEF ProtocolInv, DiskInv, ProcessStop, HostLosesPower, ProcessStops, PowerLoss,
         Idle, IsOption
<1> QED
  BY <1>1, ExitInv

\* Every step keeps the inductive invariant.
LEMMA NextInv == ProtocolInv /\ [Next]_vars => ProtocolInv'
<1> SUFFICES ASSUME ProtocolInv, [Next]_vars PROVE ProtocolInv'
  OBVIOUS
<1>1. CASE UNCHANGED vars
  BY <1>1, ZenonT(30) DEF vars, ProtocolInv, LoadingInv, IdleInv, RecoveringInv, ObservingInv,
              SavingInv, Saving, Unsaved
<1>2. CASE \E w \in Writers : Start(w)
  BY <1>2, StartStep
<1>3. CASE ServeLoaded \/ CliLoaded \/ LoadFailed
  BY <1>3, LoadSteps
<1>4. CASE ServeProbe
  BY <1>4, ProbeSteps
<1>5. CASE CliSave \/ CliExit
  BY <1>5, CliSteps
<1>6. CASE StoreProgress
  BY <1>6, StoreProgressStep
<1>7. CASE ProcessStop \/ HostLosesPower
  BY <1>7, FaultSteps
<1> QED
  BY <1>1, <1>2, <1>3, <1>4, <1>5, <1>6, <1>7 DEF Next

\* Hence it is invariant.
LEMMA InvHolds == Spec => []ProtocolInv
BY InitInv, NextInv, PTL DEF Spec

-----------------------------------------------------------------------------
(* The theorems.                                                           *)

\* Every variable keeps its shape, and a stage belongs to the process that
\* holds the state lock (LockState), through every load, save, recovery,
\* process stop and power loss.
THEOREM TypeCorrect == Spec => []TypeOK
<1>1. ProtocolInv => TypeOK
  <2> SUFFICES ASSUME ProtocolInv PROVE TypeOK
    OBVIOUS
  <2>1. IsOption(disk.state) /\ disk \in durable
    BY AcceptableLoads DEF ProtocolInv
  <2>2. /\ (holder = "none") <=> (stage = "none")
        /\ holder \in {"none"} \union Writers
        /\ stage \in {"none", "loading", "idle", "recovering", "observing",
                     "saving"}
    BY DEF ProtocolInv, LoadingInv, IdleInv, RecoveringInv, ObservingInv, SavingInv,
           Writers
  <2>3. \/ io = Idle
        \/ stage = "loading" /\ LoadingInv
        \/ \E previous, next : Saving(previous, next)
    BY DEF ProtocolInv, IdleInv, RecoveringInv, ObservingInv, SavingInv
  <2>4. /\ io.at \in {"idle", "state", "stateSync", "checkpoint",
                      "checkpointSync", "ok", "failed"}
        /\ IsOption(io.next)
    <3>1. CASE io = Idle
      BY <3>1 DEF Idle, IsOption
    <3>2. CASE LoadingInv
      BY <2>1, <3>2 DEF LoadingInv
    <3>3. ASSUME NEW previous, NEW next, Saving(previous, next)
          PROVE  /\ io.at \in {"state", "stateSync", "checkpoint",
                               "checkpointSync", "ok", "failed"}
                 /\ IsOption(io.next)
      BY <3>3 DEF Saving, IsOption
    <3> QED
      BY <2>3, <3>1, <3>2, <3>3
  <2>5. IsOption(published) /\ IsOption(base) /\ IsOption(confirmed)
    BY DEF ProtocolInv
  <2> QED
    BY <2>1, <2>2, <2>4, <2>5 DEF TypeOK, IsOption
<1> QED
  BY <1>1, InvHolds, PTL

\* FileStateStore.Load never refuses a directory that serve and the CLI left
\* behind, wherever a process stop, a write or sync failure or a power loss
\* interrupted them.
THEOREM ReloadAlwaysAccepts == Spec => []ReloadAccepts
<1>1. ProtocolInv => ReloadAccepts
  BY AcceptableLoads DEF ProtocolInv, ReloadAccepts
<1> QED
  BY <1>1, InvHolds, PTL

\* FileStateStore.Recover never refuses the files while a failed save is
\* remembered in Controller.pendingCommit, so a serve process cannot lock
\* itself out of its own registry.
THEOREM RecoverAlwaysAccepts == Spec => []RecoverNeverWedges
<1>1. ProtocolInv => RecoverNeverWedges
  <2> SUFFICES ASSUME ProtocolInv, NEW c \in commit
               PROVE  /\ validateRecoveryTransition(c.previous, c.next)
                      /\ checkRecoveryFiles(disk, c.previous, c.next)
    BY DEF RecoverNeverWedges
  <2>1. /\ IsOption(c.previous) /\ IsState(c.next) /\ Links(c.previous, c.next)
        /\ disk \in Between(c.previous, c.next)
    BY Zenon DEF ProtocolInv, LoadingInv, IdleInv, RecoveringInv, ObservingInv, SavingInv,
           Saving, Unsaved
  <2> QED
    BY <2>1, BetweenRecovers
<1> QED
  BY <1>1, InvHolds, PTL

\* The visible state file changes only by the first rename of a save, and then
\* to the state that the save is for.
LEMMA DiskStateStep ==
  ASSUME ProtocolInv, [Next]_vars, ~HostLosesPower
  PROVE  \/ disk'.state = disk.state
         \/ \E s : IsState(s) /\ disk'.state = {s} /\ Links(disk.state, s)
<1>1. CASE StoreProgress
  <2>1. CASE WriteState
    <3>0. RecoveringInv \/ SavingInv
      BY <2>1 DEF ProtocolInv, LoadingInv, IdleInv, ObservingInv, Idle, WriteState
    <3>1. PICK previous, next : Saving(previous, next)
      BY <3>0, ZenonT(30) DEF RecoveringInv, SavingInv
    <3>2. disk.state \in {previous, {next}}
      BY <3>1 DEF Saving, Between, HalfSaved, PairOf
    <3>3. disk = [state |-> disk.state, checkpoint |-> disk.checkpoint]
      BY <3>1 DEF Saving, Between, HalfSaved, PairOf
    <3>4. disk'.state \in {disk.state, {next}}
      BY <2>1, <3>1, <3>3 DEF WriteState, Rename, Saving
    <3> QED
      BY <3>1, <3>2, <3>4, Zenon DEF Saving
  <2>2. CASE WriteCheckpoint
    <3>1. disk = [state |-> disk.state, checkpoint |-> disk.checkpoint]
      BY DEF ProtocolInv, Acceptable, NoFiles, PairOf, HalfSaved
    <3> QED
      BY <2>2, <3>1 DEF WriteCheckpoint, Rename
  <2> QED
    BY <1>1, <2>1, <2>2
       DEF StoreProgress, StoreStep, SyncState, SyncCheckpoint, SyncParentDir
<1> QED
  BY <1>1, Zenon DEF Next, vars, Start, BeginLoad, ServeLoaded, CliLoaded, LoadFailed,
              Return, ServeProbe, ProbeFromPublished, ProbeFromCommit,
              BeginRecover, RecoverDone, RecoverFailed, ObserveFailed,
              ObserveUnchanged, ObserveChanged, BeginSave, SaveDone, SaveFailed,
              CliSave, CliExit, ProcessStop, ProcessStops, storeVars

\* The visible generations form one chain: each is the hash-linked successor
\* of the one before, whichever of serve and the CLI wrote it and however its
\* save was interrupted, except for what a power loss undoes.
THEOREM GenerationsChain == Spec => HashChain
<1>1. ProtocolInv /\ [Next]_vars =>
        [HostLosesPower \/ \A s \in disk'.state : \/ disk'.state = disk.state
                                                \/ Links(disk.state, s)]_vars
  BY DiskStateStep
<1> QED
  BY <1>1, InvHolds, PTL DEF Spec, HashChain

\* As long as the host keeps its power, a restart never loads a state that is
\* older than one serve has published: the save comes before the publication,
\* and the files only move forward.
THEOREM PublishedStaysOnDisk == Spec => []ConfirmedOnDisk
<1>1. Init => ConfirmedOnDisk
  BY DEF Init, ConfirmedOnDisk, Covers
<1>2. ProtocolInv /\ ConfirmedOnDisk /\ [Next]_vars => ConfirmedOnDisk'
  <2> SUFFICES ASSUME ProtocolInv, ConfirmedOnDisk, [Next]_vars
               PROVE  ConfirmedOnDisk'
    OBVIOUS
  <2>0. CASE HostLosesPower
    <3>1. confirmed' = {}
      BY <2>0, Zenon DEF HostLosesPower
    <3>. QED BY ONLY <3>1 DEF ConfirmedOnDisk, Covers
  <2>1. \/ HostLosesPower \/ confirmed' = confirmed
        \/ confirmed' = disk'.state
    <3>1. CASE ServeLoaded
      <4>1. stage = "loading" /\ disk' = disk /\ confirmed' \in {confirmed, io.next}
        BY <3>1, Zenon DEF ServeLoaded, Return
      <4>2. io.next = disk.state
        BY <4>1, Zenon DEF ProtocolInv, LoadingInv
      <4>. QED BY <4>1, <4>2, Zenon
    <3>2. CASE ObserveUnchanged
      <4>1. stage = "observing" /\ disk' = disk /\ confirmed' = base
        BY <3>2, Zenon DEF ObserveUnchanged, Publish, storeVars
      <4>2. disk = PairOf(base)
        BY <4>1, ZenonT(30) DEF ProtocolInv, ObservingInv
      <4>. QED BY <4>1, <4>2 DEF PairOf
    <3>3. CASE SaveDone
      <4>1. stage = "saving" /\ io.at = "ok" /\ disk' = disk /\ confirmed' = io.next
        BY <3>3, Zenon DEF SaveDone, Publish, Return
      <4>2. SavingInv
        BY <4>1, Zenon DEF ProtocolInv
      <4>3. PICK previous, next : Saving(previous, next)
        BY <4>2, Zenon DEF SavingInv
      <4>. QED BY ONLY <4>1, <4>3 DEF Saving, PairOf
    <3>4. CASE ~ServeLoaded /\ ~ObserveUnchanged /\ ~SaveDone
      BY <3>4, ZenonT(30) DEF Next, vars, procVars, Start, CliLoaded, LoadFailed, ServeProbe,
           ProbeFromPublished, ProbeFromCommit, RecoverDone, RecoverFailed, ObserveFailed,
           ObserveChanged, SaveFailed, CliSave, CliExit, StoreProgress, ProcessStop
    <3>. QED BY <3>1, <3>2, <3>3, <3>4, Zenon
  <2>2. CASE confirmed' = disk'.state
    BY <2>2 DEF ConfirmedOnDisk, Covers
  <2>3. CASE confirmed' = confirmed /\ ~HostLosesPower
    <3> SUFFICES ASSUME NEW p \in confirmed
                 PROVE  \E s \in disk'.state :
                          s = p \/ s.generation > p.generation
      BY <2>3 DEF ConfirmedOnDisk, Covers
    <3>1. PICK s \in disk.state : s = p \/ s.generation > p.generation
      BY DEF ConfirmedOnDisk, Covers
    <3>2. IsOption(disk.state) /\ IsOption(confirmed)
      BY AcceptableLoads DEF ProtocolInv
    <3>3. IsState(s) /\ IsState(p) /\ disk.state = {s}
      BY <3>1, <3>2 DEF IsOption
    <3>4. CASE disk'.state = disk.state
      BY <3>1, <3>4
    <3>5. ASSUME NEW n, IsState(n), disk'.state = {n}, Links(disk.state, n)
          PROVE  n.generation > p.generation
      BY <3>1, <3>3, <3>5 DEF Links, IsState
    <3> QED
      BY <2>3, <3>4, <3>5, DiskStateStep
  <2> QED
    BY <2>0, <2>1, <2>2, <2>3
<1> QED
  BY <1>1, <1>2, InvHolds, PTL DEF Spec

\* After a completed save or recovery nothing is left for a power loss to undo,
\* and the process writes nothing before it publishes or saves again.
SyncedInv ==
  /\ stage \in {"recovering", "saving"} /\ io.at = "ok" => durable = {disk}
  /\ stage = "observing" /\ commit # {} => durable = {disk}

\* A store call ends well only at its last directory sync.
LEMMA SyncedHolds == Spec => []SyncedInv
<1>1. Init => SyncedInv
  BY DEF Init, SyncedInv
<1>2. ProtocolInv /\ SyncedInv /\ [Next]_vars => SyncedInv'
  <2> SUFFICES ASSUME ProtocolInv, SyncedInv, [Next]_vars PROVE SyncedInv'
    OBVIOUS
  <2>1. CASE UNCHANGED vars
    BY <2>1 DEF vars, SyncedInv
  <2>2. CASE StoreProgress
    <3>1. io = [at |-> io.at, next |-> io.next]
      BY DEF ProtocolInv
    <3>2. io'.at = "ok" => durable' = {disk'}
      BY <2>2, <3>1 DEF StoreProgress, StoreStep, WriteState, SyncState,
                        WriteCheckpoint, SyncCheckpoint, Rename, SyncParentDir
    <3>3. stage = "observing" => io.at = "idle"
      BY DEF ProtocolInv, ObservingInv, Idle
    <3> QED
      BY <2>2, <3>2, <3>3 DEF SyncedInv, StoreProgress, procVars, StoreStep,
           WriteState, SyncState, WriteCheckpoint, SyncCheckpoint
  <2>3. CASE ServeProbe
    BY <2>3 DEF SyncedInv, ServeProbe, ProbeFromPublished, ProbeFromCommit,
         BeginRecover, RecoverDone, RecoverFailed, ObserveFailed,
         ObserveUnchanged, ObserveChanged, BeginSave, SaveDone, SaveFailed,
         Publish, Return, storeVars
  <2>4. CASE CliLoaded \/ CliSave
    BY <2>4 DEF SyncedInv, ProtocolInv, LoadingInv, CliLoaded, CliSave, BeginSave,
         Return
  <2>5. CASE \/ \E w \in Writers : Start(w)
             \/ ServeLoaded \/ LoadFailed \/ CliExit
             \/ ProcessStop \/ HostLosesPower
    BY <2>5, Zenon DEF SyncedInv, Start, ServeLoaded, LoadFailed, CliExit, Exit,
         ProcessStop, HostLosesPower
  <2> QED
    BY <2>1, <2>2, <2>3, <2>4, <2>5 DEF Next
<1> QED
  BY <1>1, <1>2, InvHolds, PTL DEF Spec

\* Controller.pendingCommit is cleared by a running serve only together with
\* the publication of a state that is on disk for good: no fault of the host
\* that comes later takes the node back behind a resolved attempt.
THEOREM ResolvedIsDurable == Spec => CommitDurable
<1>1. ProtocolInv /\ SyncedInv /\ [Next]_vars =>
        [commit # {} /\ commit' = {} /\ holder' = "serve" =>
           \A image \in durable' : Covers(image, published')]_vars
  <2> SUFFICES ASSUME ProtocolInv, SyncedInv, Next,
                      commit # {}, commit' = {}, holder' = "serve"
               PROVE  \A image \in durable' : Covers(image, published')
    OBVIOUS
  <2>1. ObserveUnchanged \/ SaveDone
    BY ZenonT(30) DEF Next, Start, ServeLoaded, CliLoaded, LoadFailed, ServeProbe,
           ProbeFromPublished, ProbeFromCommit, RecoverDone, RecoverFailed,
           ObserveFailed, ObserveChanged, SaveFailed, CliSave, CliExit, Exit,
           StoreProgress, procVars, ProcessStop, HostLosesPower
  <2>2. CASE ObserveUnchanged
    <3>1. durable' = {disk} /\ published' = base
      BY <2>2 DEF ObserveUnchanged, SyncedInv, Publish, storeVars
    <3>2. disk = PairOf(base)
      BY <2>2 DEF ObserveUnchanged, ProtocolInv, ObservingInv
    <3> QED
      BY <3>1, <3>2 DEF Covers, PairOf
  <2>3. CASE SaveDone
    <3>1. durable' = {disk} /\ published' = io.next
      BY <2>3 DEF SaveDone, SyncedInv, Publish, Return
    <3>2. disk.state = io.next
      BY <2>3 DEF SaveDone, ProtocolInv, SavingInv, Saving, PairOf
    <3> QED
      BY <3>1, <3>2 DEF Covers
  <2> QED
    BY <2>1, <2>2, <2>3
<1> QED
  BY <1>1, InvHolds, SyncedHolds, PTL DEF Spec, CommitDurable

-----------------------------------------------------------------------------
(* The token manager.                                                      *)

ManagerFields == {"current", "nextRetryAt", "consecutiveFailures", "nextRecoveryAt",
                  "recoveryQuietUntil", "recoveryFailures"}

\* A record with the fields of Manager, whatever their values.
Shaped(m) == m = [x \in ManagerFields |-> m[x]]

Lifetimes == [elapsed : Int, startWall : Int, age : Int, limit : Int]

Sessions == [value : Nat, lifetime : Lifetimes, renewable : BOOLEAN]

Flights == [pc : {"renew", "login", "done"}, kind : {"renew", "login"}, current : Nat,
            token : SUBSET Sessions]

ShapeInv ==
  /\ Shaped(mgr) /\ mgr.current \subseteq Sessions
  /\ \A t, u \in mgr.current : t = u
  /\ flight \subseteq Flights
  /\ \A f, g \in flight : f = g
  /\ \A f \in flight : \A t, u \in f.token : t = u
  /\ wall \in Int

\* Values are issued once.  A rejected one is neither current nor about to
\* become so: a login brings a value nobody has seen, a renewal the value it
\* started with, which superseded compares with the current one.
TokenInv ==
  /\ issued \in Nat
  /\ rejected \subseteq 1..issued
  /\ \A t \in mgr.current : t.value \in (1..issued) \ rejected
  /\ \A f \in flight :
       /\ f.pc # "done" => f.token = {} /\ f.kind = f.pc
       /\ f.kind = "renew" => f.current # 0 /\ \A t \in f.token : t.value = f.current
       /\ f.kind = "login" =>
            \A t \in f.token : t.value \in (1..issued) \ rejected /\ t.value # Value(mgr)

ManagerInv == ShapeInv /\ TokenInv

-----------------------------------------------------------------------------
\* Aging changes the lifetime of the current token and nothing else.
LEMMA AgedKeeps ==
  ASSUME NEW m, Shaped(m), m.current \subseteq Sessions, wall \in Int,
         \A t, u \in m.current : t = u
  PROVE /\ Shaped(Aged(m))
        /\ Aged(m).current \subseteq Sessions
        /\ \A t, u \in Aged(m).current : t = u
        /\ Aged(m).current = {[t EXCEPT !.lifetime = Observed(@, wall)] : t \in m.current}
        /\ \A x \in ManagerFields \ {"current"} : Aged(m)[x] = m[x]
<1>1. Aged(m).current = {[t EXCEPT !.lifetime = Observed(@, wall)] : t \in m.current}
  BY DEF Aged, Shaped, ManagerFields
<1>2. Shaped(Aged(m)) /\ \A x \in ManagerFields \ {"current"} : Aged(m)[x] = m[x]
  BY DEF Aged, Shaped, ManagerFields
<1>3. \A t \in m.current : [t EXCEPT !.lifetime = Observed(@, wall)] \in Sessions
  BY DEF Sessions, Lifetimes, Observed, Age, Larger
<1>. QED BY <1>1, <1>2, <1>3

\* A refresh keeps the session and begins one flight without a token.
LEMMA StartKeeps ==
  ASSUME NEW m, NEW force, Shaped(m), startRefresh(m, force),
         m.current \subseteq Sessions, Value(m) \in Nat
  PROVE /\ Shaped(mgr') /\ mgr'.current = m.current
        /\ flight' \subseteq Flights
        /\ \A f, g \in flight' : f = g
        /\ \A f \in flight' : /\ f.token = {} /\ f.current = Value(m)
                              /\ f.kind = refreshKind(m, force) /\ f.pc = f.kind
<1>1. Shaped(mgr') /\ mgr'.current = m.current
  BY ZenonT(30) DEF startRefresh, Shaped, ManagerFields
<1>2. refreshKind(m, force) \in {"renew", "login"}
  BY DEF refreshKind
<1>. QED BY <1>1, <1>2 DEF startRefresh, Flights, NoToken

\* The value of a session is that of its only token.
LEMMA ValueOf ==
  ASSUME NEW m, \A t, u \in m.current : t = u
  PROVE /\ m.current = {} => Value(m) = 0
        /\ \A t \in m.current : Value(m) = t.value
BY DEF Value, NoToken

\* Aging keeps the value.
LEMMA AgedValue ==
  ASSUME NEW m, Shaped(m), m.current \subseteq Sessions, wall \in Int,
         \A t, u \in m.current : t = u
  PROVE /\ Value(Aged(m)) = Value(m)
        /\ \A u \in Aged(m).current : \E t \in m.current : u.value = t.value
        /\ Aged(m).current = {} <=> m.current = {}
<1>1. \A t \in m.current : [t EXCEPT !.lifetime = Observed(@, wall)].value = t.value
  BY DEF Sessions
<1>2. CASE m.current = {}
  BY <1>2, AgedKeeps, ValueOf
<1>3. CASE m.current # {}
  <2>1. PICK t \in m.current : TRUE
    BY <1>3, Zenon
  <2>2. [t EXCEPT !.lifetime = Observed(@, wall)] \in Aged(m).current
    BY <2>1, AgedKeeps
  <2>3. Value(m) = t.value /\ Value(Aged(m)) = t.value
    BY <1>1, <2>1, <2>2, AgedKeeps, ValueOf, ZenonT(30)
  <2>. QED BY <1>1, <2>1, <2>2, <2>3, AgedKeeps, ZenonT(30)
<1>. QED BY <1>2, <1>3, Zenon

\* AuthInit establishes the invariant.
LEMMA IInvInit == AuthInit => ManagerInv
<1>. SUFFICES ASSUME AuthInit PROVE ManagerInv
  OBVIOUS
<1>1. Shaped(mgr) /\ mgr.current = {}
  BY Zenon DEF AuthInit, Shaped, ManagerFields, NoToken
<1>. QED BY <1>1 DEF AuthInit, ManagerInv, ShapeInv, TokenInv

\* A step that keeps or ages the session, and leaves the flight alone.
LEMMA KeepStep ==
  ASSUME ManagerInv, mgr' = mgr \/ mgr' = Aged(mgr), wall' \in Int,
         UNCHANGED <<flight, issued, rejected>>
  PROVE ManagerInv'
<1>1. CASE mgr' = mgr
  BY <1>1 DEF ManagerInv, ShapeInv, TokenInv, Value, NoToken
<1>2. CASE mgr' = Aged(mgr)
  <2>1. /\ Shaped(mgr') /\ mgr'.current \subseteq Sessions
        /\ \A t, u \in mgr'.current : t = u
    BY <1>2, AgedKeeps DEF ManagerInv, ShapeInv
  <2>2. /\ Value(mgr') = Value(mgr)
        /\ \A u \in mgr'.current : \E t \in mgr.current : u.value = t.value
    BY <1>2, AgedValue, ZenonT(30) DEF ManagerInv, ShapeInv
  <2>3. Value(mgr)' = Value(mgr')
    BY DEF Value
  <2>4. ShapeInv'
    BY <2>1 DEF ManagerInv, ShapeInv
  <2>5. TokenInv'
    BY <2>2, <2>3, ZenonT(30) DEF ManagerInv, TokenInv
  <2>. QED BY <2>4, <2>5 DEF ManagerInv
<1>. QED BY <1>1, <1>2

\* A step that starts a refresh from the session, aged or not.
LEMMA CallerStarts ==
  ASSUME ManagerInv, NEW force, NEW m, m = mgr \/ m = Aged(mgr), startRefresh(m, force),
         UNCHANGED <<wall, issued, rejected>>
  PROVE ManagerInv'
<1>1. /\ Shaped(m) /\ m.current \subseteq Sessions /\ \A t, u \in m.current : t = u
      /\ Value(m) = Value(mgr)
      /\ \A u \in m.current : \E t \in mgr.current : u.value = t.value
  BY AgedKeeps, AgedValue DEF ManagerInv, ShapeInv
<1>2. \A u \in m.current : u.value \in (1..issued) \ rejected /\ u.value # 0
  BY <1>1 DEF ManagerInv, TokenInv
<1>3. Value(m) \in Nat /\ (m.current # {} => Value(m) # 0)
  BY <1>1, <1>2, ValueOf DEF ManagerInv, TokenInv
<1>4. /\ Shaped(mgr') /\ mgr'.current = m.current
      /\ flight' \subseteq Flights
      /\ \A f, g \in flight' : f = g
      /\ \A f \in flight' : /\ f.token = {} /\ f.current = Value(m)
                            /\ f.kind = refreshKind(m, force) /\ f.pc = f.kind
  BY <1>1, <1>3, StartKeeps, ZenonT(30)
<1>5. refreshKind(m, force) = "renew" => m.current # {}
  BY ZenonT(30) DEF refreshKind
<1>6. ShapeInv'
  BY <1>1, <1>4, ZenonT(30) DEF ManagerInv, ShapeInv
<1>7. TokenInv'
  BY <1>2, <1>3, <1>4, <1>5, ZenonT(30) DEF ManagerInv, TokenInv
<1>. QED BY <1>6, <1>7 DEF ManagerInv

\* Rejecting drops the session with this value, or changes nothing.
LEMMA RejectKeeps ==
  ASSUME NEW m, NEW token, Shaped(m)
  PROVE /\ Shaped(rejectToken(m, token))
        /\ \/ rejectToken(m, token) = m
           \/ /\ rejectToken(m, token).current = {}
              /\ token = Value(m) /\ token # 0
BY ZenonT(30) DEF rejectToken, Shaped, ManagerFields, NoToken

\* A refusal keeps the invariant: the value it discards is the current one.
LEMMA ReplyStep ==
  ASSUME ManagerInv, NEW c \in Callers, HandleReply(c)
  PROVE ManagerInv'
<1>. DEFINE token == caller[c].token
            m == rejectToken(mgr, token)
<1>1. UNCHANGED <<wall, flight, issued>>
  BY DEF HandleReply
<1>2. \/ mgr' = mgr /\ rejected' = rejected
      \/ mgr' = m /\ m # mgr /\ rejected' = rejected \union {token}
  BY DEF HandleReply
<1>3. CASE mgr' = mgr /\ rejected' = rejected
  BY <1>1, <1>3, KeepStep, ZenonT(30) DEF ManagerInv, ShapeInv
<1>4. CASE mgr' = m /\ m # mgr /\ rejected' = rejected \union {token}
  <2>1. Shaped(mgr') /\ mgr'.current = {} /\ token = Value(mgr) /\ token # 0
    BY <1>4, RejectKeeps, ZenonT(30) DEF ManagerInv, ShapeInv
  <2>2. PICK t \in mgr.current : token = t.value
    BY <2>1, ValueOf DEF ManagerInv, ShapeInv
  <2>3. token \in 1..issued
    BY <2>2, Zenon DEF ManagerInv, TokenInv
  <2>4. Value(mgr)' = 0
    BY <2>1 DEF Value, NoToken
  <2>5. ShapeInv'
    BY <1>1, <2>1, ZenonT(30) DEF ManagerInv, ShapeInv
  <2>. HIDE DEF token, m
  <2>6. issued' = issued /\ flight' = flight /\ rejected' = rejected \union {token}
    BY <1>1, <1>4
  <2>7. \A f \in flight : \A u \in f.token :
          f.kind = "login" => u.value \in (1..issued) \ (rejected \union {token}) /\ u.value # 0
    BY <2>1 DEF ManagerInv, TokenInv
  <2>8. TokenInv'
    BY <2>1, <2>3, <2>4, <2>6, <2>7, ZenonT(30) DEF ManagerInv, TokenInv
  <2>. QED BY <2>5, <2>8 DEF ManagerInv
<1>. QED BY <1>2, <1>3, <1>4

\* What OpenBao grants is one session with the given value, or none.
LEMMA Granted ==
  ASSUME NEW value \in Nat, NEW lease \in Leases, NEW renewable \in BOOLEAN, wall \in Int
  PROVE LET token == currentTokenFromAuth(value, lease, renewable)
        IN /\ token \subseteq Sessions
           /\ \A t, u \in token : t = u
           /\ \A t \in token : t.value = value
BY AuthAssumption DEF currentTokenFromAuth, NewLifetime, Sessions, Lifetimes, NoToken

\* A renewal keeps the invariant: it brings the value it started with.
LEMMA RenewStep == ASSUME ManagerInv, Renew PROVE ManagerInv'
<1>1. PICK f \in flight :
        /\ f.pc = "renew"
        /\ \/ flight' = {[f EXCEPT !.pc = "login", !.kind = "login"]}
           \/ \E lease \in Leases, renewable \in BOOLEAN :
                flight' = {[f EXCEPT !.pc = "done",
                              !.token = currentTokenFromAuth(f.current, lease, renewable)]}
  BY ZenonT(30) DEF Renew
<1>0. UNCHANGED <<wall, mgr, issued, rejected>>
  BY ZenonT(30) DEF Renew
<1>2. f \in Flights /\ f.token = {} /\ wall \in Int
  BY <1>1, Zenon DEF ManagerInv, ShapeInv, TokenInv
<1>3. Value(mgr)' = Value(mgr)
  BY <1>0 DEF Value
<1>4. CASE flight' = {[f EXCEPT !.pc = "login", !.kind = "login"]}
  <2>1. \A g \in flight' : g \in Flights /\ g.token = {} /\ g.kind = "login" /\ g.pc = "login"
    BY <1>2, <1>4, ZenonT(30) DEF Flights
  <2>. QED BY <1>0, <1>3, <1>4, <2>1 DEF ManagerInv, ShapeInv, TokenInv
<1>5. ASSUME NEW lease \in Leases, NEW renewable \in BOOLEAN,
             flight' = {[f EXCEPT !.pc = "done",
                           !.token = currentTokenFromAuth(f.current, lease, renewable)]}
      PROVE ManagerInv'
  <2>1. f.current \in Nat
    BY <1>2 DEF Flights
  <2>. DEFINE token == currentTokenFromAuth(f.current, lease, renewable)
  <2>2. /\ token \subseteq Sessions /\ \A t, u \in token : t = u
        /\ \A t \in token : t.value = f.current
    BY <1>2, <2>1, Granted, ZenonT(30)
  <2>. HIDE DEF token
  <2>3. \A g \in flight' : /\ g \in Flights /\ g.token = token /\ g.pc = "done"
                           /\ g.kind = f.kind /\ g.current = f.current
    BY <1>2, <1>5, <2>2, ZenonT(30) DEF Flights, token
  <2>4. f.kind = "renew"
    BY <1>1, Zenon DEF ManagerInv, TokenInv
  <2>5. ShapeInv'
    BY <1>0, <1>5, <2>2, <2>3 DEF ManagerInv, ShapeInv
  <2>6. TokenInv'
    BY <1>0, <1>1, <1>3, <2>2, <2>3, <2>4, ZenonT(30) DEF ManagerInv, TokenInv
  <2>. QED BY <2>5, <2>6 DEF ManagerInv
<1>. QED BY <1>1, <1>4, <1>5, ZenonT(30)

\* A login keeps the invariant: it brings a value nobody has seen.
LEMMA LoginStep == ASSUME ManagerInv, Login PROVE ManagerInv'
<1>0. UNCHANGED <<wall, mgr, rejected>>
  BY ZenonT(30) DEF Login
<1>1. PICK f \in flight :
        /\ f.pc = "login"
        /\ \/ flight' = {[f EXCEPT !.pc = "done"]} /\ issued' = issued
           \/ /\ issued' = issued + 1
              /\ \E lease \in Leases, renewable \in BOOLEAN :
                   flight' = {[f EXCEPT !.pc = "done",
                     !.token = currentTokenFromAuth(issued + 1, lease, renewable)]}
  BY ZenonT(30) DEF Login
<1>2. f \in Flights /\ f.token = {} /\ f.kind = "login" /\ wall \in Int /\ issued \in Nat
  BY <1>1, ZenonT(30) DEF ManagerInv, ShapeInv, TokenInv
<1>3. Value(mgr)' = Value(mgr)
  BY <1>0 DEF Value
<1>4. CASE flight' = {[f EXCEPT !.pc = "done"]} /\ issued' = issued
  <2>1. \A g \in flight' : g \in Flights /\ g.token = {} /\ g.kind = "login" /\ g.pc = "done"
    BY <1>2, <1>4 DEF Flights
  <2>. QED BY <1>0, <1>3, <1>4, <2>1 DEF ManagerInv, ShapeInv, TokenInv
<1>5. ASSUME NEW lease \in Leases, NEW renewable \in BOOLEAN, issued' = issued + 1,
             flight' = {[f EXCEPT !.pc = "done",
                           !.token = currentTokenFromAuth(issued + 1, lease, renewable)]}
      PROVE ManagerInv'
  <2>. DEFINE token == currentTokenFromAuth(issued + 1, lease, renewable)
  <2>1. /\ token \subseteq Sessions /\ \A t, u \in token : t = u
        /\ \A t \in token : t.value = issued + 1
    BY <1>2, Granted
  <2>. HIDE DEF token
  <2>2. \A g \in flight' : /\ g \in Flights /\ g.token = token /\ g.pc = "done"
                           /\ g.kind = "login"
    BY <1>2, <1>5, <2>1, ZenonT(30) DEF Flights, token
  <2>3. Value(mgr) \in 0..issued
    BY <1>2, ValueOf DEF ManagerInv, ShapeInv, TokenInv
  <2>4. ShapeInv'
    BY <1>0, <1>5, <2>1, <2>2 DEF ManagerInv, ShapeInv
  <2>5. rejected \subseteq 1..(issued + 1) /\ issued + 1 \notin rejected
    BY <1>2 DEF ManagerInv, TokenInv
  <2>6. \A t \in mgr.current : t.value \in (1..(issued + 1)) \ rejected
    BY <1>2 DEF ManagerInv, TokenInv
  <2>7. \A t \in token : t.value \in (1..(issued + 1)) \ rejected /\ t.value # Value(mgr)
    BY <1>2, <2>1, <2>3, <2>5
  <2>8. TokenInv'
    BY <1>0, <1>2, <1>3, <1>5, <2>2, <2>5, <2>6, <2>7 DEF TokenInv
  <2>. QED BY <2>4, <2>8 DEF ManagerInv
<1>. QED BY <1>1, <1>4, <1>5, ZenonT(30)

\* Applying a result sets the session to the token, or keeps it on failure.
LEMMA ApplyKeeps ==
  ASSUME NEW token, Shaped(mgr), applyRefreshResult(token)
  PROVE /\ Shaped(mgr')
        /\ mgr'.current = IF token = {} THEN mgr.current ELSE token
<1>1. CASE token = {}
  <2>1. \E failures, d :
          mgr' = [mgr EXCEPT !.consecutiveFailures = failures, !.nextRetryAt = After(d)]
    BY <1>1, ZenonT(30) DEF applyRefreshResult, NoToken
  <2>. QED BY <1>1, <2>1, ZenonT(30) DEF Shaped, ManagerFields
<1>2. CASE token # {}
  BY <1>2, ZenonT(30) DEF applyRefreshResult, NoToken, Shaped, ManagerFields
<1>. QED BY <1>1, <1>2, Zenon

\* A finished refresh keeps the invariant: superseded drops a renewed value
\* that was rejected meanwhile.
LEMMA FinishStep == ASSUME ManagerInv, FinishRefresh PROVE ManagerInv'
<1>0. UNCHANGED <<wall, issued, rejected>> /\ flight' = {}
  BY ZenonT(30) DEF FinishRefresh
<1>a. PICK f \in flight :
        \E token : /\ token = {} \/ token = f.token
                  /\ \/ mgr' = mgr
                     \/ ~superseded(f) /\ applyRefreshResult(token)
  BY ZenonT(30) DEF FinishRefresh, NoToken
<1>1. PICK token : /\ token = {} \/ token = f.token
                   /\ \/ mgr' = mgr
                      \/ ~superseded(f) /\ applyRefreshResult(token)
  BY <1>a
<1>2. f \in Flights
  BY ZenonT(30) DEF ManagerInv, ShapeInv
<1>3. /\ Shaped(mgr')
      /\ \/ mgr'.current = mgr.current
         \/ ~superseded(f) /\ mgr'.current = f.token
  <2>1. Shaped(mgr)
    BY ZenonT(30) DEF ManagerInv, ShapeInv
  <2>2. CASE mgr' = mgr
    BY <2>1, <2>2
  <2>3. CASE ~superseded(f) /\ applyRefreshResult(token)
    <3>1. Shaped(mgr') /\ mgr'.current = IF token = {} THEN mgr.current ELSE token
      BY <2>1, <2>3, ApplyKeeps, ZenonT(30)
    <3>. QED BY <1>1, <2>3, <3>1
  <2>. QED BY <1>1, <2>2, <2>3, ZenonT(30)
<1>4. ShapeInv'
  BY <1>0, <1>2, <1>3, ZenonT(30) DEF ManagerInv, ShapeInv, Flights
<1>5. ASSUME ~superseded(f), NEW t \in f.token
      PROVE t.value \in (1..issued) \ rejected
  <2>1. CASE f.kind = "login"
    BY <1>5, <2>1, ZenonT(30) DEF ManagerInv, TokenInv
  <2>2. CASE f.kind = "renew"
    <3>1. t.value = Value(mgr) /\ t.value # 0
      BY <1>5, <2>2, ZenonT(30) DEF superseded, ManagerInv, TokenInv
    <3>2. PICK u \in mgr.current : Value(mgr) = u.value
      BY <3>1, ValueOf DEF ManagerInv, ShapeInv
    <3>. QED BY <3>1, <3>2, ZenonT(30) DEF ManagerInv, TokenInv
  <2>. QED BY <1>2, <2>1, <2>2 DEF Flights
<1>6. TokenInv'
  BY <1>0, <1>3, <1>5, Zenon DEF ManagerInv, TokenInv
<1>. QED BY <1>4, <1>6 DEF ManagerInv

\* A tick makes lifetimes older and keeps what the tokens are.
LEMMA TickedTokens ==
  ASSUME NEW current, current \subseteq Sessions, \A t, u \in current : t = u
  PROVE /\ TokenTick(current) \subseteq Sessions
        /\ \A t, u \in TokenTick(current) : t = u
        /\ \A u \in TokenTick(current) : \E t \in current :
             u.value = t.value /\ u.lifetime.age = t.lifetime.age
        /\ TokenTick(current) = {} <=> current = {}
<1>1. \A t \in current :
        /\ [t EXCEPT !.lifetime = LifetimeTick(@)] \in Sessions
        /\ [t EXCEPT !.lifetime = LifetimeTick(@)].value = t.value
        /\ [t EXCEPT !.lifetime = LifetimeTick(@)].lifetime.age = t.lifetime.age
  BY DEF Sessions, Lifetimes, LifetimeTick, Smaller
<1>. QED BY <1>1, ZenonT(30) DEF TokenTick

\* A tick keeps the invariant.
LEMMA TickStep == ASSUME ManagerInv, Tick PROVE ManagerInv'
<1>0. UNCHANGED <<wall, issued, rejected>>
  BY DEF Tick
<1>1. Shaped(mgr') /\ mgr'.current = TokenTick(mgr.current)
  BY Zenon DEF ManagerInv, ShapeInv, Tick, Shaped, ManagerFields
<1>. DEFINE Ticked(f) == [f EXCEPT !.token = TokenTick(@)]
<1>2. flight' = {Ticked(f) : f \in flight}
  BY DEF Tick
<1>3. \A f \in flight : f \in Flights /\ \A t, u \in f.token : t = u
  BY Zenon DEF ManagerInv, ShapeInv
<1>4. \A f \in flight : /\ Ticked(f).token = TokenTick(f.token)
                        /\ Ticked(f).pc = f.pc /\ Ticked(f).kind = f.kind
                        /\ Ticked(f).current = f.current
  BY <1>3 DEF Flights
<1>5. \A f \in flight : Ticked(f) \in Flights
  BY <1>3, TickedTokens DEF Flights
<1>6. \A f \in flight : /\ \A t, u \in TokenTick(f.token) : t = u
                        /\ f.token = {} => TokenTick(f.token) = {}
                        /\ \A u \in TokenTick(f.token) :
                              \E t \in f.token : u.value = t.value
  BY <1>3, TickedTokens DEF Flights
<1>. HIDE DEF Ticked
<1>7. /\ mgr'.current \subseteq Sessions
      /\ \A t, u \in mgr'.current : t = u
      /\ \A u \in mgr'.current : \E t \in mgr.current : u.value = t.value
      /\ mgr'.current = {} <=> mgr.current = {}
  BY <1>1, TickedTokens DEF ManagerInv, ShapeInv
<1>8. Value(mgr') = Value(mgr)
  BY <1>7, ValueOf, ZenonT(30) DEF ManagerInv, ShapeInv
<1>9. ShapeInv'
  <2>1. flight' \subseteq Flights /\ \A f, g \in flight' : f = g
    BY <1>2, <1>5 DEF ManagerInv, ShapeInv
  <2>2. ASSUME NEW g \in flight' PROVE \A t, u \in g.token : t = u
    <3>1. PICK f \in flight : g = Ticked(f)
      BY <1>2
    <3>2. g.token = TokenTick(f.token)
      BY <1>4, <3>1, ZenonT(30)
    <3>. QED BY <1>6, <3>1, <3>2, ZenonT(30)
  <2>. QED BY <1>0, <1>1, <1>7, <2>1, <2>2, ZenonT(30) DEF ManagerInv, ShapeInv
<1>10. ASSUME NEW g \in flight'
       PROVE \E f \in flight :
         /\ g.pc = f.pc /\ g.kind = f.kind /\ g.current = f.current
         /\ f.token = {} => g.token = {}
         /\ \A u \in g.token : \E t \in f.token : u.value = t.value
  <2>1. PICK f \in flight : g = Ticked(f)
    BY <1>2
  <2>2. /\ g.pc = f.pc /\ g.kind = f.kind /\ g.current = f.current
        /\ g.token = TokenTick(f.token)
    BY <1>4, <2>1, Zenon
  <2>. QED BY <1>6, <2>1, <2>2
<1>11. TokenInv'
  BY <1>0, <1>7, <1>8, <1>10 DEF ManagerInv, TokenInv
<1>. QED BY <1>9, <1>11 DEF ManagerInv

-----------------------------------------------------------------------------
\* The step leaves the refresh alone and at most ages the session.
Keeps ==
  /\ mgr' = mgr \/ mgr' = Aged(mgr)
  /\ wall' \in Int
  /\ UNCHANGED <<flight, issued, rejected>>

\* The step starts a refresh.
StartsRefresh ==
  \E force, m : /\ m = mgr \/ m = Aged(mgr)
                /\ startRefresh(m, force)
                /\ UNCHANGED <<wall, issued, rejected>>

\* What a step may do to the session, whichever action it is.
LEMMA StepKinds ==
  ASSUME ManagerInv, [AuthNext]_authVars
  PROVE \/ Keeps \/ StartsRefresh
        \/ \E c \in Callers : HandleReply(c)
        \/ Renew \/ Login \/ FinishRefresh \/ Tick
<1>0. wall \in Int
  BY Zenon DEF ManagerInv, ShapeInv
<1>1. ASSUME NEW c \in Callers, Call(c) \/ Cancel(c) \/ Serve(c) PROVE Keeps
  BY <1>0, <1>1, ZenonT(30) DEF Call, Cancel, Serve, Keeps
<1>2. ASSUME NEW c \in Callers, EnsureUsable(c) PROVE Keeps \/ StartsRefresh
  BY <1>0, <1>2, ZenonT(30) DEF EnsureUsable, Keeps, StartsRefresh
<1>3. ASSUME NEW c \in Callers, EnsureFails(c) \/ EnsureJoins(c) PROVE Keeps
  BY <1>0, <1>3 DEF EnsureFails, EnsureJoins, Keeps
<1>4. ASSUME NEW c \in Callers, EnsureStarts(c) PROVE StartsRefresh
  BY <1>4 DEF EnsureStarts, StartsRefresh
<1>5. CorrectWall => Keeps
  BY AuthAssumption, ZenonT(30) DEF CorrectWall, Keeps
<1>6. State \/ Stop \/ UNCHANGED authVars => Keeps
  BY <1>0, ZenonT(30) DEF State, Stop, authVars, Keeps
<1>. QED BY <1>1, <1>2, <1>3, <1>4, <1>5, <1>6 DEF AuthNext, CallerStep

\* Every step keeps the invariant.
LEMMA IInvStep == ManagerInv /\ [AuthNext]_authVars => ManagerInv'
<1>. SUFFICES ASSUME ManagerInv, [AuthNext]_authVars PROVE ManagerInv'
  OBVIOUS
<1>1. Keeps => ManagerInv'
  BY KeepStep DEF Keeps
<1>2. StartsRefresh => ManagerInv'
  BY CallerStarts DEF StartsRefresh
<1>. QED BY <1>1, <1>2, StepKinds, ReplyStep, RenewStep, LoginStep, FinishStep, TickStep

\* The inductive invariant holds of every reachable state.
THEOREM Invariance == AuthSpec => []ManagerInv
BY IInvInit, IInvStep, PTL DEF AuthSpec

\* A token that was refused and discarded is never the current token again,
\* whatever renewal or login was in flight (rejectTokenLocked, runRefresh).
THEOREM RejectionIsFinal == AuthSpec => []RejectedNeverRestored
<1>1. ManagerInv => RejectedNeverRestored
  BY ValueOf DEF ManagerInv, ShapeInv, TokenInv, RejectedNeverRestored
<1>. QED BY <1>1, Invariance, PTL

-----------------------------------------------------------------------------
\* What a step may do to the session: keep its token, perhaps older; replace
\* it when a refresh finishes; discard it when it was refused.
LEMMA SessionStep ==
  ASSUME ManagerInv, [AuthNext]_authVars
  PROVE \/ /\ mgr'.current = {} <=> mgr.current = {}
           /\ \A t \in mgr.current, u \in mgr'.current :
                u.lifetime.age >= t.lifetime.age
        \/ /\ flight # {} /\ flight' = {}
           /\ mgr.current # {} => mgr'.current # {}
        \/ /\ mgr'.current = {}
           /\ \E c \in Callers : /\ caller[c].pc = "reply" /\ caller[c].reply = "rejected"
                                 /\ caller[c].token = Value(mgr)
<1>. DEFINE Older(m) == /\ m.current = {} <=> mgr.current = {}
                        /\ \A t \in mgr.current, u \in m.current :
                             u.lifetime.age >= t.lifetime.age
<1>0. /\ Shaped(mgr) /\ mgr.current \subseteq Sessions /\ wall \in Int
      /\ \A t, u \in mgr.current : t = u
  BY ZenonT(30) DEF ManagerInv, ShapeInv
<1>1. Older(mgr)
  BY <1>0 DEF Sessions, Lifetimes
<1>2. Older(Aged(mgr))
  <2>1. \A t \in mgr.current : [t EXCEPT !.lifetime = Observed(@, wall)].lifetime.age
                                >= t.lifetime.age
    BY <1>0 DEF Sessions, Lifetimes, Observed, Age, Larger
  <2>2. Aged(mgr).current = {[t EXCEPT !.lifetime = Observed(@, wall)] : t \in mgr.current}
    BY <1>0, AgedKeeps
  <2>. QED BY <1>0, <2>1, <2>2, ZenonT(30)
<1>3. Tick => Older(mgr')
  <2>. SUFFICES ASSUME Tick PROVE Older(mgr')
    BY ZenonT(30)
  <2>1. mgr'.current = TokenTick(mgr.current)
    BY <1>0 DEF Tick, Shaped, ManagerFields
  <2>2. \A t \in mgr.current : t.lifetime.age \in Int
    BY <1>0, ZenonT(30) DEF Sessions, Lifetimes
  <2>. QED BY <1>0, <2>1, <2>2, TickedTokens
<1>4. Keeps => Older(mgr')
  BY <1>1, <1>2, ZenonT(30) DEF Keeps
<1>5. StartsRefresh => Older(mgr')
  <2>. SUFFICES ASSUME NEW force, NEW m, m = mgr \/ m = Aged(mgr), startRefresh(m, force)
                PROVE Older(mgr')
    BY ZenonT(30) DEF StartsRefresh
  <2>1. Shaped(m)
    BY <1>0, AgedKeeps
  <2>2. mgr'.current = m.current
    BY <2>1 DEF startRefresh, Shaped, ManagerFields
  <2>. QED BY <1>1, <1>2, <2>2, ZenonT(30)
<1>6. Renew \/ Login => Older(mgr')
  BY <1>1, ZenonT(30) DEF Renew, Login
<1>7. ASSUME FinishRefresh
      PROVE flight # {} /\ flight' = {} /\ (mgr.current # {} => mgr'.current # {})
  <2>1. PICK token : mgr' = mgr \/ applyRefreshResult(token)
    BY <1>7, ZenonT(30) DEF FinishRefresh
  <2>2. mgr.current # {} => mgr'.current # {}
    BY <1>0, <2>1, ApplyKeeps, ZenonT(30)
  <2>. QED BY <1>7, <2>2, ZenonT(30) DEF FinishRefresh
<1>8. ASSUME NEW c \in Callers, HandleReply(c)
      PROVE \/ Older(mgr')
            \/ /\ mgr'.current = {}
               /\ caller[c].pc = "reply" /\ caller[c].reply = "rejected"
               /\ caller[c].token = Value(mgr)
  <2>1. /\ caller[c].pc = "reply"
        /\ \/ mgr' = mgr
           \/ caller[c].reply = "rejected" /\ mgr' = rejectToken(mgr, caller[c].token)
    BY <1>8, ZenonT(30) DEF HandleReply, tokenRejected
  <2>. QED BY <1>0, <1>1, <2>1, RejectKeeps, ZenonT(30)
<1>. HIDE DEF Older
<1>9. \/ Older(mgr')
      \/ flight # {} /\ flight' = {} /\ (mgr.current # {} => mgr'.current # {})
      \/ /\ mgr'.current = {}
         /\ \E c \in Callers : /\ caller[c].pc = "reply" /\ caller[c].reply = "rejected"
                               /\ caller[c].token = Value(mgr)
  BY <1>3, <1>4, <1>5, <1>6, <1>7, <1>8, StepKinds, ZenonT(30)
<1>. QED BY <1>9, Zenon DEF Older

\* The session is discarded only because its own token was refused: a late
\* refusal of an older token leaves the new one (rejectTokenLocked).
THEOREM DiscardsOnlyRefused == AuthSpec => OnlyRefusedIsDiscarded
<1>1. ManagerInv /\ [AuthNext]_authVars =>
        [mgr.current # NoToken /\ mgr'.current = NoToken =>
           \E c \in Callers : /\ caller[c].pc = "reply" /\ caller[c].reply = "rejected"
                              /\ caller[c].token = Value(mgr)]_authVars
  BY SessionStep, ZenonT(30) DEF NoToken
<1>. QED BY <1>1, Invariance, PTL DEF AuthSpec, OnlyRefusedIsDiscarded

\* Between refreshes the age of a lease never decreases, however the wall
\* clock is corrected (Lifetime.Age).
THEOREM LeaseAgeMonotone == AuthSpec => LeaseNeverYounger
<1>1. ManagerInv /\ [AuthNext]_authVars =>
        [\A t \in mgr.current, u \in mgr'.current :
           flight' # {} \/ flight = {} => u.lifetime.age >= t.lifetime.age]_authVars
  BY SessionStep, ZenonT(30)
<1>. QED BY <1>1, Invariance, PTL DEF AuthSpec, LeaseNeverYounger

-----------------------------------------------------------------------------
(* The pace of recovery logins.  Two deadlines protect it: nextRecoveryAt,  *)
(* set by each recovery login, and recoveryQuietUntil, set by each          *)
(* rejection, without which the first of them would be forgotten.           *)

\* With n and q ticks left of the two deadlines, and the last two recovery
\* logins r1 and r2 ticks ago: the quiet period outlasts the earlier login's
\* interval, and the next login waits for the later one's unless the earlier
\* one is already out of reach.
Spaced(n, q, r1, r2) ==
  /\ n \in Nat /\ q \in Nat
  /\ r1 \in 0..tokenRecoveryInterval /\ r2 \in 0..r1
  /\ r1 + q >= tokenRecoveryInterval
  /\ \/ r2 + n >= tokenRecoveryInterval
     \/ r1 = tokenRecoveryInterval /\ r2 + q >= tokenRecoveryInterval

SpacedInv ==
  /\ Spaced(mgr.nextRecoveryAt, mgr.recoveryQuietUntil, recoveries[1], recoveries[2])
  /\ mgr.recoveryFailures \in 0..MaxFailures

\* A recovery login is followed by at least tokenRecoveryInterval, and its
\* failures are counted only while the backoff still grows.
LEMMA BackoffBounds ==
  ASSUME NEW n \in 1..MaxFailures
  PROVE LET backoff == exponentialBackoff(tokenRecoveryInterval, maxTokenRecoveryInterval, n)
        IN /\ backoff \in Nat /\ backoff >= tokenRecoveryInterval
           /\ backoff < maxTokenRecoveryInterval => n + 1 \in 1..MaxFailures
<1>1. /\ tokenRecoveryInterval \in Nat /\ maxTokenRecoveryInterval \in Nat
      /\ tokenRecoveryInterval <= maxTokenRecoveryInterval
      /\ MaxFailures \in Nat /\ n \in Int
      /\ tokenRecoveryInterval * 2^(MaxFailures - 1) >= maxTokenRecoveryInterval
  BY AuthAssumption
<1>2. tokenRecoveryInterval * 2^(n - 1) >= tokenRecoveryInterval
  <2>1. n - 1 \in 0..MaxFailures
    BY <1>1
  <2>. QED BY <2>1, DoublingAssumption
<1>3. 2^(n - 1) \in Int
  BY <1>1
<1>4. tokenRecoveryInterval * 2^(n - 1) \in Int
  BY <1>1, <1>3
<1>5. n <= 1 => tokenRecoveryInterval * 2^(n - 1) = tokenRecoveryInterval
  <2>. SUFFICES ASSUME n <= 1 PROVE tokenRecoveryInterval * 2^(n - 1) = tokenRecoveryInterval
    OBVIOUS
  <2>1. n - 1 = 0
    BY <1>1
  <2>. QED BY <2>1, DoublingAssumption
<1>6. n = MaxFailures => tokenRecoveryInterval * 2^(n - 1) >= maxTokenRecoveryInterval
  BY <1>1
<1>7. PICK b : b = tokenRecoveryInterval * 2^(n - 1)
  OBVIOUS
<1>8. exponentialBackoff(tokenRecoveryInterval, maxTokenRecoveryInterval, n)
        = IF n <= 1 THEN tokenRecoveryInterval
          ELSE IF b > maxTokenRecoveryInterval THEN maxTokenRecoveryInterval ELSE b
  BY <1>7, ZenonT(30) DEF exponentialBackoff
<1>9. /\ b \in Int /\ b >= tokenRecoveryInterval
      /\ n <= 1 => b = tokenRecoveryInterval
      /\ n = MaxFailures => b >= maxTokenRecoveryInterval
  BY <1>2, <1>4, <1>5, <1>6, <1>7, ZenonT(30)
<1>. QED BY <1>1, <1>8, <1>9

\* The step leaves the pace alone: it keeps or ages the session, or applies
\* the result of a refresh.
KeepsPace ==
  /\ recoveries' = recoveries
  /\ mgr' = mgr \/ mgr' = Aged(mgr) \/ \E token : applyRefreshResult(token)
  /\ flight = {} => flight' = {}

\* The step starts a refresh, and after a rejection only when nextRecoveryAt
\* has passed.
StartsInTime ==
  \E force, m : /\ m = mgr \/ m = Aged(mgr)
                /\ startRefresh(m, force)
                /\ mgr.current = {} => ~Pending(mgr.nextRecoveryAt)

\* What a step may do to the pace of recovery logins.
LEMMA PaceKinds ==
  ASSUME ManagerInv, [AuthNext]_authVars
  PROVE \/ KeepsPace \/ StartsInTime \/ Tick
        \/ \E token : /\ mgr' = rejectToken(mgr, token)
                      /\ UNCHANGED <<flight, recoveries>>
<1>1. ASSUME NEW c \in Callers, Call(c) \/ Cancel(c) \/ Serve(c) PROVE KeepsPace
  BY <1>1, ZenonT(30) DEF Call, Cancel, Serve, KeepsPace
<1>2. ASSUME NEW c \in Callers, EnsureFails(c) \/ EnsureJoins(c) PROVE KeepsPace
  BY <1>2 DEF EnsureFails, EnsureJoins, KeepsPace
<1>3. ASSUME NEW c \in Callers, EnsureUsable(c) PROVE KeepsPace \/ StartsInTime
  <2>1. mgr.current # {}
    BY <1>3, ZenonT(30) DEF EnsureUsable, Usable
  <2>. QED BY <1>3, <2>1, ZenonT(30) DEF EnsureUsable, KeepsPace, StartsInTime
<1>4. ASSUME NEW c \in Callers, EnsureStarts(c) PROVE StartsInTime
  <2>1. mgr.current = {} => ~Pending(mgr.nextRecoveryAt)
    BY <1>4 DEF EnsureStarts, loginBlocked, NoToken
  <2>. QED BY <1>4, <2>1, ZenonT(30) DEF EnsureStarts, StartsInTime
<1>5. ASSUME NEW c \in Callers, HandleReply(c)
      PROVE \/ KeepsPace
            \/ \E token : mgr' = rejectToken(mgr, token) /\ UNCHANGED <<flight, recoveries>>
  BY <1>5, ZenonT(30) DEF HandleReply, KeepsPace
<1>6. Renew \/ Login => KeepsPace
  BY ZenonT(30) DEF Renew, Login, KeepsPace
<1>7. ASSUME FinishRefresh PROVE KeepsPace
  <2>1. mgr' = mgr \/ \E token : applyRefreshResult(token)
    BY <1>7, ZenonT(30) DEF FinishRefresh
  <2>. QED BY <1>7, <2>1, ZenonT(30) DEF FinishRefresh, KeepsPace
<1>8. CorrectWall \/ State \/ Stop \/ UNCHANGED authVars => KeepsPace
  BY ZenonT(30) DEF CorrectWall, State, Stop, authVars, KeepsPace
<1>. QED BY <1>1, <1>2, <1>3, <1>4, <1>5, <1>6, <1>7, <1>8, ZenonT(30) DEF AuthNext, CallerStep

\* The three fields of the manager that set the pace.
SamePace(m, n) ==
  /\ m.nextRecoveryAt = n.nextRecoveryAt /\ m.recoveryQuietUntil = n.recoveryQuietUntil
  /\ m.recoveryFailures = n.recoveryFailures

\* Aging a token or applying a refresh does not touch them.
LEMMA PaceKept ==
  ASSUME ManagerInv
  PROVE /\ SamePace(Aged(mgr), mgr)
        /\ KeepsPace => SamePace(mgr', mgr)
<1>1. SamePace(Aged(mgr), mgr)
  BY AgedKeeps DEF ManagerInv, ShapeInv, SamePace, ManagerFields
<1>2. ASSUME NEW token, applyRefreshResult(token) PROVE SamePace(mgr', mgr)
  <2>1. CASE token = {}
    <3>1. \E failures, d :
            mgr' = [mgr EXCEPT !.consecutiveFailures = failures, !.nextRetryAt = After(d)]
      BY <1>2, <2>1, ZenonT(30) DEF applyRefreshResult, NoToken
    <3>. QED BY <3>1, ZenonT(30) DEF ManagerInv, ShapeInv, Shaped, ManagerFields, SamePace
  <2>2. CASE token # {}
    BY <1>2, <2>2, ZenonT(30) DEF applyRefreshResult, NoToken, ManagerInv, ShapeInv, Shaped,
                            ManagerFields, SamePace
  <2>. QED BY <2>1, <2>2
<1>. QED BY <1>1, <1>2, ZenonT(30) DEF KeepsPace, SamePace

\* A recovery login starts only when the one before the last is
\* tokenRecoveryInterval ago, and sets the deadline that the next one waits for.
LEMMA RecoveryStep ==
  ASSUME ManagerInv, SpacedInv, StartsInTime
  PROVE /\ SpacedInv'
        /\ RecoveryStarts => recoveries[1] = tokenRecoveryInterval
<1>1. PICK force, m : /\ m = mgr \/ m = Aged(mgr)
                      /\ startRefresh(m, force)
                      /\ mgr.current = {} => ~Pending(mgr.nextRecoveryAt)
  BY ZenonT(30) DEF StartsInTime
<1>2. Shaped(m) /\ SamePace(m, mgr) /\ (m.current = {} <=> mgr.current = {})
  BY <1>1, PaceKept, AgedKeeps, AgedValue DEF ManagerInv, ShapeInv, SamePace
<1>3. m.current = {} => refreshKind(m, force) = "login"
  BY Zenon DEF refreshKind
<1>. DEFINE recovery == m.current = {} /\ m.recoveryFailures > 0
            backoff == exponentialBackoff(tokenRecoveryInterval, maxTokenRecoveryInterval,
                                          m.recoveryFailures)
<1>4. CASE ~recovery
  <2>1. mgr' = m /\ recoveries' = recoveries
    BY <1>1, <1>4, ZenonT(30) DEF startRefresh, NoToken
  <2>2. ~RecoveryStarts
    BY <1>2, <1>4, ZenonT(30) DEF RecoveryStarts, NoToken, SamePace
  <2>. QED BY <1>2, <2>1, <2>2, ZenonT(30) DEF SpacedInv, SamePace
<1>5. CASE recovery
  <2>1. m.recoveryFailures \in 1..MaxFailures
    BY <1>2, <1>5, AuthAssumption DEF SpacedInv, SamePace
  <2>2. /\ backoff \in Nat /\ backoff >= tokenRecoveryInterval
        /\ backoff < maxTokenRecoveryInterval => m.recoveryFailures + 1 \in 1..MaxFailures
    BY <2>1, BackoffBounds, ZenonT(30)
  <2>. HIDE DEF backoff
  <2>3. /\ \E failures : /\ failures = IF backoff < maxTokenRecoveryInterval
                                       THEN m.recoveryFailures + 1 ELSE m.recoveryFailures
                         /\ mgr' = [m EXCEPT !.nextRecoveryAt = backoff,
                                             !.recoveryFailures = failures]
        /\ recoveries' = <<recoveries[2], 0>>
    BY <1>1, <1>3, <1>5, ZenonT(30) DEF startRefresh, NoToken, After, backoff
  <2>4. PICK failures : /\ failures = IF backoff < maxTokenRecoveryInterval
                                      THEN m.recoveryFailures + 1 ELSE m.recoveryFailures
                        /\ mgr' = [m EXCEPT !.nextRecoveryAt = backoff,
                                            !.recoveryFailures = failures]
    BY <2>3, ZenonT(30)
  <2>5. failures \in 0..MaxFailures
    BY <2>1, <2>2, <2>4, AuthAssumption
  <2>6. /\ mgr'.nextRecoveryAt = backoff /\ mgr'.recoveryFailures = failures
        /\ mgr'.recoveryQuietUntil = m.recoveryQuietUntil
    BY <1>2, <2>4, ZenonT(30) DEF Shaped, ManagerFields
  <2>7. recoveries'[1] = recoveries[2] /\ recoveries'[2] = 0
    BY <2>3
  <2>8. /\ Spaced(mgr.nextRecoveryAt, mgr.recoveryQuietUntil, recoveries[1], recoveries[2])
        /\ ~(mgr.nextRecoveryAt > 0)
    BY <1>1, <1>2, <1>5, ZenonT(30) DEF SpacedInv, Pending
  <2>9. /\ Spaced(backoff, mgr.recoveryQuietUntil, recoveries[2], 0)
        /\ recoveries[1] = tokenRecoveryInterval
    BY <2>2, <2>8, AuthAssumption DEF Spaced
  <2>. QED BY <1>2, <2>5, <2>6, <2>7, <2>9, ZenonT(30) DEF SpacedInv, SamePace
<1>. QED BY <1>4, <1>5, ZenonT(30)

\* A rejection keeps the pace: within the quiet period the deadline stands, and
\* after it the earlier login is out of reach.
LEMMA RejectionStep ==
  ASSUME ManagerInv, SpacedInv, NEW token, mgr' = rejectToken(mgr, token), recoveries' = recoveries
  PROVE SpacedInv'
<1>1. CASE mgr' = mgr
  BY <1>1, ZenonT(30) DEF SpacedInv
<1>2. CASE mgr' # mgr
  <2>1. /\ mgr'.recoveryFailures =
             IF Pending(mgr.recoveryQuietUntil) THEN mgr.recoveryFailures ELSE 1
        /\ mgr'.nextRecoveryAt =
             IF Pending(mgr.recoveryQuietUntil) THEN mgr.nextRecoveryAt ELSE 0
        /\ mgr'.recoveryQuietUntil = 2 * maxTokenRecoveryInterval
    BY <1>2, ZenonT(30) DEF rejectToken, ManagerInv, ShapeInv, Shaped, ManagerFields, After,
                           tokenRecoveryQuietPeriod
  <2>2. 2 * maxTokenRecoveryInterval \in Nat
        /\ 2 * maxTokenRecoveryInterval >= tokenRecoveryInterval
    BY AuthAssumption
  <2>3. CASE Pending(mgr.recoveryQuietUntil)
    <3>1. /\ mgr'.recoveryFailures = mgr.recoveryFailures
          /\ mgr'.nextRecoveryAt = mgr.nextRecoveryAt
      BY <2>1, <2>3, ZenonT(30)
    <3>2. Spaced(mgr.nextRecoveryAt, 2 * maxTokenRecoveryInterval,
                 recoveries[1], recoveries[2])
      BY <2>2, AuthAssumption DEF SpacedInv, Spaced
    <3>. QED BY <2>1, <3>1, <3>2, ZenonT(30) DEF SpacedInv
  <2>4. CASE ~Pending(mgr.recoveryQuietUntil)
    <3>1. mgr'.recoveryFailures = 1 /\ mgr'.nextRecoveryAt = 0
      BY <2>1, <2>4, ZenonT(30)
    <3>2. Spaced(0, 2 * maxTokenRecoveryInterval, recoveries[1], recoveries[2])
      BY <2>2, <2>4, AuthAssumption DEF SpacedInv, Spaced, Pending
    <3>3. 1 \in 0..MaxFailures
      BY AuthAssumption
    <3>. QED BY <2>1, <3>1, <3>2, <3>3, ZenonT(30) DEF SpacedInv
  <2>. QED BY <2>3, <2>4
<1>. QED BY <1>1, <1>2

\* A tick brings a deadline one tick nearer and takes a login one tick away.
LEMMA PaceTick == ASSUME ManagerInv, SpacedInv, Tick PROVE SpacedInv'
<1>1. /\ mgr'.nextRecoveryAt = DeadlineTick(mgr.nextRecoveryAt)
      /\ mgr'.recoveryQuietUntil = DeadlineTick(mgr.recoveryQuietUntil)
      /\ mgr'.recoveryFailures = mgr.recoveryFailures
  BY Zenon DEF Tick, ManagerInv, ShapeInv, Shaped, ManagerFields
<1>2. /\ recoveries'[1] = Smaller(recoveries[1] + 1, tokenRecoveryInterval)
      /\ recoveries'[2] = Smaller(recoveries[2] + 1, tokenRecoveryInterval)
  BY DEF Tick
<1>. QED BY <1>1, <1>2, AuthAssumption DEF SpacedInv, Spaced, DeadlineTick, Larger, Smaller

\* Every step keeps the pace.
LEMMA SpacedStep ==
  ASSUME ManagerInv, SpacedInv, [AuthNext]_authVars
  PROVE SpacedInv' /\ (RecoveryStarts => recoveries[1] = tokenRecoveryInterval)
<1>1. KeepsPace => SpacedInv' /\ ~RecoveryStarts
  BY PaceKept, ZenonT(30) DEF KeepsPace, SamePace, SpacedInv, RecoveryStarts
<1>2. Tick => ~RecoveryStarts
  BY DEF Tick, RecoveryStarts
<1>3. UNCHANGED flight => ~RecoveryStarts
  BY DEF RecoveryStarts
<1>. QED BY <1>1, <1>2, <1>3, PaceKinds, RecoveryStep, RejectionStep, PaceTick

\* However often tokens are granted and refused, no three logins that replace
\* a rejected token start within tokenRecoveryInterval (startRefreshLocked and
\* rejectTokenLocked together).
THEOREM RecoverySpacing == AuthSpec => RecoveryLoginsSpaced
<1>1. AuthInit => SpacedInv
  BY AuthAssumption DEF AuthInit, SpacedInv, Spaced
<1>2. ManagerInv /\ SpacedInv /\ [AuthNext]_authVars => SpacedInv'
  BY SpacedStep
<1>3. ManagerInv /\ SpacedInv /\ [AuthNext]_authVars =>
        [RecoveryStarts => recoveries[1] = tokenRecoveryInterval]_authVars
  BY SpacedStep
<1>. QED BY <1>1, <1>2, <1>3, Invariance, PTL DEF AuthSpec, RecoveryLoginsSpaced

-----------------------------------------------------------------------------
CallerFields == {"pc", "force", "request", "token", "retry", "reply", "executed"}

\* Until it has been answered a call has executed nothing; a refused one still
\* has not, so it may be sent again.
Fresh(r) ==
  /\ r = [x \in CallerFields |-> r[x]]
  /\ r.executed \in {0, 1}
  /\ r.pc # "reply" \/ r.reply = "rejected" => r.executed = 0

CallerInv == caller = [c \in Callers |-> caller[c]] /\ \A c \in Callers : Fresh(caller[c])

\* A step that changes one caller's record.
LEMMA OneCaller ==
  ASSUME CallerInv, NEW c \in Callers, NEW r, Fresh(r), caller' = [caller EXCEPT ![c] = r]
  PROVE CallerInv'
BY DEF CallerInv

\* A caller that moves between the steps before its request is sent.
LEMMA FreshMove ==
  ASSUME NEW r, Fresh(r), r.pc # "reply"
  PROVE /\ \A pc \in {"ensure", "wait", "send"} : Fresh([r EXCEPT !.pc = pc])
        /\ \A v : Fresh([r EXCEPT !.pc = "send", !.token = v])
        /\ \A b : Fresh([r EXCEPT !.pc = "ensure", !.force = b])
<1>1. \A pc \in {"ensure", "wait", "send"} : Fresh([r EXCEPT !.pc = pc])
  BY DEF Fresh, CallerFields
<1>2. ASSUME NEW v PROVE Fresh([r EXCEPT !.pc = "send", !.token = v])
  BY ZenonT(30) DEF Fresh, CallerFields
<1>3. ASSUME NEW b PROVE Fresh([r EXCEPT !.pc = "ensure", !.force = b])
  BY ZenonT(30) DEF Fresh, CallerFields
<1>. QED BY <1>1, <1>2, <1>3, ZenonT(30)

\* A caller at rest.
LEMMA FreshIdle ==
  /\ Fresh(IdleCaller)
  /\ \A request \in BOOLEAN :
       Fresh([IdleCaller EXCEPT !.pc = "ensure", !.force = ~request, !.request = request])
<1>1. Fresh(IdleCaller)
  BY Zenon DEF Fresh, IdleCaller, CallerFields
<1>2. ASSUME NEW request \in BOOLEAN
      PROVE Fresh([IdleCaller EXCEPT !.pc = "ensure", !.force = ~request, !.request = request])
  BY ZenonT(30) DEF Fresh, IdleCaller, CallerFields
<1>. QED BY <1>1, <1>2, ZenonT(30)

\* OpenBao's answer counts an execution unless it is a refusal.
LEMMA ServeStep == ASSUME CallerInv, NEW c \in Callers, Serve(c) PROVE CallerInv'
<1>. DEFINE r == caller[c]
<1>0. Fresh(r) /\ r.executed = 0
  BY Zenon DEF Serve, CallerInv, Fresh
<1>. DEFINE Answered(reply) == [r EXCEPT !.pc = "reply", !.reply = reply]
            Executed(reply) == [r EXCEPT !.pc = "reply", !.reply = reply,
                                         !.executed = @ + 1]
<1>1. \/ \E reply \in {"rejected", "failed"} : caller' = [caller EXCEPT ![c] = Answered(reply)]
      \/ \E reply \in {"ok", "failed"} : caller' = [caller EXCEPT ![c] = Executed(reply)]
  BY ZenonT(30) DEF Serve
<1>2. ASSUME NEW reply \in {"rejected", "failed"} PROVE Fresh(Answered(reply))
  BY <1>0, Zenon DEF Fresh, CallerFields
<1>3. ASSUME NEW reply \in {"ok", "failed"} PROVE Fresh(Executed(reply))
  <2>1. r.executed + 1 = 1
    BY <1>0
  <2>2. Executed(reply) = [r EXCEPT !.pc = "reply", !.reply = reply, !.executed = 1]
    BY <2>1, Zenon
  <2>. QED BY <1>0, <2>2, ZenonT(30) DEF Fresh, CallerFields
<1>. HIDE DEF Answered, Executed
<1>. QED BY <1>1, <1>2, <1>3, OneCaller, ZenonT(30)

\* A refused call that is sent again has executed nothing.
LEMMA RetryStep == ASSUME CallerInv, NEW c \in Callers, HandleReply(c) PROVE CallerInv'
<1>. DEFINE r == caller[c]
            again == [r EXCEPT !.pc = "ensure", !.retry = TRUE, !.reply = "none"]
<1>1. \/ r.reply = "rejected" /\ caller' = [caller EXCEPT ![c] = again]
      \/ caller' = [caller EXCEPT ![c] = IdleCaller]
  BY Zenon DEF HandleReply, Retries, tokenRejected
<1>2. r.reply = "rejected" => Fresh(again)
  BY ZenonT(30) DEF CallerInv, Fresh, CallerFields
<1>. HIDE DEF again
<1>. QED BY <1>1, <1>2, OneCaller, FreshIdle, ZenonT(30)

\* Waking the waiting callers keeps what they have executed.
LEMMA WakeStep == ASSUME CallerInv, FinishRefresh PROVE CallerInv'
<1>1. PICK failed, satisfies : caller' = [c \in Callers |-> Woken(c, failed, satisfies)]
  BY DEF FinishRefresh
<1>2. ASSUME NEW c \in Callers PROVE Fresh(Woken(c, failed, satisfies))
  BY FreshIdle, FreshMove, Zenon DEF Woken, CallerInv
<1>. HIDE DEF Woken
<1>. QED BY <1>1, <1>2 DEF CallerInv

\* Every step keeps the callers' invariant.
LEMMA CallerStepKeeps == CallerInv /\ [AuthNext]_authVars => CallerInv'
<1>. SUFFICES ASSUME CallerInv, [AuthNext]_authVars PROVE CallerInv'
  OBVIOUS
<1>1. UNCHANGED caller => CallerInv'
  BY DEF CallerInv
<1>2. ASSUME NEW c \in Callers, Call(c) \/ Cancel(c) \/ EnsureFails(c) PROVE CallerInv'
  <2>1. PICK r : Fresh(r) /\ caller' = [caller EXCEPT ![c] = r]
    BY <1>2, FreshIdle, ZenonT(30) DEF Call, Cancel, EnsureFails
  <2>. QED BY <2>1, OneCaller, ZenonT(30)
<1>3. ASSUME NEW c \in Callers, EnsureStarts(c) \/ EnsureJoins(c) PROVE CallerInv'
  <2>1. /\ caller' = [caller EXCEPT ![c] = [caller[c] EXCEPT !.pc = "wait"]]
        /\ caller[c].pc = "ensure"
    BY <1>3 DEF EnsureStarts, EnsureJoins
  <2>. QED BY <2>1, OneCaller, FreshMove, ZenonT(30) DEF CallerInv
<1>4. ASSUME NEW c \in Callers, EnsureUsable(c) PROVE CallerInv'
  <2>1. PICK v : caller' = [caller EXCEPT ![c] = Obtained(c, v)] /\ caller[c].pc = "ensure"
    BY <1>4, ZenonT(30) DEF EnsureUsable
  <2>2. Fresh(Obtained(c, v))
    BY <2>1, FreshIdle, FreshMove, ZenonT(30) DEF Obtained, CallerInv
  <2>. QED BY <2>1, <2>2, OneCaller, ZenonT(30)
<1>5. Renew \/ Login \/ Tick \/ CorrectWall \/ State \/ Stop \/ UNCHANGED authVars => UNCHANGED caller
  BY ZenonT(30) DEF Renew, Login, Tick, CorrectWall, State, Stop, authVars
<1>. QED BY <1>1, <1>2, <1>3, <1>4, <1>5, ServeStep, RetryStep, WakeStep, ZenonT(30)
         DEF AuthNext, CallerStep

\* OpenBao executes one call at most once, although do retries and replies
\* are lost: only a refused call is sent again (Client.do).
THEOREM CallsExecuteOnce == AuthSpec => []ExecutedAtMostOnce
<1>1. AuthInit => CallerInv
  BY FreshIdle, ZenonT(30) DEF AuthInit, CallerInv
<1>2. CallerInv => ExecutedAtMostOnce
  BY DEF CallerInv, Fresh, ExecutedAtMostOnce
<1>. QED BY <1>1, <1>2, CallerStepKeeps, PTL DEF AuthSpec

=============================================================================
