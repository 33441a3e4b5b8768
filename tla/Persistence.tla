---------------------------- MODULE Persistence ----------------------------
(***************************************************************************)
(* The persistence protocol of one node: who calls the state store, in     *)
(* which order, and what the process remembers between calls.              *)
(*                                                                         *)
(* The writers are "serve" (internal/status/controller.go, persistence.go) *)
(* and "cli", the apply step of retire-versions and restore-versions       *)
(* (cmd/bao-kms-provider/retirement.go).  LockState lets at most one of    *)
(* them run.  What a state file contains and why it changes is left open:  *)
(* a next generation carries any of the Contents.  StatusController fills  *)
(* that in for serve.                                                      *)
(***************************************************************************)
EXTENDS StateStore

CONSTANTS Contents,        \* what a generation may record
          MaxGeneration    \* bound on the generations written

ASSUME MaxGenerationAssumption == MaxGeneration \in Nat

VARIABLES holder,     \* the process that holds the state lock
          stage,      \* what that process is doing
          published,  \* Store.state of a running serve, an option
          commit,     \* Controller.pendingCommit, an option
          base,       \* the state the current observation starts from
          confirmed   \* history: the last state that any serve has published
                      \* since the host last lost power

procVars == <<holder, stage, published, commit, base, confirmed>>
vars == <<disk, durable, io, holder, stage, published, commit, base, confirmed>>

Writers == {"serve", "cli"}

\* The generations a writer may build on top of an option of a state.
Successors(previous) ==
  IF previous = {}
  THEN {[generation |-> 1, previousHash |-> NoHash, content |-> c]
          : c \in Contents}
  ELSE {[generation |-> p.generation + 1, previousHash |-> computeHash(p),
         content |-> c] : p \in previous, c \in Contents}

Init ==
  /\ StoreInit
  /\ holder = "none"
  /\ stage = "none"
  /\ published = {}
  /\ commit = {}
  /\ base = {}
  /\ confirmed = {}

\* Mutant: what the process was doing survives it.
ExitKeepsStage ==
  /\ holder' = "none"
  /\ published' = {}
  /\ commit' = {}
  /\ base' = {}
  /\ UNCHANGED stage

\* The process is gone, and with it the lock and all of its memory.
Exit ==
  /\ holder' = "none"
  /\ stage' = "none"
  /\ published' = {}
  /\ commit' = {}
  /\ base' = {}

\* The store call is over.
Return == io' = Idle /\ UNCHANGED <<disk, durable>>

-----------------------------------------------------------------------------
(* Starting: LockState, then FileStateStore.Load.                          *)

Start(w) ==
  /\ holder = "none"
  /\ holder' = w
  /\ stage' = "loading"
  /\ BeginLoad
  /\ UNCHANGED <<published, commit, base, confirmed>>

\* NewController.loadState: an absent state is no error for serve.
ServeLoaded ==
  /\ holder = "serve" /\ stage = "loading" /\ io.at = "ok"
  /\ published' = io.next
  /\ confirmed' = IF io.next = {} THEN confirmed ELSE io.next
  /\ stage' = "idle"
  /\ Return
  /\ UNCHANGED <<holder, commit, base>>

CliLoaded ==
  /\ holder = "cli" /\ stage = "loading" /\ io.at = "ok" /\ io.next # {}
  /\ base' = io.next
  /\ stage' = "observing"
  /\ Return
  /\ UNCHANGED <<holder, published, commit, confirmed>>

\* A refused or unwritable checkpoint ends either process; so does an absent
\* state for the CLI.
LoadFailed ==
  /\ stage = "loading"
  /\ \/ io.at = "failed"
     \/ io.at = "ok" /\ io.next = {} /\ holder = "cli"
  /\ Exit
  /\ Return
  /\ UNCHANGED confirmed

-----------------------------------------------------------------------------
(* One metadata probe of serve, from stateForObservation to publication.   *)

Publish(state) ==
  /\ published' = state
  /\ confirmed' = state
  /\ commit' = {}
  /\ stage' = "idle"

\* stateForObservation without a pending commit.
ProbeFromPublished ==
  /\ holder = "serve" /\ stage = "idle" /\ commit = {}
  /\ base' = published
  /\ stage' = "observing"
  /\ UNCHANGED <<storeVars, holder, published, commit, confirmed>>

\* stateForObservation with one: the exact attempt is completed first.
ProbeFromCommit ==
  /\ holder = "serve" /\ stage = "idle"
  /\ \E c \in commit : BeginRecover(c.previous, c.next)
  /\ stage' = "recovering"
  /\ UNCHANGED <<holder, published, commit, base, confirmed>>

\* Mutant: a probe that has recovered an attempt ends there.
RecoverDoneWithoutObserving ==
  /\ stage = "recovering" /\ io.at = "ok"
  /\ stage' = "idle"
  /\ Return
  /\ UNCHANGED <<holder, published, commit, base, confirmed>>

RecoverDone ==
  /\ stage = "recovering" /\ io.at = "ok"
  /\ base' = {c.next : c \in commit}
  /\ stage' = "observing"
  /\ Return
  /\ UNCHANGED <<holder, published, commit, confirmed>>

RecoverFailed ==
  /\ stage = "recovering" /\ io.at = "failed"
  /\ stage' = "idle"
  /\ Return
  /\ UNCHANGED <<holder, published, commit, base, confirmed>>

\* The metadata does not validate: nothing is saved or published.
ObserveFailed ==
  /\ holder = "serve" /\ stage = "observing"
  /\ stage' = "idle"
  /\ UNCHANGED <<storeVars, holder, published, commit, base, confirmed>>

\* The observation changes nothing: the base itself is published.
ObserveUnchanged ==
  /\ holder = "serve" /\ stage = "observing" /\ base # {}
  /\ Publish(base)
  /\ UNCHANGED <<storeVars, holder, base>>

\* Mutant: the failed attempt is forgotten.
ObserveChangedForgetsAttempt ==
  /\ holder = "serve" /\ stage = "observing"
  /\ \E next \in Successors(base) :
       next.generation <= MaxGeneration /\ BeginSave(next)
  /\ commit' = {}
  /\ stage' = "saving"
  /\ UNCHANGED <<holder, published, base, confirmed>>

\* Mutant: the attempt is recorded against the published state, although a
\* recovery has just moved the files past it.
ObserveChangedFromPublished ==
  /\ holder = "serve" /\ stage = "observing"
  /\ \E next \in Successors(base) :
       /\ next.generation <= MaxGeneration
       /\ commit' = {[previous |-> published, next |-> next]}
       /\ BeginSave(next)
  /\ stage' = "saving"
  /\ UNCHANGED <<holder, published, base, confirmed>>

\* Mutant: the next state is published before it is saved.
ObserveChangedPublishesFirst ==
  /\ holder = "serve" /\ stage = "observing"
  /\ \E next \in Successors(base) :
       /\ next.generation <= MaxGeneration
       /\ commit' = {[previous |-> base, next |-> next]}
       /\ published' = {next}
       /\ confirmed' = {next}
       /\ BeginSave(next)
  /\ stage' = "saving"
  /\ UNCHANGED <<holder, base>>

\* saveState remembers the exact attempt before the first file is touched.
ObserveChanged ==
  /\ holder = "serve" /\ stage = "observing"
  /\ \E next \in Successors(base) :
       /\ next.generation <= MaxGeneration
       /\ commit' = {[previous |-> base, next |-> next]}
       /\ BeginSave(next)
  /\ stage' = "saving"
  /\ UNCHANGED <<holder, published, base, confirmed>>

SaveDone ==
  /\ holder = "serve" /\ stage = "saving" /\ io.at = "ok"
  /\ Publish(io.next)
  /\ Return
  /\ UNCHANGED <<holder, base>>

\* stateSaveFailed: the commit stays pending.
SaveFailed ==
  /\ holder = "serve" /\ stage = "saving" /\ io.at = "failed"
  /\ stage' = "idle"
  /\ Return
  /\ UNCHANGED <<holder, published, commit, base, confirmed>>

-----------------------------------------------------------------------------
(* applyRetirementTransition: one generation on top of what Load returned. *)

CliSave ==
  /\ holder = "cli" /\ stage = "observing"
  /\ \E next \in Successors(base) :
       next.generation <= MaxGeneration /\ BeginSave(next)
  /\ stage' = "saving"
  /\ UNCHANGED <<holder, published, commit, base, confirmed>>

\* The command reports its outcome and exits; without --apply, or with
\* nothing to change, it exits before saving.
CliExit ==
  /\ holder = "cli"
  /\ \/ stage = "observing"
     \/ stage = "saving" /\ io.at \in {"ok", "failed"}
  /\ Exit
  /\ Return
  /\ UNCHANGED confirmed

-----------------------------------------------------------------------------
ProcessStop ==
  /\ holder # "none"
  /\ ProcessStops
  /\ Exit
  /\ UNCHANGED confirmed

HostLosesPower ==
  /\ PowerLoss
  /\ Exit
  /\ confirmed' = {}

StoreProgress == StoreStep /\ UNCHANGED procVars

ServeProbe ==
  \/ ProbeFromPublished \/ ProbeFromCommit
  \/ RecoverDone \/ RecoverFailed
  \/ ObserveFailed \/ ObserveUnchanged \/ ObserveChanged
  \/ SaveDone \/ SaveFailed

Next ==
  \/ \E w \in Writers : Start(w)
  \/ ServeLoaded \/ CliLoaded \/ LoadFailed
  \/ ServeProbe
  \/ CliSave \/ CliExit
  \/ StoreProgress
  \/ ProcessStop \/ HostLosesPower

Spec == Init /\ [][Next]_vars

\* A running serve keeps probing (Scheduler.Run), its store calls return, and
\* a storage or metadata fault does not last for ever: a step that can succeed
\* again and again succeeds in the end.
FairSpec ==
  /\ Spec
  /\ WF_vars(StoreProgress) /\ WF_vars(ServeProbe)
  /\ WF_vars(ServeLoaded) /\ WF_vars(LoadFailed)
  /\ SF_vars(WriteState /\ io'.at # "failed" /\ UNCHANGED procVars)
  /\ SF_vars(SyncState /\ io'.at # "failed" /\ UNCHANGED procVars)
  /\ SF_vars(WriteCheckpoint /\ io'.at # "failed" /\ UNCHANGED procVars)
  /\ SF_vars(SyncCheckpoint /\ io'.at # "failed" /\ UNCHANGED procVars)
  /\ SF_vars(ObserveUnchanged)

-----------------------------------------------------------------------------
(* Properties.                                                             *)

IsState(s) == s.generation \in Nat \ {0}

\* Every variable has its shape: options hold at most one value, the lock
\* holder and its stage fit together, and only serve has a published state.
TypeOK ==
  /\ disk \in durable
  /\ io.at \in {"idle", "state", "stateSync", "checkpoint", "checkpointSync",
                "ok", "failed"}
  /\ holder \in {"none"} \union Writers
  /\ stage \in {"none", "loading", "idle", "recovering", "observing", "saving"}
  /\ (holder = "none") <=> (stage = "none")
  /\ \A option \in {io.next, published, base, confirmed} :
       option = {} \/ \E s \in option : option = {s} /\ IsState(s)

\* Whatever a process stop or a power loss leaves in the directory, Load does
\* not refuse it: there is always a state or nothing, and the checkpoint is
\* that state's or its direct predecessor's.
ReloadAccepts == \A image \in durable : LoadAssessment(image) # "refused"

\* As long as serve remembers a failed save, Recover accepts the files it
\* finds, however many saves failed and wherever (checkRecoveryFiles).
RecoverNeverWedges ==
  \A c \in commit : /\ validateRecoveryTransition(c.previous, c.next)
                    /\ checkRecoveryFiles(disk, c.previous, c.next)

Covers(image, option) ==
  \A p \in option : \E s \in image.state : s = p \/ s.generation > p.generation

\* A state that serve has published, to Status or only to Decrypt, is never
\* older on disk afterwards: a restart cannot take a node back behind it.
ConfirmedOnDisk == Covers(disk, confirmed)

\* The visible state only ever changes to its own hash-linked successor, so
\* the generations on disk form one chain whoever writes them.  Only a power
\* loss, which may undo unsynced renames, takes the files back.
HashChain ==
  [][HostLosesPower \/ \A s \in disk'.state : \/ disk'.state = disk.state
                                             \/ Links(disk.state, s)]_vars

\* A running serve forgets a pending commit only when it publishes a state
\* that no power loss can take back: at least one full save after the last
\* failure has passed all of its durability barriers.
CommitDurable ==
  [][commit # {} /\ commit' = {} /\ holder' = "serve" =>
       \A image \in durable' : Covers(image, published')]_vars

\* "Only a validated, durable stable observation can start" the activation
\* delay: whatever serve has published, loaded states included, is durable.
ConfirmedDurable == \A image \in durable : Covers(image, confirmed)

\* A failed save is eventually completed and published, unless the process
\* ends first.
CommitResolves == (commit # {}) ~> (commit = {})

=============================================================================
