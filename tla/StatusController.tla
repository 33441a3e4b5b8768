-------------------------- MODULE StatusController --------------------------
(***************************************************************************)
(* One node: the status controller with its cache, probes and scheduler    *)
(* (internal/status), the operator commands that share its registry        *)
(* (cmd/bao-kms-provider/retirement.go) and the Transit key they observe.  *)
(*                                                                         *)
(* probeGate serialises metadata probes, deep probes and decrypt-triggered *)
(* discovery, so one "probe" is in progress at a time; between its steps   *)
(* time passes, Transit changes, requests read the cache and the process   *)
(* may stop.  "now" is read once, at the start of a probe: what is decided *)
(* with it later (the activation deadline, the freshness of the cache, the *)
(* end of an open breaker) is decided as of then.                          *)
(***************************************************************************)
EXTENDS StateStore, Rotation

CONSTANTS MaxVersion,        \* bound: Transit versions that come to exist
          CreationTimes,     \* creation times a version may have
          WallTimes,         \* readings of the wall clock, in any order
          MaxGeneration,     \* bound: generations an operator command may write
          MaxStaleness,      \* status.statusMaxStaleness, in ticks
          MaxProbeTicks,     \* bound: ticks that one probe may take
          FailureThreshold, OpenDuration,   \* of both circuit breakers
          RefreshInterval,   \* DecryptRefreshInterval, in ticks
          Events             \* which of AllEvents may happen

AllEvents == {"time",        \* elapsed time passes
              "read",        \* a call to OpenBao fails
              "restore",     \* Transit is restored from an older backup
              "minimums",    \* an operator moves a minimum version
              "trim",        \* an operator trims old versions
              "settings",    \* key settings or upsert change
              "wall",        \* the wall clock jumps ahead
              "discover",    \* Decrypt meets an unknown key_id
              "operator"}    \* retire-versions and restore-versions

ASSUME ControllerAssumption ==
  /\ {MaxVersion, FailureThreshold, OpenDuration, RefreshInterval,
      MaxStaleness} \subseteq Nat \ {0}
  /\ {MaxGeneration, MaxProbeTicks} \subseteq Nat
  /\ CreationTimes \subseteq Nat \ {0} /\ WallTimes \subseteq Nat \ {0}
  /\ Events \subseteq AllEvents

VARIABLES transit,     \* external: the Transit key and its mount
          proc,        \* the process that holds the state lock, and its step
          store,       \* status.Store
          commit,      \* Controller.pendingCommit, an option
          activation,  \* Controller.activation: [key (an option), left]
          breaker,     \* the metadata and the deep circuit breaker
          refresh,     \* ticks until Controller.nextRefresh
          probe,       \* the probe that holds probeGate
          plan,        \* the operator's reviewed plan, an option
          reported,    \* history: key_ids that Status or Encrypt has returned
          waited,      \* history: ticks for which this process has seen the
                       \* stable candidate on disk
          checked      \* history: [key, age], the key_id of this process's last
                       \* good deep probe; ticks since metadata was validated

memory == <<store, commit, activation, breaker, refresh, probe>>
history == <<reported, waited, checked>>
vars == <<disk, durable, io, transit, proc, memory, plan, history>>

\* A set that stands for a value or none.
IsOption(S) == \A x, y \in S : x = y

\* The identities that a version may have.
AllKeys == [version : 1..MaxVersion, createdAt : CreationTimes]

\* The stages of serve after its load: bootstrap, then the scheduler.
Running == {"boot", "bootDeep", "wait", "deep"}
Serving == {"wait", "deep"}

NoStore == [state |-> {}, metadataOK |-> FALSE, blocked |-> FALSE,
            deepOK |-> FALSE, deepProbed |-> FALSE, degraded |-> FALSE,
            age |-> MaxStaleness + 1]
NoProbe == [pc |-> "free", discover |-> FALSE, elapsed |-> 0, ready |-> FALSE,
            blocked |-> FALSE, profile |-> {}]
NoWait == [key |-> {}, left |-> 0]
NoCheck == [key |-> {}, age |-> MaxStaleness + 1]
Closed == [open |-> FALSE, failures |-> 0, left |-> 0]

Init ==
  /\ StoreInit
  /\ \E t \in CreationTimes :
       transit = [latest |-> 1, createdAt |-> [v \in {1} |-> t], minAvail |-> 0,
                  minDec |-> 1, minEnc |-> 0, usable |-> TRUE,
                  disableUpsert |-> TRUE]
  /\ proc = "none"
  /\ store = NoStore
  /\ commit = {}
  /\ activation = NoWait
  /\ breaker = [metadata |-> Closed, deep |-> Closed]
  /\ refresh = 0
  /\ probe = NoProbe
  /\ plan = {}
  /\ reported = {}
  /\ waited = 0
  /\ checked = NoCheck

\* Mutant: a probe survives the process it ran in.
ExitKeepsProbe ==
  /\ proc' = "none"
  /\ store' = NoStore
  /\ commit' = {}
  /\ activation' = NoWait
  /\ breaker' = [metadata |-> Closed, deep |-> Closed]
  /\ refresh' = 0
  /\ probe' = probe
  /\ checked' = NoCheck
  /\ io' = Idle

\* The process is gone, and with it the lock and all of its memory.
Exit ==
  /\ proc' = "none"
  /\ store' = NoStore
  /\ commit' = {}
  /\ activation' = NoWait
  /\ breaker' = [metadata |-> Closed, deep |-> Closed]
  /\ refresh' = 0
  /\ probe' = NoProbe
  /\ checked' = NoCheck
  /\ io' = Idle

-----------------------------------------------------------------------------
(* Store and the other pieces of the controller's memory.                  *)

active(state) == {s.content.activeKeyID : s \in state}

updateHealth(st) == st.metadataOK /\ st.deepOK

\* Store.Current: healthy and not stale.
Current(st) == updateHealth(st) /\ st.age <= MaxStaleness

\* Mutant: freshness counts from the end of the probe.
publishMetadataAtEnd(st, state, blocked, age) ==
  LET same == st.state # {} /\ active(st.state) = active(state)
  IN [state |-> state, metadataOK |-> ~blocked, blocked |-> blocked,
      deepOK |-> same /\ st.deepOK, deepProbed |-> same /\ st.deepProbed,
      degraded |-> FALSE, age |-> 0]

\* publishMetadata: a new active key must pass its own deep probe.
publishMetadata(st, state, blocked, age) ==
  LET same == st.state # {} /\ active(st.state) = active(state)
  IN [state |-> state, metadataOK |-> ~blocked, blocked |-> blocked,
      deepOK |-> same /\ st.deepOK, deepProbed |-> same /\ st.deepProbed,
      degraded |-> FALSE, age |-> age]

publishMetadataUnhealthy(st, age) ==
  [st EXCEPT !.metadataOK = FALSE, !.age = age]

publishDeferredObservation(st, age) ==
  [st EXCEPT !.metadataOK = TRUE, !.blocked = FALSE, !.degraded = TRUE,
             !.age = age]

publishDeep(st, ok) == [st EXCEPT !.deepOK = ok, !.deepProbed = TRUE]

deepProbeRequired(st) ==
  st.state # {} /\ st.metadataOK /\ ~(st.deepProbed /\ st.deepOK)

\* Mutant: an open breaker is only closed by a success.
allowOnceClosed(b) == ~b.open

\* circuitBreaker: allow closes an expired breaker but keeps its count.
allow(b) == ~b.open \/ b.left = 0

recordFailure(b, elapsed) ==
  LET failures == IF b.failures < FailureThreshold THEN b.failures + 1
                  ELSE b.failures
  IN IF failures >= FailureThreshold
     THEN [open |-> TRUE, failures |-> failures,
           left |-> IF elapsed >= OpenDuration THEN 0 ELSE OpenDuration - elapsed]
     ELSE [b EXCEPT !.failures = failures]

\* stableCandidate: the pending key of a state that only waits for its delay.
stableCandidate(state, latest) ==
  {k \in UNION {KeysIn(s.content, "pending") : s \in state} :
     /\ k.version = latest
     /\ \E s \in state :
          /\ s.content.snapshots[k].stableAt # 0
          /\ s.content.snapshots[k].stableCount >= RequireStableObservationCount}

\* Mutant: any expired countdown will do.
promotionReadyAnyKey(state, profile) ==
  \/ ActivationDelay = 0
  \/ stableCandidate(state, profile.latest) # {} /\ probe.ready

promotionReady(state, profile) ==
  \/ ActivationDelay = 0
  \/ /\ stableCandidate(state, profile.latest) # {}
     /\ activation.key = stableCandidate(state, profile.latest)
     /\ probe.ready

\* confirmActivation: the countdown of a candidate starts when it is first
\* published, by the clock of that moment.
confirmActivation(state, profile) ==
  LET key == stableCandidate(state, profile.latest)
  IN IF key = {} THEN NoWait
     ELSE IF key = activation.key THEN activation
     ELSE [key |-> key, left |-> ActivationDelay]

-----------------------------------------------------------------------------
(* Starting serve: LockState, NewController.                               *)

ServeStart ==
  /\ proc = "none"
  /\ proc' = "loading"
  /\ BeginLoad
  /\ UNCHANGED <<transit, memory, plan, reported, checked>>

\* loadState with Store.LoadState: the cache knows the keys and is unhealthy.
ServeLoaded ==
  /\ proc = "loading" /\ io.at = "ok"
  /\ store' = [store EXCEPT !.state = io.next]
  /\ proc' = "boot"
  /\ io' = Idle
  /\ UNCHANGED <<disk, durable, transit, commit, activation, breaker, refresh,
                 probe, plan, reported, checked>>

ServeLoadFailed ==
  /\ proc = "loading" /\ io.at = "failed"
  /\ Exit
  /\ UNCHANGED <<disk, durable, transit, plan, reported>>

\* probeOnceWithBootstrapGrace: the grace period is over without success.
BootGivesUp ==
  /\ proc = "boot" /\ probe.pc = "free"
  /\ Exit
  /\ UNCHANGED <<disk, durable, transit, plan, reported>>

-----------------------------------------------------------------------------
(* A metadata probe: ProbeOnce (scheduled) or RefreshForDecrypt (discover). *)

\* The probe returns and releases the gate.  The main goroutine goes on after
\* a scheduled one: bootstrap needs a deep probe next, and so does the
\* scheduler when the cache asks for it.
ProbeReturns(ok, st) ==
  /\ probe' = NoProbe
  /\ proc' = IF probe.discover \/ ~ok THEN proc
             ELSE IF proc = "boot" THEN "bootDeep"
             ELSE IF proc = "wait" /\ deepProbeRequired(st) THEN "deep"
             ELSE proc

\* metadataFailed.
MetadataFailed ==
  /\ store' = publishMetadataUnhealthy(store, probe.elapsed)
  /\ ProbeReturns(FALSE, store)
  /\ UNCHANGED checked

BeginProbe(discover) ==
  /\ probe.pc = "free"
  /\ IF allow(breaker.metadata)
     THEN /\ breaker' = [breaker EXCEPT !.metadata.open = FALSE]
          /\ probe' = [NoProbe EXCEPT !.pc = "reading", !.discover = discover,
                                      !.ready = (activation.left = 0)]
          /\ UNCHANGED <<store, proc, checked>>
     ELSE /\ MetadataFailed
          /\ UNCHANGED breaker
  /\ UNCHANGED <<disk, durable, io, transit, commit, activation, plan, reported>>

ProbeOnce ==
  /\ proc \in {"boot", "wait"}
  /\ BeginProbe(FALSE)
  /\ UNCHANGED refresh

\* prepareDecryptRefresh: a key_id that no record of the cache has, at most
\* once per interval.
RefreshForDecrypt ==
  /\ "discover" \in Events
  /\ proc \in Serving
  /\ store.state # {} /\ refresh = 0
  /\ BeginProbe(TRUE)
  /\ refresh' = RefreshInterval

\* Either read fails; ReadDisableUpsert or ReadKeyProfile.
ReadFails ==
  /\ "read" \in Events
  /\ probe.pc = "reading"
  /\ breaker' = [breaker EXCEPT !.metadata = recordFailure(@, probe.elapsed)]
  /\ MetadataFailed
  /\ UNCHANGED <<disk, durable, io, transit, commit, activation, refresh, plan,
                 reported>>

\* The mount lets writes create keys: no backend failure, but unhealthy.
UpsertAllowed ==
  /\ probe.pc = "reading" /\ ~transit.disableUpsert
  /\ MetadataFailed
  /\ UNCHANGED <<disk, durable, io, transit, commit, activation, breaker, refresh,
                 plan, reported>>

\* publishMetadata and what follows it in publishObservation.
Publish(state, profile, blocked) ==
  /\ store' = publishMetadata(store, state, blocked, probe.elapsed)
  /\ commit' = {}
  /\ activation' = IF probe.discover THEN activation
                   ELSE confirmActivation(state, profile)
  /\ breaker' = [breaker EXCEPT !.metadata = Closed]
  /\ checked' = [checked EXCEPT !.age = probe.elapsed]
  /\ ProbeReturns(~blocked, store')
  /\ io' = Idle

\* Mutant: a changed state is published without saving it.
publishObservationUnsaved(base, profile) ==
  /\ \E now \in WallTimes :
       LET results ==
             IF base = {}
             THEN {Result(s, TRUE, FALSE) :
                     s \in IF AssessAutoBootstrapState(profile)
                           THEN RebuildState(profile, now) ELSE {}}
             ELSE UNION {observe(s, profile, now, ~probe.discover,
                                 promotionReady(base, profile)) : s \in base}
       IN \E r \in results : Publish({r.state}, profile, r.blocked)
  /\ UNCHANGED <<disk, durable, transit, refresh, plan, reported>>

\* publishObservation from an option of a base state: refuse, save or publish.
publishObservation(base, profile) ==
  /\ \E now \in WallTimes :
       LET results ==
             IF base = {}
             THEN {Result(s, TRUE, FALSE) :
                     s \in IF AssessAutoBootstrapState(profile)
                           THEN RebuildState(profile, now) ELSE {}}
             ELSE UNION {observe(s, profile, now, ~probe.discover,
                                 promotionReady(base, profile)) : s \in base}
       IN \/ /\ results = {}
             /\ MetadataFailed
             /\ io' = Idle
             /\ UNCHANGED <<commit, activation, breaker>>
          \/ \E r \in results :
               /\ r.changed
               /\ commit' = {[previous |-> base, next |-> r.state]}
               /\ io' = [at |-> "state", next |-> {r.state}]
               /\ probe' = [probe EXCEPT !.pc = "saving", !.blocked = r.blocked,
                                         !.profile = {profile}]
               /\ UNCHANGED <<store, proc, activation, breaker, checked>>
          \/ \E r \in results :
               /\ ~r.changed
               /\ Publish({r.state}, profile, r.blocked)
  /\ UNCHANGED <<disk, durable, transit, refresh, plan, reported>>

\* The profile is read; stateForObservation with and without a failed save.
ReadKeyProfile ==
  /\ probe.pc = "reading" /\ transit.disableUpsert
  /\ commit = {}
  /\ publishObservation(store.state, transit)

ReadKeyProfileThenRecover ==
  /\ probe.pc = "reading" /\ transit.disableUpsert
  /\ \E c \in commit : BeginRecover(c.previous, c.next)
  /\ probe' = [probe EXCEPT !.pc = "recovering", !.profile = {transit}]
  /\ UNCHANGED <<transit, proc, store, commit, activation, breaker, refresh, plan,
                 reported, checked>>

RecoverDone ==
  /\ probe.pc = "recovering" /\ io.at = "ok"
  /\ \E profile \in probe.profile :
       publishObservation({c.next : c \in commit}, profile)

SaveDone ==
  /\ probe.pc = "saving" /\ io.at = "ok"
  /\ \E profile \in probe.profile : Publish(io.next, profile, probe.blocked)
  /\ UNCHANGED <<disk, durable, transit, refresh, plan, reported>>

\* deferObservation: the failed attempt would only have counted an
\* observation, the files still hold the published state, and the profile
\* validates it.
deferObservation(profile) ==
  \E c \in commit : \E p \in c.previous :
    /\ observationOnly(p, c.next)
    /\ \E now \in WallTimes : \E r \in Discover(p, profile, now) :
         ~r.changed /\ ~r.blocked
    /\ Confirm(disk, p)
    /\ store.state = {p} /\ store.deepProbed /\ store.deepOK

\* Mutant: a promotion whose save failed is published all the same.
StateSaveFailedPromotes ==
  /\ probe.pc \in {"recovering", "saving"} /\ io.at = "failed"
  /\ \E profile \in probe.profile :
       IF active(store.state) \notin {{}, active(io.next)}
       THEN Publish(io.next, profile, probe.blocked)
       ELSE /\ MetadataFailed
            /\ io' = Idle
            /\ UNCHANGED <<commit, activation, breaker>>
  /\ UNCHANGED <<disk, durable, transit, refresh, plan, reported>>

\* stateSaveFailed, after Save or Recover: the attempt stays pending.
StateSaveFailed ==
  /\ probe.pc \in {"recovering", "saving"} /\ io.at = "failed"
  /\ \E profile \in probe.profile :
       IF deferObservation(profile)
       THEN /\ store' = publishDeferredObservation(store, probe.elapsed)
            /\ breaker' = [breaker EXCEPT !.metadata = Closed]
            /\ checked' = [checked EXCEPT !.age = probe.elapsed]
            /\ ProbeReturns(FALSE, store)
       ELSE /\ MetadataFailed
            /\ UNCHANGED breaker
  /\ io' = Idle
  /\ UNCHANGED <<disk, durable, transit, commit, activation, refresh, plan,
                 reported>>

-----------------------------------------------------------------------------
(* A deep probe: DeepProbeOnce, under the same gate.                       *)

\* external: Transit can encrypt and decrypt with this version.
TransitWorks(version) ==
  /\ transit.usable
  /\ version \in DOMAIN transit.createdAt
  /\ transit.minEnc <= version /\ transit.minDec <= version

\* What the main goroutine does after its deep probe.
DeepProbeReturns(ok) ==
  proc' = IF proc = "bootDeep" THEN (IF ok THEN "wait" ELSE "boot") ELSE "wait"

DeepFailed ==
  /\ store' = publishDeep(store, FALSE)
  /\ DeepProbeReturns(FALSE)
  /\ UNCHANGED checked

DeepProbeOnce ==
  /\ proc \in {"bootDeep", "wait", "deep"}
  /\ probe.pc = "free"
  /\ \/ /\ ~allow(breaker.deep)
        /\ DeepFailed
        /\ UNCHANGED breaker
     \/ /\ allow(breaker.deep)
        /\ store.state = {} \/ store.blocked
        /\ breaker' = [breaker EXCEPT !.deep.open = FALSE]
        /\ DeepProbeReturns(FALSE)
        /\ UNCHANGED <<store, checked>>
     \/ /\ allow(breaker.deep)
        /\ ~store.blocked
        /\ \E k \in active(store.state) : "read" \in Events \/ ~TransitWorks(k.version)
        /\ breaker' = [breaker EXCEPT !.deep =
                         recordFailure([@ EXCEPT !.open = FALSE], 0)]
        /\ DeepFailed
     \/ /\ allow(breaker.deep)
        /\ ~store.blocked
        /\ \E k \in active(store.state) : TransitWorks(k.version)
        /\ store' = publishDeep(store, TRUE)
        /\ breaker' = [breaker EXCEPT !.deep = Closed]
        /\ checked' = [checked EXCEPT !.key = active(store.state)]
        /\ DeepProbeReturns(TRUE)
  /\ UNCHANGED <<disk, durable, io, transit, commit, activation, refresh, probe,
                 plan, reported>>

-----------------------------------------------------------------------------
(* Time, requests and the store calls.                                     *)

CountDown(n) == IF n = 0 THEN 0 ELSE n - 1

CountUp(n, bound) == IF n >= bound THEN bound ELSE n + 1

\* One unit of elapsed time.
Tick ==
  /\ "time" \in Events
  /\ proc \in Running
  /\ probe.pc # "free" => probe.elapsed < MaxProbeTicks
  /\ probe' = IF probe.pc = "free" THEN probe
              ELSE [probe EXCEPT !.elapsed = @ + 1]
  /\ store' = [store EXCEPT !.age = CountUp(@, MaxStaleness + 1)]
  /\ activation' = [activation EXCEPT !.left = CountDown(@)]
  /\ breaker' = [breaker EXCEPT !.metadata.left = CountDown(@),
                                !.deep.left = CountDown(@)]
  /\ refresh' = CountDown(refresh)
  /\ checked' = [checked EXCEPT !.age = CountUp(@, MaxStaleness + 1)]
  /\ waited' = CountUp(waited, ActivationDelay)
  /\ UNCHANGED <<disk, durable, io, transit, proc, commit, plan, reported>>

\* clock.Lifetime: a reading of the cache while the wall clock is ahead ages
\* it for good.
WallClockAhead ==
  /\ "wall" \in Events
  /\ proc \in Serving
  /\ store' = [store EXCEPT !.age = MaxStaleness + 1]
  /\ UNCHANGED <<disk, durable, io, transit, proc, commit, activation, breaker,
                 refresh, probe, plan, reported, checked>>

\* Status and Encrypt hand out the active key_id of a healthy cache.
ReportActive ==
  /\ proc \in Serving
  /\ Current(store)
  /\ reported' = reported \union active(store.state)
  /\ UNCHANGED <<disk, durable, io, transit, proc, memory, plan, checked>>

StoreProgress ==
  /\ StoreStep
  /\ UNCHANGED <<transit, proc, memory, plan, reported, checked>>

ProcessStop ==
  /\ proc # "none"
  /\ ProcessStops
  /\ Exit
  /\ UNCHANGED <<transit, plan, reported>>

-----------------------------------------------------------------------------
(* Operator commands: a reviewed plan, then its application.               *)

Transitions == [kind : {"retire"}, before : 1..MaxVersion]
               \union [kind : {"restore"}, versions : SUBSET (1..MaxVersion)]

\* planRetirementTransition.
Planned(s, op) == IF op.kind = "retire" THEN RetireVersions(s, op.before)
                  ELSE RestoreVersions(s, op.versions)

\* validateRetirementProfile.
validateRetirementProfile(content) ==
  /\ transit.latest >= content.activeKeyID.version
  /\ ValidateRecoveryProfile(transit, content)

\* runRetirement without --apply reads the registry without the lock.
PlanTransition ==
  /\ "operator" \in Events
  /\ LoadAssessment(disk) \in {"behind", "current"}
  /\ \E s \in disk.state, op \in Transitions : \E next \in Planned(s, op) :
       /\ validateRetirementProfile(next.content)
       /\ plan' = {[hash |-> computeHash(s), op |-> op]}
  /\ UNCHANGED <<disk, durable, io, transit, proc, memory, reported, checked>>

\* Mutant: --expected-state-hash is not compared.
ApplyTransitionUnreviewed ==
  /\ proc = "none"
  /\ LoadAssessment(disk) \in {"behind", "current"}
  /\ \E s \in disk.state, p \in plan : \E next \in Planned(s, p.op) :
       /\ validateRetirementProfile(next.content)
       /\ next.generation <= MaxGeneration
       /\ commit' = {[previous |-> {s}, next |-> next]}
  /\ proc' = "cliLoading"
  /\ BeginLoad
  /\ UNCHANGED <<transit, store, activation, breaker, refresh, probe, plan,
                 reported, checked>>

\* runRetirement with --apply, up to FileStateStore.Load.
ApplyTransition ==
  /\ proc = "none"
  /\ LoadAssessment(disk) \in {"behind", "current"}
  /\ \E s \in disk.state, p \in plan : \E next \in Planned(s, p.op) :
       /\ p.hash = computeHash(s)
       /\ validateRetirementProfile(next.content)
       /\ next.generation <= MaxGeneration
       /\ commit' = {[previous |-> {s}, next |-> next]}
  /\ proc' = "cliLoading"
  /\ BeginLoad
  /\ UNCHANGED <<transit, store, activation, breaker, refresh, probe, plan,
                 reported, checked>>

\* applyRetirementTransition: the loaded state must still be the planned one.
SaveTransition ==
  /\ proc = "cliLoading" /\ io.at = "ok"
  /\ \E c \in commit :
       /\ io.next = c.previous /\ {c.next} # c.previous
       /\ io' = [at |-> "state", next |-> {c.next}]
  /\ proc' = "cliSaving"
  /\ UNCHANGED <<disk, durable, transit, memory, plan, reported, checked>>

\* The command is done: saved, failed, or nothing to change.
CommandExits ==
  /\ \/ proc = "cliLoading" /\ io.at = "failed"
     \/ /\ proc = "cliLoading" /\ io.at = "ok"
        /\ \E c \in commit : io.next # c.previous \/ {c.next} = c.previous
     \/ proc = "cliSaving" /\ io.at \in {"ok", "failed"}
  /\ Exit
  /\ UNCHANGED <<disk, durable, transit, plan, reported>>

-----------------------------------------------------------------------------
(* external: the platform team's changes to the Transit key.               *)

TransitChanges ==
  UNCHANGED <<disk, durable, io, proc, memory, plan, reported, checked>>

Rotate ==
  /\ transit.latest < MaxVersion
  /\ \E t \in CreationTimes :
       transit' = [transit EXCEPT
          !.latest = @ + 1,
          !.createdAt = [v \in DOMAIN @ \union {transit.latest + 1} |->
                           IF v \in DOMAIN @ THEN @[v] ELSE t]]
  /\ TransitChanges

\* A restored backup has fewer versions, and its next rotation creates a
\* different key under a version number that was already used.
RestoreBackup ==
  /\ "restore" \in Events
  /\ \E v \in DOMAIN transit.createdAt \ {transit.latest} :
       transit' = [transit EXCEPT
          !.latest = v,
          !.createdAt = [w \in {w \in DOMAIN @ : w <= v} |-> @[w]],
          !.minAvail = 0, !.minDec = 1, !.minEnc = 0]
  /\ TransitChanges

\* min_encryption_version and min_decryption_version.
SetMinimums ==
  /\ "minimums" \in Events
  /\ \/ \E v \in 0..transit.latest : transit' = [transit EXCEPT !.minEnc = v]
     \/ \E v \in 1..transit.latest : transit' = [transit EXCEPT !.minDec = v]
  /\ TransitChanges

\* Trimming drops the versions below min_available_version, which Transit
\* allows once min_decryption_version is raised as far.
Trim ==
  /\ "trim" \in Events
  /\ \E v \in (transit.minAvail + 1)..transit.latest :
       transit' = [transit EXCEPT
          !.minDec = IF @ < v THEN v ELSE @,
          !.minAvail = v,
          !.createdAt = [w \in {w \in DOMAIN @ : w >= v} |-> @[w]]]
  /\ TransitChanges

ChangeSettings ==
  /\ "settings" \in Events
  /\ \/ transit' = [transit EXCEPT !.usable = ~@]
     \/ transit' = [transit EXCEPT !.disableUpsert = ~@]
  /\ TransitChanges

-----------------------------------------------------------------------------
ScheduledProbe == ProbeOnce \/ DeepProbeOnce

ProbeStep ==
  \/ ReadFails \/ UpsertAllowed \/ ReadKeyProfile \/ ReadKeyProfileThenRecover
  \/ RecoverDone \/ SaveDone \/ StateSaveFailed

Startup == ServeStart \/ ServeLoaded \/ ServeLoadFailed \/ BootGivesUp

Command == PlanTransition \/ ApplyTransition \/ SaveTransition \/ CommandExits

Platform == Rotate \/ RestoreBackup \/ SetMinimums \/ Trim \/ ChangeSettings

Untimed ==
  \/ Startup \/ ScheduledProbe \/ RefreshForDecrypt \/ ProbeStep
  \/ WallClockAhead \/ ReportActive \/ StoreProgress \/ ProcessStop
  \/ Command \/ Platform

\* The stable candidate that the files hold.
CandidateOn(image) ==
  {k \in UNION {KeysIn(s.content, "pending") : s \in image.state} :
     \E s \in image.state : s.content.snapshots[k].stableAt # 0}

KeepWaiting ==
  waited' = IF proc' \in Running /\ CandidateOn(disk') = CandidateOn(disk)
            THEN waited ELSE 0

Next == Tick \/ (Untimed /\ KeepWaiting)

Spec == Init /\ [][Next]_vars

\* A failure that is not due to the state of Transit.
Fails ==
  \/ ReadFails
  \/ /\ DeepProbeOnce /\ ~store'.deepOK
     /\ allow(breaker.deep) /\ ~store.blocked
     /\ \E k \in active(store.state) : TransitWorks(k.version)
  \/ StoreProgress /\ io'.at = "failed"

\* Time passes and started calls return.  Both tickers of Scheduler.Run keep
\* firing, and goroutines that wait for probeGate are served in their order of
\* arrival, so neither scheduled probe is starved by the other or by
\* discovery.  A disturbance of OpenBao or of the storage ends at some time.
FairSpec ==
  /\ Spec
  /\ SF_vars(Tick)
  /\ WF_vars((ServeLoaded \/ ServeLoadFailed \/ ProbeStep \/ StoreProgress)
             /\ KeepWaiting)
  /\ SF_vars(ProbeOnce /\ KeepWaiting)
  /\ SF_vars(DeepProbeOnce /\ ~Fails /\ KeepWaiting)
  /\ <>[][~Fails]_vars

=============================================================================
