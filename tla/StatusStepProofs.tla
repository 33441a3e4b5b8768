-------------------------- MODULE StatusStepProofs --------------------------
(***************************************************************************)
(* Every step of the node has one of the effects of StatusEffects, for     *)
(* every policy, every number of versions and every clock.                 *)
(***************************************************************************)
EXTENDS StatusEffects, RotationProofs

\* A process starts with an empty and unhealthy store.
LEMMA NoStoreShape ==
  /\ IsStore(NoStore) /\ NoStore.state = {}
  /\ NoStore.metadataOK = FALSE /\ NoStore.deepOK = FALSE
BY ControllerAssumption DEF IsStore, NoStore, IsOption

\* No probe runs.
LEMMA NoProbeShape ==
  IsProbe(NoProbe) /\ NoProbe.pc = "free" /\ NoProbe.profile = {} /\ NoProbe.discover = FALSE
BY DEF IsProbe, NoProbe, IsOption

\* Only a running provider probes.
LEMMA RunningProbe == ASSUME IInv, probe.pc # "free" PROVE proc \in Running
BY NoProbeShape DEF IInv, ControlInv

-----------------------------------------------------------------------------
(* Every step has one of the effects.  The proof goes through the operations *)
(* of the cache, the steps that leave the commit alone, the steps of the   *)
(* store and the commands, and the steps of a probe.                       *)

\* Every step of the node has one of the effects, and keeps the shapes and the health.
LEMMA NextEffect ==
  IInv /\ HealthInv /\ [Next]_vars => ShapeInv' /\ HealthInv' /\ Effect
\* publishMetadataUnhealthy keeps the state and the deep health.
<1>UnhealthyStore.
  ASSUME NEW st, IsStore(st), NEW age \in Nat, NEW new, new = publishMetadataUnhealthy(st, age)
  PROVE /\ IsStore(new) /\ new.state = st.state
        /\ new.metadataOK = FALSE /\ new.deepOK = st.deepOK
    BY <1>UnhealthyStore, Zenon DEF IsStore, publishMetadataUnhealthy
\* A deferred observation keeps the state.
<1>DeferredStore.
  ASSUME NEW st, IsStore(st), NEW age \in Nat, NEW new, new = publishDeferredObservation(st, age)
  PROVE IsStore(new) /\ new.state = st.state /\ new.deepOK = st.deepOK /\ new.age = age
    BY <1>DeferredStore, Zenon DEF IsStore, publishDeferredObservation
\* publishDeep keeps the state and the metadata health.
<1>DeepStore.
  ASSUME NEW st, IsStore(st), NEW ok \in BOOLEAN, NEW new, new = publishDeep(st, ok)
  PROVE /\ IsStore(new) /\ new.state = st.state
        /\ new.metadataOK = st.metadataOK /\ new.deepOK = ok /\ new.age = st.age
    BY <1>DeepStore, Zenon DEF IsStore, publishDeep
\* A tick ages the store only.
<1>AgedStore.
  ASSUME NEW st, IsStore(st), NEW age \in Nat, NEW new, new = [st EXCEPT !.age = age]
  PROVE /\ IsStore(new) /\ new.state = st.state
        /\ new.metadataOK = st.metadataOK /\ new.deepOK = st.deepOK /\ new.age = age
    BY <1>AgedStore DEF IsStore
\* Loading sets the state only.
<1>LoadedStore.
  ASSUME NEW st, IsStore(st), NEW S, IsOption(S), NEW new, new = [st EXCEPT !.state = S]
  PROVE /\ IsStore(new) /\ new.state = S
        /\ new.metadataOK = st.metadataOK /\ new.deepOK = st.deepOK
    BY <1>LoadedStore DEF IsStore
\* publishMetadata replaces the state and forgets a deep check of another key.
<1>PublishedStore.
  ASSUME NEW st, IsStore(st), NEW S, IsOption(S), NEW blocked \in BOOLEAN, NEW age \in Nat,
         NEW new, new = publishMetadata(st, S, blocked, age)
  PROVE /\ IsStore(new) /\ new.state = S
        /\ new.metadataOK = ~blocked /\ new.age = age
        /\ new.deepOK => st.deepOK /\ active(st.state) = active(S)
  <2>. USE <1>PublishedStore
  <2>. DEFINE same == st.state # {} /\ active(st.state) = active(S)
              deepOK == same /\ st.deepOK
              deepProbed == same /\ st.deepProbed
  <2>1. new = [state |-> S, metadataOK |-> ~blocked, blocked |-> blocked,
               deepOK |-> deepOK, deepProbed |-> deepProbed,
               degraded |-> FALSE, age |-> age]
    BY DEF publishMetadata
  <2>2. deepOK \in BOOLEAN /\ (deepOK => st.deepOK /\ active(st.state) = active(S))
    BY DEF IsStore
  <2>3. (~blocked) \in BOOLEAN
    OBVIOUS
  <2>. HIDE DEF deepOK, deepProbed
  <2>. QED BY <2>1, <2>2, <2>3 DEF IsStore
\* A probe that saves has its profile and its verdict.
<1>ProbeSaves.
  ASSUME NEW p, IsProbe(p), NEW blocked \in BOOLEAN, NEW t
  PROVE LET new == AsSaving(p, blocked, t)
        IN IsProbe(new) /\ new.pc = "saving" /\ new.profile = {t} /\ new.blocked = blocked
  <2>. USE <1>ProbeSaves
  <2>1. ASSUME NEW new, new = AsSaving(p, blocked, t)
        PROVE IsProbe(new) /\ new.pc = "saving" /\ new.profile = {t} /\ new.blocked = blocked
    BY <2>1, Zenon DEF AsSaving, IsProbe, IsOption
  <2>. QED BY <2>1
\* A probe starts by reading.
<1>ProbeStarts.
  ASSUME NEW discover \in BOOLEAN, NEW ready \in BOOLEAN,
         NEW new, new = [NoProbe EXCEPT !.pc = "reading", !.discover = discover, !.ready = ready]
  PROVE IsProbe(new) /\ new.pc = "reading" /\ new.profile = {}
    BY <1>ProbeStarts, Zenon DEF IsProbe, NoProbe, IsOption
\* A probe that fails publishes no state and no health.
<1>MetadataFails.
  ASSUME IInv, HealthInv, proc \in Running, MetadataFailed
  PROVE /\ IsStore(store') /\ store'.state = store.state /\ store'.metadataOK = FALSE
        /\ probe' = NoProbe /\ proc' \in Running /\ checked' = checked
        /\ HealthInv'
  <2>. USE <1>MetadataFails
  <2>1. IsStore(store) /\ probe.elapsed \in Nat
    BY DEF IInv, ShapeInv, IsProbe
  <2>2. store' = publishMetadataUnhealthy(store, probe.elapsed)
    BY DEF MetadataFailed
  <2>3. /\ IsStore(store') /\ store'.state = store.state
        /\ store'.metadataOK = FALSE /\ store'.deepOK = store.deepOK
    BY <2>1, <2>2, <1>UnhealthyStore, ZenonT(30)
  <2>4. probe' = NoProbe /\ proc' \in Running /\ checked' = checked
    BY DEF MetadataFailed, ProbeReturns, Running
  <2>5. HealthInv'
    BY <2>3, <2>4 DEF HealthInv, active
  <2>. QED BY <2>3, <2>4, <2>5
\* A probe that begins, or that the breaker refuses, touches neither file.
<1>BeginProbeStep.
  ASSUME IInv, HealthInv, proc \in Running, NEW discover \in BOOLEAN, BeginProbe(discover)
  PROVE ShapeInv' /\ HealthInv' /\ Quiet /\ UNCHANGED <<reported, plan>>
  <2>. USE <1>BeginProbeStep
  <2>1. probe.pc = "free" /\ UNCHANGED <<disk, io, transit, commit, activation, plan, reported>>
    BY DEF BeginProbe
  <2>2. CASE MetadataFailed
    BY <2>1, <2>2, <1>MetadataFails, NoProbeShape, ZenonT(30) DEF IInv, ShapeInv, Quiet, ProbeKept
  <2>3. CASE /\ probe' = [NoProbe EXCEPT !.pc = "reading", !.discover = discover,
                                         !.ready = (activation.left = 0)]
             /\ UNCHANGED <<store, proc, checked>>
    <3>. DEFINE ready == (activation.left = 0)
    <3>1. ready \in BOOLEAN /\ probe' = [NoProbe EXCEPT !.pc = "reading", !.discover = discover,
                                                        !.ready = ready]
      BY <2>3, Zenon
    <3>. HIDE DEF ready
    <3>2. IsProbe(probe') /\ probe'.pc = "reading" /\ probe'.profile = {}
      BY <3>1, <1>ProbeStarts, ZenonT(30)
    <3>. QED BY <2>1, <2>3, <3>2 DEF IInv, ShapeInv, HealthInv, Quiet, ProbeKept
  <2>. QED BY <2>2, <2>3 DEF BeginProbe
\* Steps that leave the files alone, except Tick and the deep probe.
<1>QuietSteps.
  ASSUME IInv, HealthInv,
         ProbeOnce \/ RefreshForDecrypt \/ ReadFails \/ UpsertAllowed \/ WallClockAhead
  PROVE ShapeInv' /\ HealthInv' /\ Quiet /\ UNCHANGED <<reported, plan>>
  <2>. USE <1>QuietSteps
  <2>1. CASE ProbeOnce
    BY <2>1, <1>BeginProbeStep, Zenon DEF ProbeOnce, Running
  <2>2. CASE RefreshForDecrypt
    BY <2>2, <1>BeginProbeStep, Zenon DEF RefreshForDecrypt, Running, Serving
  <2>3. CASE ReadFails \/ UpsertAllowed
    <3>1. probe.pc = "reading" /\ MetadataFailed
          /\ UNCHANGED <<disk, io, transit, commit, activation, plan, reported>>
      BY <2>3 DEF ReadFails, UpsertAllowed
    <3>2. proc \in Running
      BY <3>1, RunningProbe
    <3>. QED BY <3>1, <3>2, <1>MetadataFails, NoProbeShape, ZenonT(30) DEF IInv, ShapeInv, Quiet, ProbeKept
  <2>4. CASE WallClockAhead
    <3>1. /\ store' = [store EXCEPT !.age = MaxStaleness + 1] /\ proc \in Running
          /\ UNCHANGED <<disk, io, transit, proc, commit, activation, probe, plan, reported, checked>>
      BY <2>4 DEF WallClockAhead, Running, Serving
    <3>2. MaxStaleness + 1 \in Nat /\ MaxStaleness \in Nat
      BY ControllerAssumption
    <3>3. /\ IsStore(store') /\ store'.state = store.state /\ store'.metadataOK = store.metadataOK
          /\ store'.deepOK = store.deepOK /\ store'.age = MaxStaleness + 1
      BY <3>1, <3>2, <1>AgedStore DEF IInv, ShapeInv
    <3>. QED BY <3>1, <3>2, <3>3 DEF IInv, ShapeInv, HealthInv, Quiet, ProbeKept, active
  <2>. QED BY <2>1, <2>2, <2>3, <2>4
\* Time passes: the ages grow together.
<1>TickStep.
  ASSUME IInv, HealthInv, Tick
  PROVE ShapeInv' /\ HealthInv' /\ Quiet /\ UNCHANGED <<reported, plan>>
  <2>. USE <1>TickStep
  <2>1. /\ proc \in Running
        /\ probe' = probe \/ probe' = [probe EXCEPT !.elapsed = @ + 1]
        /\ store' = [store EXCEPT !.age = CountUp(@, MaxStaleness + 1)]
        /\ activation' = [activation EXCEPT !.left = CountDown(@)]
        /\ checked' = [checked EXCEPT !.age = CountUp(@, MaxStaleness + 1)]
        /\ UNCHANGED <<disk, io, transit, proc, commit, plan, reported>>
    BY DEF Tick
  <2>2. MaxStaleness \in Nat /\ store.age \in Nat /\ checked.age \in Nat /\ activation.left \in Nat
    BY ControllerAssumption DEF IInv, ShapeInv, IsStore
  <2>. DEFINE age == CountUp(store.age, MaxStaleness + 1)
  <2>3. age \in Nat /\ (age <= MaxStaleness => age = store.age + 1 /\ store.age <= MaxStaleness)
    BY <2>2 DEF CountUp
  <2>4. store' = [store EXCEPT !.age = age]
    BY <2>1
  <2>. HIDE DEF age
  <2>5. /\ IsStore(store') /\ store'.state = store.state /\ store'.metadataOK = store.metadataOK
        /\ store'.deepOK = store.deepOK /\ store'.age = age
    BY <2>3, <2>4, <1>AgedStore DEF IInv, ShapeInv
  <2>6. /\ checked' = [key |-> checked.key, age |-> checked'.age] /\ checked'.key = checked.key
        /\ checked'.age = CountUp(checked.age, MaxStaleness + 1)
    BY <2>1 DEF IInv, ShapeInv
  <2>7. checked'.age \in Nat /\ checked'.age <= checked.age + 1
    BY <2>2, <2>6 DEF CountUp
  <2>8. /\ activation' = [key |-> activation'.key, left |-> activation'.left]
        /\ activation'.left = CountDown(activation.left)
    BY <2>1 DEF IInv, ShapeInv
  <2>9. activation'.left \in Nat
    BY <2>2, <2>8 DEF CountDown
  <2>10. /\ IsProbe(probe') /\ probe'.pc = probe.pc /\ probe'.profile = probe.profile
         /\ probe'.blocked = probe.blocked
    BY <2>1 DEF IInv, ShapeInv, IsProbe
  <2>11. HealthInv'
    BY <2>1, <2>2, <2>3, <2>5, <2>6, <2>7 DEF HealthInv, active
  <2>12. ShapeInv'
    BY <2>1, <2>5, <2>6, <2>7, <2>8, <2>9, <2>10, ZenonT(30) DEF IInv, ShapeInv
  <2>. QED BY <2>1, <2>5, <2>10, <2>11, <2>12, ZenonT(30) DEF Quiet, ProbeKept
\* A deep probe touches neither file, and it checks the key that it publishes as healthy.
<1>DeepStep.
  ASSUME IInv, HealthInv, DeepProbeOnce
  PROVE ShapeInv' /\ HealthInv' /\ Quiet /\ UNCHANGED <<reported, plan>>
  <2>. USE <1>DeepStep
  <2>1. /\ proc \in Running /\ proc' \in Running
        /\ UNCHANGED <<disk, io, transit, commit, activation, probe, plan, reported>>
    BY Zenon DEF DeepProbeOnce, Running, DeepProbeReturns, DeepFailed
  <2>2. \/ store' = publishDeep(store, FALSE) /\ UNCHANGED checked
        \/ UNCHANGED <<store, checked>>
        \/ /\ store' = publishDeep(store, TRUE)
           /\ checked' = [checked EXCEPT !.key = active(store.state)]
    BY Zenon DEF DeepProbeOnce, DeepFailed
  <2>3. IsStore(store)
    BY DEF IInv, ShapeInv
  <2>4. CASE store' = publishDeep(store, FALSE) /\ UNCHANGED checked
    <3>1. /\ IsStore(store') /\ store'.state = store.state
          /\ store'.metadataOK = store.metadataOK /\ store'.deepOK = FALSE /\ store'.age = store.age
      BY <2>3, <2>4, <1>DeepStore, ZenonT(30)
    <3>. QED BY <2>1, <2>4, <3>1, ZenonT(30) DEF IInv, ShapeInv, HealthInv, Quiet, ProbeKept
  <2>5. CASE UNCHANGED <<store, checked>>
    BY <2>1, <2>5, ZenonT(30) DEF IInv, ShapeInv, HealthInv, Quiet, ProbeKept
  <2>6. CASE /\ store' = publishDeep(store, TRUE)
             /\ checked' = [checked EXCEPT !.key = active(store.state)]
    <3>1. /\ IsStore(store') /\ store'.state = store.state
          /\ store'.metadataOK = store.metadataOK /\ store'.age = store.age
      BY <2>3, <2>6, <1>DeepStore, ZenonT(30)
    <3>2. /\ checked' = [key |-> checked'.key, age |-> checked'.age]
          /\ checked'.key = active(store.state) /\ checked'.age = checked.age
      BY <2>6 DEF IInv, ShapeInv
    <3>3. active(store'.state) = active(store.state)
      BY <3>1
    <3>. HIDE DEF active
    <3>. QED BY <2>1, <3>1, <3>2, <3>3 DEF IInv, ShapeInv, HealthInv, Quiet, ProbeKept
  <2>. QED BY <2>2, <2>4, <2>5, <2>6, ZenonT(30)
\* The changes that the platform team makes keep a Transit key a Transit key.
<1>PlatformTransit.
  ASSUME IsTransit(transit), Platform
  PROVE IsTransit(transit')
  <2>. USE <1>PlatformTransit
  <2>. DEFINE old == transit.createdAt
  <2>1. /\ \A v \in DOMAIN old : v \in 1..MaxVersion /\ old[v] \in CreationTimes /\ old[v] \in Nat
        /\ transit.latest \in Nat /\ transit.latest <= MaxVersion /\ MaxVersion \in Nat
        /\ transit.minAvail \in Nat /\ transit.minDec \in Nat /\ transit.minEnc \in Nat
        /\ Numbered(transit)
    BY ControllerAssumption DEF IsTransit, IsProfile
  <2>2. ASSUME Rotate PROVE IsTransit(transit')
    <3>1. PICK t \in CreationTimes :
            transit' = [transit EXCEPT
              !.latest = @ + 1,
              !.createdAt = [v \in DOMAIN @ \union {transit.latest + 1} |->
                               IF v \in DOMAIN @ THEN @[v] ELSE t]]
      BY <2>2, Zenon DEF Rotate
    <3>. DEFINE new == [v \in DOMAIN old \union {transit.latest + 1} |->
                          IF v \in DOMAIN old THEN old[v] ELSE t]
    <3>2. \A v \in DOMAIN new : v \in 1..MaxVersion /\ new[v] \in CreationTimes /\ new[v] \in Nat
      BY <2>1, <2>2, ControllerAssumption DEF Rotate
    <3>3. new = [v \in DOMAIN new |-> new[v]]
      OBVIOUS
    <3>4. transit' = [transit EXCEPT !.latest = @ + 1, !.createdAt = new]
      BY <3>1
    <3>. HIDE DEF new
    <3>5. transit' = [latest |-> transit.latest + 1, createdAt |-> new, minAvail |-> transit.minAvail,
                      minDec |-> transit.minDec, minEnc |-> transit.minEnc,
                      usable |-> transit.usable, disableUpsert |-> transit.disableUpsert]
      BY <3>4, Zenon DEF IsTransit
    <3>6. transit.latest < MaxVersion
      BY <2>2, ZenonT(30) DEF Rotate
    <3>7. Numbered(transit')
      <4>1. DOMAIN new = DOMAIN old \union {transit.latest + 1}
        BY DEF new
      <4>. QED BY <2>1, <3>5, <4>1 DEF Numbered
    <3>. QED BY <2>1, <3>2, <3>3, <3>5, <3>6, <3>7 DEF IsTransit, IsProfile
  <2>3. ASSUME RestoreBackup PROVE IsTransit(transit')
    <3>1. PICK v \in DOMAIN old \ {transit.latest} :
            transit' = [transit EXCEPT
              !.latest = v,
              !.createdAt = [w \in {w \in DOMAIN @ : w <= v} |-> @[w]],
              !.minAvail = 0, !.minDec = 1, !.minEnc = 0]
      BY <2>3, ZenonT(30) DEF RestoreBackup
    <3>. DEFINE new == [w \in {w \in DOMAIN old : w <= v} |-> old[w]]
    <3>2. \A w \in DOMAIN new : w \in 1..MaxVersion /\ new[w] \in CreationTimes /\ new[w] \in Nat
      BY <2>1
    <3>3. new = [w \in DOMAIN new |-> new[w]]
      OBVIOUS
    <3>4. transit' = [transit EXCEPT !.latest = v, !.createdAt = new,
                                     !.minAvail = 0, !.minDec = 1, !.minEnc = 0]
      BY <3>1
    <3>. HIDE DEF new
    <3>5. transit' = [latest |-> v, createdAt |-> new, minAvail |-> 0,
                      minDec |-> 1, minEnc |-> 0,
                      usable |-> transit.usable, disableUpsert |-> transit.disableUpsert]
      BY <3>4, ZenonT(30) DEF IsTransit
    <3>6. v \in Nat /\ v <= MaxVersion
      BY <2>1
    <3>7. Numbered(transit')
      <4>1. DOMAIN new = {w \in DOMAIN old : w <= v}
        BY DEF new
      <4>. QED BY <2>1, <3>5, <4>1 DEF Numbered
    <3>. QED BY <2>1, <3>2, <3>3, <3>5, <3>6, <3>7 DEF IsTransit, IsProfile
  <2>4. ASSUME SetMinimums PROVE IsTransit(transit')
    <3>1. PICK v \in Nat : /\ v <= transit.latest
                           /\ \/ transit' = [transit EXCEPT !.minEnc = v]
                              \/ transit' = [transit EXCEPT !.minDec = v]
      BY <2>1, <2>4 DEF SetMinimums
    <3>. QED BY <2>1, <3>1 DEF IsTransit, IsProfile, Numbered
  <2>5. ASSUME Trim PROVE IsTransit(transit')
    <3>1. PICK v \in (transit.minAvail + 1)..transit.latest :
            transit' = [transit EXCEPT
              !.minDec = IF @ < v THEN v ELSE @,
              !.minAvail = v,
              !.createdAt = [w \in {w \in DOMAIN @ : w >= v} |-> @[w]]]
      BY <2>5, ZenonT(30) DEF Trim
    <3>. DEFINE new == [w \in {w \in DOMAIN old : w >= v} |-> old[w]]
                min == IF transit.minDec < v THEN v ELSE transit.minDec
    <3>2. \A w \in DOMAIN new : w \in 1..MaxVersion /\ new[w] \in CreationTimes /\ new[w] \in Nat
      BY <2>1
    <3>3. new = [w \in DOMAIN new |-> new[w]] /\ min \in Nat /\ v \in Nat
      BY <2>1
    <3>4. transit' = [transit EXCEPT !.minDec = min, !.minAvail = v, !.createdAt = new]
      BY <3>1
    <3>. HIDE DEF new, min
    <3>5. transit' = [latest |-> transit.latest, createdAt |-> new, minAvail |-> v,
                      minDec |-> min, minEnc |-> transit.minEnc,
                      usable |-> transit.usable, disableUpsert |-> transit.disableUpsert]
      BY <3>4, ZenonT(30) DEF IsTransit
    <3>6. Numbered(transit')
      <4>1. DOMAIN new = {w \in DOMAIN old : w >= v} /\ min <= transit.latest
        BY <2>1 DEF new, min, Numbered
      <4>. QED BY <2>1, <3>3, <3>5, <4>1 DEF Numbered
    <3>. QED BY <2>1, <3>2, <3>3, <3>5, <3>6 DEF IsTransit, IsProfile
  <2>6. ASSUME ChangeSettings PROVE IsTransit(transit')
    <3>1. PICK b : transit' = [transit EXCEPT !.usable = b] \/ transit' = [transit EXCEPT !.disableUpsert = b]
      BY <2>6, ZenonT(30) DEF ChangeSettings
    <3>. QED BY <3>1 DEF IsTransit, IsProfile, Numbered
  <2>. QED BY <2>2, <2>3, <2>4, <2>5, <2>6, ZenonT(30) DEF Platform
\* What Transit's operators do changes nothing of the node.
<1>PlatformStep.
  ASSUME IInv, HealthInv, Platform
  PROVE ShapeInv' /\ HealthInv' /\ Quiet /\ UNCHANGED <<reported, plan>>
  <2>. USE <1>PlatformStep
  <2>1. UNCHANGED <<disk, io, proc, store, commit, activation, probe, plan, reported, checked>>
    BY Zenon DEF Platform, Rotate, RestoreBackup, SetMinimums, Trim, ChangeSettings, TransitChanges, memory
  <2>2. IsTransit(transit')
    BY <1>PlatformTransit, ZenonT(30) DEF IInv, ShapeInv
  <2>. QED BY <2>1, <2>2 DEF IInv, ShapeInv, HealthInv, Quiet, ProbeKept
\* Status reports the active key of the store.
<1>ReportStep.
  ASSUME IInv, HealthInv, ReportActive
  PROVE /\ ShapeInv' /\ HealthInv' /\ Quiet
        /\ UNCHANGED plan /\ reported' = reported \union active(store.state)
  <2>. USE <1>ReportStep
  <2>1. /\ UNCHANGED <<disk, io, transit, proc, store, commit, activation, probe, plan, checked>>
        /\ reported' = reported \union active(store.state)
    BY ZenonT(30) DEF ReportActive, memory
  <2>. QED BY <2>1 DEF IInv, ShapeInv, HealthInv, Quiet, ProbeKept
\* The command line plans a transition of the state that it reads.
<1>PlanStep.
  ASSUME IInv, HealthInv, PlanTransition
  PROVE /\ ShapeInv' /\ HealthInv' /\ Quiet /\ UNCHANGED reported
        /\ \E s \in disk.state, p \in plan' : p.hash = computeHash(s)
  <2>. USE <1>PlanStep
  <2>1. UNCHANGED <<disk, io, transit, proc, store, commit, activation, probe, reported, checked>>
    BY ZenonT(30) DEF PlanTransition, memory
  <2>2. PICK s \in disk.state, op \in Transitions : plan' = {[hash |-> computeHash(s), op |-> op]}
    BY DEF PlanTransition
  <2>3. (\E p \in plan' : p.hash = computeHash(s)) /\ \A p \in plan' : p.op \in Transitions
    <3>. HIDE DEF Transitions
    <3>. QED BY <2>2
  <2>. HIDE DEF Transitions
  <2>. QED BY <2>1, <2>3, ZenonT(30) DEF IInv, ShapeInv, HealthInv, Quiet, ProbeKept
\* Every way to stop leaves the files alone.
<1>ExitSteps.
  ASSUME IInv, ServeLoadFailed \/ BootGivesUp \/ ProcessStop \/ CommandExits
  PROVE ShapeInv' /\ HealthInv' /\ Exits
  <2>. USE <1>ExitSteps
  <2>1. Exits
    BY DEF ServeLoadFailed, BootGivesUp, ProcessStop, CommandExits, Exits, ProcessStops
  <2>2. /\ IsStore(store') /\ IsProbe(probe') /\ probe'.profile = {} /\ proc' = "none"
        /\ io' = Idle /\ disk' = disk /\ transit' = transit /\ plan' = plan
        /\ activation' = NoWait /\ checked' = NoCheck
    BY <2>1, NoStoreShape, NoProbeShape DEF Exits, Exit
  <2>3. io' = [at |-> io'.at, next |-> io'.next]
    BY <2>2 DEF Idle
  <2>4. activation' = [key |-> activation'.key, left |-> activation'.left] /\ activation'.left \in Nat
    BY <2>2 DEF NoWait
  <2>5. checked' = [key |-> checked'.key, age |-> checked'.age] /\ checked'.age \in Nat
    BY <2>2, ControllerAssumption DEF NoCheck
  <2>6. ShapeInv'
    BY <2>2, <2>3, <2>4, <2>5 DEF IInv, ShapeInv
  <2>. QED BY <2>1, <2>2, <2>6, ZenonT(30) DEF HealthInv, Running
\* FileStateStore.Load begins.
<1>BeginLoadEffect.
  ASSUME BeginLoad
  PROVE /\ UNCHANGED disk /\ io' = [at |-> io'.at, next |-> io'.next]
        /\ io'.at \in {"checkpoint", "ok", "failed"} /\ io'.next = disk.state
    BY <1>BeginLoadEffect DEF BeginLoad
\* serve begins to load.
<1>StartStep.
  ASSUME IInv, HealthInv, ServeStart
  PROVE /\ ShapeInv' /\ HealthInv' /\ proc = "none" /\ proc' = "loading"
        /\ UNCHANGED <<disk, store, commit, probe, plan, reported>>
        /\ io'.at \in {"checkpoint", "ok", "failed"} /\ io'.next = disk.state
  <2>. USE <1>StartStep
  <2>1. /\ proc = "none" /\ proc' = "loading" /\ BeginLoad
        /\ UNCHANGED <<transit, store, commit, activation, probe, plan, reported, checked>>
    BY DEF ServeStart, memory
  <2>. QED BY <2>1, <1>BeginLoadEffect DEF IInv, ShapeInv, HealthInv, Running
\* serve has loaded: the store holds the state of the file.
<1>LoadedStep.
  ASSUME IInv, HealthInv, ServeLoaded
  PROVE /\ ShapeInv' /\ HealthInv' /\ proc = "loading" /\ io.at = "ok" /\ proc' = "boot"
        /\ store'.state = io.next /\ io' = Idle
        /\ UNCHANGED <<disk, commit, probe, plan, reported>>
  <2>. USE <1>LoadedStep
  <2>1. /\ proc = "loading" /\ io.at = "ok" /\ proc' = "boot" /\ io' = Idle
        /\ store' = [store EXCEPT !.state = io.next]
        /\ UNCHANGED <<disk, transit, commit, activation, probe, plan, reported, checked>>
    BY DEF ServeLoaded
  <2>2. store = NoStore /\ IsOption(io.next)
    BY <2>1 DEF IInv, ControlInv, FilesInv, Running
  <2>3. /\ IsStore(store') /\ store'.state = io.next
        /\ store'.metadataOK = FALSE /\ store'.deepOK = FALSE
    BY <2>1, <2>2, <1>LoadedStore, NoStoreShape
  <2>4. io' = [at |-> io'.at, next |-> io'.next]
    BY <2>1 DEF Idle
  <2>. QED BY <2>1, <2>3, <2>4 DEF IInv, ShapeInv, HealthInv
\* A planned transition is a retirement or a restoration.
<1>PlannedManaged.
  ASSUME NEW s, IsState(s), Ranked(s), NEW op \in Transitions, NEW n \in Planned(s, op),
         Validate(n.content)
  PROVE Managed(s, n)
  <2>. USE <1>PlannedManaged
  <2>1. CASE op \in [kind : {"retire"}, before : 1..MaxVersion]
    <3>1. op.kind = "retire" /\ op.before \in Nat
      BY <2>1
    <3>2. n \in RetireVersions(s, op.before)
      BY <3>1 DEF Planned
    <3>. QED BY <3>1, <3>2, RetireManaged
  <2>2. CASE op \in [kind : {"restore"}, versions : SUBSET (1..MaxVersion)]
    <3>1. op.kind = "restore" /\ op.versions \in SUBSET Nat
      BY <2>2
    <3>2. n \in RestoreVersions(s, op.versions)
      BY <3>1 DEF Planned
    <3>. QED BY <3>1, <3>2, RestoreManaged
  <2>. QED BY <2>1, <2>2 DEF Transitions
\* The command line reads the state again and holds a transition of exactly that state.
<1>ApplyStep.
  ASSUME IInv, HealthInv, ApplyTransition
  PROVE /\ ShapeInv' /\ HealthInv' /\ proc = "none" /\ proc' = "cliLoading"
        /\ UNCHANGED <<disk, store, probe, plan, reported>>
        /\ io'.at \in {"checkpoint", "ok", "failed"} /\ io'.next = disk.state
        /\ \E s \in disk.state, p \in plan : \E n :
             /\ p.hash = computeHash(s) /\ Managed(s, n)
             /\ commit' = {[previous |-> {s}, next |-> n]}
  <2>. USE <1>ApplyStep
  <2>1. /\ proc = "none" /\ proc' = "cliLoading" /\ BeginLoad
        /\ UNCHANGED <<transit, store, activation, probe, plan, reported, checked>>
    BY DEF ApplyTransition
  <2>2. ShapeInv' /\ HealthInv'
    BY <2>1, <1>BeginLoadEffect, ZenonT(30) DEF IInv, ShapeInv, HealthInv, Running
  <2>3. PICK s \in disk.state, p \in plan : \E next \in Planned(s, p.op) :
               /\ p.hash = computeHash(s)
               /\ validateRetirementProfile(next.content)
               /\ commit' = {[previous |-> {s}, next |-> next]}
    BY DEF ApplyTransition
  <2>4. PICK n \in Planned(s, p.op) : /\ p.hash = computeHash(s)
                                      /\ validateRetirementProfile(n.content)
                                      /\ commit' = {[previous |-> {s}, next |-> n]}
    BY <2>3
  <2>5. Managed(s, n)
    <3>1. IsState(s) /\ Ranked(s) /\ p.op \in Transitions
      BY DEF IInv, FilesInv, Files, Sound, ShapeInv
    <3>2. Validate(n.content)
      BY <2>4 DEF validateRetirementProfile, ValidateRecoveryProfile
    <3>. QED BY <3>1, <3>2, <1>PlannedManaged, ZenonT(30)
  <2>. QED BY <2>1, <2>2, <2>4, <2>5, <1>BeginLoadEffect, ZenonT(30)
\* The command line saves over the state that it has read.
<1>SaveTransitionStep.
  ASSUME IInv, HealthInv, SaveTransition
  PROVE /\ ShapeInv' /\ HealthInv' /\ proc = "cliLoading" /\ io.at = "ok" /\ proc' = "cliSaving"
        /\ UNCHANGED <<disk, store, commit, probe, plan, reported>>
        /\ \E c \in commit : io.next = c.previous /\ io' = [at |-> "state", next |-> {c.next}]
  <2>. USE <1>SaveTransitionStep
  <2>1. /\ proc = "cliLoading" /\ io.at = "ok" /\ proc' = "cliSaving"
        /\ UNCHANGED <<disk, transit, store, commit, activation, probe, plan, reported, checked>>
    BY DEF SaveTransition, memory
  <2>2. PICK c \in commit : io.next = c.previous /\ io' = [at |-> "state", next |-> {c.next}]
    BY Zenon DEF SaveTransition
  <2>3. io' = [at |-> io'.at, next |-> io'.next]
    BY <2>2, ZenonT(30)
  <2>. QED BY <2>1, <2>2, <2>3, ZenonT(30) DEF IInv, ShapeInv, HealthInv, Running
\* One step of a load, a save or a recovery, whether it succeeds or fails.
<1>StoreProgressStep.
  ASSUME IInv, HealthInv, StoreProgress
  PROVE ShapeInv' /\ HealthInv' /\ Writes
  <2>. USE <1>StoreProgressStep
  <2>1. /\ StoreStep
        /\ UNCHANGED <<transit, proc, store, commit, activation, probe, plan, reported, checked>>
    BY DEF StoreProgress, memory
  <2>2. /\ disk = [state |-> disk.state, checkpoint |-> disk.checkpoint]
        /\ io = [at |-> io.at, next |-> io.next]
    BY DEF IInv, ShapeInv
  <2>3. PICK to \in {"failed", "stateSync", "checkpoint", "checkpointSync", "ok"} :
          io' = [io EXCEPT !.at = to]
    BY <2>1 DEF StoreStep, WriteState, SyncState, WriteCheckpoint, SyncCheckpoint, Rename, SyncParentDir
  <2>4. io' = [at |-> io'.at, next |-> io'.next] /\ io'.next = io.next /\ io'.at = to
    BY <2>2, <2>3
  <2>5. \/ disk' = disk
        \/ disk' = [disk EXCEPT !.state = io.next]
        \/ disk' = [disk EXCEPT !.checkpoint = {NewStateCheckpoint(s) : s \in io.next}]
    BY <2>1 DEF StoreStep, WriteState, SyncState, WriteCheckpoint, SyncCheckpoint, Rename, SyncParentDir
  <2>. DEFINE checkpoints == {NewStateCheckpoint(s) : s \in io.next}
  <2>6. disk' = [state |-> disk'.state, checkpoint |-> disk'.checkpoint]
    <3>. HIDE DEF checkpoints
    <3>1. CASE disk' = [disk EXCEPT !.checkpoint = checkpoints]
      BY <2>2, <3>1
    <3>2. CASE disk' = [disk EXCEPT !.state = io.next]
      BY <2>2, <3>2
    <3>. QED BY <2>2, <2>5, <3>1, <3>2 DEF checkpoints
  <2>7. io.at \in WriteSteps
    BY <2>1, ZenonT(30) DEF StoreStep, WriteState, SyncState, WriteCheckpoint, SyncCheckpoint, WriteSteps
  <2>8. \/ disk' = disk /\ to = "failed"
        \/ io.at = "state" /\ to = "stateSync" /\ disk'.state = io.next
        \/ io.at # "state" /\ disk'.state = disk.state /\ to \in {"checkpoint", "checkpointSync", "ok"}
    <3>1. CASE WriteState
      <4>1. \/ disk' = [disk EXCEPT !.state = io.next] /\ io'.at = "stateSync"
            \/ disk' = disk /\ io'.at = "failed"
        BY <2>2, <3>1 DEF WriteState, Rename
      <4>2. io.at = "state"
        BY <3>1 DEF WriteState
      <4>. QED BY <2>2, <2>4, <4>1, <4>2
    <3>2. CASE SyncState \/ SyncCheckpoint
      <4>1. /\ disk' = disk /\ io.at # "state"
            /\ io'.at \in {"failed", "checkpoint", "ok"}
        BY <2>2, <3>2 DEF SyncState, SyncCheckpoint, SyncParentDir
      <4>. QED BY <2>4, <4>1
    <3>3. CASE WriteCheckpoint
      <4>1. \/ disk' = [disk EXCEPT !.checkpoint = checkpoints] /\ io'.at = "checkpointSync"
            \/ disk' = disk /\ io'.at = "failed"
        BY <2>2, <3>3 DEF WriteCheckpoint, Rename
      <4>2. io.at = "checkpoint"
        BY <3>3 DEF WriteCheckpoint
      <4>. HIDE DEF checkpoints
      <4>. QED BY <2>2, <2>4, <4>1, <4>2
    <3>. QED BY <2>1, <3>1, <3>2, <3>3 DEF StoreStep
  <2>. QED BY <2>1, <2>4, <2>6, <2>7, <2>8, ZenonT(30) DEF IInv, ShapeInv, HealthInv, Writes
\* A probe that ends well publishes.
<1>PublishStep.
  ASSUME IInv, HealthInv, proc \in Running, NEW S, IsOption(S), NEW blocked \in BOOLEAN,
         NEW t, Publish(S, t, blocked), UNCHANGED <<disk, transit, plan, reported>>
  PROVE ShapeInv' /\ HealthInv' /\ Publishes(S) /\ store'.metadataOK = ~blocked
  <2>. USE <1>PublishStep
  <2>1. /\ store' = publishMetadata(store, S, blocked, probe.elapsed)
        /\ commit' = {} /\ probe' = NoProbe /\ io' = Idle
        /\ checked' = [checked EXCEPT !.age = probe.elapsed]
        /\ activation' \in {activation, confirmActivation(S, t)}
    BY DEF Publish, ProbeReturns
  <2>2. proc' \in Running
    BY ZenonT(30) DEF Publish, ProbeReturns, Running
  <2>3. IsStore(store) /\ probe.elapsed \in Nat
    BY ZenonT(30) DEF IInv, ShapeInv, IsProbe
  <2>4. /\ IsStore(store') /\ store'.state = S
        /\ store'.metadataOK = ~blocked /\ store'.age = probe.elapsed
        /\ store'.deepOK => store.deepOK /\ active(store.state) = active(S)
    BY <2>1, <2>3, <1>PublishedStore
  <2>5. /\ checked' = [key |-> checked'.key, age |-> checked'.age]
        /\ checked'.key = checked.key /\ checked'.age = probe.elapsed
    BY <2>1 DEF IInv, ShapeInv
  <2>6. activation' = [key |-> activation'.key, left |-> activation'.left] /\ activation'.left \in Nat
    BY <2>1, PolicyAssumption DEF IInv, ShapeInv, confirmActivation, NoWait
  <2>7. io' = [at |-> io'.at, next |-> io'.next]
    BY <2>1 DEF Idle
  <2>8. ShapeInv'
    BY <2>1, <2>3, <2>4, <2>5, <2>6, <2>7, NoProbeShape, ZenonT(30) DEF IInv, ShapeInv
  <2>9. HealthInv'
    <3>1. active(store'.state) = active(S)
      BY <2>4, ZenonT(30)
    <3>. HIDE DEF active
    <3>. QED BY <2>3, <2>4, <2>5, <3>1 DEF HealthInv
  <2>. QED BY <2>1, <2>2, <2>4, <2>8, <2>9, ZenonT(30) DEF Publishes
\* An observation gives up, publishes its base, or begins to save a successor of its base.
<1>ObservationEffect.
  ASSUME IInv, HealthInv, proc \in Running, NEW base, IsOption(base),
         \A s \in base : IsState(s) /\ Ranked(s),
         NEW t, IsTransit(t), publishObservation(base, t)
  PROVE ShapeInv' /\ HealthInv' /\ ObservationStep(base, t)
  <2>. USE <1>ObservationEffect
  <2>1. UNCHANGED <<disk, transit, plan, reported>>
    BY ZenonT(30) DEF publishObservation
  <2>. DEFINE advance == ~probe.discover
              ready == promotionReady(base, t)
              results(now) ==
                IF base = {}
                THEN {Result(s, TRUE, FALSE) :
                        s \in IF AssessAutoBootstrapState(t) THEN RebuildState(t, now) ELSE {}}
                ELSE UNION {observe(s, t, now, advance, ready) : s \in base}
              saves(r) ==
                /\ r.changed
                /\ commit' = {[previous |-> base, next |-> r.state]}
                /\ io' = [at |-> "state", next |-> {r.state}]
                /\ probe' = [probe EXCEPT !.pc = "saving", !.blocked = r.blocked, !.profile = {t}]
                /\ UNCHANGED <<store, proc, activation, breaker, checked>>
  <2>2. advance \in BOOLEAN /\ ready \in BOOLEAN /\ IsProfile(t)
    <3>1. advance \in BOOLEAN /\ IsProfile(t)
      BY Zenon DEF IInv, ShapeInv, IsProbe, IsTransit
    <3>2. ready \in BOOLEAN
      BY ZenonT(30) DEF promotionReady
    <3>. QED BY <3>1, <3>2, ZenonT(30)
  <2>3. PICK now \in WallTimes :
          \/ MetadataFailed /\ io' = Idle /\ UNCHANGED <<commit, activation>>
          \/ \E r \in results(now) : saves(r)
          \/ \E r \in results(now) : ~r.changed /\ Publish({r.state}, t, r.blocked)
    BY ZenonT(30) DEF publishObservation
  <2>4. now \in Nat \ {0} /\ now \in Nat
    BY ControllerAssumption, ZenonT(30)
  <2>. HIDE DEF advance, ready
  <2>5. ASSUME NEW r \in results(now), base = {}
        PROVE r.changed = TRUE /\ r.blocked = FALSE /\ Bootstrapped(t, r.state)
    <3>1. PICK s \in RebuildState(t, now) : r = Result(s, TRUE, FALSE) /\ AssessAutoBootstrapState(t)
      BY <2>5, ZenonT(30)
    <3>2. Bootstrapped(t, s)
      BY <2>2, <2>4, <3>1, BootstrapOutcome, ZenonT(30)
    <3>. QED BY <3>1, <3>2, ZenonT(30) DEF Result
  <2>6. ASSUME NEW r \in results(now), base # {}
        PROVE \E s \in base : base = {s} /\ Outcome(s, t, advance, ready, r)
    <3>1. PICK s \in base : r \in observe(s, t, now, advance, ready)
      BY <2>6, ZenonT(30)
    <3>2. Outcome(s, t, advance, ready, r)
      BY <2>2, <2>4, <3>1, ObserveOutcome, ZenonT(30)
    <3>3. base = {s}
      BY ZenonT(30) DEF IsOption
    <3>. QED BY <3>2, <3>3
  <2>. HIDE DEF results, saves
  <2>7. CASE MetadataFailed /\ io' = Idle /\ UNCHANGED <<commit, activation>>
    <3>1. /\ IsStore(store') /\ store'.state = store.state /\ store'.metadataOK = FALSE
          /\ probe' = NoProbe /\ proc' \in Running /\ checked' = checked
          /\ HealthInv'
      BY <2>7, <1>MetadataFails, ZenonT(30)
    <3>2. io' = [at |-> io'.at, next |-> io'.next]
      BY <2>7 DEF Idle
    <3>. QED BY <2>1, <2>7, <3>1, <3>2, NoProbeShape, ZenonT(30)
             DEF IInv, ShapeInv, ObservationStep, GivesUp
  <2>8. ASSUME NEW r \in results(now), saves(r)
        PROVE ShapeInv' /\ HealthInv' /\ ObservationStep(base, t)
    <3>. DEFINE n == r.state
    <3>1. /\ commit' = {[previous |-> base, next |-> n]}
          /\ io' = [at |-> "state", next |-> {n}]
          /\ probe' = AsSaving(probe, r.blocked, t)
          /\ UNCHANGED <<store, proc, activation, checked>>
          /\ r.changed
      BY <2>8, ZenonT(30) DEF saves, AsSaving
    <3>2. r.blocked \in BOOLEAN /\ IsState(n) /\ Ranked(n) /\ Fits(t, n, r.blocked)
      <4>1. CASE base = {}
        BY <2>5, <2>8, <4>1, ZenonT(30) DEF Bootstrapped
      <4>2. CASE base # {}
        <5>1. \E s : Outcome(s, t, advance, ready, r)
          BY <2>6, <2>8, <4>2, ZenonT(30)
        <5>. QED BY <3>1, <5>1, ZenonT(30) DEF Outcome
      <4>. QED BY <4>1, <4>2, ZenonT(30)
    <3>3. /\ IsProbe(probe') /\ probe'.pc = "saving" /\ probe'.profile = {t}
          /\ probe'.blocked = r.blocked
      <4>1. IsProbe(probe)
        BY ZenonT(30) DEF IInv, ShapeInv
      <4>. QED BY <3>1, <3>2, <4>1, <1>ProbeSaves
    <3>4. io' = [at |-> io'.at, next |-> io'.next]
      BY <3>1, ZenonT(30)
    <3>5. ShapeInv' /\ HealthInv'
      BY <2>1, <3>1, <3>3, <3>4, ZenonT(30) DEF IInv, ShapeInv, HealthInv
    <3>6. base = {} => Bootstrapped(t, n)
      BY <2>5, <2>8, ZenonT(30)
    <3>7. ASSUME NEW s \in base PROVE Outcome(s, t, advance, ready, r)
      <4>1. PICK q \in base : base = {q} /\ Outcome(q, t, advance, ready, r)
        BY <2>6, <2>8, <3>7
      <4>. QED BY <4>1
    <3>8. Successor(base, t, n, probe'.blocked)
      BY <3>1, <3>2, <3>3, <3>6, <3>7, ZenonT(30) DEF Successor, advance, ready
    <3>9. Commits(base, n, t)
      BY <2>1, <3>1, <3>3, ZenonT(30) DEF Commits
    <3>. QED BY <3>5, <3>8, <3>9 DEF ObservationStep
  <2>9. ASSUME NEW r \in results(now), ~r.changed, Publish({r.state}, t, r.blocked)
        PROVE ShapeInv' /\ HealthInv' /\ ObservationStep(base, t)
    <3>1. base # {}
      BY <2>5, <2>9, ZenonT(30)
    <3>2. PICK s \in base : base = {s} /\ Outcome(s, t, advance, ready, r)
      BY <2>6, <2>9, <3>1
    <3>3. r.state = s /\ r.blocked \in BOOLEAN /\ Fits(t, s, r.blocked)
      BY <2>9, <3>2, ZenonT(30) DEF Outcome
    <3>4. Publish(base, t, r.blocked)
      BY <2>9, <3>2, <3>3, ZenonT(30)
    <3>5. ShapeInv' /\ HealthInv' /\ Publishes(base) /\ store'.metadataOK = ~r.blocked
      BY <2>1, <3>3, <3>4, <1>PublishStep, ZenonT(30)
    <3>. QED BY <3>1, <3>2, <3>3, <3>5 DEF ObservationStep
  <2>. QED BY <2>3, <2>7, <2>8, <2>9, ZenonT(30)
\* A probe reads the profile and observes it from the published state.
<1>ReadStep.
  ASSUME IInv, HealthInv, ReadKeyProfile
  PROVE /\ ShapeInv' /\ HealthInv' /\ ObservationStep(store.state, transit)
        /\ proc \in Running /\ probe.pc = "reading" /\ commit = {}
  <2>. USE <1>ReadStep
  <2>1. probe.pc = "reading" /\ commit = {} /\ publishObservation(store.state, transit)
    BY DEF ReadKeyProfile
  <2>2. proc \in Running
    BY <2>1, RunningProbe, ZenonT(30)
  <2>3. /\ IsOption(store.state) /\ IsTransit(transit)
        /\ \A s \in store.state : IsState(s) /\ Ranked(s)
    BY ZenonT(30) DEF IInv, ShapeInv, IsStore, FilesInv, Sound
  <2>. QED BY <2>1, <2>2, <2>3, <1>ObservationEffect, ZenonT(30)
\* A probe has settled the unresolved commit and observes from what was attempted.
<1>RecoverDoneStep.
  ASSUME IInv, HealthInv, RecoverDone
  PROVE /\ ShapeInv' /\ HealthInv' /\ proc \in Running /\ probe.pc = "recovering" /\ io.at = "ok"
        /\ \E t \in probe.profile : ObservationStep(Attempt, t)
  <2>. USE <1>RecoverDoneStep
  <2>1. probe.pc = "recovering" /\ io.at = "ok"
    BY DEF RecoverDone
  <2>2. PICK t \in probe.profile : publishObservation(Attempt, t)
    BY ZenonT(30) DEF RecoverDone, Attempt
  <2>3. proc \in Running
    BY <2>1, RunningProbe, ZenonT(30)
  <2>4. IsOption(Attempt) /\ IsTransit(t) /\ \A s \in Attempt : IsState(s) /\ Ranked(s)
    BY DEF IInv, ShapeInv, ControlInv, IsOption, Attempt, FilesInv, Files, Sound
  <2>. QED BY <2>1, <2>2, <2>3, <2>4, <1>ObservationEffect, ZenonT(30)
\* A probe finds an unresolved commit and begins to settle it.
<1>RecoverBeginStep.
  ASSUME IInv, HealthInv, ReadKeyProfileThenRecover
  PROVE /\ ShapeInv' /\ HealthInv' /\ proc \in Running /\ probe.pc = "reading"
        /\ UNCHANGED <<disk, proc, store, commit, plan, reported>>
        /\ io'.at \in {"state", "failed"} /\ io'.next = Attempt /\ commit # {}
        /\ probe'.pc = "recovering" /\ probe'.profile = {transit}
  <2>. USE <1>RecoverBeginStep
  <2>1. /\ probe.pc = "reading"
        /\ probe' = [probe EXCEPT !.pc = "recovering", !.profile = {transit}]
        /\ UNCHANGED <<transit, proc, store, commit, activation, plan, reported, checked>>
    BY DEF ReadKeyProfileThenRecover
  <2>2. PICK c \in commit : BeginRecover(c.previous, c.next)
    BY DEF ReadKeyProfileThenRecover
  <2>3. proc \in Running
    BY <2>1, RunningProbe
  <2>4. /\ IsProbe(probe') /\ probe'.pc = "recovering" /\ probe'.profile = {transit}
    BY <2>1, ZenonT(30) DEF IInv, ShapeInv, IsProbe, IsOption
  <2>5. /\ io'.at \in {"state", "failed"} /\ io'.next = {c.next} /\ disk' = disk
        /\ io' = [at |-> io'.at, next |-> io'.next]
    BY <2>2, ZenonT(30) DEF BeginRecover
  <2>6. Attempt = {c.next}
    BY ZenonT(30) DEF Attempt, IInv, ControlInv, IsOption
  <2>. QED BY <2>1, <2>2, <2>3, <2>4, <2>5, <2>6, ZenonT(30) DEF IInv, ShapeInv, HealthInv
\* A probe has saved and publishes what it saved.
<1>SaveDoneStep.
  ASSUME IInv, HealthInv, SaveDone
  PROVE /\ ShapeInv' /\ HealthInv' /\ proc \in Running /\ probe.pc = "saving" /\ io.at = "ok"
        /\ Publishes(io.next) /\ store'.metadataOK = ~probe.blocked
  <2>. USE <1>SaveDoneStep
  <2>1. probe.pc = "saving" /\ io.at = "ok" /\ UNCHANGED <<disk, transit, plan, reported>>
    BY DEF SaveDone
  <2>2. PICK t \in probe.profile : Publish(io.next, t, probe.blocked)
    BY ZenonT(30) DEF SaveDone
  <2>3. proc \in Running
    BY <2>1, RunningProbe, ZenonT(30)
  <2>4. IsOption(io.next) /\ probe.blocked \in BOOLEAN
    BY ZenonT(30) DEF IInv, FilesInv, ShapeInv, IsProbe
  <2>. QED BY <2>1, <2>2, <2>3, <2>4, <1>PublishStep, ZenonT(30)
\* A probe could not save: it publishes nothing, and the commit stays unresolved.
<1>SaveFailedStep.
  ASSUME IInv, HealthInv, StateSaveFailed
  PROVE /\ ShapeInv' /\ HealthInv' /\ proc \in Running /\ GivesUp
        /\ \E t \in probe.profile : deferObservation(t) \/ store'.metadataOK = FALSE
  <2>. USE <1>SaveFailedStep
  <2>1. /\ probe.pc # "free" /\ io' = Idle
        /\ UNCHANGED <<disk, transit, commit, activation, plan, reported>>
    BY DEF StateSaveFailed
  <2>2. proc \in Running
    BY <2>1, RunningProbe, ZenonT(30)
  <2>3. io' = [at |-> io'.at, next |-> io'.next]
    BY <2>1 DEF Idle
  <2>4. PICK t \in probe.profile :
          \/ /\ deferObservation(t)
             /\ store' = publishDeferredObservation(store, probe.elapsed)
             /\ checked' = [checked EXCEPT !.age = probe.elapsed]
             /\ ProbeReturns(FALSE, store)
          \/ MetadataFailed
    BY ZenonT(30) DEF StateSaveFailed
  <2>5. CASE MetadataFailed
    BY <2>1, <2>2, <2>3, <2>5, <1>MetadataFails, NoProbeShape, ZenonT(30) DEF IInv, ShapeInv, GivesUp
  <2>6. CASE /\ deferObservation(t)
             /\ store' = publishDeferredObservation(store, probe.elapsed)
             /\ checked' = [checked EXCEPT !.age = probe.elapsed]
             /\ ProbeReturns(FALSE, store)
    <3>1. IsStore(store) /\ probe.elapsed \in Nat
      BY ZenonT(30) DEF IInv, ShapeInv, IsProbe
    <3>2. /\ IsStore(store') /\ store'.state = store.state
          /\ store'.deepOK = store.deepOK /\ store'.age = probe.elapsed
      BY <2>6, <3>1, <1>DeferredStore
    <3>3. /\ checked' = [key |-> checked'.key, age |-> checked'.age]
          /\ checked'.key = checked.key /\ checked'.age = probe.elapsed
      BY <2>6 DEF IInv, ShapeInv
    <3>4. probe' = NoProbe /\ proc' \in Running
      BY <2>2, <2>6, ZenonT(30) DEF ProbeReturns, Running
    <3>5. HealthInv'
      BY <2>2, <3>1, <3>2, <3>3, SMTT(30) DEF HealthInv, active
    <3>6. ShapeInv'
      BY <2>1, <2>3, <3>1, <3>2, <3>3, <3>4, NoProbeShape, ZenonT(30) DEF IInv, ShapeInv
    <3>. QED BY <2>1, <2>2, <2>6, <3>2, <3>4, <3>5, <3>6, ZenonT(30) DEF GivesUp
  <2>. QED BY <2>4, <2>5, <2>6, ZenonT(30)
<1>. SUFFICES ASSUME IInv, HealthInv, [Next]_vars PROVE ShapeInv' /\ HealthInv' /\ Effect
  BY ZenonT(30)
<1>1. CASE UNCHANGED vars
  <2>1. UNCHANGED <<disk, io, transit, proc, store, commit, activation, probe, plan, reported, checked>>
    BY <1>1, ZenonT(30) DEF vars, memory, history
  <2>. QED BY <2>1, ZenonT(30) DEF IInv, ShapeInv, HealthInv, Effect, Rests, Quiet, ProbeKept
<1>2. CASE Tick
  BY <1>2, <1>TickStep DEF Effect, Rests
<1>3. CASE Untimed
  <2>1. CASE ProbeOnce \/ RefreshForDecrypt \/ ReadFails \/ UpsertAllowed \/ WallClockAhead
    BY <2>1, <1>QuietSteps, ZenonT(30) DEF Effect, Rests
  <2>2. CASE DeepProbeOnce
    BY <2>2, <1>DeepStep DEF Effect, Rests
  <2>3. CASE Platform
    BY <2>3, <1>PlatformStep DEF Effect, Rests
  <2>4. CASE ReportActive
    BY <2>4, <1>ReportStep, ZenonT(30) DEF Effect, Reports
  <2>5. CASE PlanTransition
    BY <2>5, <1>PlanStep, ZenonT(30) DEF Effect, Plans
  <2>6. CASE ServeLoadFailed \/ BootGivesUp \/ ProcessStop \/ CommandExits
    BY <2>6, <1>ExitSteps, ZenonT(30) DEF Effect
  <2>7. CASE ServeStart
    BY <2>7, <1>StartStep, ZenonT(30) DEF Effect, Starts
  <2>8. CASE ServeLoaded
    BY <2>8, <1>LoadedStep, ZenonT(30) DEF Effect, StartsServing
  <2>9. CASE ApplyTransition
    BY <2>9, <1>ApplyStep, ZenonT(30) DEF Effect, Applies
  <2>10. CASE SaveTransition
    BY <2>10, <1>SaveTransitionStep, ZenonT(30) DEF Effect, SavesPlan
  <2>11. CASE StoreProgress
    BY <2>11, <1>StoreProgressStep, ZenonT(30) DEF Effect
  <2>12. CASE ReadKeyProfile
    BY <2>12, <1>ReadStep DEF Effect, Reads
  <2>13. CASE ReadKeyProfileThenRecover
    BY <2>13, <1>RecoverBeginStep, ZenonT(30) DEF Effect, Recovers
  <2>14. CASE RecoverDone
    BY <2>14, <1>RecoverDoneStep, ZenonT(30) DEF Effect, Recovered
  <2>15. CASE SaveDone
    BY <2>15, <1>SaveDoneStep, ZenonT(30) DEF Effect, Saved
  <2>16. CASE StateSaveFailed
    BY <2>16, <1>SaveFailedStep, ZenonT(30) DEF Effect, SaveFails
  <2>. QED BY <1>3, <2>1, <2>2, <2>3, <2>4, <2>5, <2>6, <2>7, <2>8, <2>9, <2>10, <2>11, <2>12,
              <2>13, <2>14, <2>15, <2>16, ZenonT(30)
           DEF Untimed, Startup, ScheduledProbe, ProbeStep, Command
<1>. QED BY <1>1, <1>2, <1>3, ZenonT(30) DEF Next

\* A deferred observation has validated the published state.
LEMMA DeferredFits ==
  ASSUME IInv, NEW t \in probe.profile, deferObservation(t)
  PROVE \A s \in store.state : Fits(t, s, FALSE)
<1>1. PICK p : /\ store.state = {p}
               /\ \E now \in WallTimes : \E r \in Discover(p, t, now) : ~r.changed /\ ~r.blocked
  BY ZenonT(30) DEF deferObservation
<1>2. PICK now \in WallTimes : \E r \in Discover(p, t, now) : ~r.changed /\ ~r.blocked
  BY <1>1, ZenonT(30)
<1>3. PICK r \in Discover(p, t, now) : ~r.changed /\ ~r.blocked
  BY <1>2, ZenonT(30)
<1>4. IsState(p) /\ Ranked(p) /\ IsProfile(t) /\ now \in Nat \ {0}
  BY <1>1, ControllerAssumption, ZenonT(30) DEF IInv, FilesInv, Sound, ShapeInv, IsTransit
<1>5. Outcome(p, t, FALSE, FALSE, r)
  BY <1>3, <1>4, ObserveOutcome, ZenonT(30) DEF Discover
<1>6. r.blocked = FALSE
  BY <1>3, <1>5, ZenonT(30) DEF Outcome
<1>. QED BY <1>1, <1>3, <1>5, <1>6, ZenonT(30) DEF Outcome

\* A new node satisfies the invariant.
LEMMA InitEstablishes ==
  ASSUME Init
  PROVE IInv /\ HealthInv
<1>1. /\ disk = [state |-> {}, checkpoint |-> {}] /\ io = Idle /\ proc = "none"
      /\ store = NoStore /\ commit = {} /\ activation = NoWait /\ probe = NoProbe
      /\ plan = {} /\ reported = {} /\ checked = NoCheck
  BY ZenonT(30) DEF Init, StoreInit, NoFiles
<1>2. PICK t \in CreationTimes :
        transit = [latest |-> 1, createdAt |-> [v \in {1} |-> t], minAvail |-> 0,
                   minDec |-> 1, minEnc |-> 0, usable |-> TRUE, disableUpsert |-> TRUE]
  BY ZenonT(30) DEF Init
<1>3. IsTransit(transit)
  <2>. DEFINE created == [v \in {1} |-> t]
  <2>1. /\ created = [v \in DOMAIN created |-> created[v]]
        /\ \A v \in DOMAIN created : v = 1 /\ created[v] = t
    OBVIOUS
  <2>. HIDE DEF created
  <2>2. MaxVersion \in Nat \ {0} /\ t \in Nat
    BY ControllerAssumption, ZenonT(30)
  <2>3. Numbered(transit)
    BY <1>2, <2>1, SMTT(30) DEF Numbered, created
  <2>. QED BY <1>2, <2>1, <2>2, <2>3 DEF IsTransit, IsProfile, created
<1>4. ShapeInv
  BY <1>1, <1>3, NoStoreShape, NoProbeShape, ControllerAssumption, SMTT(30)
     DEF ShapeInv, Idle, NoWait, NoCheck
<1>5. ControlInv
  BY <1>1, ZenonT(30) DEF ControlInv, Running, Idle, IsOption
<1>6. FilesInv
  BY <1>1, NoStoreShape, ZenonT(30) DEF FilesInv, Files, Idle, IsOption
<1>. QED BY <1>1, <1>4, <1>5, <1>6, ZenonT(30) DEF IInv, HealthInv, Running

-----------------------------------------------------------------------------
(* What a step does to the stability countdown.                            *)

\* So does every step other than a tick.
LEMMA UntimedCountdown ==
  IInv /\ Untimed => Countdown
\* A probe that publishes keeps, confirms or drops the countdown.
<1>PublishCountdown.
  ASSUME NEW S, NEW t, NEW blocked, Publish(S, t, blocked), disk' = disk, proc \in Running
  PROVE Countdown
  <2>. USE <1>PublishCountdown
  <2>1. /\ store' = publishMetadata(store, S, blocked, probe.elapsed)
        /\ commit' = {} /\ probe' = NoProbe /\ io' = Idle
        /\ activation' = IF probe.discover THEN activation ELSE confirmActivation(S, t)
    BY DEF Publish, ProbeReturns
  <2>2. proc' \in Running
    BY ZenonT(30) DEF Publish, ProbeReturns, Running
  <2>3. store'.state = S
    BY <2>1, ZenonT(30) DEF publishMetadata
  <2>4. CASE activation' = activation
    BY <2>1, <2>2, <2>4, NoProbeShape, ZenonT(30) DEF Countdown, Stays
  <2>5. CASE activation' = confirmActivation(S, t)
    <3>. HIDE DEF confirmActivation
    <3>. QED BY <2>1, <2>2, <2>3, <2>5, ZenonT(30) DEF Countdown, Confirms
  <2>. QED BY <2>1, <2>4, <2>5
\* So does an observation.
<1>ObservationCountdown.
  ASSUME IsProbe(probe), NEW base, NEW t, publishObservation(base, t), proc \in Running,
         probe.pc # "free"
  PROVE Countdown
  <2>. USE <1>ObservationCountdown
  <2>1. disk' = disk
    BY ZenonT(30) DEF publishObservation
  <2>2. \/ MetadataFailed /\ UNCHANGED activation
        \/ \E b : /\ probe' = AsSaving(probe, b, t)
                  /\ UNCHANGED <<proc, activation>>
        \/ \E S, b : Publish(S, t, b)
    BY ZenonT(30) DEF publishObservation, AsSaving
  <2>3. CASE MetadataFailed /\ UNCHANGED activation
    BY <2>3, NoProbeShape, ZenonT(30) DEF MetadataFailed, ProbeReturns, Running, Countdown, Stays
  <2>4. CASE \E b : probe' = AsSaving(probe, b, t) /\ UNCHANGED <<proc, activation>>
    <3>1. PICK b : probe' = AsSaving(probe, b, t) /\ UNCHANGED <<proc, activation>>
      BY <2>4
    <3>2. probe'.ready = probe.ready
      BY <3>1, ZenonT(30) DEF AsSaving, IsProbe
    <3>. QED BY <3>1, <3>2, ZenonT(30) DEF Countdown, Stays
  <2>5. CASE \E S, b : Publish(S, t, b)
    BY <2>1, <2>5, <1>PublishCountdown
  <2>. QED BY <2>2, <2>3, <2>4, <2>5
\* So does a probe that begins.
<1>BeginProbeCountdown.
  ASSUME NEW discover \in BOOLEAN, BeginProbe(discover), proc \in Running
  PROVE Countdown
  <2>. USE <1>BeginProbeCountdown
  <2>1. activation' = activation
    BY ZenonT(30) DEF BeginProbe
  <2>2. CASE MetadataFailed
    BY <2>1, <2>2, NoProbeShape, ZenonT(30) DEF MetadataFailed, ProbeReturns, Running, Countdown, Stays
  <2>3. CASE /\ probe' = [NoProbe EXCEPT !.pc = "reading", !.discover = discover,
                                         !.ready = (activation.left = 0)]
             /\ UNCHANGED proc
    <3>. DEFINE ready == (activation.left = 0)
    <3>1. probe' = [NoProbe EXCEPT !.pc = "reading", !.discover = discover, !.ready = ready]
      BY <2>3, ZenonT(30)
    <3>. HIDE DEF ready
    <3>2. probe'.ready = ready
      BY <3>1, ZenonT(30) DEF NoProbe
    <3>. QED BY <2>1, <2>3, <3>2, ZenonT(30) DEF Countdown, Stays, ready
  <2>. QED BY <2>2, <2>3, ZenonT(30) DEF BeginProbe
<1>. SUFFICES ASSUME IInv, Untimed PROVE Countdown
  OBVIOUS
<1>1. CASE Platform \/ ReportActive \/ PlanTransition \/ StoreProgress \/ ServeStart \/ SaveTransition
  <2>1. UNCHANGED <<activation, probe>> /\ (proc' = proc \/ proc \notin Running)
    BY <1>1, ZenonT(30) DEF Platform, Rotate, RestoreBackup, SetMinimums, Trim, ChangeSettings, TransitChanges,
       ReportActive, PlanTransition, StoreProgress, ServeStart, SaveTransition, memory, Running
  <2>. QED BY <2>1 DEF Countdown, Stays
<1>2. CASE WallClockAhead \/ ServeLoaded \/ ApplyTransition
  <2>1. UNCHANGED <<activation, probe>> /\ (proc' = proc \/ proc \notin Running)
    BY <1>2, ZenonT(30) DEF WallClockAhead, ServeLoaded, ApplyTransition, Running
  <2>. QED BY <2>1 DEF Countdown, Stays
<1>3. CASE ServeLoadFailed \/ BootGivesUp \/ ProcessStop \/ CommandExits
  BY <1>3, ZenonT(30) DEF ServeLoadFailed, BootGivesUp, ProcessStop, CommandExits, Exit, Countdown, Drops
<1>4. CASE DeepProbeOnce
  <2>1. UNCHANGED <<activation, probe>> /\ proc' \in Running
    BY <1>4, ZenonT(30) DEF DeepProbeOnce, DeepFailed, DeepProbeReturns, Running
  <2>. QED BY <2>1 DEF Countdown, Stays
<1>5. CASE ProbeOnce
  BY <1>5, <1>BeginProbeCountdown, ZenonT(30) DEF ProbeOnce, Running
<1>6. CASE RefreshForDecrypt
  BY <1>6, <1>BeginProbeCountdown, ZenonT(30) DEF RefreshForDecrypt, Running, Serving
<1>7. CASE ProbeStep
  <2>1. probe.pc # "free"
    BY <1>7, ZenonT(30) DEF ProbeStep, ReadFails, UpsertAllowed, ReadKeyProfile, ReadKeyProfileThenRecover,
       RecoverDone, SaveDone, StateSaveFailed
  <2>2. proc \in Running /\ IsProbe(probe)
    BY <2>1, RunningProbe DEF IInv, ShapeInv
  <2>3. CASE ReadFails \/ UpsertAllowed
    BY <2>2, <2>3, NoProbeShape, ZenonT(30)
       DEF ReadFails, UpsertAllowed, MetadataFailed, ProbeReturns, Running, Countdown, Stays
  <2>4. CASE ReadKeyProfile
    BY <2>1, <2>2, <2>4, <1>ObservationCountdown, ZenonT(30) DEF ReadKeyProfile
  <2>5. CASE ReadKeyProfileThenRecover
    <3>1. /\ probe' = [probe EXCEPT !.pc = "recovering", !.profile = {transit}]
          /\ UNCHANGED <<proc, activation>>
      BY <2>5 DEF ReadKeyProfileThenRecover
    <3>2. probe'.ready = probe.ready
      BY <2>2, <3>1, Zenon DEF IsProbe
    <3>. QED BY <2>1, <3>1, <3>2 DEF Countdown, Stays
  <2>6. CASE RecoverDone
    BY <2>1, <2>2, <2>6, <1>ObservationCountdown, ZenonT(30) DEF RecoverDone
  <2>7. CASE SaveDone
    BY <2>2, <2>7, <1>PublishCountdown, ZenonT(30) DEF SaveDone
  <2>8. CASE StateSaveFailed
    <3>1. activation' = activation /\ probe' = NoProbe /\ proc' \in Running
      BY <2>2, <2>8, Zenon DEF StateSaveFailed, MetadataFailed, ProbeReturns, Running
    <3>. QED BY <3>1, NoProbeShape DEF Countdown, Stays
  <2>. QED BY <1>7, <2>3, <2>4, <2>5, <2>6, <2>7, <2>8, ZenonT(30) DEF ProbeStep
<1>. QED BY <1>1, <1>2, <1>3, <1>4, <1>5, <1>6, <1>7, ZenonT(30) DEF Untimed, Startup, ScheduledProbe, Command

=============================================================================
