--------------------------- MODULE StatusEffects ----------------------------
(***************************************************************************)
(* The inductive invariants of the node of StatusController and the effects *)
(* that its steps have on the files, the cache and the commit in progress: *)
(* the vocabulary of the proofs about the node.                            *)
(***************************************************************************)
EXTENDS StatusController, RegistrySteps

-----------------------------------------------------------------------------
(* The shape of the variables.                                             *)

IsStore(st) ==
  /\ st = [state |-> st.state, metadataOK |-> st.metadataOK, blocked |-> st.blocked,
           deepOK |-> st.deepOK, deepProbed |-> st.deepProbed,
           degraded |-> st.degraded, age |-> st.age]
  /\ st.metadataOK \in BOOLEAN /\ st.deepOK \in BOOLEAN /\ st.age \in Nat
  /\ IsOption(st.state)

IsProbe(p) ==
  /\ p = [pc |-> p.pc, discover |-> p.discover, elapsed |-> p.elapsed,
          ready |-> p.ready, blocked |-> p.blocked, profile |-> p.profile]
  /\ p.pc \in {"free", "reading", "recovering", "saving"}
  /\ p.discover \in BOOLEAN /\ p.ready \in BOOLEAN /\ p.blocked \in BOOLEAN
  /\ p.elapsed \in Nat
  /\ IsOption(p.profile)

\* Transit lists the versions from some available one up to the latest one
\* without a gap, and its minimums are not above the latest version.
Numbered(t) ==
  /\ 1 <= t.latest /\ t.minAvail <= t.latest /\ t.minEnc <= t.latest /\ t.minDec <= t.latest
  /\ t.latest \in DOMAIN t.createdAt
  /\ \A v \in DOMAIN t.createdAt : t.minAvail <= v /\ v <= t.latest
  /\ \A v \in DOMAIN t.createdAt : \A w \in v..t.latest : w \in DOMAIN t.createdAt

\* A Transit key whose versions have creation times.
IsTransit(t) ==
  /\ t = [latest |-> t.latest, createdAt |-> t.createdAt, minAvail |-> t.minAvail,
          minDec |-> t.minDec, minEnc |-> t.minEnc, usable |-> t.usable,
          disableUpsert |-> t.disableUpsert]
  /\ IsProfile(t) /\ Numbered(t)
  /\ t.latest <= MaxVersion
  /\ t.createdAt = [v \in DOMAIN t.createdAt |-> t.createdAt[v]]
  /\ \A v \in DOMAIN t.createdAt : v \in 1..MaxVersion /\ t.createdAt[v] \in CreationTimes

ShapeInv ==
  /\ disk = [state |-> disk.state, checkpoint |-> disk.checkpoint]
  /\ io = [at |-> io.at, next |-> io.next]
  /\ IsStore(store) /\ IsProbe(probe)
  /\ checked = [key |-> checked.key, age |-> checked.age] /\ checked.age \in Nat
  /\ activation = [key |-> activation.key, left |-> activation.left]
  /\ activation.left \in Nat
  /\ IsTransit(transit) /\ \A t \in probe.profile : IsTransit(t)
  /\ \A p \in plan : p.op \in Transitions

-----------------------------------------------------------------------------
(* Who is at which step, and what the files hold then.                     *)

Busy == probe.pc \in {"saving", "recovering"}

Attempt == {c.next : c \in commit}

Loads == io.at \in {"checkpoint", "checkpointSync", "ok", "failed"} /\ io.next = disk.state

Saves == io.at # "idle" /\ commit # {} /\ io.next = Attempt

ControlInv ==
  /\ proc \in {"none", "loading", "cliLoading", "cliSaving"} \union Running
  /\ proc \notin Running => store = NoStore /\ probe = NoProbe
  /\ proc = "none" => io = Idle /\ commit = {}
  /\ proc = "loading" => Loads /\ commit = {}
  /\ proc = "cliLoading" => Loads /\ commit # {}
  /\ proc = "cliSaving" => Saves
  /\ proc \in Running => IF Busy THEN Saves ELSE io = Idle
  /\ proc \in Running /\ commit = {} => disk.state = store.state
  /\ io.at \in {"stateSync", "checkpoint", "checkpointSync", "ok"} => disk.state = io.next
  /\ IsOption(commit)

\* The states that the files hold or may come to hold.
Files == disk.state \union io.next \union UNION {c.previous \union {c.next} : c \in commit}

\* Valid and ranked, and not behind anything that was reported.
Sound(s) == /\ IsState(s) /\ Ranked(s)
            /\ \A k \in reported : NotNewer(k, Active(s)) /\ k \in DOMAIN Snapshots(s)

FilesInv ==
  /\ \A s \in store.state \union Files : Sound(s)
  /\ \A p \in store.state, s \in Files : Follows(p, s)
  /\ IsOption(disk.state) /\ IsOption(io.next)
  /\ \A c \in commit : IsOption(c.previous)
  /\ store.state # {} \/ reported # {} => disk.state # {}

IInv == ShapeInv /\ ControlInv /\ FilesInv

-----------------------------------------------------------------------------
(* Health, and what a command was reviewed against.                        *)

HealthInv ==
  proc \in Running =>
    /\ store.deepOK => checked.key = active(store.state)
    /\ store.metadataOK /\ store.age <= MaxStaleness => checked.age <= store.age

\* What is being saved, the profile of this probe has validated.
SavingFits ==
  probe.pc = "saving" =>
    \A t \in probe.profile, s \in io.next : Fits(t, s, probe.blocked)

ProfileRead == probe.pc \in {"free", "reading"} <=> probe.profile = {}

ReviewedInv ==
  proc \in {"cliLoading", "cliSaving"} =>
    \A c \in commit :
      /\ c.previous # {}
      /\ disk.state = c.previous => \A s \in disk.state : \E p \in plan : p.hash = computeHash(s)
      /\ proc = "cliSaving" /\ io.at = "state" => disk.state = c.previous

ProfileInv == SavingFits /\ ProfileRead

\* The whole inductive invariant.
NodeInv == IInv /\ HealthInv /\ ProfileInv /\ ReviewedInv

Matches(profile, s) ==
  /\ profile.usable /\ profile.minEnc <= s.content.activeKeyID.version
  /\ \A k \in Lookup(s.content) :
       /\ profile.minDec <= k.version
       /\ k.version \in DOMAIN profile.createdAt
       /\ profile.createdAt[k.version] = k.createdAt

-----------------------------------------------------------------------------
(* What the steps do, by their effect on the files and on the commit.      *)

\* The records of the probe.
AsSaving(p, blocked, t) == [p EXCEPT !.pc = "saving", !.blocked = blocked, !.profile = {t}]

ProbeKept ==
  \/ /\ probe'.pc = probe.pc /\ probe'.profile = probe.profile
     /\ probe'.blocked = probe.blocked
  \/ /\ probe.pc \in {"free", "reading"} /\ probe'.pc \in {"free", "reading"}
     /\ probe'.profile = {}
     /\ probe.pc = "reading" => probe'.pc = "free" /\ store'.metadataOK = FALSE

\* Files, commit and cached registry stay.
Quiet ==
  /\ UNCHANGED <<disk, io, commit>> /\ store'.state = store.state
  /\ IF proc \in Running THEN proc' \in Running ELSE UNCHANGED <<proc, store, probe>>
  /\ ProbeKept

\* The node's memory is gone.
Exits == Exit /\ UNCHANGED <<disk, reported, plan, transit>>

\* A probe ends without publishing.
GivesUp ==
  /\ UNCHANGED <<disk, commit, reported, plan>> /\ store'.state = store.state
  /\ io' = Idle /\ probe' = NoProbe /\ proc' \in Running

\* A probe ends and publishes an option of a state.
Publishes(S) ==
  /\ UNCHANGED <<disk, reported, plan>>
  /\ store'.state = S /\ commit' = {}
  /\ io' = Idle /\ probe' = NoProbe /\ proc' \in Running

\* A probe starts to save the successor of an option of a state.
Commits(base, n, t) ==
  /\ UNCHANGED <<disk, store, reported, plan, proc>>
  /\ commit' = {[previous |-> base, next |-> n]}
  /\ io' = [at |-> "state", next |-> {n}]
  /\ probe'.pc = "saving" /\ probe'.profile = {t}

\* The state that a probe goes on with, according to the profile it read.
Successor(base, t, n, blocked) ==
  /\ base = {} => Bootstrapped(t, n)
  /\ \A s \in base : \E r : /\ Outcome(s, t, ~probe.discover, promotionReady(base, t), r)
                            /\ r.changed /\ r.state = n
  /\ Fits(t, n, blocked) /\ IsState(n) /\ Ranked(n)

WriteSteps == {"state", "stateSync", "checkpoint", "checkpointSync"}

\* One write or directory sync: the state file changes when it is renamed.
Writes ==
  /\ UNCHANGED <<proc, store, commit, probe, plan, reported>>
  /\ io.at \in WriteSteps /\ io'.next = io.next
  /\ \/ disk' = disk /\ io'.at = "failed"
     \/ io.at = "state" /\ io'.at = "stateSync" /\ disk'.state = io.next
     \/ /\ io.at # "state" /\ disk'.state = disk.state
        /\ io'.at \in {"checkpoint", "checkpointSync", "ok"}

\* What is published, saved or refused from an option of a base state.
ObservationStep(base, t) ==
  \/ GivesUp /\ store'.metadataOK = FALSE
  \/ \E n : Commits(base, n, t) /\ Successor(base, t, n, probe'.blocked)
  \/ \E blocked \in BOOLEAN : /\ Publishes(base) /\ store'.metadataOK = ~blocked
                              /\ \A s \in base : Fits(t, s, blocked)
                              /\ base # {}

Rests == Quiet /\ UNCHANGED <<reported, plan>>

Reports == Quiet /\ UNCHANGED plan /\ reported' = reported \union active(store.state)

Plans == /\ Quiet /\ UNCHANGED reported
         /\ \E s \in disk.state, p \in plan' : p.hash = computeHash(s)

Starts ==
  /\ proc = "none" /\ proc' = "loading"
  /\ UNCHANGED <<disk, store, commit, probe, plan, reported>>
  /\ io'.at \in {"checkpoint", "ok", "failed"} /\ io'.next = disk.state

StartsServing ==
  /\ proc = "loading" /\ io.at = "ok" /\ proc' = "boot"
  /\ store'.state = io.next /\ io' = Idle
  /\ UNCHANGED <<disk, commit, probe, plan, reported>>

Applies ==
  /\ proc = "none" /\ proc' = "cliLoading"
  /\ UNCHANGED <<disk, store, probe, plan, reported>>
  /\ io'.at \in {"checkpoint", "ok", "failed"} /\ io'.next = disk.state
  /\ \E s \in disk.state, p \in plan : \E n :
       /\ p.hash = computeHash(s) /\ Managed(s, n)
       /\ commit' = {[previous |-> {s}, next |-> n]}

SavesPlan ==
  /\ proc = "cliLoading" /\ io.at = "ok" /\ proc' = "cliSaving"
  /\ UNCHANGED <<disk, store, commit, probe, plan, reported>>
  /\ \E c \in commit : io.next = c.previous /\ io' = [at |-> "state", next |-> {c.next}]

Reads == /\ ObservationStep(store.state, transit)
         /\ proc \in Running /\ probe.pc = "reading" /\ commit = {}

Recovers ==
  /\ proc \in Running /\ probe.pc = "reading"
  /\ UNCHANGED <<disk, proc, store, commit, plan, reported>>
  /\ io'.at \in {"state", "failed"} /\ io'.next = Attempt /\ commit # {}
  /\ probe'.pc = "recovering" /\ probe'.profile = {transit}

Recovered ==
  /\ proc \in Running /\ probe.pc = "recovering" /\ io.at = "ok"
  /\ \E t \in probe.profile : ObservationStep(Attempt, t)

Saved ==
  /\ proc \in Running /\ probe.pc = "saving" /\ io.at = "ok"
  /\ Publishes(io.next) /\ store'.metadataOK = ~probe.blocked

SaveFails ==
  /\ proc \in Running /\ GivesUp
  /\ \E t \in probe.profile : deferObservation(t) \/ store'.metadataOK = FALSE

Effect ==
  \/ Rests \/ Reports \/ Plans \/ Exits \/ Starts \/ StartsServing \/ Applies \/ SavesPlan
  \/ Writes \/ Reads \/ Recovers \/ Recovered \/ Saved \/ SaveFails

-----------------------------------------------------------------------------
(* Every commit is one step of the diagram.                                *)

\* From an option of a state file to its successor.
StepOf(base, n) ==
  /\ base = {} => DOMAIN Snapshots(n) = {Active(n)}
  /\ \A s \in base :
       \/ \E candidate \in AllKeys, skipped \in SUBSET AllKeys :
            Learns(s, n, candidate, skipped) \/ Promotes(s, n, candidate, skipped)
       \/ Managed(s, n)

OnePending(s) == IsOption(KeysIn(s.content, "pending"))

CommitInv ==
  /\ \A c \in commit : StepOf(c.previous, c.next) /\ disk.state \in {c.previous, {c.next}}
  /\ \A s \in Files : DOMAIN Snapshots(s) \subseteq AllKeys /\ OnePending(s)

-----------------------------------------------------------------------------
(* The activation delay.                                                   *)

\* Known, and if it is still a candidate, a stable one.
Settled(k, s) ==
  /\ k \in DOMAIN Snapshots(s)
  /\ Snapshots(s)[k].state = "pending" => Snapshots(s)[k].stableAt # 0

Waiting == activation.key # {} /\ activation.key = CandidateOn(disk)

DelayInv ==
  /\ waited \in Nat
  /\ proc \notin Running => activation = NoWait
  /\ activation.key # {} => disk.state # {}
  /\ \A k \in activation.key, s \in Files : Settled(k, s)
  /\ Waiting => waited + activation.left >= ActivationDelay
  /\ Waiting /\ probe.pc # "free" /\ probe.ready => waited >= ActivationDelay

\* What a step does to the countdown: it goes on, it is dropped with the
\* process, or the state just published decides.
Stays ==
  /\ activation' = activation
  /\ proc \in Running => proc' \in Running
  /\ probe'.pc # "free" /\ probe'.ready =>
       (probe.pc # "free" /\ probe.ready) \/ activation.left = 0

Confirms ==
  /\ proc \in Running /\ proc' \in Running
  /\ disk' = disk /\ io' = Idle /\ commit' = {} /\ probe' = NoProbe
  /\ \E t : activation' = confirmActivation(store'.state, t)

Drops == activation' = NoWait /\ probe' = NoProbe

Countdown == Stays \/ Confirms \/ Drops

=============================================================================
