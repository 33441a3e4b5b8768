----------------------- MODULE StatusControllerProofs -----------------------
(***************************************************************************)
(* The node of StatusController for every policy, every number of versions *)
(* and every clock: what the cache, the commit in progress and the files   *)
(* may differ in, and what follows for the key_ids it hands out.           *)
(***************************************************************************)
EXTENDS NodeProperties, StatusStepProofs

-----------------------------------------------------------------------------
(* Each effect keeps the invariant.                                        *)

\* Every effect keeps who is at which step and what the files hold.
LEMMA EffectKeeps ==
  IInv /\ Effect => ControlInv' /\ FilesInv'
\* Every state follows itself.
<1>FollowsReflexive.
  ASSUME NEW s PROVE Follows(s, s)
    BY <1>FollowsReflexive DEF Follows, NotNewer
\* What follows a follower follows.
<1>FollowsTransitive.
  ASSUME NEW s, NEW m, NEW n, IsState(s), IsState(m), IsState(n), Follows(s, m), Follows(m, n)
  PROVE Follows(s, n)
    BY <1>FollowsTransitive DEF Follows, NotNewer, IsState, Active, KeySet
\* An observation never moves the active key back and forgets no key.
<1>OutcomeFollows.
  ASSUME NEW s, IsState(s), NEW profile, NEW advance, NEW ready, NEW r,
         Outcome(s, profile, advance, ready, r)
  PROVE Follows(s, r.state)
  <2>. USE <1>OutcomeFollows
  <2>1. CASE ~r.changed
    BY <2>1, <1>FollowsReflexive, ZenonT(30) DEF Outcome
  <2>2. CASE r.changed
    <3>1. PICK skipped : LET c == KeyOf(profile, profile.latest)
                         IN Learns(s, r.state, c, skipped) \/ Promotes(s, r.state, c, skipped)
      BY <2>2 DEF Outcome
    <3>. QED BY <3>1 DEF Learns, Promotes, NewKeys, Follows, NotNewer
  <2>. QED BY <2>1, <2>2 DEF Outcome
\* Neither does a retirement or a restoration.
<1>ManagedFollows.
  ASSUME NEW s, NEW n, Managed(s, n)
  PROVE Follows(s, n)
    BY <1>ManagedFollows, <1>FollowsReflexive DEF Managed, Moves, Follows, NotNewer
\* A step that touches neither file keeps the control invariant.
<1>QuietControl.
  ASSUME IInv, Quiet PROVE ControlInv'
  <2>. USE <1>QuietControl
  <2>1. UNCHANGED <<disk, io, commit>> /\ store'.state = store.state
    BY DEF Quiet
  <2>2. CASE proc \notin Running
    <3>1. UNCHANGED <<proc, store, probe>>
      BY <2>2 DEF Quiet
    <3>. QED BY <2>1, <3>1 DEF IInv, ControlInv, Loads, Saves, Attempt, Busy, IsOption
  <2>3. CASE proc \in Running
    <3>1. proc' \in Running /\ (Busy' <=> Busy)
      BY <2>3 DEF Quiet, ProbeKept, Busy
    <3>2. Saves' <=> Saves
      BY <2>1 DEF Saves, Attempt
    <3>3. proc' \notin {"none", "loading", "cliLoading", "cliSaving"}
      BY <3>1 DEF Running
    <3>. QED BY <2>1, <2>3, <3>1, <3>2, <3>3, ZenonT(30) DEF IInv, ControlInv, IsOption
  <2>. QED BY <2>2, <2>3
\* Sound and Files are about these variables only.
<1>SameFiles.
  ASSUME FilesInv, UNCHANGED <<disk, reported>>, io'.next \subseteq Files,
         store'.state = store.state, IsOption(io'.next), commit' = commit
  PROVE FilesInv'
  <2>. USE <1>SameFiles
  <2>1. Files' \subseteq Files
    BY DEF Files
  <2>2. \A s : Sound(s)' <=> Sound(s)
    BY DEF Sound
  <2>. QED BY <2>1, <2>2 DEF FilesInv, IsOption
\* A step that touches neither file and reports nothing keeps the files invariant.
<1>QuietFiles.
  ASSUME IInv, Quiet, UNCHANGED reported
  PROVE FilesInv'
    BY <1>QuietFiles, <1>SameFiles, ZenonT(30) DEF IInv, FilesInv, Quiet, Files
\* The reported key is known to every state that the files may come to hold.
<1>ReportFiles.
  ASSUME IInv, Quiet, reported' = reported \union active(store.state)
  PROVE FilesInv'
  <2>. USE <1>ReportFiles
  <2>1. UNCHANGED <<disk, io, commit>> /\ store'.state = store.state
    BY DEF Quiet
  <2>2. Files' = Files
    BY <2>1 DEF Files
  <2>3. ASSUME NEW s \in store.state \union Files PROVE Sound(s)'
    <3>1. Sound(s)
      BY <2>3 DEF IInv, FilesInv
    <3>2. ASSUME NEW k \in active(store.state)
          PROVE NotNewer(k, Active(s)) /\ k \in DOMAIN Snapshots(s)
      <4>1. PICK p \in store.state : k = Active(p)
        BY <3>2 DEF active, Active
      <4>2. Follows(p, s)
        <5>1. CASE s \in store.state
          <6>1. p = s
            BY <5>1 DEF IInv, ShapeInv, IsStore, IsOption
          <6>. QED BY <6>1, <1>FollowsReflexive, ZenonT(30)
        <5>2. CASE s \in Files
          BY <5>2 DEF IInv, FilesInv
        <5>. QED BY <2>3, <5>1, <5>2
      <4>3. Active(p) \in DOMAIN Snapshots(p)
        BY ActiveKnown DEF IInv, FilesInv, Sound
      <4>. QED BY <4>1, <4>2, <4>3 DEF Follows
    <3>. QED BY <3>1, <3>2 DEF Sound
  <2>4. active(store.state) # {} => store.state # {}
    BY DEF active
  <2>. QED BY <2>1, <2>2, <2>3, <2>4, ZenonT(30) DEF IInv, FilesInv
\* A stop, at any step of a save, keeps the invariant.
<1>ExitKeeps.
  ASSUME IInv, Exits PROVE ControlInv' /\ FilesInv'
  <2>. USE <1>ExitKeeps
  <2>1. /\ proc' = "none" /\ store' = NoStore /\ commit' = {} /\ probe' = NoProbe /\ io' = Idle
        /\ UNCHANGED <<disk, reported>>
    BY DEF Exits, Exit
  <2>2. io'.at = "idle" /\ io'.next = {} /\ store'.state = {}
    BY <2>1, NoStoreShape DEF Idle
  <2>3. ControlInv'
    BY <2>1, <2>2 DEF ControlInv, Running, IsOption
  <2>4. Files' = disk.state
    BY <2>1, <2>2 DEF Files
  <2>5. \A s \in disk.state : Sound(s)'
    BY <2>1 DEF IInv, FilesInv, Files, Sound
  <2>. QED BY <2>1, <2>2, <2>3, <2>4, <2>5, ZenonT(30) DEF IInv, FilesInv, IsOption
\* So does a probe that gives up.
<1>GiveUpKeeps.
  ASSUME IInv, proc \in Running, GivesUp PROVE ControlInv' /\ FilesInv'
  <2>. USE <1>GiveUpKeeps
  <2>1. /\ UNCHANGED <<disk, commit, reported>> /\ store'.state = store.state
        /\ io' = Idle /\ probe' = NoProbe /\ proc' \in Running
    BY DEF GivesUp
  <2>2. io'.at = "idle" /\ io'.next = {} /\ ~Busy'
    BY <2>1, NoProbeShape, ZenonT(30) DEF Idle, Busy
  <2>3. ControlInv'
    BY <2>1, <2>2 DEF IInv, ControlInv, Running, IsOption
  <2>4. FilesInv'
    BY <2>1, <2>2, <1>SameFiles DEF IInv, IsOption
  <2>. QED BY <2>3, <2>4
\* So does a probe that publishes what is on disk.
<1>PublishKeeps.
  ASSUME IInv, proc \in Running, NEW S, IsOption(S), S = disk.state, Publishes(S)
  PROVE ControlInv' /\ FilesInv'
  <2>. USE <1>PublishKeeps
  <2>1. /\ UNCHANGED <<disk, reported>> /\ store'.state = S /\ commit' = {}
        /\ io' = Idle /\ probe' = NoProbe /\ proc' \in Running
    BY DEF Publishes
  <2>2. io'.at = "idle" /\ io'.next = {} /\ ~Busy'
    BY <2>1, NoProbeShape, ZenonT(30) DEF Idle, Busy
  <2>3. ControlInv'
    BY <2>1, <2>2 DEF IInv, ControlInv, Running, IsOption
  <2>4. Files' = disk.state
    BY <2>1, <2>2, ZenonT(30) DEF Files
  <2>5. \A s \in disk.state : Sound(s)'
    BY <2>1 DEF IInv, FilesInv, Files, Sound
  <2>6. \A p, s \in disk.state : Follows(p, s)
    BY <1>FollowsReflexive, ZenonT(30) DEF IsOption
  <2>7. FilesInv'
    BY <2>1, <2>2, <2>4, <2>5, <2>6, ZenonT(30) DEF IInv, FilesInv, IsOption
  <2>. QED BY <2>3, <2>7
\* A successor is sound when what it follows is.
<1>SoundFollows.
  ASSUME NEW s, Sound(s), NEW n, IsState(n), Ranked(n), Follows(s, n)
  PROVE Sound(n)
  <2>. USE <1>SoundFollows
  <2>1. Active(s).version \in Nat /\ Active(n).version \in Nat
    BY DEF Sound, IsState, Active, KeySet
  <2>2. ASSUME NEW k \in reported PROVE NotNewer(k, Active(n)) /\ k \in DOMAIN Snapshots(n)
    <3>1. NotNewer(k, Active(s)) /\ k \in DOMAIN Snapshots(s)
      BY <2>2, ZenonT(30) DEF Sound
    <3>2. k.version \in Nat
      BY <3>1 DEF Sound, IsState, IsRecords, KeySet, Snapshots
    <3>. QED BY <2>1, <3>1, <3>2 DEF Follows, NotNewer
  <2>. QED BY <2>2, ZenonT(30) DEF Sound
\* So does the begin of a save.
<1>CommitKeeps.
  ASSUME IInv, proc \in Running, NEW base, IsOption(base),
         \A s \in base : Sound(s),
         \A p \in store.state, s \in base : Follows(p, s),
         base = {} => disk.state = {} /\ store.state = {},
         NEW n, NEW t, NEW blocked, Commits(base, n, t), Successor(base, t, n, blocked)
  PROVE ControlInv' /\ FilesInv'
  <2>. USE <1>CommitKeeps
  <2>1. /\ UNCHANGED <<disk, store, reported, proc>>
        /\ commit' = {[previous |-> base, next |-> n]}
        /\ io'.at = "state" /\ io'.next = {n} /\ Busy'
    BY DEF Commits, Busy
  <2>2. Attempt' = {n} /\ commit' # {}
    BY <2>1 DEF Attempt
  <2>3. IsOption(commit')
    BY <2>1 DEF IsOption
  <2>4. ControlInv'
    BY <2>1, <2>2, <2>3, ZenonT(30) DEF IInv, ControlInv, Saves, Running
  <2>5. Files' = disk.state \union {n} \union base
    BY <2>1 DEF Files
  <2>6. IsState(n) /\ Ranked(n)
    BY DEF Successor
  <2>7. \A s \in base : Follows(s, n)
    <3>1. ASSUME NEW s \in base PROVE Follows(s, n)
      <4>1. PICK r : /\ Outcome(s, t, ~probe.discover, promotionReady(base, t), r) /\ r.state = n
        BY <3>1, ZenonT(30) DEF Successor
      <4>2. IsState(s)
        BY Zenon DEF Sound
      <4>. DEFINE advance == ~probe.discover
                  ready == promotionReady(base, t)
      <4>3. Outcome(s, t, advance, ready, r)
        BY <4>1, ZenonT(30)
      <4>. HIDE DEF advance, ready
      <4>. QED BY <4>1, <4>2, <4>3, <1>OutcomeFollows, ZenonT(30)
    <3>. QED BY <3>1
  <2>8. Sound(n)
    <3>1. CASE base = {}
      BY <2>6, <3>1, ZenonT(30) DEF IInv, FilesInv, Sound
    <3>2. CASE base # {}
      BY <2>6, <2>7, <3>2, <1>SoundFollows, ZenonT(30)
    <3>. QED BY <3>1, <3>2
  <2>9. \A s : Sound(s)' <=> Sound(s)
    BY <2>1, ZenonT(30) DEF Sound
  <2>10. \A p \in store.state : Follows(p, n)
    <3>1. ASSUME NEW p \in store.state PROVE Follows(p, n)
      <4>1. PICK s \in base : TRUE
        BY <3>1
      <4>2. Follows(p, s) /\ Follows(s, n) /\ IsState(s) /\ IsState(p)
        BY <2>7, ZenonT(30) DEF Sound, IInv, FilesInv
      <4>. QED BY <2>6, <4>2, <1>FollowsTransitive, ZenonT(30)
    <3>. QED BY <3>1, ZenonT(30)
  <2>11. \A c \in commit' : IsOption(c.previous)
    BY <2>1
  <2>12. /\ \A s \in store.state \union disk.state : Sound(s)
         /\ \A p \in store.state, s \in disk.state : Follows(p, s)
         /\ IsOption(disk.state) /\ (store.state # {} \/ reported # {} => disk.state # {})
    BY DEF IInv, FilesInv, Files
  <2>13. IsOption({n})
    BY DEF IsOption
  <2>14. FilesInv'
    BY <2>1, <2>5, <2>8, <2>9, <2>10, <2>11, <2>12, <2>13, ZenonT(30) DEF FilesInv
  <2>. QED BY <2>4, <2>14, ZenonT(30)
\* Steps that read the profile.
<1>ObservationKeeps.
  ASSUME IInv, proc \in Running, NEW base, IsOption(base), NEW t, ObservationStep(base, t),
         \A s \in base : Sound(s),
         \A p \in store.state, s \in base : Follows(p, s),
         base = {} => disk.state = {} /\ store.state = {},
         base = disk.state
  PROVE ControlInv' /\ FilesInv'
  <2>. USE <1>ObservationKeeps
  <2>1. CASE GivesUp
    BY <2>1, <1>GiveUpKeeps
  <2>2. CASE \E n : Commits(base, n, t) /\ Successor(base, t, n, probe'.blocked)
    BY <2>2, <1>CommitKeeps, ZenonT(30)
  <2>3. CASE Publishes(base)
    BY <2>3, <1>PublishKeeps
  <2>. QED BY <2>1, <2>2, <2>3, ZenonT(30) DEF ObservationStep
\* So does the begin of a recovery.
<1>RecoverBeginKeeps.
  ASSUME IInv, proc \in Running, UNCHANGED <<disk, proc, store, commit, reported>>,
         io'.at \in {"state", "failed"}, io'.next = Attempt, commit # {},
         probe'.pc = "recovering"
  PROVE ControlInv' /\ FilesInv'
  <2>. USE <1>RecoverBeginKeeps
  <2>1. Busy' /\ Saves'
    BY DEF Busy, Saves, Attempt
  <2>2. ControlInv'
    BY <2>1 DEF IInv, ControlInv, Running, IsOption
  <2>3. Attempt \subseteq Files /\ IsOption(Attempt)
    BY DEF Attempt, Files, IInv, ControlInv, IsOption
  <2>. QED BY <2>2, <2>3, <1>SameFiles DEF IInv
\* So does the begin of a load.
<1>StartKeeps.
  ASSUME IInv, proc = "none", proc' = "loading",
         UNCHANGED <<disk, store, commit, probe, reported>>,
         io'.at \in {"checkpoint", "ok", "failed"}, io'.next = disk.state
  PROVE ControlInv' /\ FilesInv'
  <2>. USE <1>StartKeeps
  <2>1. ControlInv'
    BY DEF IInv, ControlInv, Running, Loads, IsOption
  <2>2. FilesInv'
    BY <1>SameFiles, ZenonT(30) DEF IInv, FilesInv, Files
  <2>. QED BY <2>1, <2>2, ZenonT(30)
\* So does the end of a load.
<1>LoadedKeeps.
  ASSUME IInv, proc = "loading", io.at = "ok", proc' = "boot", store'.state = io.next, io' = Idle,
         UNCHANGED <<disk, commit, probe, reported>>
  PROVE ControlInv' /\ FilesInv'
  <2>. USE <1>LoadedKeeps
  <2>1. /\ commit = {} /\ io.next = disk.state /\ probe = NoProbe
        /\ io'.at = "idle" /\ io'.next = {}
    BY Zenon DEF IInv, ControlInv, Running, Loads, Idle
  <2>2. ~Busy'
    BY <2>1, NoProbeShape, ZenonT(30) DEF Busy
  <2>3. ControlInv'
    BY <2>1, <2>2, ZenonT(30) DEF ControlInv, Running, IsOption
  <2>4. Files' = disk.state
    BY <2>1, ZenonT(30) DEF Files
  <2>5. \A s \in disk.state : Sound(s)'
    BY ZenonT(30) DEF IInv, FilesInv, Files, Sound
  <2>6. \A p, s \in disk.state : Follows(p, s)
    BY <1>FollowsReflexive, ZenonT(30) DEF IInv, FilesInv, IsOption
  <2>7. FilesInv'
    BY <2>1, <2>4, <2>5, <2>6, ZenonT(30) DEF IInv, FilesInv, IsOption
  <2>. QED BY <2>3, <2>7, ZenonT(30)
\* So does the command line that takes up a transition.
<1>ApplyKeeps.
  ASSUME IInv, proc = "none", proc' = "cliLoading", UNCHANGED <<disk, store, probe, reported>>,
         io'.at \in {"checkpoint", "ok", "failed"}, io'.next = disk.state,
         NEW s \in disk.state, NEW n, Managed(s, n), commit' = {[previous |-> {s}, next |-> n]}
  PROVE ControlInv' /\ FilesInv'
  <2>. USE <1>ApplyKeeps
  <2>1. ControlInv'
    BY ZenonT(30) DEF IInv, ControlInv, Running, Loads, IsOption
  <2>2. store.state = {}
    BY NoStoreShape DEF IInv, ControlInv, Running
  <2>3. \A q : Sound(q)' <=> Sound(q)
    BY ZenonT(30) DEF Sound
  <2>4. \A q \in disk.state : Sound(q)
    BY ZenonT(30) DEF IInv, FilesInv, Files
  <2>5. Sound(n)
    <3>1. Follows(s, n)
      BY <1>ManagedFollows
    <3>. QED BY <2>4, <3>1, <1>SoundFollows, ZenonT(30) DEF Managed
  <2>6. Files' = disk.state \union {s} \union {n}
    BY DEF Files
  <2>7. \A c \in commit' : IsOption(c.previous)
    BY DEF IsOption
  <2>8. FilesInv'
    BY <2>2, <2>3, <2>4, <2>5, <2>6, <2>7, ZenonT(30) DEF IInv, FilesInv
  <2>. QED BY <2>1, <2>8, ZenonT(30)
\* So does the command line that begins to save.
<1>SaveTransitionKeeps.
  ASSUME IInv, proc = "cliLoading", proc' = "cliSaving",
         UNCHANGED <<disk, store, commit, probe, reported>>,
         NEW c \in commit, io' = [at |-> "state", next |-> {c.next}]
  PROVE ControlInv' /\ FilesInv'
  <2>. USE <1>SaveTransitionKeeps
  <2>1. io'.at = "state" /\ io'.next = {c.next} /\ IsOption(commit)
    BY DEF IInv, ControlInv
  <2>2. Attempt' = {c.next}
    BY <2>1, ZenonT(30) DEF Attempt, IsOption
  <2>3. ControlInv'
    BY <2>1, <2>2, ZenonT(30) DEF IInv, ControlInv, Running, Saves, IsOption
  <2>4. io'.next \subseteq Files /\ IsOption(io'.next)
    BY <2>1 DEF Files, IsOption
  <2>. QED BY <2>3, <2>4, <1>SameFiles, ZenonT(30) DEF IInv
\* So does every step on the files: the state on disk is replaced by the one being saved.
<1>WriteKeeps.
  ASSUME IInv, Writes
  PROVE ControlInv' /\ FilesInv'
  <2>. USE <1>WriteKeeps
  <2>1. /\ UNCHANGED <<proc, store, commit, probe, reported>> /\ io'.next = io.next
        /\ io.at \in WriteSteps
    BY DEF Writes
  <2>2. \/ disk' = disk /\ io'.at = "failed"
        \/ io.at = "state" /\ io'.at = "stateSync" /\ disk'.state = io.next
        \/ /\ io.at # "state" /\ disk'.state = disk.state
           /\ io'.at \in {"checkpoint", "checkpointSync", "ok"}
    BY DEF Writes
  <2>3. io # Idle /\ io'.at # "idle"
    BY <2>1, <2>2 DEF Idle, WriteSteps
  <2>4. \/ proc \in {"loading", "cliLoading"} /\ Loads
        \/ proc = "cliSaving" /\ Saves
        \/ proc \in Running /\ Busy /\ Saves
    BY <2>3 DEF IInv, ControlInv
  <2>5. Attempt' = Attempt /\ (Busy <=> Busy')
    BY <2>1, ZenonT(30) DEF Attempt, Busy
  <2>6. io'.at \in {"stateSync", "checkpoint", "checkpointSync", "ok"} => disk'.state = io'.next
    BY <2>1, <2>2, ZenonT(30) DEF IInv, ControlInv, WriteSteps
  <2>7. ControlInv'
    <3>1. CASE proc \in {"loading", "cliLoading"} /\ Loads
      BY <2>1, <2>2, <2>6, <3>1, ZenonT(30) DEF IInv, ControlInv, Loads, Running, IsOption
    <3>2. CASE proc = "cliSaving" /\ Saves
      BY <2>1, <2>3, <2>5, <2>6, <3>2, ZenonT(30) DEF IInv, ControlInv, Saves, Running, IsOption
    <3>3. CASE proc \in Running /\ Busy /\ Saves
      BY <2>1, <2>3, <2>5, <2>6, <3>3, ZenonT(30) DEF IInv, ControlInv, Saves, Running, IsOption
    <3>. QED BY <2>4, <3>1, <3>2, <3>3, ZenonT(30)
  <2>8. disk'.state \in {disk.state, io.next}
    BY <2>2
  <2>9. Files' \subseteq Files /\ IsOption(disk'.state)
    BY <2>1, <2>8, ZenonT(30) DEF Files, IInv, FilesInv
  <2>10. io.at = "state" => io.next # {}
    BY <2>4 DEF Loads, Saves, Attempt
  <2>11. disk.state # {} => disk'.state # {}
    BY <2>2, <2>10, ZenonT(30)
  <2>12. \A s : Sound(s)' <=> Sound(s)
    BY <2>1, ZenonT(30) DEF Sound
  <2>13. FilesInv'
    BY <2>1, <2>9, <2>11, <2>12, ZenonT(30) DEF IInv, FilesInv, IsOption
  <2>. QED BY <2>7, <2>13, ZenonT(30)
<1>. SUFFICES ASSUME IInv, Effect PROVE ControlInv' /\ FilesInv'
  OBVIOUS
<1>1. CASE Rests \/ Plans
  BY <1>1, <1>QuietControl, <1>QuietFiles DEF Rests, Plans
<1>2. CASE Reports
  BY <1>2, <1>QuietControl, <1>ReportFiles DEF Reports
<1>3. CASE Exits
  BY <1>3, <1>ExitKeeps, ZenonT(30)
<1>4. CASE Starts
  BY <1>4, <1>StartKeeps, ZenonT(30) DEF Starts
<1>5. CASE StartsServing
  BY <1>5, <1>LoadedKeeps, ZenonT(30) DEF StartsServing
<1>6. CASE Applies
  <2>1. PICK s \in disk.state : \E n :
          Managed(s, n) /\ commit' = {[previous |-> {s}, next |-> n]}
    BY <1>6, ZenonT(30) DEF Applies
  <2>2. PICK n : Managed(s, n) /\ commit' = {[previous |-> {s}, next |-> n]}
    BY <2>1, ZenonT(30)
  <2>. QED BY <1>6, <2>2, <1>ApplyKeeps, ZenonT(30) DEF Applies
<1>7. CASE SavesPlan
  BY <1>7, <1>SaveTransitionKeeps, ZenonT(30) DEF SavesPlan
<1>8. CASE Writes
  BY <1>8, <1>WriteKeeps
<1>9. CASE Reads
  <2>1. disk.state = store.state /\ IsOption(store.state) /\ \A s \in store.state : Sound(s)
    BY <1>9, ZenonT(30) DEF Reads, IInv, ControlInv, FilesInv
  <2>2. \A p, s \in store.state : Follows(p, s)
    BY <2>1, <1>FollowsReflexive, ZenonT(30) DEF IsOption
  <2>. QED BY <1>9, <2>1, <2>2, <1>ObservationKeeps, ZenonT(30) DEF Reads
<1>10. CASE Recovers
  BY <1>10, <1>RecoverBeginKeeps, ZenonT(30) DEF Recovers
<1>11. CASE Recovered
  <2>1. PICK t : ObservationStep(Attempt, t)
    BY <1>11, ZenonT(30) DEF Recovered
  <2>2. proc \in Running /\ Attempt = disk.state /\ Attempt # {}
    BY <1>11, ZenonT(30) DEF Recovered, IInv, ControlInv, Saves, Busy, Attempt
  <2>3. /\ IsOption(disk.state) /\ \A s \in disk.state : Sound(s)
        /\ \A p \in store.state, s \in disk.state : Follows(p, s)
    BY ZenonT(30) DEF IInv, FilesInv, Files
  <2>. QED BY <2>1, <2>2, <2>3, <1>ObservationKeeps, ZenonT(30)
<1>12. CASE Saved
  <2>1. /\ proc \in Running /\ io.next = disk.state /\ Publishes(io.next)
        /\ IsOption(io.next)
    BY <1>12, ZenonT(30) DEF Saved, IInv, ControlInv, FilesInv
  <2>. QED BY <2>1, <1>PublishKeeps, ZenonT(30)
<1>13. CASE SaveFails
  BY <1>13, <1>GiveUpKeeps DEF SaveFails
<1>. QED BY <1>1, <1>2, <1>3, <1>4, <1>5, <1>6, <1>7, <1>8, <1>9, <1>10, <1>11, <1>12, <1>13, ZenonT(30)
         DEF Effect

-----------------------------------------------------------------------------
(* The cache, the commit in progress and the files.                        *)

\* The cache, the commit in progress and the files never disagree by more than
\* the save in progress, and only ever move forward.
THEOREM Invariance == Spec => [](IInv /\ HealthInv)
<1>1. Init => IInv /\ HealthInv
  BY InitEstablishes
<1>2. IInv /\ HealthInv /\ [Next]_vars => (IInv /\ HealthInv)'
  <2>1. ASSUME IInv, HealthInv, [Next]_vars PROVE IInv' /\ HealthInv'
    <3>1. ShapeInv' /\ HealthInv' /\ Effect
      BY <2>1, NextEffect, ZenonT(30)
    <3>2. ControlInv' /\ FilesInv'
      BY <2>1, <3>1, EffectKeeps
    <3>. QED BY <3>1, <3>2, ZenonT(30) DEF IInv
  <2>. QED BY <2>1
<1>. QED BY <1>1, <1>2, PTL DEF Spec

\* Every registry that is cached, on disk or about to be written validates,
\* there is at most one of each, and only a running node probes.
THEOREM TypeCorrect == Spec => []TypeOK
<1>1. ASSUME IInv PROVE TypeOK
  <2>1. /\ IsOption(store.state) /\ IsOption(commit)
        /\ probe.pc \in {"free", "reading", "recovering", "saving"}
    BY <1>1, ZenonT(30) DEF IInv, ShapeInv, IsStore, IsProbe, ControlInv
  <2>3. \A s \in store.state \union disk.state \union io.next : IsState(s)
    BY <1>1, ZenonT(30) DEF IInv, FilesInv, Files, Sound
  <2>4. /\ proc \in {"none", "loading", "cliLoading", "cliSaving"} \union Running
        /\ probe.pc # "free" => proc \in Running
    BY <1>1, RunningProbe, ZenonT(30) DEF IInv, ControlInv
  <2>. QED BY <2>1, <2>3, <2>4 DEF TypeOK, IsState
<1>. QED BY <1>1, Invariance, PTL

\* No key_id that Status or Encrypt returned is newer than the active key of
\* the cache or of the files, whatever fails and whoever writes.
THEOREM KeyIDSafe == Spec => []KeyIDNeverFlipsBack
<1>1. ASSUME IInv PROVE KeyIDNeverFlipsBack
  <2>1. ASSUME NEW k \in reported, NEW a \in active(store.state) \union active(disk.state)
        PROVE k.version < a.version \/ k = a
    <3>1. PICK s \in store.state \union disk.state : a = Active(s)
      BY <2>1, ZenonT(30) DEF active, Active
    <3>2. Sound(s)
      BY <1>1, ZenonT(30) DEF IInv, FilesInv, Files
    <3>. QED BY <2>1, <3>1, <3>2, ZenonT(30) DEF Sound, NotNewer
  <2>. QED BY <2>1, ZenonT(30) DEF KeyIDNeverFlipsBack
<1>. QED BY <1>1, Invariance, PTL

\* What Status or Encrypt returned stays in the registry on disk.
THEOREM ReportedKept == Spec => []ReportedStaysKnown
<1>1. ASSUME IInv PROVE ReportedStaysKnown
  <2>1. ASSUME NEW k \in reported
        PROVE \E s \in disk.state : k \in Lookup(s.content) \/ k \in KeysIn(s.content, "removed")
    <3>1. PICK s \in disk.state : Sound(s)
      BY <1>1, <2>1, ZenonT(30) DEF IInv, FilesInv, Files
    <3>2. k \in DOMAIN s.content.snapshots
      BY <2>1, <3>1, ZenonT(30) DEF Sound, Snapshots
    <3>3. IsRecord(s.content.snapshots[k])
      BY <3>1, <3>2, ZenonT(30) DEF Sound, IsState, IsRecords
    <3>4. k \in Lookup(s.content) \/ k \in KeysIn(s.content, "removed")
      BY <3>2, <3>3, ZenonT(30) DEF Lookup, KeysIn, IsRecord, DecryptableStates
    <3>. QED BY <3>4, ZenonT(30)
  <2>. QED BY <2>1 DEF ReportedStaysKnown
<1>. QED BY <1>1, Invariance, PTL

\* Health is only ever reported for the key that was last probed end to end,
\* on metadata that is fresh.
THEOREM HealthChecked == Spec => []HealthyIsChecked
<1>1. ASSUME IInv, HealthInv PROVE HealthyIsChecked
  <2>1. store.age \in Nat /\ checked.age \in Nat /\ MaxStaleness \in Nat
    BY <1>1, ControllerAssumption, ZenonT(30) DEF IInv, ShapeInv, IsStore
  <2>. QED BY <1>1, <2>1 DEF HealthInv, HealthyIsChecked, Current, updateHealth
<1>. QED BY <1>1, Invariance, PTL

-----------------------------------------------------------------------------
(* Probes publish what their profile validates, and commands replace what  *)
(* was reviewed.                                                           *)

\* An observation does not itself write.
LEMMA ObservationDisk ==
  ASSUME NEW base, NEW t, ObservationStep(base, t)
  PROVE disk' = disk /\ proc' \in Running \union {proc}
BY ZenonT(30) DEF ObservationStep, GivesUp, Commits, Publishes

\* What a probe saves fits the profile that this probe has read.
LEMMA EffectProfile ==
  IInv /\ ProfileInv /\ Effect => ProfileInv'
\* An observation keeps the profile of the probe with what the probe saves.
<1>ObservationProfile.
  ASSUME NEW base, NEW t, ObservationStep(base, t)
  PROVE ProfileInv'
  <2>. USE <1>ObservationProfile
  <2>1. CASE probe' = NoProbe
    BY <2>1, NoProbeShape, ZenonT(30) DEF ProfileInv, SavingFits, ProfileRead
  <2>2. CASE \E n : Commits(base, n, t) /\ Successor(base, t, n, probe'.blocked)
    <3>1. PICK n : Commits(base, n, t) /\ Successor(base, t, n, probe'.blocked)
      BY <2>2
    <3>2. probe'.pc = "saving" /\ probe'.profile = {t} /\ io'.next = {n}
      BY <3>1, ZenonT(30) DEF Commits
    <3>3. Fits(t, n, probe'.blocked)
      BY <3>1 DEF Successor
    <3>. QED BY <3>2, <3>3 DEF ProfileInv, SavingFits, ProfileRead
  <2>. QED BY <2>1, <2>2, ZenonT(30) DEF ObservationStep, GivesUp, Publishes
<1>. SUFFICES ASSUME IInv, ProfileInv, Effect PROVE ProfileInv'
  BY ZenonT(30)
<1>1. CASE Rests \/ Reports \/ Plans
  <2>1. ProbeKept /\ io' = io
    BY <1>1, ZenonT(30) DEF Rests, Reports, Plans, Quiet
  <2>. QED BY <2>1 DEF ProfileInv, SavingFits, ProfileRead, ProbeKept
<1>2. CASE Exits \/ Saved \/ SaveFails
  <2>1. probe' = NoProbe
    BY <1>2, ZenonT(30) DEF Exits, Exit, Saved, Publishes, SaveFails, GivesUp
  <2>. QED BY <2>1, NoProbeShape, ZenonT(30) DEF ProfileInv, SavingFits, ProfileRead
<1>3. CASE Starts \/ StartsServing \/ Applies \/ SavesPlan
  <2>1. probe' = NoProbe
    BY <1>3, ZenonT(30) DEF Starts, StartsServing, Applies, SavesPlan, IInv, ControlInv, Running
  <2>. QED BY <2>1, NoProbeShape, Zenon DEF ProfileInv, SavingFits, ProfileRead
<1>4. CASE Writes
  BY <1>4, ZenonT(30) DEF Writes, ProfileInv, SavingFits, ProfileRead
<1>5. CASE Reads
  BY <1>5, <1>ObservationProfile DEF Reads
<1>6. CASE Recovers
  BY <1>6, ZenonT(30) DEF Recovers, ProfileInv, SavingFits, ProfileRead
<1>7. CASE Recovered
  BY <1>7, <1>ObservationProfile DEF Recovered
<1>. QED BY <1>1, <1>2, <1>3, <1>4, <1>5, <1>6, <1>7, ZenonT(30) DEF Effect

\* What the command line holds or saves is a successor of a state whose hash was planned.
LEMMA EffectReviewed ==
  ASSUME IInv, ReviewedInv, Effect
  PROVE ReviewedInv'
<1>1. CASE proc' \notin {"cliLoading", "cliSaving"}
  BY <1>1 DEF ReviewedInv
<1>2. CASE Rests \/ Reports \/ Plans
  <2>1. CASE proc \in Running
    <3>1. proc' \in Running
      BY <1>2, <2>1, ZenonT(30) DEF Rests, Reports, Plans, Quiet
    <3>. QED BY <3>1, ZenonT(30) DEF ReviewedInv, Running
  <2>2. CASE proc \notin Running
    <3>1. UNCHANGED <<disk, io, commit, proc>>
      BY <1>2, <2>2, ZenonT(30) DEF Rests, Reports, Plans, Quiet
    <3>2. CASE plan' = plan
      BY <3>1, <3>2, ZenonT(30) DEF ReviewedInv
    <3>3. CASE Plans
      <4>1. PICK s \in disk.state : \E p \in plan' : p.hash = computeHash(s)
        BY <3>3, ZenonT(30) DEF Plans
      <4>2. \A q \in disk.state : q = s
        BY ZenonT(30) DEF IInv, FilesInv, IsOption
      <4>. QED BY <3>1, <4>1, <4>2, ZenonT(30) DEF ReviewedInv
    <3>. QED BY <1>2, <3>2, <3>3, ZenonT(30) DEF Rests, Reports
  <2>. QED BY <2>1, <2>2, ZenonT(30)
<1>3. CASE Applies
  <2>1. PICK s \in disk.state, p \in plan : \E n :
             /\ p.hash = computeHash(s) /\ commit' = {[previous |-> {s}, next |-> n]}
    BY <1>3, Zenon DEF Applies
  <2>2. UNCHANGED <<disk, plan>> /\ proc' = "cliLoading"
    BY <1>3, ZenonT(30) DEF Applies
  <2>3. \A q \in disk.state : q = s
    BY ZenonT(30) DEF IInv, FilesInv, IsOption
  <2>. QED BY <2>1, <2>2, <2>3 DEF ReviewedInv
<1>4. CASE SavesPlan
  <2>1. PICK c \in commit : io.next = c.previous
    BY <1>4, ZenonT(30) DEF SavesPlan
  <2>2. \A d \in commit : d = c
    BY ZenonT(30) DEF IInv, ControlInv, IsOption
  <2>3. disk.state = io.next /\ proc = "cliLoading" /\ UNCHANGED <<disk, plan, commit>>
    BY <1>4, ZenonT(30) DEF SavesPlan, IInv, ControlInv
  <2>. QED BY <2>1, <2>2, <2>3, ZenonT(30) DEF ReviewedInv
<1>5. CASE Writes
  <2>1. UNCHANGED <<proc, commit, plan>>
    BY <1>5, ZenonT(30) DEF Writes
  <2>2. \/ disk'.state = disk.state /\ io'.at # "state"
        \/ io.at = "state" /\ io'.at # "state"
    BY <1>5, ZenonT(30) DEF Writes
  <2>3. CASE disk'.state = disk.state /\ io'.at # "state"
    BY <2>1, <2>3, ZenonT(30) DEF ReviewedInv
  <2>4. CASE io.at = "state" /\ io'.at # "state"
    <3>1. proc = "cliSaving" \/ proc' \notin {"cliLoading", "cliSaving"}
      BY <2>1, <2>4, ZenonT(30) DEF IInv, ControlInv, Loads
    <3>. QED BY <1>1, <2>1, <2>4, <3>1, ZenonT(30) DEF ReviewedInv
  <2>. QED BY <2>2, <2>3, <2>4, ZenonT(30)
<1>6. CASE Exits \/ Starts \/ StartsServing
  BY <1>1, <1>6, ZenonT(30) DEF Exits, Exit, Starts, StartsServing
<1>7. CASE Recovers \/ Saved \/ SaveFails
  <2>1. proc' \in Running
    BY <1>7, ZenonT(30) DEF Recovers, Saved, Publishes, SaveFails, GivesUp
  <2>. QED BY <1>1, <2>1, ZenonT(30) DEF Running
<1>8. CASE Reads \/ Recovered
  <2>1. proc' \in Running
    BY <1>8, ObservationDisk, ZenonT(30) DEF Reads, Recovered
  <2>. QED BY <1>1, <2>1 DEF Running
<1>. QED BY <1>2, <1>3, <1>4, <1>5, <1>6, <1>7, <1>8, ZenonT(30) DEF Effect

\* Every reachable state of the node satisfies the whole invariant.
THEOREM NodeInvariance == Spec => []NodeInv
<1>1. Init => NodeInv
  <2>1. ASSUME Init PROVE NodeInv
    <3>1. proc = "none" /\ probe = NoProbe
      BY <2>1, ZenonT(30) DEF Init
    <3>. QED BY <2>1, <3>1, InitEstablishes, NoProbeShape, ZenonT(30)
             DEF NodeInv, ProfileInv, SavingFits, ProfileRead, ReviewedInv
  <2>. QED BY <2>1, ZenonT(30)
<1>2. NodeInv /\ [Next]_vars => NodeInv'
  <2>1. ASSUME NodeInv, [Next]_vars PROVE NodeInv'
    <3>1. IInv /\ HealthInv /\ ProfileInv /\ ReviewedInv
      BY <2>1 DEF NodeInv
    <3>2. ShapeInv' /\ HealthInv' /\ Effect
      BY <2>1, <3>1, NextEffect, ZenonT(30)
    <3>3. ControlInv' /\ FilesInv' /\ ProfileInv' /\ ReviewedInv'
      BY <3>1, <3>2, EffectKeeps, EffectProfile, EffectReviewed, ZenonT(30)
    <3>. QED BY <3>2, <3>3 DEF NodeInv, IInv
  <2>. QED BY <2>1
<1>. QED BY <1>1, <1>2, PTL DEF Spec

\* validateDecryptableState has found the active key in the profile.
LEMMA FitsMatches ==
  ASSUME NEW profile, NEW s, Fits(profile, s, FALSE)
  PROVE Matches(profile, s)
BY ZenonT(30) DEF Fits, Matches, validateDecryptableState, Active

\* A store that an observation leaves healthy matches the profile that was read.
LEMMA ObservationMatches ==
  ASSUME NEW base, NEW t, ObservationStep(base, t), probe'.pc = "free", store'.metadataOK
  PROVE \A s \in store'.state : Matches(t, s)
<1>1. ASSUME NEW blocked \in BOOLEAN, Publishes(base), store'.metadataOK = ~blocked,
             \A s \in base : Fits(t, s, blocked)
      PROVE \A s \in store'.state : Matches(t, s)
  <2>1. store'.state = base /\ blocked = FALSE
    BY <1>1, ZenonT(30) DEF Publishes
  <2>. QED BY <1>1, <2>1, FitsMatches, ZenonT(30)
<1>2. ~(\E n : Commits(base, n, t))
  BY ZenonT(30) DEF Commits
<1>. QED BY <1>1, <1>2, ZenonT(30) DEF ObservationStep

\* A probe that ends healthy has validated the state it publishes.
LEMMA EffectMatches ==
  ASSUME NodeInv, Effect, probe.pc # "free", probe'.pc = "free", store'.metadataOK,
         NEW profile \in IF probe.profile = {} THEN {transit} ELSE probe.profile,
         \A t \in probe.profile : deferObservation(t) => \A q \in store.state : Fits(t, q, FALSE),
         NEW s \in store'.state
  PROVE Matches(profile, s)
<1>1. /\ IInv /\ SavingFits /\ ProfileRead /\ proc \in Running
      /\ \A t \in probe.profile : t = profile
  BY NoProbeShape, ZenonT(30) DEF NodeInv, ProfileInv, IInv, ControlInv, ShapeInv, IsProbe, IsOption
<1>2. ~Rests /\ ~Reports /\ ~Plans
  BY ZenonT(30) DEF Rests, Reports, Plans, Quiet, ProbeKept
<1>3. ~Exits
  BY NoStoreShape, ZenonT(30) DEF Exits, Exit
<1>4. ~Starts /\ ~StartsServing /\ ~Applies /\ ~SavesPlan /\ ~Writes /\ ~Recovers
  BY ZenonT(30) DEF Starts, StartsServing, Applies, SavesPlan, Writes, Recovers
<1>5. CASE Reads
  <2>1. probe.profile = {} /\ profile = transit
    BY <1>1, <1>5, ZenonT(30) DEF Reads, ProfileRead
  <2>. QED BY <1>5, <2>1, ObservationMatches, ZenonT(30) DEF Reads
<1>6. CASE Recovered
  BY <1>1, <1>6, ObservationMatches, ZenonT(30) DEF Recovered
<1>7. CASE Saved
  <2>1. /\ probe.pc = "saving" /\ store'.state = io.next /\ probe.blocked = FALSE
        /\ probe.profile # {}
    BY <1>1, <1>7, Zenon DEF Saved, Publishes, ProfileRead, IInv, ShapeInv, IsProbe
  <2>2. Fits(profile, s, FALSE)
    BY <1>1, <2>1, Zenon DEF SavingFits
  <2>. QED BY <2>2, FitsMatches, Zenon
<1>8. CASE SaveFails
  <2>1. PICK t \in probe.profile : deferObservation(t)
    BY <1>8, ZenonT(30) DEF SaveFails
  <2>2. store'.state = store.state /\ t = profile
    BY <1>1, <1>8, <2>1 DEF SaveFails, GivesUp
  <2>3. Fits(profile, s, FALSE)
    BY <2>1, <2>2, Zenon
  <2>. QED BY <2>3, FitsMatches, Zenon
<1>. QED BY <1>2, <1>3, <1>4, <1>5, <1>6, <1>7, <1>8, ZenonT(30) DEF Effect

\* Healthy metadata means that the profile the probe has read validates the
\* state it publishes, also after a recovered or a deferred save.
THEOREM HealthyMatches == Spec => HealthyMatchesTransit
<1>. DEFINE Agrees ==
       \A profile \in IF probe.profile = {} THEN {transit} ELSE probe.profile :
         probe.pc # "free" /\ probe'.pc = "free" /\ store'.metadataOK =>
           \A s \in store'.state : Matches(profile, s)
<1>1. ASSUME NodeInv, [Next]_vars PROVE Agrees
  <2>1. Effect
    BY <1>1, NextEffect DEF NodeInv
  <2>2. \A t \in probe.profile : deferObservation(t) => \A s \in store.state : Fits(t, s, FALSE)
    BY <1>1, DeferredFits, Zenon DEF NodeInv
  <2>. QED BY <1>1, <2>1, <2>2, EffectMatches, Zenon
<1>2. NodeInv /\ [Next]_vars => [Agrees]_vars
  BY <1>1
<1>3. [][Agrees]_vars <=> HealthyMatchesTransit
  BY ZenonT(30) DEF Matches, HealthyMatchesTransit
<1>. HIDE DEF Agrees
<1>. QED BY <1>2, <1>3, NodeInvariance, PTL DEF Spec

\* retire-versions and restore-versions replace nothing but the state that
\* was reviewed.
THEOREM AppliesReviewed == Spec => AppliesReviewedState
<1>. DEFINE Reviewed == proc = "cliSaving" /\ disk'.state # disk.state =>
                          \E s \in disk.state, p \in plan : p.hash = computeHash(s)
<1>1. ASSUME NodeInv, [Next]_vars PROVE Reviewed
  <2>1. Effect /\ IInv /\ ReviewedInv
    BY <1>1, NextEffect, ZenonT(30) DEF NodeInv
  <2>2. CASE disk' = disk
    BY <2>2, ZenonT(30)
  <2>3. CASE Writes
    <3>1. SUFFICES ASSUME proc = "cliSaving", disk'.state # disk.state
                   PROVE \E s \in disk.state, p \in plan : p.hash = computeHash(s)
      BY ZenonT(30)
    <3>2. io.at = "state" /\ commit # {}
      BY <2>1, <2>3, <3>1, ZenonT(30) DEF Writes, IInv, ControlInv, Saves
    <3>3. PICK c \in commit : c.previous # {} /\ disk.state = c.previous
      BY <2>1, <3>1, <3>2 DEF ReviewedInv
    <3>. QED BY <2>1, <3>1, <3>3, ZenonT(30) DEF ReviewedInv
  <2>4. CASE Reads \/ Recovered
    BY <2>2, <2>4, ObservationDisk, Zenon DEF Reads, Recovered
  <2>. HIDE DEF Reviewed
  <2>5. CASE Saved \/ SaveFails
    BY <2>2, <2>5, Zenon DEF Saved, Publishes, SaveFails, GivesUp
  <2>. QED BY <2>1, <2>2, <2>3, <2>4, <2>5, Zenon
           DEF Effect, Rests, Reports, Plans, Quiet, Exits, Starts, StartsServing, Applies,
               SavesPlan, Recovers
<1>2. NodeInv /\ [Next]_vars => [Reviewed]_vars
  BY <1>1
<1>3. [][Reviewed]_vars <=> AppliesReviewedState
  BY DEF AppliesReviewedState
<1>. HIDE DEF Reviewed
<1>. QED BY <1>2, <1>3, NodeInvariance, PTL DEF Spec

=============================================================================
