----------------------- MODULE StatusLifecycleProofs ------------------------
(***************************************************************************)
(* How the registry on disk moves, for every policy, every number of       *)
(* versions and every clock: it follows the state diagram of KeyLifecycle, *)
(* and a key is promoted only after its full activation delay.             *)
(***************************************************************************)
EXTENDS StatusControllerProofs

-----------------------------------------------------------------------------
(* Every commit is one step of the diagram.                                *)

\* The identities of a Transit key.
LEMMA TransitKeys ==
  ASSUME NEW t, IsTransit(t)
  PROVE Identities(t) \subseteq AllKeys
BY DEF IsTransit, Identities, KeyOf, AllKeys

\* Every decryptable key of a state that fits a profile is a key of Transit.
LEMMA FittingKeys ==
  ASSUME NEW t, IsTransit(t), NEW n, NEW blocked, Fits(t, n, blocked),
         NEW k \in DOMAIN Snapshots(n), k \in KeySet, Snapshots(n)[k].state \in DecryptableStates
  PROVE k \in AllKeys /\ k = KeyOf(t, k.version)
<1>1. k.version \in DOMAIN t.createdAt /\ t.createdAt[k.version] = k.createdAt
  BY DEF Fits, validateDecryptableState, Lookup, Snapshots
<1>2. k = [version |-> k.version, createdAt |-> k.createdAt]
  BY DEF KeySet
<1>3. k.version \in 1..MaxVersion /\ k.createdAt \in CreationTimes
  BY <1>1 DEF IsTransit
<1>. QED BY <1>1, <1>2, <1>3 DEF AllKeys, KeyOf

\* One observation of a profile takes one step of the diagram.
LEMMA OutcomeStep ==
  ASSUME NEW s, IsState(s), DOMAIN Snapshots(s) \subseteq AllKeys,
         NEW t, IsTransit(t), NEW advance, NEW ready, NEW r, Outcome(s, t, advance, ready, r),
         r.changed
  PROVE /\ \E candidate \in AllKeys, skipped \in SUBSET AllKeys :
              Learns(s, r.state, candidate, skipped) \/ Promotes(s, r.state, candidate, skipped)
        /\ DOMAIN Snapshots(r.state) \subseteq AllKeys /\ OnePending(r.state)
<1>. DEFINE c == KeyOf(t, t.latest)
            n == r.state
<1>1. PICK skipped \in SUBSET Identities(t) : Learns(s, n, c, skipped) \/ Promotes(s, n, c, skipped)
  BY Zenon DEF Outcome
<1>. HIDE DEF c
<1>2. skipped \subseteq AllKeys
  BY TransitKeys, ZenonT(30)
<1>3. /\ DOMAIN Snapshots(n) = DOMAIN Snapshots(s) \union skipped \union {c}
      /\ Snapshots(n)[c].state \in {"pending", "active"} /\ c \in KeySet
  BY <1>1 DEF Learns, Promotes, NewKeys, LearntState
<1>4. c \in AllKeys
  <2>1. Fits(t, n, r.blocked)
    BY DEF Outcome
  <2>. QED BY <1>3, <2>1, FittingKeys DEF DecryptableStates
<1>5. \A k \in DOMAIN Snapshots(n) : Snapshots(n)[k].state = "pending" => k = c
  <2>1. CASE Learns(s, n, c, skipped)
    BY <2>1 DEF Learns, LearntState
  <2>2. CASE Promotes(s, n, c, skipped)
    BY <2>2 DEF Promotes, LearntState
  <2>. QED BY <1>1, <2>1, <2>2, ZenonT(30)
<1>6. OnePending(n)
  BY <1>5 DEF OnePending, IsOption, KeysIn, Snapshots
<1>. QED BY <1>1, <1>2, <1>3, <1>4, <1>6, ZenonT(30)

\* An observation's successor is one step of the registry.
LEMMA SuccessorStep ==
  ASSUME NEW base, IsOption(base), \A s \in base : IsState(s) /\ DOMAIN Snapshots(s) \subseteq AllKeys,
         NEW t, IsTransit(t), NEW n, NEW blocked, Successor(base, t, n, blocked)
  PROVE StepOf(base, n) /\ DOMAIN Snapshots(n) \subseteq AllKeys /\ OnePending(n)
<1>1. CASE base = {}
  <2>1. Bootstrapped(t, n)
    BY <1>1 DEF Successor
  <2>2. DOMAIN Snapshots(n) = {Active(n)} /\ Active(n) \in AllKeys
    BY <2>1, TransitKeys DEF Bootstrapped
  <2>3. OnePending(n)
    BY <2>2 DEF OnePending, IsOption, KeysIn, Snapshots
  <2>. QED BY <1>1, <2>2, <2>3 DEF StepOf
<1>2. CASE base # {}
  <2>1. PICK s \in base : base = {s}
    BY <1>2 DEF IsOption
  <2>2. PICK r : /\ Outcome(s, t, ~probe.discover, promotionReady(base, t), r)
                 /\ r.changed /\ r.state = n
    BY <2>1, Zenon DEF Successor
  <2>. DEFINE advance == ~probe.discover
              ready == promotionReady(base, t)
  <2>3. Outcome(s, t, advance, ready, r)
    BY <2>2
  <2>. HIDE DEF advance, ready
  <2>4. /\ \E candidate \in AllKeys, skipped \in SUBSET AllKeys :
              Learns(s, r.state, candidate, skipped) \/ Promotes(s, r.state, candidate, skipped)
        /\ DOMAIN Snapshots(r.state) \subseteq AllKeys /\ OnePending(r.state)
    BY <2>1, <2>2, <2>3, OutcomeStep
  <2>. QED BY <2>1, <2>2, <2>4, ZenonT(30) DEF StepOf
<1>. QED BY <1>1, <1>2

\* A retirement or a restoration is one step of the registry.
LEMMA ManagedStep ==
  ASSUME NEW s, DOMAIN Snapshots(s) \subseteq AllKeys, OnePending(s), NEW n, Managed(s, n)
  PROVE StepOf({s}, n) /\ DOMAIN Snapshots(n) \subseteq AllKeys /\ OnePending(n)
<1>1. DOMAIN Snapshots(n) = DOMAIN Snapshots(s)
  BY ZenonT(30) DEF Managed, Moves
<1>2. KeysIn(n.content, "pending") \subseteq KeysIn(s.content, "pending")
  BY Zenon DEF Managed, Moves, KeysIn, Snapshots
<1>3. OnePending(n)
  BY <1>2 DEF OnePending, IsOption
<1>. QED BY <1>1, <1>3, ZenonT(30) DEF StepOf

\* What a probe goes on with is what the files hold.
LEMMA ObservationBase ==
  ASSUME IInv, Reads \/ Recovered
  PROVE \E t : IsTransit(t) /\ ObservationStep(disk.state, t)
<1>1. CASE Reads
  <2>1. disk.state = store.state /\ IsTransit(transit)
    BY <1>1 DEF Reads, IInv, ControlInv, ShapeInv
  <2>. QED BY <1>1, <2>1, ZenonT(30) DEF Reads
<1>2. CASE Recovered
  <2>1. PICK t \in probe.profile : ObservationStep(Attempt, t)
    BY <1>2, ZenonT(30) DEF Recovered
  <2>2. Attempt = disk.state /\ IsTransit(t)
    BY <1>2 DEF Recovered, IInv, ControlInv, Saves, Busy, ShapeInv
  <2>. QED BY <2>1, <2>2
<1>. QED BY <1>1, <1>2

\* Fewer commits and fewer files.
LEMMA FewerFiles ==
  ASSUME CommitInv, disk' = disk, commit' \subseteq commit, Files' \subseteq Files
  PROVE CommitInv'
BY ZenonT(30) DEF CommitInv

\* The begin of a save keeps the invariant on commits.
LEMMA CommitsStep ==
  ASSUME IInv, CommitInv, NEW t, IsTransit(t), NEW n, Commits(disk.state, n, t), NEW blocked,
         Successor(disk.state, t, n, blocked)
  PROVE CommitInv'
<1>1. /\ \A s \in disk.state : IsState(s) /\ DOMAIN Snapshots(s) \subseteq AllKeys /\ OnePending(s)
      /\ IsOption(disk.state)
  BY DEF IInv, FilesInv, Files, Sound, CommitInv
<1>2. StepOf(disk.state, n) /\ DOMAIN Snapshots(n) \subseteq AllKeys /\ OnePending(n)
  BY <1>1, SuccessorStep
<1>3. /\ disk' = disk /\ commit' = {[previous |-> disk.state, next |-> n]} /\ io'.next = {n}
  BY DEF Commits
<1>4. Files' = disk.state \union {n}
  BY <1>3 DEF Files
<1>. QED BY <1>1, <1>2, <1>3, <1>4 DEF CommitInv

\* The state file changes only from what a commit replaces to its successor.
LEMMA DiskMoves ==
  ASSUME IInv, CommitInv, Effect
  PROVE \/ disk'.state = disk.state
        \/ /\ Writes
           /\ \E c \in commit : disk.state = c.previous /\ disk'.state = {c.next}
<1>1. CASE disk' = disk
  BY <1>1
<1>2. CASE Writes
  <2>1. disk'.state = disk.state \/ (io.at = "state" /\ disk'.state = io.next)
    BY <1>2 DEF Writes
  <2>2. CASE io.at = "state" /\ disk'.state = io.next
    <3>1. commit # {} /\ io.next = Attempt
      BY <2>2 DEF IInv, ControlInv, Loads, Saves, Idle
    <3>2. PICK c \in commit : disk'.state = {c.next}
      BY <2>2, <3>1 DEF Attempt, IInv, ControlInv, IsOption
    <3>. QED BY <1>2, <3>2, ZenonT(30) DEF CommitInv
  <2>. QED BY <2>1, <2>2
<1>3. CASE Reads \/ Recovered
  BY <1>1, <1>3, ObservationBase, ObservationDisk, ZenonT(30)
<1>4. CASE Saved \/ SaveFails
  BY <1>1, <1>4 DEF Saved, Publishes, SaveFails, GivesUp
<1>5. CASE \/ Rests \/ Reports \/ Plans \/ Exits \/ Starts \/ StartsServing \/ Applies \/ SavesPlan
           \/ Recovers
  <2>1. disk' = disk
    BY <1>5, Zenon DEF Rests, Reports, Plans, Quiet, Exits, Starts, StartsServing, Applies, SavesPlan,
                      Recovers
  <2>. QED BY <1>1, <2>1
<1>. QED BY <1>2, <1>3, <1>4, <1>5, ZenonT(30) DEF Effect

\* Every effect keeps the invariant on commits.
LEMMA EffectCommit ==
  ASSUME IInv, CommitInv, Effect
  PROVE CommitInv'
<1>1. CASE Rests \/ Reports \/ Plans
  <2>1. UNCHANGED <<disk, io, commit>>
    BY <1>1 DEF Rests, Reports, Plans, Quiet
  <2>. QED BY <2>1, FewerFiles DEF Files
<1>2. CASE Exits \/ Saved
  <2>1. disk' = disk /\ commit' = {} /\ io' = Idle
    BY <1>2 DEF Exits, Exit, Saved, Publishes
  <2>. QED BY <2>1, FewerFiles DEF Files, Idle
<1>3. CASE SaveFails \/ StartsServing
  <2>1. disk' = disk /\ commit' = commit /\ io' = Idle
    BY <1>3 DEF SaveFails, GivesUp, StartsServing
  <2>. QED BY <2>1, FewerFiles DEF Files, Idle
<1>4. CASE Starts \/ Recovers
  <2>1. disk' = disk /\ commit' = commit /\ (io'.next = disk.state \/ io'.next = Attempt)
    BY <1>4 DEF Starts, Recovers
  <2>. QED BY <2>1, FewerFiles DEF Files, Attempt
<1>5. CASE SavesPlan
  <2>1. PICK c \in commit : disk' = disk /\ commit' = commit /\ io'.next = {c.next}
    BY <1>5 DEF SavesPlan
  <2>. QED BY <2>1, FewerFiles DEF Files
<1>6. CASE Applies
  <2>1. PICK s \in disk.state : \E n :
          Managed(s, n) /\ commit' = {[previous |-> {s}, next |-> n]}
    BY <1>6, Zenon DEF Applies
  <2>2. PICK n : Managed(s, n) /\ commit' = {[previous |-> {s}, next |-> n]}
    BY <2>1, ZenonT(30)
  <2>3. disk' = disk /\ io'.next = disk.state /\ disk.state = {s}
    BY <1>6 DEF Applies, IInv, FilesInv, IsOption
  <2>4. DOMAIN Snapshots(s) \subseteq AllKeys /\ OnePending(s)
    BY DEF CommitInv, Files
  <2>5. StepOf({s}, n) /\ DOMAIN Snapshots(n) \subseteq AllKeys /\ OnePending(n)
    BY <2>2, <2>4, ManagedStep, ZenonT(30)
  <2>6. Files' = {s, n}
    BY <2>2, <2>3 DEF Files
  <2>. QED BY <2>2, <2>3, <2>4, <2>5, <2>6 DEF CommitInv
<1>7. CASE Writes
  <2>1. commit' = commit /\ io'.next = io.next /\ disk'.state \in {disk.state, io.next}
    BY <1>7 DEF Writes
  <2>2. Files' \subseteq Files
    BY <2>1, ZenonT(30) DEF Files
  <2>3. \A c \in commit : disk'.state \in {c.previous, {c.next}}
    BY DiskMoves DEF CommitInv, IInv, ControlInv, IsOption
  <2>. QED BY <2>1, <2>2, <2>3, ZenonT(30) DEF CommitInv
<1>8. CASE Reads \/ Recovered
  <2>1. PICK t : IsTransit(t) /\ ObservationStep(disk.state, t)
    BY <1>8, ObservationBase, ZenonT(30)
  <2>2. CASE GivesUp
    BY <2>2, FewerFiles, ZenonT(30) DEF GivesUp, Files, Idle
  <2>3. CASE Publishes(disk.state)
    BY <2>3, FewerFiles DEF Publishes, Files, Idle
  <2>4. CASE \E n : Commits(disk.state, n, t) /\ Successor(disk.state, t, n, probe'.blocked)
    BY <2>1, <2>4, CommitsStep, ZenonT(30)
  <2>. QED BY <2>1, <2>2, <2>3, <2>4, ZenonT(30) DEF ObservationStep
<1>. QED BY <1>1, <1>2, <1>3, <1>4, <1>5, <1>6, <1>7, <1>8, ZenonT(30) DEF Effect

-----------------------------------------------------------------------------
(* The state file implements the diagram.                                  *)

\* The life of every key in a state.
LEMMA LifeOfState ==
  ASSUME NEW s
  PROVE LifeOf({s}) = [k \in AllKeys |-> IF k \in DOMAIN Snapshots(s) THEN Snapshots(s)[k].state
                                         ELSE "unknown"]
<1>1. (CHOOSE q \in {s} : TRUE) = s
  OBVIOUS
<1>. QED BY <1>1 DEF LifeOf, Snapshots

\* Without a state, every key is unknown.
LEMMA LifeOfNone == LifeOf({}) = [k \in AllKeys |-> "unknown"]
BY DEF LifeOf

\* The active key of a state file.
LEMMA LifeActive ==
  ASSUME NEW s, IsState(s), DOMAIN Snapshots(s) \subseteq AllKeys, disk.state = {s}
  PROVE Lifecycle!In("active") = {Active(s)}
<1>1. /\ Active(s) \in DOMAIN Snapshots(s)
      /\ \A k \in DOMAIN Snapshots(s) : Snapshots(s)[k].state = "active" <=> k = Active(s)
  BY ActiveKnown
<1>. DEFINE life == LifeOf({s})
<1>2. \A k \in AllKeys : life[k] = IF k \in DOMAIN Snapshots(s) THEN Snapshots(s)[k].state ELSE "unknown"
  BY LifeOfState, ZenonT(30)
<1>3. Lifecycle!In("active") = {k \in AllKeys : life[k] = "active"}
  BY DEF Lifecycle!In
<1>. HIDE DEF life
<1>. QED BY <1>1, <1>2, <1>3, ZenonT(30)

\* Learning or promoting a key is a step of the key lifecycle.
LEMMA LearnsRefines ==
  ASSUME NEW s, IsState(s), DOMAIN Snapshots(s) \subseteq AllKeys, NEW n,
         NEW c \in AllKeys, NEW skipped \in SUBSET AllKeys,
         Learns(s, n, c, skipped) \/ Promotes(s, n, c, skipped),
         disk.state = {s}, disk'.state = {n}
  PROVE Lifecycle!Next
<1>. DEFINE old == LifeOf({s})
            new == LifeOf({n})
<1>1. /\ NewKeys(s, c, skipped)
      /\ DOMAIN Snapshots(n) = DOMAIN Snapshots(s) \union skipped \union {c}
  BY ZenonT(30) DEF Learns, Promotes
<1>2. /\ Lifecycle!In("active") = {Active(s)}
      /\ Active(s) \in DOMAIN Snapshots(s)
      /\ \A k \in DOMAIN Snapshots(s) : Snapshots(s)[k].state = "active" <=> k = Active(s)
  BY ActiveKnown, LifeActive
<1>3. \A k \in AllKeys : old[k] = IF k \in DOMAIN Snapshots(s) THEN Snapshots(s)[k].state ELSE "unknown"
  BY LifeOfState, ZenonT(30)
<1>4. /\ \A k \in AllKeys : new[k] = IF k \in DOMAIN Snapshots(n) THEN Snapshots(n)[k].state ELSE "unknown"
      /\ new = [k \in AllKeys |-> new[k]]
  BY LifeOfState, ZenonT(30)
<1>5. LifeOf(disk.state) = old /\ LifeOf(disk.state)' = new
  BY DEF LifeOf
<1>. HIDE DEF old, new
<1>6. skipped \in SUBSET Lifecycle!In("unknown")
  BY <1>1, <1>3, <1>5, ZenonT(30) DEF NewKeys, Lifecycle!In
<1>7. Lifecycle!Newer(c, skipped)
  BY <1>1, <1>2, <1>3, <1>5, ZenonT(30) DEF NewKeys, Lifecycle!Newer
<1>8. ASSUME NEW k \in AllKeys
      PROVE Lifecycle!Learnt(c, skipped)[k] =
              IF k \in DOMAIN Snapshots(n) THEN LearntState(s, c, k) ELSE "unknown"
  BY <1>1, <1>3, <1>5, <1>8, ZenonT(30) DEF NewKeys, LearntState, Lifecycle!Learnt
<1>9. CASE Learns(s, n, c, skipped)
  <2>1. \A k \in AllKeys : new[k] = Lifecycle!Learnt(c, skipped)[k]
    BY <1>4, <1>8, <1>9, ZenonT(30) DEF Learns
  <2>2. new = Lifecycle!Learnt(c, skipped)
    BY <1>4, <2>1, ZenonT(30) DEF Lifecycle!Learnt
  <2>3. Lifecycle!Observe(c, skipped)
    BY <1>5, <1>7, <2>2, ZenonT(30) DEF Lifecycle!Observe
  <2>. QED BY <1>6, <2>3, ZenonT(30) DEF Lifecycle!Next
<1>10. CASE Promotes(s, n, c, skipped)
  <2>1. \A k \in AllKeys : new[k] = IF k = c THEN "active"
                                    ELSE IF old[k] = "active" THEN "retired"
                                    ELSE Lifecycle!Learnt(c, skipped)[k]
    BY <1>1, <1>2, <1>3, <1>4, <1>8, <1>10 DEF Promotes
  <2>2. new = [k \in AllKeys |-> IF k = c THEN "active"
                                ELSE IF old[k] = "active" THEN "retired"
                                ELSE Lifecycle!Learnt(c, skipped)[k]]
    BY <1>4, <2>1, ZenonT(30)
  <2>3. Lifecycle!Promote(c, skipped)
    BY <1>5, <1>7, <2>2, ZenonT(30) DEF Lifecycle!Promote
  <2>. QED BY <1>6, <2>3, ZenonT(30) DEF Lifecycle!Next
<1>. QED BY <1>9, <1>10, ZenonT(30)

\* The first state makes its key active.
LEMMA BootstrapRefines ==
  ASSUME NEW n, IsState(n), DOMAIN Snapshots(n) = {Active(n)}, Active(n) \in AllKeys,
         disk.state = {}, disk'.state = {n}
  PROVE Lifecycle!Next
<1>. DEFINE new == LifeOf({n})
            a == Active(n)
<1>1. Snapshots(n)[a].state = "active"
  BY ActiveKnown, ZenonT(30)
<1>2. new = [k \in AllKeys |-> IF k = a THEN "active" ELSE "unknown"]
  BY <1>1, LifeOfState
<1>3. LifeOf(disk.state) = [k \in AllKeys |-> "unknown"] /\ LifeOf(disk.state)' = new
  BY LifeOfNone DEF LifeOf
<1>. HIDE DEF new, a
<1>4. new = [LifeOf(disk.state) EXCEPT ![a] = "active"]
  BY <1>2, <1>3, ZenonT(30)
<1>5. Lifecycle!Bootstrap
  BY <1>3, <1>4, ZenonT(30) DEF Lifecycle!Bootstrap, Lifecycle!In, a
<1>. QED BY <1>5 DEF Lifecycle!Next

\* Retiring or restoring keys is a step of the key lifecycle, or none when no key qualifies.
LEMMA ManagedRefines ==
  ASSUME NEW s, IsState(s), DOMAIN Snapshots(s) \subseteq AllKeys, NEW n, Managed(s, n),
         disk.state = {s}, disk'.state = {n}
  PROVE Lifecycle!Next \/ LifeOf(disk.state)' = LifeOf(disk.state)
<1>. DEFINE old == LifeOf({s})
            new == LifeOf({n})
<1>1. Lifecycle!In("active") = {Active(s)}
  BY LifeActive
<1>2. \A k \in AllKeys : old[k] = IF k \in DOMAIN Snapshots(s) THEN Snapshots(s)[k].state ELSE "unknown"
  BY LifeOfState, ZenonT(30)
<1>3. /\ \A k \in AllKeys : new[k] = IF k \in DOMAIN Snapshots(n) THEN Snapshots(n)[k].state ELSE "unknown"
      /\ new = [k \in AllKeys |-> new[k]]
  BY LifeOfState, ZenonT(30)
<1>4. LifeOf(disk.state) = old /\ LifeOf(disk.state)' = new
  BY DEF LifeOf
<1>5. n = s => new = old
  OBVIOUS
<1>. HIDE DEF old, new
<1>6. ASSUME NEW keys \in SUBSET DOMAIN Snapshots(s), NEW from, NEW to, Moves(s, n, keys, from, to)
      PROVE /\ keys \subseteq AllKeys /\ keys \subseteq Lifecycle!In(from)
            /\ Lifecycle!Move(keys, to)
  <2>1. keys \subseteq AllKeys
    BY ZenonT(30)
  <2>2. keys \subseteq Lifecycle!In(from)
    BY <1>2, <1>4, <1>6, ZenonT(30) DEF Moves, Lifecycle!In
  <2>3. Lifecycle!Older(keys)
    BY <1>1, <1>6, ZenonT(30) DEF Moves, Lifecycle!Older
  <2>4. \A k \in AllKeys : new[k] = IF k \in keys THEN to ELSE old[k]
    BY <1>2, <1>3, <1>6, ZenonT(30) DEF Moves
  <2>5. new = [k \in AllKeys |-> IF k \in keys THEN to ELSE old[k]]
    BY <1>3, <2>4
  <2>. QED BY <1>4, <2>1, <2>2, <2>3, <2>5, ZenonT(30) DEF Lifecycle!Move
<1>7. CASE n = s
  BY <1>4, <1>5, <1>7, ZenonT(30)
<1>8. ASSUME NEW keys \in SUBSET DOMAIN Snapshots(s),
             \/ Moves(s, n, keys, "retired", "removed")
             \/ Moves(s, n, keys, "removed", "retired")
      PROVE Lifecycle!Next
  <2>1. keys \in SUBSET AllKeys
    BY ZenonT(30)
  <2>2. Lifecycle!Retire(keys) \/ Lifecycle!Restore(keys)
    BY <1>6, <1>8 DEF Lifecycle!Retire, Lifecycle!Restore
  <2>. QED BY <2>1, <2>2, ZenonT(30) DEF Lifecycle!Next
<1>. QED BY <1>7, <1>8, ZenonT(30) DEF Managed

\* The replacement of the state file by the state being saved is a step of the key lifecycle.
LEMMA StepRefines ==
  ASSUME IInv, CommitInv, NEW c \in commit, disk.state = c.previous, disk'.state = {c.next}
  PROVE Lifecycle!Next \/ LifeOf(disk.state)' = LifeOf(disk.state)
<1>. DEFINE n == c.next
<1>1. /\ IsState(n) /\ DOMAIN Snapshots(n) \subseteq AllKeys
      /\ \A s \in disk.state : IsState(s) /\ DOMAIN Snapshots(s) \subseteq AllKeys
      /\ IsOption(disk.state)
  BY DEF IInv, FilesInv, Files, Sound, CommitInv
<1>2. StepOf(disk.state, n)
  BY ZenonT(30) DEF CommitInv
<1>. HIDE DEF n
<1>3. CASE disk.state = {}
  <2>1. DOMAIN Snapshots(n) = {Active(n)}
    BY <1>2, <1>3, ZenonT(30) DEF StepOf
  <2>. QED BY <1>1, <1>3, <2>1, BootstrapRefines, ZenonT(30) DEF n
<1>4. ASSUME NEW s \in disk.state
      PROVE Lifecycle!Next \/ LifeOf(disk.state)' = LifeOf(disk.state)
  <2>1. disk.state = {s} /\ disk'.state = {n}
    BY <1>1, <1>4, ZenonT(30) DEF IsOption, n
  <2>2. CASE Managed(s, n)
    BY <1>1, <2>1, <2>2, ManagedRefines, ZenonT(30)
  <2>3. ASSUME NEW candidate \in AllKeys, NEW skipped \in SUBSET AllKeys,
               Learns(s, n, candidate, skipped) \/ Promotes(s, n, candidate, skipped)
        PROVE Lifecycle!Next
    BY <1>1, <2>1, <2>3, LearnsRefines, ZenonT(30)
  <2>. QED BY <1>2, <2>1, <2>2, <2>3, ZenonT(30) DEF StepOf
<1>. QED BY <1>3, <1>4, ZenonT(30)

\* Every commit that a node begins is one step from the state that it replaces.
THEOREM CommitInvariance == Spec => []CommitInv
<1>1. Init => CommitInv
  BY DEF Init, StoreInit, NoFiles, Idle, CommitInv, Files
<1>2. NodeInv /\ CommitInv /\ [Next]_vars => CommitInv'
  <2>1. ASSUME NodeInv, CommitInv, [Next]_vars PROVE CommitInv'
    BY <2>1, NextEffect, EffectCommit DEF NodeInv
  <2>. QED BY <2>1
<1>. QED BY <1>1, <1>2, NodeInvariance, PTL DEF Spec

\* Whoever saves the state file, and however a save is interrupted, repeated or
\* recovered, what a reader of the file sees follows the documented diagram.
THEOREM LifecycleRefinement == Spec => ImplementsLifecycle
<1>1. Init => Lifecycle!Init
  <2>1. ASSUME Init PROVE Lifecycle!Init
    <3>1. disk.state = {}
      BY <2>1, ZenonT(30) DEF Init, StoreInit, NoFiles
    <3>. QED BY <3>1, LifeOfNone, ZenonT(30) DEF Lifecycle!Init
  <2>. QED BY <2>1
<1>2. NodeInv /\ CommitInv /\ [Next]_vars => [Lifecycle!Next]_(LifeOf(disk.state))
  <2>1. ASSUME NodeInv, CommitInv, [Next]_vars
        PROVE Lifecycle!Next \/ LifeOf(disk.state)' = LifeOf(disk.state)
    <3>1. IInv /\ Effect
      BY <2>1, NextEffect, ZenonT(30) DEF NodeInv
    <3>2. CASE disk'.state = disk.state
      BY <3>2 DEF LifeOf
    <3>3. CASE \E c \in commit : disk.state = c.previous /\ disk'.state = {c.next}
      BY <2>1, <3>1, <3>3, StepRefines, ZenonT(30)
    <3>. QED BY <2>1, <3>1, <3>2, <3>3, DiskMoves, ZenonT(30)
  <2>. QED BY <2>1
<1>. QED BY <1>1, <1>2, NodeInvariance, CommitInvariance, PTL DEF Spec, ImplementsLifecycle, Lifecycle!Spec

-----------------------------------------------------------------------------
(* What the diagram promises.                                              *)

In(life, stage) == {k \in AllKeys : life[k] = stage}

\* Exactly one key is active after bootstrap.
Single(life) ==
  /\ life \in [AllKeys -> {"unknown", "pending", "active", "retired", "removed"}]
  /\ In(life, "unknown") = AllKeys \/ \E k \in AllKeys : In(life, "active") = {k}

\* The active key is replaced by newer ones only, and no key is forgotten.
MovesOn(old, new) ==
  /\ \A a \in In(old, "active") : \A b \in In(new, "active") : a = b \/ b.version > a.version
  /\ \A k \in AllKeys :
       /\ old[k] \in {"retired", "removed"} => new[k] # "active"
       /\ old[k] # "unknown" => new[k] # "unknown"
       /\ old[k] \in {"active", "pending"} => new[k] # "removed"

LifeInv == Single(LifeOf(disk.state))

\* What becomes of the keys when a candidate is learnt, and promoted.
LearntLife(old, c, skipped) ==
  [k \in AllKeys |-> IF k = c THEN "pending"
                     ELSE IF k \in skipped \/ old[k] = "pending" THEN "retired"
                     ELSE old[k]]

PromotedLife(old, c, skipped) ==
  [k \in AllKeys |-> IF k = c THEN "active"
                     ELSE IF old[k] = "active" THEN "retired"
                     ELSE LearntLife(old, c, skipped)[k]]

\* A candidate is learnt, and perhaps promoted.
LEMMA CandidateMoves ==
  ASSUME NEW old, Single(old), NEW new,
         NEW c \in AllKeys, NEW skipped \in SUBSET In(old, "unknown"),
         In(old, "active") # {}, old[c] \in {"unknown", "pending"},
         \A a \in In(old, "active") : c.version > a.version,
         new = LearntLife(old, c, skipped) \/ new = PromotedLife(old, c, skipped)
  PROVE Single(new) /\ MovesOn(old, new)
<1>1. PICK a \in AllKeys : In(old, "active") = {a}
  BY DEF Single, In
<1>2. old[a] = "active" /\ a # c /\ a \notin skipped /\ \A k \in AllKeys : k # a => old[k] # "active"
  BY <1>1, ZenonT(30) DEF In
<1>3. CASE new = LearntLife(old, c, skipped)
  <2>1. In(new, "active") = {a}
    BY <1>2, <1>3, ZenonT(30) DEF In, LearntLife
  <2>2. /\ new \in [AllKeys -> {"unknown", "pending", "active", "retired", "removed"}]
        /\ \A k \in AllKeys : k # c =>
             new[k] = old[k] \/ (new[k] = "retired" /\ old[k] # "removed")
        /\ new[c] = "pending"
    BY <1>2, <1>3, ZenonT(30) DEF Single, In, LearntLife
  <2>3. Single(new)
    BY <2>1, <2>2, ZenonT(30) DEF Single
  <2>4. \A x \in In(old, "active") : \A y \in In(new, "active") : x = y \/ y.version > x.version
    BY <1>1, <2>1, ZenonT(30)
  <2>5. ASSUME NEW k \in AllKeys
        PROVE /\ old[k] \in {"retired", "removed"} => new[k] # "active"
              /\ old[k] # "unknown" => new[k] # "unknown"
              /\ old[k] \in {"active", "pending"} => new[k] # "removed"
    BY <2>2, ZenonT(30)
  <2>. QED BY <2>3, <2>4, <2>5, ZenonT(30) DEF MovesOn
<1>4. CASE new = PromotedLife(old, c, skipped)
  <2>1. In(new, "active") = {c} /\ c.version > a.version
    BY <1>1, <1>2, <1>4, ZenonT(30) DEF In, LearntLife, PromotedLife
  <2>2. /\ new \in [AllKeys -> {"unknown", "pending", "active", "retired", "removed"}]
        /\ \A k \in AllKeys : k # c =>
             new[k] = old[k] \/ (new[k] = "retired" /\ old[k] # "removed")
        /\ new[c] = "active"
    BY <1>2, <1>4, ZenonT(30) DEF Single, In, LearntLife, PromotedLife
  <2>3. Single(new)
    BY <2>1, <2>2, ZenonT(30) DEF Single
  <2>4. \A x \in In(old, "active") : \A y \in In(new, "active") : x = y \/ y.version > x.version
    BY <1>1, <2>1, ZenonT(30)
  <2>5. ASSUME NEW k \in AllKeys
        PROVE /\ old[k] \in {"retired", "removed"} => new[k] # "active"
              /\ old[k] # "unknown" => new[k] # "unknown"
              /\ old[k] \in {"active", "pending"} => new[k] # "removed"
    BY <2>2, ZenonT(30)
  <2>. QED BY <2>3, <2>4, <2>5, Zenon DEF MovesOn
<1>. QED BY <1>3, <1>4, ZenonT(30)

\* A command moves only keys that are retired or removed.
LEMMA CommandMoves ==
  ASSUME NEW old, Single(old), NEW new, NEW keys \in SUBSET AllKeys,
         NEW from, NEW to, {from, to} = {"retired", "removed"}, \A k \in keys : old[k] = from,
         new = [k \in AllKeys |-> IF k \in keys THEN to ELSE old[k]]
  PROVE Single(new) /\ MovesOn(old, new)
<1>1. \A k \in AllKeys : new[k] = old[k] \/ {old[k], new[k]} = {"retired", "removed"}
  OBVIOUS
<1>2. \A k \in AllKeys : \/ new[k] = old[k]
                         \/ old[k] = "retired" /\ new[k] = "removed"
                         \/ old[k] = "removed" /\ new[k] = "retired"
  BY <1>1, ZenonT(30)
<1>3. In(new, "active") = In(old, "active") /\ In(new, "unknown") = In(old, "unknown")
  BY <1>2 DEF In
<1>4. \A a, b \in In(old, "active") : a = b
  BY DEF Single, In
<1>5. new \in [AllKeys -> {"unknown", "pending", "active", "retired", "removed"}]
  BY DEF Single
<1>. QED BY <1>2, <1>3, <1>4, <1>5, ZenonT(30) DEF Single, MovesOn

\* The first key of a registry.
LEMMA FirstMoves ==
  ASSUME NEW old, Single(old), In(old, "unknown") = AllKeys, NEW c \in AllKeys,
         NEW new, new = [old EXCEPT ![c] = "active"]
  PROVE Single(new) /\ MovesOn(old, new)
<1>1. \A k \in AllKeys : old[k] = "unknown"
  BY DEF In
<1>2. In(new, "active") = {c} /\ In(old, "active") = {}
  BY <1>1 DEF In, Single
<1>. QED BY <1>1, <1>2, ZenonT(30) DEF Single, MovesOn

\* Every step of the diagram keeps a single active key and moves on.
LEMMA DiagramStep ==
  ASSUME LifeInv, Lifecycle!Next
  PROVE LifeInv' /\ MovesOn(LifeOf(disk.state), LifeOf(disk.state)')
<1>1. PICK old : old = LifeOf(disk.state)
  OBVIOUS
<1>2. PICK new : new = LifeOf(disk.state)'
  OBVIOUS
<1>3. \A stage : Lifecycle!In(stage) = In(old, stage)
  BY <1>1 DEF Lifecycle!In, In
<1>4. Single(old)
  BY <1>1 DEF LifeInv
<1>5. SUFFICES Single(new) /\ MovesOn(old, new)
  BY <1>1, <1>2 DEF LifeInv
<1>6. CASE Lifecycle!Bootstrap
  <2>1. PICK c \in AllKeys : new = [old EXCEPT ![c] = "active"]
    BY <1>1, <1>2, <1>6, ZenonT(30) DEF Lifecycle!Bootstrap
  <2>2. In(old, "unknown") = AllKeys
    BY <1>3, <1>6, ZenonT(30) DEF Lifecycle!Bootstrap
  <2>. QED BY <1>4, <2>1, <2>2, FirstMoves, ZenonT(30)
<1>7. ASSUME NEW c \in AllKeys, NEW skipped \in SUBSET Lifecycle!In("unknown"),
             Lifecycle!Observe(c, skipped) \/ Lifecycle!Promote(c, skipped)
      PROVE Single(new) /\ MovesOn(old, new)
  <2>1. Lifecycle!Newer(c, skipped)
    BY <1>7, ZenonT(30) DEF Lifecycle!Observe, Lifecycle!Promote
  <2>2. /\ In(old, "active") # {} /\ old[c] \in {"unknown", "pending"}
        /\ \A a \in In(old, "active") : c.version > a.version
    BY <1>1, <1>3, <2>1, ZenonT(30) DEF Lifecycle!Newer
  <2>3. Lifecycle!Learnt(c, skipped) = LearntLife(old, c, skipped)
    BY <1>1, ZenonT(30) DEF Lifecycle!Learnt, LearntLife
  <2>4. Lifecycle!Observe(c, skipped) => new = LearntLife(old, c, skipped)
    BY <1>2, <2>3, ZenonT(30) DEF Lifecycle!Observe
  <2>5. Lifecycle!Promote(c, skipped) => new = PromotedLife(old, c, skipped)
    BY <1>1, <1>2, <2>3, ZenonT(30) DEF Lifecycle!Promote, PromotedLife
  <2>6. skipped \in SUBSET In(old, "unknown")
    BY <1>3, <1>7
  <2>. QED BY <1>4, <1>7, <2>2, <2>4, <2>5, <2>6, CandidateMoves, ZenonT(30)
<1>8. ASSUME NEW keys \in SUBSET AllKeys, Lifecycle!Retire(keys) \/ Lifecycle!Restore(keys)
      PROVE Single(new) /\ MovesOn(old, new)
  <2>1. ASSUME NEW from, NEW to, {from, to} = {"retired", "removed"},
               keys \subseteq In(old, from), Lifecycle!Move(keys, to)
        PROVE Single(new) /\ MovesOn(old, new)
    <3>1. \A k \in keys : old[k] = from
      BY <2>1 DEF In
    <3>2. new = [k \in AllKeys |-> IF k \in keys THEN to ELSE old[k]]
      BY <1>1, <1>2, <2>1, ZenonT(30) DEF Lifecycle!Move
    <3>. QED BY <1>4, <2>1, <3>1, <3>2, CommandMoves
  <2>2. CASE Lifecycle!Retire(keys)
    <3>1. keys \subseteq In(old, "retired") /\ Lifecycle!Move(keys, "removed")
      BY <1>3, <2>2, ZenonT(30) DEF Lifecycle!Retire
    <3>. QED BY <2>1, <3>1, ZenonT(30)
  <2>3. CASE Lifecycle!Restore(keys)
    <3>1. keys \subseteq In(old, "removed") /\ Lifecycle!Move(keys, "retired")
      BY <1>3, <2>3 DEF Lifecycle!Restore
    <3>. QED BY <2>1, <3>1
  <2>. QED BY <1>8, <2>2, <2>3, ZenonT(30)
<1>. QED BY <1>6, <1>7, <1>8, ZenonT(30) DEF Lifecycle!Next

\* The diagram keeps a single active key.
LEMMA LifeInvariance == Spec => []LifeInv
<1>1. Lifecycle!Init => LifeInv
  BY DEF Lifecycle!Init, LifeInv, Single, In
<1>2. LifeInv /\ [Lifecycle!Next]_(LifeOf(disk.state)) => LifeInv'
  <2>1. LifeOf(disk.state)' = LifeOf(disk.state) /\ LifeInv => LifeInv'
    BY DEF LifeInv
  <2>. QED BY <2>1, DiagramStep
<1>. QED BY <1>1, <1>2, LifecycleRefinement, PTL DEF ImplementsLifecycle, Lifecycle!Spec

\* The state file never names two active keys, and after bootstrap it always
\* names one, across every interrupted or repeated save.
THEOREM AlwaysOneActive == Spec => []Lifecycle!OneActive
<1>1. LifeInv => Lifecycle!OneActive
  <2>1. \A stage : Lifecycle!In(stage) = In(LifeOf(disk.state), stage)
    BY DEF Lifecycle!In, In
  <2>. QED BY <2>1, ZenonT(30) DEF LifeInv, Single, Lifecycle!OneActive
<1>. QED BY <1>1, LifeInvariance, PTL

\* The active key on disk is only ever replaced by a newer version: no
\* observation, command, recovery or restart takes it back.
THEOREM ActiveNeverFlipsBack == Spec => Lifecycle!ActiveMovesForward
<1>. DEFINE Forward == \A a \in Lifecycle!In("active") : \A b \in Lifecycle!In("active")' :
                         a = b \/ b.version > a.version
<1>1. LifeInv /\ [Lifecycle!Next]_(LifeOf(disk.state)) => [Forward]_(LifeOf(disk.state))
  <2>1. ASSUME LifeInv, Lifecycle!Next PROVE Forward
    <3>1. MovesOn(LifeOf(disk.state), LifeOf(disk.state)')
      BY <2>1, DiagramStep
    <3>. QED BY <3>1, ZenonT(30) DEF MovesOn, In, Lifecycle!In
  <2>. QED BY <2>1, ZenonT(30)
<1>2. [][Forward]_(LifeOf(disk.state)) <=> Lifecycle!ActiveMovesForward
  BY ZenonT(30) DEF Lifecycle!ActiveMovesForward
<1>. HIDE DEF Forward
<1>. QED BY <1>1, <1>2, LifeInvariance, LifecycleRefinement, PTL
         DEF ImplementsLifecycle, Lifecycle!Spec

\* A key that has left the active state on disk never becomes active again.
THEOREM RetiredNeverReturns == Spec => Lifecycle!NoReturn
<1>. DEFINE Gone == \A k \in AllKeys : LifeOf(disk.state)[k] \in {"retired", "removed"}
                                        => LifeOf(disk.state)'[k] # "active"
<1>1. LifeInv /\ [Lifecycle!Next]_(LifeOf(disk.state)) => [Gone]_(LifeOf(disk.state))
  <2>1. ASSUME LifeInv, Lifecycle!Next PROVE Gone
    <3>1. MovesOn(LifeOf(disk.state), LifeOf(disk.state)')
      BY <2>1, DiagramStep
    <3>. QED BY <3>1, ZenonT(30) DEF MovesOn
  <2>. QED BY <2>1, ZenonT(30)
<1>2. [][Gone]_(LifeOf(disk.state)) <=> Lifecycle!NoReturn
  BY ZenonT(30) DEF Lifecycle!NoReturn
<1>. HIDE DEF Gone
<1>. QED BY <1>1, <1>2, LifeInvariance, LifecycleRefinement, PTL
         DEF ImplementsLifecycle, Lifecycle!Spec

\* No identity is forgotten by the state file, and none is removed without
\* having been retired.
THEOREM IdentitiesAreKept == Spec => Lifecycle!NothingForgotten
<1>. DEFINE Kept == \A k \in AllKeys : LifeOf(disk.state)[k] # "unknown" =>
                      /\ LifeOf(disk.state)'[k] # "unknown"
                      /\ LifeOf(disk.state)[k] \in {"active", "pending"}
                         => LifeOf(disk.state)'[k] # "removed"
<1>1. LifeInv /\ [Lifecycle!Next]_(LifeOf(disk.state)) => [Kept]_(LifeOf(disk.state))
  <2>1. ASSUME LifeInv, Lifecycle!Next PROVE Kept
    <3>1. MovesOn(LifeOf(disk.state), LifeOf(disk.state)')
      BY <2>1, DiagramStep
    <3>. QED BY <3>1, ZenonT(30) DEF MovesOn
  <2>. QED BY <2>1, ZenonT(30)
<1>2. [][Kept]_(LifeOf(disk.state)) <=> Lifecycle!NothingForgotten
  BY DEF Lifecycle!NothingForgotten
<1>. HIDE DEF Kept
<1>. QED BY <1>1, <1>2, LifeInvariance, LifecycleRefinement, PTL
         DEF ImplementsLifecycle, Lifecycle!Spec

-----------------------------------------------------------------------------
(* The activation delay.                                                   *)

\* A key that is settled stays so.
LEMMA SettledKept ==
  ASSUME NEW s, NEW n, NEW c, NEW skipped,
         Learns(s, n, c, skipped) \/ Promotes(s, n, c, skipped), NEW k, Settled(k, s)
  PROVE Settled(k, n)
<1>1. /\ k \in DOMAIN Snapshots(n) /\ k \in DOMAIN Snapshots(s)
      /\ c \in DOMAIN Snapshots(s) => Snapshots(s)[c].state = "pending"
  BY ZenonT(30) DEF Learns, Promotes, NewKeys, Settled
<1>2. CASE Learns(s, n, c, skipped)
  <2>1. CASE k = c
    BY <1>1, <1>2, <2>1, ZenonT(30) DEF Learns, Settled
  <2>2. CASE k # c
    BY <1>1, <1>2, <2>2, ZenonT(30) DEF Learns, LearntState, Settled
  <2>. QED BY <2>1, <2>2, ZenonT(30)
<1>3. CASE Promotes(s, n, c, skipped)
  BY <1>1, <1>3, ZenonT(30) DEF Promotes, LearntState, Settled
<1>. QED BY <1>2, <1>3, ZenonT(30)

\* A candidate of the new state file that was known was a candidate before.
LEMMA CandidateWas ==
  ASSUME NEW s, NEW n, StepOf({s}, n), NEW k \in DOMAIN Snapshots(s), k \in DOMAIN Snapshots(n),
         Snapshots(n)[k].state = "pending"
  PROVE Snapshots(s)[k].state = "pending"
<1>1. CASE Managed(s, n)
  BY <1>1, ZenonT(30) DEF Managed, Moves
<1>2. ASSUME NEW c, NEW skipped, Learns(s, n, c, skipped)
      PROVE Snapshots(s)[k].state = "pending"
  BY <1>2, ZenonT(30) DEF Learns, NewKeys, LearntState
<1>3. ASSUME NEW c, NEW skipped, Promotes(s, n, c, skipped) PROVE FALSE
  BY <1>3, ZenonT(30) DEF Promotes, LearntState
<1>. QED BY <1>1, <1>2, <1>3, ZenonT(30) DEF StepOf

\* The candidate is the pending key that was confirmed stable.
LEMMA CandidateOfState ==
  ASSUME NEW image, NEW s, image.state = {s}, OnePending(s)
  PROVE /\ CandidateOn(image) = {k \in DOMAIN Snapshots(s) : /\ Snapshots(s)[k].state = "pending"
                                                             /\ Snapshots(s)[k].stableAt # 0}
        /\ IsOption(CandidateOn(image))
<1>1. CandidateOn(image) = {k \in DOMAIN Snapshots(s) : /\ Snapshots(s)[k].state = "pending"
                                                        /\ Snapshots(s)[k].stableAt # 0}
  BY DEF CandidateOn, KeysIn, Snapshots
<1>2. CandidateOn(image) \subseteq KeysIn(s.content, "pending")
  BY <1>1, ZenonT(30) DEF KeysIn, Snapshots
<1>. QED BY <1>1, <1>2, ZenonT(30) DEF OnePending, IsOption

\* While the countdown stays, what it waits for has been on disk.
LEMMA WaitingBack ==
  ASSUME IInv, CommitInv, DelayInv, Effect, activation'.key = activation.key, Waiting'
  PROVE Waiting /\ CandidateOn(disk') = CandidateOn(disk)
<1>1. CASE disk'.state = disk.state
  BY <1>1 DEF Waiting, CandidateOn
<1>2. ASSUME NEW c \in commit, disk.state = c.previous, disk'.state = {c.next}
      PROVE Waiting /\ CandidateOn(disk') = CandidateOn(disk)
  <2>1. PICK s : disk.state = {s}
    BY ZenonT(30) DEF Waiting, DelayInv, IInv, FilesInv, IsOption
  <2>2. /\ s \in Files /\ c.next \in Files /\ StepOf({s}, c.next)
        /\ OnePending(s) /\ OnePending(c.next)
    <3>1. s \in Files /\ c.next \in Files
      <4>1. c.next \in UNION {e.previous \union {e.next} : e \in commit}
        OBVIOUS
      <4>. QED BY <2>1, <4>1, ZenonT(30) DEF Files
    <3>2. StepOf(c.previous, c.next)
      BY ZenonT(30) DEF CommitInv
    <3>. QED BY <1>2, <2>1, <3>1, <3>2, Zenon DEF CommitInv
  <2>3. PICK k : k \in activation.key /\ k \in CandidateOn(disk')
    BY ZenonT(30) DEF Waiting
  <2>4. Settled(k, s)
    BY <2>2, <2>3, ZenonT(30) DEF DelayInv
  <2>5. /\ k \in DOMAIN Snapshots(c.next) /\ Snapshots(c.next)[k].state = "pending"
        /\ IsOption(CandidateOn(disk'))
    BY <1>2, <2>2, <2>3, CandidateOfState, SMTT(30)
  <2>6. Snapshots(s)[k].state = "pending" /\ k \in DOMAIN Snapshots(s)
    BY <2>2, <2>4, <2>5, CandidateWas, ZenonT(30) DEF Settled
  <2>7. k \in CandidateOn(disk) /\ IsOption(CandidateOn(disk))
    BY <2>1, <2>2, <2>4, <2>6, CandidateOfState, SMTT(30) DEF Settled
  <2>8. CandidateOn(disk') = CandidateOn(disk)
    <3>. DEFINE now == CandidateOn(disk')
                before == CandidateOn(disk)
    <3>. HIDE DEF now, before
    <3>. QED BY <2>3, <2>5, <2>7, SMTT(30) DEF IsOption, now, before
  <2>. QED BY <2>8, ZenonT(30) DEF Waiting
<1>. QED BY <1>1, <1>2, DiskMoves, ZenonT(30)

\* A published candidate is settled.
LEMMA ConfirmedSettled ==
  ASSUME NEW S, IsOption(S), NEW t, NEW k \in confirmActivation(S, t).key,
         confirmActivation(S, t) # activation
  PROVE S # {} /\ \A s \in S : Settled(k, s)
<1>1. k \in stableCandidate(S, t.latest)
  BY ZenonT(30) DEF confirmActivation, NoWait
<1>2. PICK p \in S : k \in KeysIn(p.content, "pending")
  BY <1>1, ZenonT(30) DEF stableCandidate
<1>3. PICK q \in S : q.content.snapshots[k].stableAt # 0
  BY <1>1, ZenonT(30) DEF stableCandidate
<1>. QED BY <1>2, <1>3, ZenonT(30) DEF IsOption, Settled, Snapshots, KeysIn

\* The files of the next state hold what they held, or what a probe or a
\* command has just made of it.
LEMMA NewFiles ==
  ASSUME IInv, Effect, proc \in Running, NEW n \in Files', n \notin Files
  PROVE \/ disk.state = {}
        \/ \E s \in disk.state : \E c, skipped : Learns(s, n, c, skipped) \/ Promotes(s, n, c, skipped)
<1>1. CASE Reads \/ Recovered
  <2>1. PICK t : IsTransit(t) /\ ObservationStep(disk.state, t)
    BY <1>1, ObservationBase, ZenonT(30)
  <2>2. ~GivesUp /\ ~Publishes(disk.state)
    BY DEF GivesUp, Publishes, Files, Idle
  <2>3. PICK m : Commits(disk.state, m, t) /\ Successor(disk.state, t, m, probe'.blocked)
    BY <2>1, <2>2, Zenon DEF ObservationStep
  <2>4. m = n
    BY <2>3 DEF Commits, Files
  <2>5. SUFFICES ASSUME NEW s \in disk.state
                 PROVE \E c, skipped : Learns(s, n, c, skipped) \/ Promotes(s, n, c, skipped)
    BY ZenonT(30)
  <2>6. PICK r : /\ Outcome(s, t, ~probe.discover, promotionReady(disk.state, t), r)
                 /\ r.changed /\ r.state = n
    BY <2>3, <2>4, ZenonT(30) DEF Successor
  <2>. QED BY <2>6, ZenonT(30) DEF Outcome
<1>2. CASE Rests \/ Reports \/ Plans
  BY <1>2, ZenonT(30) DEF Rests, Reports, Plans, Quiet, Files
<1>3. CASE Exits
  BY <1>3, ZenonT(30) DEF Exits, Exit, Files, Idle
<1>7. CASE Saved \/ SaveFails
  <2>1. disk' = disk /\ commit' \subseteq commit /\ io'.next = {}
    BY <1>7 DEF Saved, Publishes, SaveFails, GivesUp, Idle
  <2>. QED BY <2>1, ZenonT(30) DEF Files
<1>4. CASE Writes
  BY <1>4, ZenonT(30) DEF Writes, Files
<1>5. CASE Recovers
  <2>1. disk' = disk /\ commit' = commit /\ io'.next = Attempt
    BY ONLY <1>5, ZenonT(30) DEF Recovers
  <2>2. Attempt \subseteq Files
    BY ONLY SMT DEF Attempt, Files
  <2>3. Files' = disk.state \union Attempt \union UNION {c.previous \union {c.next} : c \in commit}
    BY ONLY <2>1, ZenonT(30) DEF Files
  <2>. QED BY <2>2, <2>3, ZenonT(30) DEF Files
<1>6. ~Starts /\ ~StartsServing /\ ~Applies /\ ~SavesPlan
  BY ZenonT(30) DEF Starts, StartsServing, Applies, SavesPlan, Running
<1>. QED BY <1>1, <1>2, <1>3, <1>4, <1>5, <1>6, <1>7, ZenonT(30) DEF Effect

\* A key that counts down stays settled in every state that a step adds.
LEMMA FilesSettled ==
  ASSUME IInv, DelayInv, Effect, proc \in Running,
         NEW k \in activation.key, NEW n \in Files'
  PROVE Settled(k, n)
<1>1. CASE n \in Files
  BY <1>1, ZenonT(30) DEF DelayInv
<1>2. CASE n \notin Files
  <2>1. disk.state # {}
    BY ZenonT(30) DEF DelayInv
  <2>2. PICK s \in disk.state : \E c, skipped : Learns(s, n, c, skipped) \/ Promotes(s, n, c, skipped)
    BY <1>2, <2>1, NewFiles, ZenonT(30)
  <2>3. Settled(k, s)
    BY ZenonT(30) DEF DelayInv, Files
  <2>. QED BY <2>2, <2>3, SettledKept, ZenonT(30)
<1>. QED BY <1>1, <1>2, ZenonT(30)

\* The files never become empty again.
LEMMA FilesStay ==
  ASSUME IInv, CommitInv, Effect, disk.state # {}
  PROVE disk'.state # {}
BY DiskMoves

\* A step that keeps the countdown keeps the invariant.
LEMMA StaysKeeps ==
  ASSUME IInv, CommitInv, DelayInv, Effect, Stays, KeepWaiting
  PROVE DelayInv'
<1>1. activation' = activation /\ activation.left \in Nat /\ ActivationDelay \in Nat /\ waited \in Nat
  BY PolicyAssumption, ZenonT(30) DEF Stays, IInv, ShapeInv, DelayInv
<1>2. CASE proc \notin Running
  <2>1. activation.key = {} /\ activation = NoWait
    BY <1>2 DEF DelayInv, NoWait
  <2>2. waited' \in Nat
    BY <1>1, ZenonT(30) DEF KeepWaiting
  <2>. QED BY <1>1, <2>1, <2>2, ZenonT(30) DEF DelayInv, Waiting
<1>3. CASE proc \in Running
  <2>1. proc' \in Running
    BY <1>3, ZenonT(30) DEF Stays
  <2>2. waited' \in Nat
    BY <1>1 DEF KeepWaiting
  <2>3. Waiting' => Waiting /\ waited' = waited
    BY <1>1, <2>1, WaitingBack, ZenonT(30) DEF KeepWaiting
  <2>4. \A k \in activation'.key, s \in Files' : Settled(k, s)
    BY <1>1, <1>3, FilesSettled, ZenonT(30)
  <2>5. activation'.key # {} => disk'.state # {}
    BY <1>1, FilesStay, ZenonT(30) DEF DelayInv
  <2>6. Waiting' => waited' + activation'.left >= ActivationDelay
    BY <1>1, <2>3, ZenonT(30) DEF DelayInv
  <2>7. Waiting' /\ probe'.pc # "free" /\ probe'.ready => waited' >= ActivationDelay
    BY <1>1, <2>3 DEF DelayInv, Stays
  <2>. QED BY <2>1, <2>2, <2>4, <2>5, <2>6, <2>7, ZenonT(30) DEF DelayInv
<1>. QED BY <1>2, <1>3, ZenonT(30)

\* A step that confirms a candidate restarts the countdown for a new one.
LEMMA ConfirmsKeeps ==
  ASSUME IInv, IInv', CommitInv, DelayInv, Effect, Confirms, KeepWaiting
  PROVE DelayInv'
<1>1. /\ disk' = disk /\ io' = Idle /\ commit' = {} /\ probe'.pc = "free" /\ proc' \in Running
      /\ activation.left \in Nat /\ ActivationDelay \in Nat /\ waited \in Nat /\ waited' = waited
  BY NoProbeShape, PolicyAssumption, ZenonT(30) DEF Confirms, IInv, ShapeInv, DelayInv, KeepWaiting
<1>2. Files' = disk.state /\ disk.state = store'.state /\ IsOption(store'.state)
  BY <1>1, ZenonT(30) DEF Files, Idle, IInv, ControlInv, ShapeInv, IsStore
<1>3. PICK t : activation' = confirmActivation(store'.state, t)
  BY ZenonT(30) DEF Confirms
<1>4. CASE activation' = activation
  <2>1. Waiting' => Waiting
    BY <1>1, <1>4, ZenonT(30) DEF Waiting, CandidateOn
  <2>2. \A k \in activation'.key, s \in Files' : Settled(k, s)
    BY <1>2, <1>4, ZenonT(30) DEF DelayInv, Files
  <2>. QED BY <1>1, <1>4, <2>1, <2>2, ZenonT(30) DEF DelayInv
<1>5. CASE activation' # activation
  <2>1. \A k \in activation'.key : store'.state # {} /\ \A s \in store'.state : Settled(k, s)
    BY <1>2, <1>3, <1>5, ConfirmedSettled, ZenonT(30)
  <2>2. activation'.key # {} => activation'.left = ActivationDelay
    BY <1>3, <1>5, ZenonT(30) DEF confirmActivation, NoWait
  <2>3. Waiting' => waited' + activation'.left >= ActivationDelay
    BY <1>1, <2>2 DEF Waiting
  <2>. QED BY <1>1, <1>2, <2>1, <2>3, ZenonT(30) DEF DelayInv
<1>. QED BY <1>4, <1>5, ZenonT(30)

\* What the countdown loses, the time waited gains.
LEMMA TickKeeps ==
  ASSUME IInv, CommitInv, DelayInv, Tick
  PROVE DelayInv'
<1>1. /\ disk' = disk /\ io' = io /\ commit' = commit /\ proc' = proc /\ proc \in Running
      /\ waited' = CountUp(waited, ActivationDelay)
      /\ activation' = [activation EXCEPT !.left = CountDown(@)]
      /\ probe' = probe \/ probe' = [probe EXCEPT !.elapsed = @ + 1]
  BY ZenonT(30) DEF Tick
<1>2. /\ activation.left \in Nat /\ ActivationDelay \in Nat /\ waited \in Nat
      /\ activation = [key |-> activation.key, left |-> activation.left] /\ IsProbe(probe)
  BY PolicyAssumption DEF IInv, ShapeInv, DelayInv
<1>3. activation'.key = activation.key /\ activation'.left = CountDown(activation.left)
  BY <1>1, <1>2
<1>4. probe'.pc = probe.pc /\ probe'.ready = probe.ready
  BY <1>1, <1>2 DEF IsProbe
<1>5. (Waiting' <=> Waiting) /\ Files' = Files
  BY <1>1, <1>3 DEF Waiting, CandidateOn, Files
<1>6. waited' \in Nat /\ (waited >= ActivationDelay => waited' >= ActivationDelay)
  BY <1>1, <1>2 DEF CountUp
<1>7. waited + activation.left >= ActivationDelay => waited' + activation'.left >= ActivationDelay
  BY <1>1, <1>2, <1>3 DEF CountUp, CountDown
<1>. QED BY <1>1, <1>3, <1>4, <1>5, <1>6, <1>7, ZenonT(30) DEF DelayInv

\* The countdown and the time waited since confirmation add up to the activation delay.
THEOREM DelayInvariance == Spec => []DelayInv
<1>1. ASSUME Init PROVE DelayInv
  <2>1. proc = "none" /\ activation = NoWait /\ waited = 0
    BY <1>1, ZenonT(30) DEF Init
  <2>2. activation.key = {} /\ proc \notin Running
    BY <2>1 DEF NoWait, Running
  <2>. QED BY <2>1, <2>2, ZenonT(30) DEF DelayInv, Waiting
<1>2. NodeInv /\ NodeInv' /\ CommitInv /\ DelayInv /\ [Next]_vars => DelayInv'
  <2>1. ASSUME NodeInv, NodeInv', CommitInv, DelayInv, [Next]_vars PROVE DelayInv'
    <3>1. IInv /\ IInv' /\ Effect
      BY <2>1, NextEffect, ZenonT(30) DEF NodeInv
    <3>2. CASE UNCHANGED vars
      BY <2>1, <3>2, ZenonT(30) DEF vars, memory, history, DelayInv, Waiting, CandidateOn, Files
    <3>3. CASE Tick
      BY <2>1, <3>1, <3>3, TickKeeps, ZenonT(30)
    <3>4. CASE Untimed /\ KeepWaiting
      <4>1. Countdown
        BY <3>1, <3>4, UntimedCountdown, ZenonT(30)
      <4>2. CASE Stays
        BY <2>1, <3>1, <3>4, <4>2, StaysKeeps, ZenonT(30)
      <4>3. CASE Confirms
        BY <2>1, <3>1, <3>4, <4>3, ConfirmsKeeps, ZenonT(30)
      <4>4. CASE Drops
        <5>1. waited' \in Nat
          BY <2>1, <3>4, ZenonT(30) DEF DelayInv, KeepWaiting
        <5>. QED BY <4>4, <5>1, NoProbeShape, ZenonT(30) DEF Drops, DelayInv, NoWait, Waiting
      <4>. QED BY <4>1, <4>2, <4>3, <4>4, ZenonT(30) DEF Countdown
    <3>. QED BY <2>1, <3>2, <3>3, <3>4, ZenonT(30) DEF Next
  <2>. QED BY <2>1
<1>. QED BY <1>1, <1>2, NodeInvariance, CommitInvariance, PTL DEF Spec

-----------------------------------------------------------------------------
(* The promotion waits for the delay.                                      *)

\* A commit of a running node comes from an observation of the files.
LEMMA NewCommit ==
  ASSUME IInv, Effect, proc \in Running, NEW c \in commit' \ commit
  PROVE /\ c.previous = disk.state /\ probe.pc # "free"
        /\ \E t : /\ IsTransit(t)
                  /\ \E blocked : Successor(c.previous, t, c.next, blocked)
<1>1. CASE Reads \/ Recovered
  <2>1. PICK t : IsTransit(t) /\ ObservationStep(disk.state, t)
    BY <1>1, ObservationBase
  <2>2. probe.pc # "free"
    BY <1>1, ZenonT(30) DEF Reads, Recovered
  <2>3. \/ commit' = {}
        \/ \E n : Commits(disk.state, n, t) /\ Successor(disk.state, t, n, probe'.blocked)
    BY <2>1, ZenonT(30) DEF ObservationStep, GivesUp, Publishes
  <2>4. PICK n : Commits(disk.state, n, t) /\ Successor(disk.state, t, n, probe'.blocked)
    BY <2>3, ZenonT(30)
  <2>5. c.previous = disk.state /\ c.next = n
    BY <2>4 DEF Commits
  <2>. QED BY <2>1, <2>2, <2>4, <2>5, ZenonT(30)
<1>2. CASE ~(Reads \/ Recovered)
  <2>1. ~Applies
    BY ZenonT(30) DEF Applies, Running
  <2>. QED BY <1>2, <2>1, ZenonT(30) DEF Effect, Rests, Reports, Plans, Exits, Starts, StartsServing, SavesPlan,
                             Writes, Recovers, Saved, SaveFails, Quiet, Exit, GivesUp, Publishes
<1>. QED BY <1>1, <1>2

\* What a promotion needs, and which key it makes active.
LEMMA PromotionReady ==
  ASSUME NEW s, IsState(s), DOMAIN Snapshots(s) \subseteq AllKeys, OnePending(s), disk.state = {s},
         NEW t, IsTransit(t), NEW n, NEW blocked, Successor({s}, t, n, blocked),
         Active(n) # Active(s), ActivationDelay # 0
  PROVE probe.ready /\ Waiting /\ CandidateOn(disk) = {Active(n)}
<1>. DEFINE ready == promotionReady({s}, t)
            c == KeyOf(t, t.latest)
            stable == stableCandidate({s}, t.latest)
<1>1. PICK r : Outcome(s, t, ~probe.discover, ready, r) /\ r.changed /\ r.state = n
  BY Zenon DEF Successor
<1>2. PICK skipped \in SUBSET Identities(t) :
        \/ Learns(s, n, c, skipped)
        \/ Promotes(s, n, c, skipped) /\ (ActivationDelay = 0 \/ ready)
  BY <1>1, Zenon DEF Outcome
<1>3. Promotes(s, n, c, skipped) /\ ready
  BY <1>2, ZenonT(30) DEF Learns
<1>4. stable # {} /\ activation.key = stable /\ probe.ready
  BY <1>3, ZenonT(30) DEF promotionReady
<1>5. PICK k : k \in stable
  BY <1>4, ZenonT(30)
<1>6. /\ k \in DOMAIN Snapshots(s) /\ Snapshots(s)[k].state = "pending" /\ Snapshots(s)[k].stableAt # 0
      /\ k.version = t.latest /\ stable \subseteq KeysIn(s.content, "pending")
  BY <1>5, ZenonT(30) DEF stableCandidate, KeysIn, Snapshots
<1>7. k = c
  <2>. SUFFICES ASSUME k # c PROVE FALSE
    OBVIOUS
  <2>. HIDE DEF c
  <2>1. k \in DOMAIN Snapshots(n) /\ Snapshots(n)[k].state = "retired"
    BY <1>3, <1>6, ZenonT(30) DEF Promotes, LearntState
  <2>2. Fits(t, n, blocked) /\ k \in KeySet
    BY <2>1, ZenonT(30) DEF Successor, IsState, IsRecords, Snapshots
  <2>3. k = KeyOf(t, k.version)
    BY <2>1, <2>2, FittingKeys, ZenonT(30) DEF DecryptableStates
  <2>. QED BY <1>6, <2>3, ZenonT(30) DEF c
<1>8. CandidateOn(disk) = {k} /\ stable = {k}
  <2>. HIDE DEF stable
  <2>1. stable = {k}
    BY <1>5, <1>6, ZenonT(30) DEF OnePending, IsOption
  <2>2. /\ CandidateOn(disk) = {j \in DOMAIN Snapshots(s) : /\ Snapshots(s)[j].state = "pending"
                                                           /\ Snapshots(s)[j].stableAt # 0}
        /\ IsOption(CandidateOn(disk))
    BY CandidateOfState, ZenonT(30)
  <2>3. k \in CandidateOn(disk)
    BY ONLY <1>6, <2>2, ZenonT(30)
  <2>. QED BY <2>1, <2>2, <2>3, ZenonT(30) DEF IsOption
<1>9. Active(n) = c
  BY <1>3, Zenon DEF Promotes
<1>. HIDE DEF c, stable, ready
<1>. QED BY <1>4, <1>7, <1>8, <1>9, ZenonT(30) DEF Waiting

\* FullDelayBeforePromotion, for every policy, number of versions and clock:
\* however the process restarts, saves fail or candidates are superseded, a
\* key that becomes active was on disk, stable, for the whole activation delay.
THEOREM FullDelay == Spec => FullDelayBeforePromotion
<1>1. NodeInv /\ CommitInv /\ DelayInv /\ [Next]_vars =>
        [\A c \in commit' \ commit :
           active(c.previous) \notin {{}, active({c.next})} /\ proc \in Running
             => /\ waited >= ActivationDelay
                /\ ActivationDelay > 0 => active({c.next}) = CandidateOn(disk)]_vars
  <2>1. ASSUME NodeInv, CommitInv, DelayInv, [Next]_vars, ~UNCHANGED vars,
               NEW c \in commit' \ commit, proc \in Running,
               active(c.previous) \notin {{}, active({c.next})}
        PROVE /\ waited >= ActivationDelay
              /\ ActivationDelay > 0 => active({c.next}) = CandidateOn(disk)
    <3>1. IInv /\ Effect /\ waited \in Nat /\ ActivationDelay \in Nat
      BY <2>1, NextEffect, PolicyAssumption DEF NodeInv, DelayInv
    <3>2. c.previous = disk.state /\ probe.pc # "free"
      BY <2>1, <3>1, NewCommit, ZenonT(30)
    <3>3. PICK t : IsTransit(t) /\ \E blocked : Successor(c.previous, t, c.next, blocked)
      BY <2>1, <3>1, NewCommit, ZenonT(30)
    <3>4. PICK blocked : Successor(c.previous, t, c.next, blocked)
      BY <3>3
    <3>5. PICK s : disk.state = {s}
      <4>1. disk.state # {}
        BY <2>1, <3>2 DEF active
      <4>. QED BY <3>1, <4>1, ZenonT(30) DEF IInv, FilesInv, IsOption
    <3>6. s \in Files /\ IsState(s) /\ DOMAIN Snapshots(s) \subseteq AllKeys /\ OnePending(s)
      <4>1. s \in Files
        BY <3>5, ZenonT(30) DEF Files
      <4>. QED BY <2>1, <3>1, <4>1, ZenonT(30) DEF IInv, FilesInv, Sound, CommitInv
    <3>7. Active(c.next) # Active(s)
      BY <2>1, <3>2, <3>5, ZenonT(30) DEF active, Active
    <3>8. Successor({s}, t, c.next, blocked)
      BY <3>2, <3>4, <3>5, ZenonT(30)
    <3>9. CASE ActivationDelay = 0
      BY <3>1, <3>9, SMTT(30)
    <3>10. CASE ActivationDelay # 0
      <4>1. probe.ready /\ Waiting /\ CandidateOn(disk) = {Active(c.next)}
        BY <3>3, <3>5, <3>6, <3>7, <3>8, <3>10, PromotionReady, ZenonT(30)
      <4>2. active({c.next}) = {Active(c.next)}
        BY DEF active, Active
      <4>. QED BY <2>1, <3>2, <4>1, <4>2, ZenonT(30) DEF DelayInv
    <3>. QED BY <3>9, <3>10, ZenonT(30)
  <2>. QED BY <2>1, Zenon
<1>. QED BY <1>1, NodeInvariance, CommitInvariance, DelayInvariance, PTL
         DEF Spec, FullDelayBeforePromotion

-----------------------------------------------------------------------------
(* A registry never locks itself out.                                      *)

\* IntactKeyNeverRefused, for every policy, every number of versions and every
\* clock: as long as Transit holds the identities of the cached registry above
\* its minimums, observe and Discover have an answer.  The argument needs that
\* a candidate in the registry is still pending and has been observed (Ranked),
\* and that Transit lists its versions without a gap (Numbered).
THEOREM IntactAccepted == Spec => []IntactKeyNeverRefused
<1>1. NodeInv => IntactKeyNeverRefused
  <2>. SUFFICES ASSUME NodeInv, NEW s \in store.state, transit.usable,
                       \A k \in Lookup(s.content) :
                         /\ k.version >= transit.minDec
                         /\ k.version \in DOMAIN transit.createdAt
                         /\ k.createdAt = transit.createdAt[k.version],
                       NEW now \in WallTimes, NEW advance \in BOOLEAN, NEW ready \in BOOLEAN
                PROVE observe(s, transit, now, advance, ready) # {}
    BY ZenonT(30) DEF IntactKeyNeverRefused, Discover
  <2>1. IsState(s) /\ Ranked(s) /\ IsProfile(transit) /\ Numbered(transit)
    BY ZenonT(30) DEF NodeInv, IInv, FilesInv, Sound, ShapeInv, IsTransit
  <2>2. now \in Nat \ {0}
    BY ControllerAssumption
  <2>3. \A v \in DOMAIN transit.createdAt : v \in 1..MaxVersion /\ v \in Nat
    BY ControllerAssumption, ZenonT(30) DEF NodeInv, IInv, ShapeInv, IsTransit, IsProfile
  <2>4. validateProfile(transit) /\ Listed(transit)
    BY <2>1, <2>3, SMTT(30) DEF validateProfile, Numbered, Listed, IsProfile
  <2>5. validateDecryptableState(transit, s.content)
    BY <2>1, <2>3, ZenonT(30) DEF validateDecryptableState, Numbered, IsProfile
  <2>6. \A v \in DOMAIN transit.createdAt : \A w \in v..transit.latest : w \in DOMAIN transit.createdAt
    BY <2>1 DEF Numbered
  <2>. QED BY <2>1, <2>2, <2>4, <2>5, <2>6, ObserveAccepted, ZenonT(30)
<1>. QED BY <1>1, NodeInvariance, PTL

=============================================================================
