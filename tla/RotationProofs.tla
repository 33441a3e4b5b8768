--------------------------- MODULE RotationProofs ---------------------------
(***************************************************************************)
(* What one observation, one bootstrap and one operator command may do to  *)
(* a registry, for every registry, profile, policy and clock reading: the  *)
(* lemmas that the proofs about the node rest on.                          *)
(***************************************************************************)
EXTENDS RegistrySteps, TLAPS

-----------------------------------------------------------------------------
(* The records.                                                            *)

\* Sorting gives every record its place and changes nothing else.
LEMMA OrderedKeeps ==
  ASSUME NEW a, NEW records, IsRecords(records)
  PROVE /\ IsRecords(orderedRecords(a, records))
        /\ DOMAIN orderedRecords(a, records) = DOMAIN records
        /\ \A k \in DOMAIN records :
             LET r == records[k]
                 o == orderedRecords(a, records)[k]
             IN /\ o.state = r.state /\ o.observedAt = r.observedAt
                /\ o.stableCount = r.stableCount /\ o.stableAt = r.stableAt
                /\ o.promotedAt = r.promotedAt
<1>. DEFINE place(k) == Cardinality({j \in DOMAIN records : Before(a, records, j, k)})
            ordered == orderedRecords(a, records)
<1>1. ordered = [k \in DOMAIN records |-> [records[k] EXCEPT !.position = place(k)]]
  BY DEF orderedRecords
<1>. HIDE DEF place, ordered
<1>2. ASSUME NEW k \in DOMAIN records
      PROVE LET r == records[k]
                o == [records[k] EXCEPT !.position = place(k)]
            IN /\ o.state = r.state /\ o.observedAt = r.observedAt
               /\ o.stableCount = r.stableCount /\ o.stableAt = r.stableAt
               /\ o.promotedAt = r.promotedAt
               /\ IsRecord(o)
  BY <1>2 DEF IsRecords, IsRecord
<1>3. DOMAIN ordered = DOMAIN records
  BY <1>1
<1>4. IsRecords(ordered)
  BY <1>1, <1>2, <1>3, Zenon DEF IsRecords
<1>. QED BY <1>1, <1>2, <1>3, <1>4, ZenonT(30) DEF ordered

\* The candidate's record is pending, and a stable time is never taken back.
LEMMA PendingKeeps ==
  ASSUME NEW content, IsRecords(content.snapshots), NEW candidate, NEW now \in Nat,
         NEW advance \in BOOLEAN
  PROVE LET pending == pendingRecord(content, candidate, now, advance)
        IN /\ IsRecord(pending)
           /\ pending.state = "pending"
           /\ candidate \in KeysIn(content, "pending") =>
                /\ content.snapshots[candidate].stableAt # 0 => pending.stableAt # 0
                /\ pending.observedAt = content.snapshots[candidate].observedAt
           /\ candidate \notin KeysIn(content, "pending") => pending.observedAt = now
<1>. DEFINE old == IF candidate \in KeysIn(content, "pending")
                   THEN content.snapshots[candidate]
                   ELSE Record("pending", now, 0, 0, 0)
            pending == pendingRecord(content, candidate, now, advance)
            count == IF advance /\ old.stableCount < RequireStableObservationCount
                     THEN old.stableCount + 1 ELSE old.stableCount
            at == IF (advance /\ count >= RequireStableObservationCount) /\ old.stableAt = 0
                  THEN Max2(now, old.observedAt) ELSE old.stableAt
<1>1. IsRecord(old) /\ old.state = "pending"
  BY DEF IsRecords, IsRecord, Record, KeysIn
<1>2. pending = [old EXCEPT !.stableCount = count, !.stableAt = at]
  BY DEF pendingRecord
<1>3. count \in Nat
  BY <1>1, PolicyAssumption DEF IsRecord
<1>4. at \in Nat /\ (old.stableAt # 0 => at = old.stableAt)
  BY <1>1 DEF Max2, IsRecord
<1>. HIDE DEF old, pending, count, at
<1>5. /\ pending.state = old.state /\ pending.observedAt = old.observedAt
      /\ pending.stableAt = at /\ IsRecord(pending)
  BY <1>1, <1>2, <1>3, <1>4, Zenon DEF IsRecord
<1>6. candidate \notin KeysIn(content, "pending") => old.observedAt = now
  BY DEF old, Record
<1>. QED BY <1>1, <1>4, <1>5, <1>6 DEF old, pending

-----------------------------------------------------------------------------
(* The steps of a registry.                                                *)

\* The active record of a valid state file.
LEMMA ActiveKnown ==
  ASSUME NEW s, IsState(s)
  PROVE /\ Active(s) \in DOMAIN Snapshots(s)
        /\ \A k \in DOMAIN Snapshots(s) :
             Snapshots(s)[k].state = "active" <=> k = Active(s)
BY DEF IsState, Validate, KeysIn, Active, Snapshots

\* A retained identity with the latest version is the latest identity.
LEMMA LatestIdentity ==
  ASSUME NEW profile, IsProfile(profile), validateProfile(profile), NEW content,
         IsRecords(content.snapshots), validateDecryptableState(profile, content),
         NEW k \in Lookup(content)
  PROVE /\ k.version <= profile.latest
        /\ k.version = profile.latest => k = KeyOf(profile, profile.latest)
<1>1. k \in KeySet
  BY DEF Lookup, IsRecords
<1>2. k.version \in DOMAIN profile.createdAt /\ profile.createdAt[k.version] = k.createdAt
  BY DEF validateDecryptableState
<1>. QED BY <1>1, <1>2 DEF validateProfile, KeySet, KeyOf, IsProfile

\* The latest identity, and the skipped ones that the registry does not have.
LEMMA NewerKeys ==
  \A s, profile : \A skipped \in intermediateHistoricalRecords(s.content, profile) :
    /\ IsState(s)
    /\ Ranked(s)
    /\ IsProfile(profile)
    /\ NewerThan(s, profile)
    => /\ KeyOf(profile, profile.latest) \in KeySet \intersect Identities(profile)
       /\ KeyOf(profile, profile.latest).version = profile.latest
       /\ skipped \in SUBSET KeySet /\ skipped \in SUBSET Identities(profile)
       /\ NewKeys(s, KeyOf(profile, profile.latest), skipped \ DOMAIN Snapshots(s))
\* A candidate in the registry can only be pending: retired, it would have
\* been superseded by a version that Transit does not have.
<1>CandidateIsNew.
  ASSUME NEW s, IsState(s), Ranked(s), NEW profile, IsProfile(profile),
         validateProfile(profile), validateDecryptableState(profile, s.content),
         profile.latest > Active(s).version,
         KeyOf(profile, profile.latest) \in DOMAIN Snapshots(s)
  PROVE Snapshots(s)[KeyOf(profile, profile.latest)].state = "pending"
  <2>. USE <1>CandidateIsNew
  <2>. DEFINE c == KeyOf(profile, profile.latest)
  <2>1. c.version = profile.latest /\ profile.latest \in Nat /\ Active(s).version \in Nat
    BY DEF KeyOf, IsProfile, IsState, Active, KeySet
  <2>2. c # Active(s)
    BY <2>1
  <2>3. Snapshots(s)[c].state \in {"active", "pending", "retired", "removed"}
    BY Zenon DEF IsState, Snapshots, IsRecords, IsRecord
  <2>4. Snapshots(s)[c].state # "active"
    BY <2>2, ActiveKnown
  <2>5. Snapshots(s)[c].state # "removed"
    BY <2>1 DEF Ranked
  <2>6. ASSUME Snapshots(s)[c].state = "retired" PROVE FALSE
    <3>1. PICK p \in KeysIn(s.content, "pending") : p.version > c.version
      BY <2>1, <2>6 DEF Ranked
    <3>2. p \in Lookup(s.content)
      BY DEF KeysIn, Lookup, DecryptableStates
    <3>3. p.version <= profile.latest
      BY <3>2, LatestIdentity DEF IsState
    <3>4. p.version \in Nat
      BY <3>2 DEF Lookup, IsState, IsRecords, KeySet
    <3>. QED BY <2>1, <3>1, <3>3, <3>4
  <2>. QED BY <2>3, <2>4, <2>5, <2>6
<1>. SUFFICES ASSUME NEW s, IsState(s), Ranked(s), NEW profile, IsProfile(profile), NewerThan(s, profile),
         NEW skipped \in intermediateHistoricalRecords(s.content, profile)
             PROVE /\ KeyOf(profile, profile.latest) \in KeySet \intersect Identities(profile)
                   /\ KeyOf(profile, profile.latest).version = profile.latest
                   /\ skipped \in SUBSET KeySet /\ skipped \in SUBSET Identities(profile)
                   /\ NewKeys(s, KeyOf(profile, profile.latest), skipped \ DOMAIN Snapshots(s))
  BY Zenon
<1>. DEFINE c == KeyOf(profile, profile.latest)
<1>1. c \in KeySet /\ c.version = profile.latest /\ c \in Identities(profile) /\ Active(s) \in KeySet
  BY DEF KeyOf, IsProfile, validateProfile, KeySet, Identities, IsState, NewerThan, Active
<1>2. /\ skipped \in SUBSET Identities(profile) /\ skipped \in SUBSET KeySet
      /\ \A k \in skipped : k.version > Active(s).version
  <2>1. PICK late \in SUBSET ((Active(s).version + 1)..(profile.latest - 1)) :
          late \subseteq DOMAIN profile.createdAt /\ skipped = {KeyOf(profile, v) : v \in late}
    BY Zenon DEF intermediateHistoricalRecords, Active
  <2>2. \A v \in late : v \in DOMAIN profile.createdAt /\ v > Active(s).version
    BY <1>1, <2>1 DEF IsProfile, KeySet
  <2>3. \A v \in late : KeyOf(profile, v) \in KeySet /\ KeyOf(profile, v).version = v
    BY <2>1 DEF IsProfile, KeyOf, KeySet
  <2>. QED BY <2>1, <2>2, <2>3 DEF Identities
<1>3. c \in DOMAIN Snapshots(s) => Snapshots(s)[c].state = "pending"
  BY <1>CandidateIsNew DEF NewerThan
<1>. HIDE DEF c
<1>4. NewKeys(s, c, skipped \ DOMAIN Snapshots(s))
  BY <1>1, <1>2, <1>3 DEF NewKeys, NewerThan
<1>. QED BY <1>1, <1>2, <1>4 DEF c

\* They are steps of the registry.
LEMMA NewerSteps ==
  \A s, profile : \A now \in Nat \ {0} : \A advance \in BOOLEAN : \A skipped \in intermediateHistoricalRecords(s.content, profile) :
    /\ IsState(s)
    /\ Ranked(s)
    /\ IsProfile(profile)
    /\ NewerThan(s, profile)
    => LET c == KeyOf(profile, profile.latest)
           new == skipped \ DOMAIN Snapshots(s)
           learnt == Learnt(s, profile, now, advance, skipped)
           advanced == Advanced(s, profile, now, learnt)
       IN /\ Learns(s, learnt, c, new) /\ Extends(s, learnt) /\ IsRecords(Snapshots(learnt))
          /\ Promotes(s, advanced, c, new) /\ Extends(s, advanced) /\ IsRecords(Snapshots(advanced))
\* What upsertPendingRecord and the renumbering leave of every record.
<1>UpsertStates.
  ASSUME NEW content, IsRecords(content.snapshots), NEW candidate \in KeySet,
         NEW skipped \in SUBSET KeySet, NEW now \in Nat, NEW pending, IsRecord(pending), NEW a
  PROVE Upserted(content, candidate, pending, skipped,
                 orderedRecords(a, upsertPendingRecord(content, candidate, pending, skipped, now)))
  <2>. USE <1>UpsertStates
  <2>. DEFINE old == content.snapshots
              upsert == upsertPendingRecord(content, candidate, pending, skipped, now)
              retire(k) == [old[k] EXCEPT !.state = "retired"]
  <2>1. upsert = [k \in DOMAIN old \union skipped \union {candidate} |->
                    IF k = candidate THEN pending
                    ELSE IF k \notin DOMAIN old THEN Record("retired", now, 0, 0, 0)
                    ELSE IF k \in KeysIn(content, "pending") THEN retire(k)
                    ELSE old[k]]
    BY DEF upsertPendingRecord
  <2>2. ASSUME NEW k \in DOMAIN old PROVE IsRecord(retire(k)) /\ retire(k).state = "retired"
    <3>1. IsRecord(old[k])
      BY <2>2 DEF IsRecords
    <3>2. ASSUME NEW r, r = [old[k] EXCEPT !.state = "retired"]
          PROVE IsRecord(r) /\ r.state = "retired"
      BY <3>1, <3>2 DEF IsRecord
    <3>. QED BY <3>2
  <2>3. IsRecord(Record("retired", now, 0, 0, 0)) /\ Record("retired", now, 0, 0, 0).state = "retired"
    BY DEF IsRecord, Record
  <2>. HIDE DEF upsert, retire
  <2>4. DOMAIN upsert = DOMAIN old \union skipped \union {candidate}
    BY <2>1
  <2>5. \A k \in DOMAIN upsert : IsRecord(upsert[k])
    BY <2>1, <2>2, <2>3, <2>4 DEF IsRecords
  <2>6. IsRecords(upsert)
    BY <2>1, <2>4, <2>5 DEF IsRecords
  <2>7. \A k \in DOMAIN upsert :
          upsert[k].state = IF k = candidate THEN pending.state
                            ELSE IF k \notin DOMAIN old \/ old[k].state = "pending"
                            THEN "retired" ELSE old[k].state
    BY <2>1, <2>2, <2>3, <2>4 DEF KeysIn
  <2>8. upsert[candidate] = pending
    BY <2>1
  <2>9. candidate \in DOMAIN upsert
    BY <2>4
  <2>. QED BY <2>4, <2>6, <2>7, <2>8, <2>9, OrderedKeeps DEF upsert, Upserted
\* What promotePendingRecord and the renumbering leave of every record.
<1>PromoteStates.
  ASSUME NEW content, NEW candidate, NEW records, IsRecords(records), NEW now \in Nat, NEW a,
         candidate \in DOMAIN records, content.activeKeyID \in DOMAIN records,
         candidate # content.activeKeyID
  PROVE Promoted(content, candidate, records,
                 orderedRecords(a, promotePendingRecord(content, candidate, records, now)))
  <2>. USE <1>PromoteStates
  <2>. DEFINE pending == records[candidate]
              old == records[content.activeKeyID]
              at == Max2(now, Max2(pending.observedAt, pending.stableAt))
              new == [pending EXCEPT !.state = "active", !.promotedAt = at]
              was == Record("retired", old.observedAt, 0, 0, old.promotedAt)
              promote == promotePendingRecord(content, candidate, records, now)
  <2>1. promote = [records EXCEPT ![candidate] = new, ![content.activeKeyID] = was]
    BY DEF promotePendingRecord
  <2>2. IsRecord(pending) /\ IsRecord(old)
    BY DEF IsRecords
  <2>3. at \in Nat
    BY <2>2 DEF IsRecord, Max2
  <2>4. IsRecord(was) /\ was.state = "retired"
    BY <2>2 DEF IsRecord, Record
  <2>. HIDE DEF pending, old, at
  <2>a. new = [pending EXCEPT !.state = "active", !.promotedAt = at]
    OBVIOUS
  <2>. HIDE DEF new, was, promote
  <2>5. IsRecord(new) /\ new.state = "active"
    BY <2>a, <2>2, <2>3, Zenon DEF IsRecord
  <2>6. DOMAIN promote = DOMAIN records
    BY <2>1
  <2>7. \A k \in DOMAIN records : promote[k] = IF k = candidate THEN new
                                            ELSE IF k = content.activeKeyID THEN was
                                            ELSE records[k]
    BY <2>1 DEF IsRecords
  <2>8. \A k \in DOMAIN promote : IsRecord(promote[k])
    BY <2>4, <2>5, <2>6, <2>7 DEF IsRecords
  <2>9. promote = [k \in DOMAIN promote |-> promote[k]]
    BY <2>1, Zenon
  <2>10. IsRecords(promote)
    BY <2>6, <2>8, <2>9 DEF IsRecords
  <2>. QED BY <2>4, <2>5, <2>6, <2>7, <2>10, OrderedKeeps DEF promote, Promoted
<1>. SUFFICES ASSUME NEW s, IsState(s), Ranked(s), NEW profile, IsProfile(profile), NewerThan(s, profile),
         NEW now \in Nat \ {0}, NEW advance \in BOOLEAN,
         NEW skipped \in intermediateHistoricalRecords(s.content, profile)
             PROVE LET c == KeyOf(profile, profile.latest)
                       new == skipped \ DOMAIN Snapshots(s)
                       learnt == Learnt(s, profile, now, advance, skipped)
                       advanced == Advanced(s, profile, now, learnt)
                   IN /\ Learns(s, learnt, c, new) /\ Extends(s, learnt) /\ IsRecords(Snapshots(learnt))
                      /\ Promotes(s, advanced, c, new) /\ Extends(s, advanced) /\ IsRecords(Snapshots(advanced))
  OBVIOUS
<1>. DEFINE content == s.content
            c == KeyOf(profile, profile.latest)
            pending == pendingRecord(content, c, now, advance)
            records == orderedRecords(Active(s),
                         upsertPendingRecord(content, c, pending, skipped, now))
            new == skipped \ DOMAIN Snapshots(s)
            learnt == Learnt(s, profile, now, advance, skipped)
            after == orderedRecords(c, promotePendingRecord(content, c, Snapshots(learnt), now))
            advanced == Advanced(s, profile, now, learnt)
<1>1. /\ learnt = NextStateFile(s, Active(s), records) /\ advanced = NextStateFile(s, c, after)
      /\ IsRecords(content.snapshots) /\ content.activeKeyID = Active(s) /\ Active(s).version \in Nat
  BY DEF Learnt, Advanced, IsState, Active, KeySet
<1>2. c \in KeySet /\ c.version = profile.latest /\ skipped \in SUBSET KeySet /\ NewKeys(s, c, new)
  BY NewerKeys, ZenonT(30)
<1>3. /\ c \in KeysIn(content, "pending") => content.snapshots[c].observedAt # 0
      /\ c \in DOMAIN Snapshots(s) => c \in KeysIn(content, "pending")
  BY <1>2 DEF Ranked, KeysIn, Snapshots, NewKeys
<1>. HIDE DEF c
<1>4. /\ IsRecord(pending) /\ pending.state = "pending"
      /\ c \in KeysIn(content, "pending") =>
           /\ content.snapshots[c].stableAt # 0 => pending.stableAt # 0
           /\ pending.observedAt = content.snapshots[c].observedAt
      /\ c \notin KeysIn(content, "pending") => pending.observedAt = now
  <2>1. IsRecords(content.snapshots)
    BY <1>1
  <2>. HIDE DEF content
  <2>. QED BY <2>1, PendingKeeps, ZenonT(30)
<1>. HIDE DEF pending
<1>5. pending.observedAt # 0
  BY <1>3, <1>4
<1>6. /\ IsRecords(records)
      /\ DOMAIN records = DOMAIN Snapshots(s) \union new \union {c}
      /\ \A k \in DOMAIN records : records[k].state = LearntState(s, c, k)
      /\ records[c].stableAt = pending.stableAt /\ records[c].observedAt = pending.observedAt
  <2>1. Upserted(content, c, pending, skipped, records)
    <3>1. IsRecords(content.snapshots)
      BY <1>1
    <3>. HIDE DEF content
    <3>. QED BY <1>2, <1>4, <3>1, <1>UpsertStates
  <2>. HIDE DEF records
  <2>. QED BY <1>4, <2>1 DEF Upserted, Snapshots, LearntState
<1>. HIDE DEF records, learnt, advanced
<1>7. /\ Active(learnt) = Active(s) /\ Snapshots(learnt) = records
      /\ Active(advanced) = c /\ Snapshots(advanced) = after
      /\ Extends(s, learnt) /\ Extends(s, advanced)
  BY <1>1 DEF NextStateFile, Active, Snapshots, Extends
<1>8. Learns(s, learnt, c, new)
  BY <1>2, <1>3, <1>4, <1>5, <1>6, <1>7 DEF Learns, KeysIn, Snapshots
<1>9. Active(s) \in DOMAIN records /\ c \in DOMAIN records /\ c # Active(s)
  BY <1>1, <1>2, <1>6, ActiveKnown DEF NewerThan
<1>10. Promoted(content, c, records, after)
  <2>1. after = orderedRecords(c, promotePendingRecord(content, c, records, now))
    BY <1>7
  <2>2. content.activeKeyID \in DOMAIN records /\ c # content.activeKeyID
    BY <1>1, <1>9
  <2>. HIDE DEF content, after
  <2>. QED BY <1>6, <1>9, <2>1, <2>2, <1>PromoteStates
<1>. HIDE DEF after
<1>11. IsRecords(after) /\ Promotes(s, advanced, c, new)
  <2>. HIDE DEF content
  <2>. QED BY <1>1, <1>2, <1>6, <1>7, <1>10 DEF Promoted, Promotes
<1>. QED BY <1>6, <1>7, <1>8, <1>11 DEF learnt, advanced, c

\* One observation, of either kind: observe.
LEMMA ObserveOutcome ==
  \A s, profile : \A now \in Nat \ {0} : \A advance, ready \in BOOLEAN : \A r \in observe(s, profile, now, advance, ready) :
    /\ IsState(s)
    /\ Ranked(s)
    /\ IsProfile(profile)
    => Outcome(s, profile, advance, ready, r)
\* Learning and promoting keep the ranking, when the candidate is the latest
\* of all retained identities.
<1>RankKept.
  ASSUME NEW s, IsState(s), Ranked(s), NEW n, IsRecords(Snapshots(n)), NEW c, NEW skipped,
         \A k \in Lookup(n.content) : k.version <= c.version /\ (k.version = c.version => k = c),
         Learns(s, n, c, skipped) \/ Promotes(s, n, c, skipped)
  PROVE Ranked(n)
  <2>. USE <1>RankKept
  <2>. SUFFICES ASSUME NEW k \in DOMAIN Snapshots(n)
       PROVE /\ Snapshots(n)[k].state = "removed" => k.version < Active(n).version
             /\ Snapshots(n)[k].state = "retired" /\ k.version > Active(n).version =>
                  \E p \in KeysIn(n.content, "pending") : p.version > k.version
             /\ Snapshots(n)[k].state = "pending" => Snapshots(n)[k].observedAt # 0
    BY ZenonT(30) DEF Ranked
  <2>1. /\ c \in KeySet /\ c.version \in Nat /\ Active(s).version \in Nat
        /\ c.version > Active(s).version /\ k.version \in Nat
        /\ c \in DOMAIN Snapshots(n) /\ Active(n) \in {c, Active(s)}
    BY DEF Learns, Promotes, NewKeys, KeySet, IsState, Active, IsRecords
  <2>2. ASSUME Snapshots(n)[k].state = "removed"
        PROVE k.version < Active(n).version
    <3>1. k \in DOMAIN Snapshots(s) /\ Snapshots(s)[k].state = "removed"
      BY <2>2 DEF Learns, Promotes, LearntState
    <3>2. k.version < Active(s).version
      BY <3>1 DEF Ranked
    <3>. QED BY <2>1, <3>2
  <2>3. ASSUME Snapshots(n)[k].state = "retired", k.version > Active(n).version
        PROVE \E p \in KeysIn(n.content, "pending") : p.version > k.version
    <3>1. k \in Lookup(n.content)
      BY <2>3 DEF Lookup, DecryptableStates, Snapshots
    <3>2. CASE Promotes(s, n, c, skipped)
      BY <2>1, <2>3, <3>1, <3>2 DEF Promotes
    <3>3. CASE Learns(s, n, c, skipped)
      <4>1. Snapshots(n)[c].state = "pending"
        BY <2>1, <3>3 DEF Learns, LearntState
      <4>2. c.version > k.version
        BY <2>1, <2>3, <3>1, <4>1
      <4>. QED BY <2>1, <4>1, <4>2 DEF KeysIn, Snapshots
    <3>. QED BY <3>2, <3>3
  <2>4. Snapshots(n)[k].state = "pending" => Snapshots(n)[k].observedAt # 0
    BY DEF Learns, Promotes, LearntState
  <2>. QED BY <2>2, <2>3, <2>4
\* observeNewerVersion has one of the outcomes, for every registry and profile.
<1>NewerOutcome.
  ASSUME NEW s, IsState(s), Ranked(s), NEW profile, IsProfile(profile), NewerThan(s, profile),
         NEW now \in Nat \ {0}, NEW advance \in BOOLEAN, NEW ready \in BOOLEAN,
         NEW skipped \in intermediateHistoricalRecords(s.content, profile),
         NEW r \in NewerVersion(s, profile, now, advance, ready, skipped)
  PROVE Outcome(s, profile, advance, ready, r)
  <2>. USE <1>NewerOutcome
  <2>. DEFINE c == KeyOf(profile, profile.latest)
              blocked == profile.minEnc > Active(s).version
              learnt == Learnt(s, profile, now, advance, skipped)
              advanced == Advanced(s, profile, now, learnt)
              new == skipped \ DOMAIN Snapshots(s)
  <2>1. \/ r = Result(s, FALSE, blocked)
        \/ /\ r = Result(advanced, TRUE, FALSE)
           /\ advance /\ (ActivationDelay = 0 \/ ready)
           /\ ValidateStateProgress(s, advanced)
           /\ validateProfileForState(profile, advanced.content)
        \/ /\ r = Result(learnt, TRUE, blocked)
           /\ ValidateStateProgress(s, learnt)
           /\ validateDecryptableState(profile, learnt.content)
    <3>1. Snapshots(learnt) = orderedRecords(Active(s), upsertPendingRecord(s.content, c,
                                pendingRecord(s.content, c, now, advance), skipped, now))
      BY DEF Learnt, NextStateFile, Snapshots
    <3>. QED BY <3>1, Zenon DEF NewerVersion, promotionAllowed, Learnt, Advanced, Active
  <2>2. /\ Learns(s, learnt, c, new) /\ Extends(s, learnt) /\ IsRecords(Snapshots(learnt))
        /\ Promotes(s, advanced, c, new) /\ Extends(s, advanced) /\ IsRecords(Snapshots(advanced))
    BY NewerSteps, Zenon
  <2>3. /\ c \in KeySet /\ c.version = profile.latest /\ new \in SUBSET Identities(profile)
        /\ validateProfile(profile) /\ validateDecryptableState(profile, s.content)
        /\ Active(s) \in KeySet /\ s.generation \in Nat \ {0}
    BY NewerKeys, Zenon DEF NewerThan, IsState, Active
  <2>. HIDE DEF learnt, advanced, new
  <2>4. ASSUME NEW n, n \in {learnt, advanced}, ValidateStateProgress(s, n),
               validateDecryptableState(profile, n.content)
        PROVE IsState(n) /\ Ranked(n)
    <3>1. IsState(n)
      BY <2>2, <2>3, <2>4 DEF IsState, ValidateStateProgress, Learns, Promotes, Extends, Active, Snapshots
    <3>2. \A k \in Lookup(n.content) : k.version <= c.version /\ (k.version = c.version => k = c)
      BY <2>3, <2>4, <3>1, LatestIdentity, Zenon DEF IsState
    <3>. HIDE DEF c
    <3>. QED BY <2>2, <2>4, <3>1, <3>2, <1>RankKept
  <2>5. CASE r = Result(s, FALSE, blocked)
    <3>1. r.state = s /\ r.changed = FALSE /\ r.blocked = blocked /\ blocked \in BOOLEAN
      BY <2>5 DEF Result
    <3>2. Fits(profile, s, blocked)
      BY <2>3 DEF Fits, validateProfile, IsProfile, KeySet
    <3>. HIDE DEF blocked
    <3>. QED BY <3>1, <3>2, Zenon DEF Outcome
  <2>6. CASE /\ r = Result(advanced, TRUE, FALSE)
             /\ advance /\ (ActivationDelay = 0 \/ ready)
             /\ ValidateStateProgress(s, advanced)
             /\ validateProfileForState(profile, advanced.content)
    <3>1. r.state = advanced /\ r.changed = TRUE /\ r.blocked = FALSE
      BY <2>6 DEF Result
    <3>2. validateDecryptableState(profile, advanced.content) /\ profile.minEnc <= Active(advanced).version
      BY <2>6 DEF validateProfileForState, Active
    <3>3. Fits(profile, advanced, FALSE) /\ IsState(advanced) /\ Ranked(advanced)
      BY <2>3, <2>4, <2>6, <3>2 DEF Fits, validateProfile
    <3>. QED BY <2>2, <2>3, <2>6, <3>1, <3>3, Zenon DEF Outcome
  <2>7. CASE /\ r = Result(learnt, TRUE, blocked)
             /\ ValidateStateProgress(s, learnt)
             /\ validateDecryptableState(profile, learnt.content)
    <3>1. r.state = learnt /\ r.changed = TRUE /\ r.blocked = blocked /\ blocked \in BOOLEAN
      BY <2>7 DEF Result
    <3>2. Fits(profile, learnt, blocked)
      BY <2>2, <2>3, <2>7 DEF Fits, validateProfile, IsProfile, KeySet, Learns
    <3>3. IsState(learnt) /\ Ranked(learnt)
      BY <2>4, <2>7
    <3>. HIDE DEF blocked
    <3>. QED BY <2>2, <2>3, <3>1, <3>2, <3>3, Zenon DEF Outcome
  <2>. QED BY <2>1, <2>5, <2>6, <2>7, Zenon
<1>. SUFFICES ASSUME NEW s, IsState(s), Ranked(s), NEW profile, IsProfile(profile),
         NEW now \in Nat \ {0}, NEW advance \in BOOLEAN, NEW ready \in BOOLEAN,
         NEW r \in observe(s, profile, now, advance, ready)
             PROVE Outcome(s, profile, advance, ready, r)
  OBVIOUS
<1>. DEFINE blocked == profile.minEnc > Active(s).version
<1>1. /\ validateProfile(profile) /\ validateDecryptableState(profile, s.content)
      /\ \/ profile.latest <= Active(s).version /\ r = Result(s, FALSE, blocked)
         \/ /\ ~(profile.latest <= Active(s).version)
            /\ \E skipped \in intermediateHistoricalRecords(s.content, profile) :
                 r \in NewerVersion(s, profile, now, advance, ready, skipped)
  BY Zenon DEF observe, Active
<1>2. Active(s).version \in Nat /\ profile.latest \in Nat /\ profile.minEnc \in Nat
  BY DEF IsState, IsProfile, KeySet, Active
<1>3. CASE profile.latest <= Active(s).version /\ r = Result(s, FALSE, blocked)
  <2>1. r.state = s /\ r.changed = FALSE /\ r.blocked = blocked
    BY <1>3 DEF Result
  <2>2. Fits(profile, s, blocked) /\ blocked \in BOOLEAN
    BY <1>1, <1>2 DEF Fits, validateProfile
  <2>. HIDE DEF blocked
  <2>. QED BY <2>1, <2>2, Zenon DEF Outcome
<1>4. CASE /\ ~(profile.latest <= Active(s).version)
           /\ \E skipped \in intermediateHistoricalRecords(s.content, profile) :
                r \in NewerVersion(s, profile, now, advance, ready, skipped)
  <2>1. NewerThan(s, profile)
    BY <1>1, <1>2, <1>4 DEF NewerThan
  <2>. QED BY <1>4, <2>1, <1>NewerOutcome
<1>. QED BY <1>1, <1>3, <1>4, ZenonT(30)

-----------------------------------------------------------------------------
(* A registry is never refused for what an observation made of it.         *)

\* A registry whose identities Transit still holds is never refused, whether
\* observations advance or not.
LEMMA ObserveAccepted ==
  \A s, profile : \A now \in Nat \ {0} : \A advance, ready \in BOOLEAN :
    /\ IsState(s)
    /\ Ranked(s)
    /\ IsProfile(profile)
    /\ validateProfile(profile)
    /\ Listed(profile)
    /\ validateDecryptableState(profile, s.content)
    /\ (\A v \in DOMAIN profile.createdAt : \A w \in v..profile.latest : w \in DOMAIN profile.createdAt)
    => observe(s, profile, now, advance, ready) # {}
\* The observation times decide whether a record's metadata is valid.
<1>SameTimesValid.
  ASSUME NEW r, NEW o, SameTimes(r, o), validateObservationMetadata(r)
  PROVE validateObservationMetadata(o)
  BY <1>SameTimesValid DEF SameTimes, validateObservationMetadata
\* A record is its state and its times, once its position is left out.
<1>SameUnplaced.
  ASSUME NEW r, NEW o, IsRecord(r), IsRecord(o), SameTimes(r, o), o.state = r.state
  PROVE Unplaced(o) = Unplaced(r)
  <2>. USE <1>SameUnplaced
  <2>1. ASSUME NEW x, IsRecord(x)
        PROVE Unplaced(x) = [state |-> x.state, observedAt |-> x.observedAt,
                             stableCount |-> x.stableCount, stableAt |-> x.stableAt,
                             promotedAt |-> x.promotedAt, position |-> 0]
    BY <2>1 DEF IsRecord, Unplaced
  <2>. QED BY <2>1 DEF SameTimes
\* The candidate's record is consistent, whatever the wall clock says.
<1>PendingValid.
  ASSUME NEW content, IsRecords(content.snapshots), NEW candidate, NEW now \in Nat \ {0},
         NEW advance \in BOOLEAN,
         \A k \in DOMAIN content.snapshots : validateObservationMetadata(content.snapshots[k]),
         \A k \in KeysIn(content, "pending") : content.snapshots[k].observedAt # 0
  PROVE validateObservationMetadata(pendingRecord(content, candidate, now, advance))
  <2>. USE <1>PendingValid
  <2>. DEFINE old == IF candidate \in KeysIn(content, "pending")
                     THEN content.snapshots[candidate]
                     ELSE Record("pending", now, 0, 0, 0)
              pending == pendingRecord(content, candidate, now, advance)
              count == IF advance /\ old.stableCount < RequireStableObservationCount
                       THEN old.stableCount + 1 ELSE old.stableCount
              at == IF (advance /\ count >= RequireStableObservationCount) /\ old.stableAt = 0
                    THEN Max2(now, old.observedAt) ELSE old.stableAt
  <2>1. IsRecord(old) /\ validateObservationMetadata(old)
    BY ZenonT(30) DEF IsRecords, IsRecord, Record, KeysIn, validateObservationMetadata
  <2>a. old.observedAt # 0
    BY Zenon DEF Record
  <2>2. pending = [old EXCEPT !.stableCount = count, !.stableAt = at]
    BY DEF pendingRecord
  <2>. HIDE DEF old
  <2>3. count \in Nat /\ (old.stableCount # 0 => count # 0)
    BY <2>1, PolicyAssumption DEF IsRecord
  <2>4. /\ at \in Nat
        /\ at # old.stableAt => at >= old.observedAt /\ count >= RequireStableObservationCount
    BY <2>1 DEF Max2, IsRecord
  <2>. HIDE DEF pending, count, at
  <2>5. /\ pending.observedAt = old.observedAt /\ pending.promotedAt = old.promotedAt
        /\ pending.stableAt = at /\ pending.stableCount = count
    BY <2>1, <2>2, ZenonT(30) DEF IsRecord
  <2>7. at # 0 => count # 0
    BY <2>1, <2>3, <2>4, PolicyAssumption DEF validateObservationMetadata, IsRecord
  <2>8. at # 0 /\ old.observedAt # 0 => at >= old.observedAt
    BY <2>1, <2>4 DEF validateObservationMetadata, IsRecord
  <2>. QED BY <2>1, <2>a, <2>5, <2>7, <2>8 DEF validateObservationMetadata, pending
\* Sorting keeps both.
<1>OrderedConsistent.
  ASSUME NEW a, NEW records, IsRecords(records), Consistent(records)
  PROVE /\ Consistent(orderedRecords(a, records))
        /\ \A k \in DOMAIN records : Unplaced(orderedRecords(a, records)[k]) = Unplaced(records[k])
  <2>. USE <1>OrderedConsistent
  <2>. DEFINE ordered == orderedRecords(a, records)
  <2>1. /\ IsRecords(ordered) /\ DOMAIN ordered = DOMAIN records
        /\ \A k \in DOMAIN records : SameTimes(records[k], ordered[k])
                                     /\ ordered[k].state = records[k].state
    BY OrderedKeeps DEF SameTimes
  <2>. HIDE DEF ordered
  <2>2. \A k \in DOMAIN records : IsRecord(records[k]) /\ IsRecord(ordered[k])
    BY <2>1 DEF IsRecords
  <2>3. Consistent(ordered)
    BY <2>1, <1>SameTimesValid DEF Consistent
  <2>4. \A k \in DOMAIN records : Unplaced(ordered[k]) = Unplaced(records[k])
    BY <2>1, <2>2, <1>SameUnplaced
  <2>. QED BY <2>3, <2>4 DEF ordered
\* upsertPendingRecord keeps valid records valid and removes none that it should keep.
<1>UpsertConsistent.
  ASSUME NEW content, IsRecords(content.snapshots), Consistent(content.snapshots),
         NEW candidate \in KeySet, NEW skipped \in SUBSET KeySet, NEW now \in Nat,
         NEW pending, IsRecord(pending), validateObservationMetadata(pending), NEW a,
         candidate \in DOMAIN content.snapshots => content.snapshots[candidate].state = "pending"
  PROVE LET records == orderedRecords(a,
                         upsertPendingRecord(content, candidate, pending, skipped, now))
        IN Consistent(records) /\ RemovalsKept(content.snapshots, records)
  <2>. USE <1>UpsertConsistent
  <2>. DEFINE old == content.snapshots
              upsert == upsertPendingRecord(content, candidate, pending, skipped, now)
              retire(k) == [old[k] EXCEPT !.state = "retired"]
  <2>1. upsert = [k \in DOMAIN old \union skipped \union {candidate} |->
                    IF k = candidate THEN pending
                    ELSE IF k \notin DOMAIN old THEN Record("retired", now, 0, 0, 0)
                    ELSE IF k \in KeysIn(content, "pending") THEN retire(k)
                    ELSE old[k]]
    BY DEF upsertPendingRecord
  <2>2. ASSUME NEW k \in DOMAIN old PROVE IsRecord(retire(k)) /\ SameTimes(old[k], retire(k))
    <3>1. IsRecord(old[k])
      BY <2>2 DEF IsRecords
    <3>2. ASSUME NEW r, r = [old[k] EXCEPT !.state = "retired"]
          PROVE IsRecord(r) /\ SameTimes(old[k], r)
      <4>. HIDE DEF old
      <4>. QED BY <3>1, <3>2 DEF IsRecord, SameTimes
    <3>. QED BY <3>2
  <2>3. /\ IsRecord(Record("retired", now, 0, 0, 0))
        /\ validateObservationMetadata(Record("retired", now, 0, 0, 0))
    BY DEF IsRecord, Record, validateObservationMetadata
  <2>. HIDE DEF upsert, retire
  <2>4. DOMAIN upsert = DOMAIN old \union skipped \union {candidate}
    BY <2>1
  <2>5. \A k \in DOMAIN upsert : IsRecord(upsert[k])
    BY <2>1, <2>2, <2>3, <2>4 DEF IsRecords
  <2>6. IsRecords(upsert)
    BY <2>1, <2>4, <2>5 DEF IsRecords
  <2>7. \A k \in DOMAIN old : validateObservationMetadata(old[k]) /\ validateObservationMetadata(retire(k))
    BY <2>2, <1>SameTimesValid DEF Consistent
  <2>8. Consistent(upsert)
    BY <2>1, <2>3, <2>4, <2>7 DEF Consistent
  <2>9. \A k \in DOMAIN old : old[k].state = "removed" => upsert[k] = old[k]
    BY <2>1 DEF KeysIn
  <2>. DEFINE records == orderedRecords(a, upsert)
  <2>10. /\ Consistent(records)
         /\ \A k \in DOMAIN upsert : Unplaced(records[k]) = Unplaced(upsert[k])
    BY <2>6, <2>8, <1>OrderedConsistent
  <2>11. RemovalsKept(old, records)
    BY <2>4, <2>9, <2>10 DEF RemovalsKept
  <2>. QED BY <2>10, <2>11 DEF upsert
\* So does promoting it.
<1>PromoteConsistent.
  ASSUME NEW content, NEW candidate, NEW records, IsRecords(records), Consistent(records),
         NEW now \in Nat, NEW a,
         candidate \in DOMAIN records, content.activeKeyID \in DOMAIN records,
         candidate # content.activeKeyID
  PROVE LET promoted == orderedRecords(a, promotePendingRecord(content, candidate, records, now))
        IN /\ Consistent(promoted)
           /\ \A k \in DOMAIN records \ {candidate, content.activeKeyID} :
                Unplaced(promoted[k]) = Unplaced(records[k])
  <2>. USE <1>PromoteConsistent
  <2>. DEFINE pending == records[candidate]
              old == records[content.activeKeyID]
              at == Max2(now, Max2(pending.observedAt, pending.stableAt))
              new == [pending EXCEPT !.state = "active", !.promotedAt = at]
              was == Record("retired", old.observedAt, 0, 0, old.promotedAt)
              promote == promotePendingRecord(content, candidate, records, now)
  <2>1. promote = [records EXCEPT ![candidate] = new, ![content.activeKeyID] = was]
    BY DEF promotePendingRecord
  <2>2. /\ IsRecord(pending) /\ validateObservationMetadata(pending)
        /\ IsRecord(old) /\ validateObservationMetadata(old)
    BY DEF IsRecords, Consistent
  <2>3. at \in Nat /\ at >= pending.observedAt
    BY <2>2 DEF IsRecord, Max2
  <2>4. IsRecord(was) /\ validateObservationMetadata(was)
    BY <2>2 DEF IsRecord, Record, validateObservationMetadata
  <2>. HIDE DEF pending, old, at
  <2>a. new = [pending EXCEPT !.state = "active", !.promotedAt = at]
    OBVIOUS
  <2>. HIDE DEF new, was, promote
  <2>5. /\ IsRecord(new) /\ new.observedAt = pending.observedAt /\ new.stableAt = pending.stableAt
        /\ new.stableCount = pending.stableCount /\ new.promotedAt = at
    BY <2>a, <2>2, <2>3, ZenonT(30) DEF IsRecord
  <2>6. validateObservationMetadata(new)
    BY <2>2, <2>3, <2>5, Zenon DEF validateObservationMetadata
  <2>7. DOMAIN promote = DOMAIN records
    BY <2>1
  <2>8. \A k \in DOMAIN records : promote[k] = IF k = candidate THEN new
                                            ELSE IF k = content.activeKeyID THEN was
                                            ELSE records[k]
    BY <2>1 DEF IsRecords
  <2>9. \A k \in DOMAIN promote : IsRecord(promote[k])
    BY <2>4, <2>5, <2>7, <2>8 DEF IsRecords
  <2>10. promote = [k \in DOMAIN promote |-> promote[k]]
    BY <2>1, Zenon
  <2>11. IsRecords(promote)
    BY <2>7, <2>9, <2>10 DEF IsRecords
  <2>12. Consistent(promote)
    BY <2>4, <2>6, <2>7, <2>8, ZenonT(30) DEF Consistent
  <2>13. /\ Consistent(orderedRecords(a, promote))
         /\ \A k \in DOMAIN promote : Unplaced(orderedRecords(a, promote)[k]) = Unplaced(promote[k])
    BY <2>11, <2>12, <1>OrderedConsistent
  <2>14. \A k \in DOMAIN records \ {candidate, content.activeKeyID} : promote[k] = records[k]
    BY <2>8
  <2>. QED BY <2>7, <2>13, <2>14 DEF promote
\* The registry that an observation makes passes its own checks.
<1>StepAccepted.
  ASSUME NEW s, IsState(s), NEW profile, IsProfile(profile), Listed(profile),
         validateDecryptableState(profile, s.content),
         NEW n, Extends(s, n), IsRecords(Snapshots(n)), Consistent(Snapshots(n)),
         RemovalsKept(Snapshots(s), Snapshots(n)),
         NEW c \in Identities(profile), NEW skipped \in SUBSET Identities(profile),
         Learns(s, n, c, skipped) \/ Promotes(s, n, c, skipped)
  PROVE ValidateStateProgress(s, n) /\ validateDecryptableState(profile, n.content)
  <2>. USE <1>StepAccepted
  <2>1. /\ Active(s) \in KeySet /\ Active(s).version \in Nat /\ s.generation \in Nat
        /\ c.version > Active(s).version /\ c.version \in Nat /\ Active(n) \in {c, Active(s)}
    BY DEF IsState, KeySet, Active, Learns, Promotes, NewKeys
  <2>2. /\ Active(s) \in DOMAIN Snapshots(s)
        /\ \A k \in DOMAIN Snapshots(s) : Snapshots(s)[k].state = "active" <=> k = Active(s)
    BY ActiveKnown, Zenon
  <2>3. \A k \in DOMAIN Snapshots(s) :
          /\ k \in DOMAIN Snapshots(n)
          /\ k = c => Snapshots(s)[k].state = "pending"
          /\ Snapshots(s)[k].state = "removed" => Snapshots(n)[k].state = "removed"
          /\ Snapshots(s)[k].state = "pending" => Snapshots(n)[k].state \in {"active", "pending", "retired"}
          /\ Snapshots(s)[k].state \in {"active", "retired"} => Snapshots(n)[k].state \in {"active", "retired"}
    <3>1. CASE Learns(s, n, c, skipped)
      BY <3>1, ZenonT(30) DEF Learns, NewKeys, LearntState
    <3>2. CASE Promotes(s, n, c, skipped)
      BY <2>2, <3>2, ZenonT(30) DEF Promotes, NewKeys, LearntState
    <3>. QED BY <3>1, <3>2, ZenonT(30)
  <2>4. \A k \in DOMAIN Snapshots(n) : Snapshots(n)[k].state = "active" <=> k = Active(n)
    <3>1. ASSUME Learns(s, n, c, skipped), NEW k \in DOMAIN Snapshots(n)
          PROVE Snapshots(n)[k].state = "active" <=> k = Active(n)
      <4>1. Active(n) = Active(s) /\ c # Active(s)
        BY <2>1, <3>1 DEF Learns
      <4>2. Snapshots(n)[k].state = LearntState(s, c, k)
        BY <3>1, ZenonT(30) DEF Learns
      <4>. QED BY <2>2, <4>1, <4>2, ZenonT(30) DEF LearntState
    <3>2. ASSUME Promotes(s, n, c, skipped), NEW k \in DOMAIN Snapshots(n)
          PROVE Snapshots(n)[k].state = "active" <=> k = Active(n)
      BY <2>1, <2>2, <3>2, ZenonT(30) DEF Promotes, LearntState
    <3>. QED BY <3>1, <3>2, ZenonT(30)
  <2>5. Active(n) \in DOMAIN Snapshots(n)
    BY <2>1, <2>2, ZenonT(30) DEF Learns, Promotes
  <2>6. Validate(n.content) /\ Validate(s.content)
    BY <2>4, <2>5, ZenonT(30) DEF Validate, KeysIn, Consistent, Active, Snapshots, IsState
  <2>7. validateRetainedSnapshots(s.content, n.content)
    BY <2>3, Zenon DEF validateRetainedSnapshots, RemovalsKept, Snapshots, DecryptableStates
  <2>8. ValidateStateProgress(s, n)
    BY <2>1, <2>6, <2>7 DEF ValidateStateProgress, Extends, Active
  <2>9. ASSUME NEW k \in Lookup(n.content)
        PROVE /\ profile.minAvail <= k.version /\ profile.minDec <= k.version
              /\ k.version \in DOMAIN profile.createdAt
              /\ profile.createdAt[k.version] = k.createdAt
    <3>1. k \in DOMAIN Snapshots(n) /\ Snapshots(n)[k].state \in DecryptableStates
      BY <2>9 DEF Lookup, Snapshots
    <3>2. CASE k \in DOMAIN Snapshots(s)
      <4>1. Snapshots(s)[k].state \in {"active", "pending", "retired", "removed"}
        BY <3>2, ZenonT(30) DEF IsState, IsRecords, IsRecord, Snapshots
      <4>2. k \in Lookup(s.content)
        BY <2>3, <3>1, <3>2, <4>1, ZenonT(30) DEF Lookup, DecryptableStates, Snapshots
      <4>. QED BY <4>2, Zenon DEF validateDecryptableState
    <3>3. CASE k \notin DOMAIN Snapshots(s)
      <4>1. k \in skipped \union {c}
        BY <3>1, <3>3, ZenonT(30) DEF Learns, Promotes
      <4>2. PICK v \in DOMAIN profile.createdAt : k = KeyOf(profile, v)
        BY <4>1 DEF Identities
      <4>3. k.version = v /\ k.createdAt = profile.createdAt[v] /\ v \in Nat
        BY <4>2 DEF KeyOf, IsProfile
      <4>4. k.version > Active(s).version
        BY <4>1, ZenonT(30) DEF Learns, Promotes, NewKeys
      <4>5. profile.minDec <= Active(s).version /\ profile.minDec \in Nat
        BY <2>2, ZenonT(30) DEF validateDecryptableState, Lookup, DecryptableStates, Snapshots, IsProfile
      <4>. QED BY <2>1, <4>2, <4>3, <4>4, <4>5 DEF Listed
    <3>. QED BY <3>2, <3>3, ZenonT(30)
  <2>. QED BY <2>8, <2>9, ZenonT(30) DEF validateDecryptableState
\* What observeNewerVersion makes is consistent.
<1>NewerConsistent.
  ASSUME NEW s, IsState(s), Ranked(s), NEW profile, IsProfile(profile), NewerThan(s, profile),
         NEW now \in Nat \ {0}, NEW advance \in BOOLEAN,
         NEW skipped \in intermediateHistoricalRecords(s.content, profile)
  PROVE LET learnt == Learnt(s, profile, now, advance, skipped)
            advanced == Advanced(s, profile, now, learnt)
        IN /\ Consistent(Snapshots(learnt)) /\ RemovalsKept(Snapshots(s), Snapshots(learnt))
           /\ Consistent(Snapshots(advanced)) /\ RemovalsKept(Snapshots(s), Snapshots(advanced))
  <2>. USE <1>NewerConsistent
  <2>. DEFINE content == s.content
              c == KeyOf(profile, profile.latest)
              pending == pendingRecord(content, c, now, advance)
              records == orderedRecords(Active(s),
                           upsertPendingRecord(content, c, pending, skipped, now))
              learnt == Learnt(s, profile, now, advance, skipped)
              after == orderedRecords(c, promotePendingRecord(content, c, Snapshots(learnt), now))
              advanced == Advanced(s, profile, now, learnt)
  <2>1. /\ Snapshots(learnt) = records /\ Snapshots(advanced) = after
        /\ IsRecords(content.snapshots) /\ Consistent(content.snapshots)
        /\ content.activeKeyID = Active(s) /\ content.snapshots = Snapshots(s)
    <3>1. Snapshots(learnt) = records
      BY DEF Learnt, NextStateFile, Snapshots
    <3>2. Snapshots(advanced) = after
      <4>. HIDE DEF learnt
      <4>. QED BY DEF Advanced, NextStateFile, Snapshots
    <3>3. /\ IsRecords(content.snapshots) /\ Consistent(content.snapshots)
          /\ content.activeKeyID = Active(s) /\ content.snapshots = Snapshots(s)
      BY DEF Snapshots, IsState, Active, Validate, Consistent
    <3>. QED BY <3>1, <3>2, <3>3, ZenonT(30)
  <2>2. /\ c \in KeySet /\ skipped \in SUBSET KeySet
        /\ NewKeys(s, c, skipped \ DOMAIN Snapshots(s))
    BY NewerKeys, ZenonT(30)
  <2>3. IsRecords(records) /\ DOMAIN Snapshots(s) \subseteq DOMAIN records /\ c \in DOMAIN records
    <3>1. /\ Learns(s, learnt, c, skipped \ DOMAIN Snapshots(s))
          /\ IsRecords(Snapshots(learnt))
      BY NewerSteps, ZenonT(30)
    <3>. HIDE DEF learnt, records, c
    <3>. QED BY <2>1, <3>1, ZenonT(30) DEF Learns
  <2>4. /\ c \in DOMAIN content.snapshots => content.snapshots[c].state = "pending"
        /\ \A k \in KeysIn(content, "pending") : content.snapshots[k].observedAt # 0
    BY <2>1, <2>2, ZenonT(30) DEF NewKeys, Ranked, KeysIn
  <2>5. Active(s) \in DOMAIN records /\ c # Active(s) /\ Snapshots(s)[Active(s)].state = "active"
    <3>1. Active(s).version \in Nat /\ c.version > Active(s).version
      BY <2>2, ZenonT(30) DEF NewKeys, IsState, Active, KeySet
    <3>. QED BY <2>3, <3>1, ActiveKnown
  <2>. HIDE DEF c, content
  <2>6. IsRecord(pending) /\ validateObservationMetadata(pending)
    BY <2>1, <2>4, PendingKeeps, <1>PendingValid, ZenonT(30) DEF Consistent
  <2>. HIDE DEF pending
  <2>7. Consistent(records) /\ RemovalsKept(content.snapshots, records)
    BY <2>1, <2>2, <2>4, <2>6, <1>UpsertConsistent, ZenonT(30)
  <2>. HIDE DEF records
  <2>8. /\ Consistent(after)
        /\ \A k \in DOMAIN records \ {c, Active(s)} : Unplaced(after[k]) = Unplaced(records[k])
    <3>1. after = orderedRecords(c, promotePendingRecord(content, c, records, now))
      BY <2>1
    <3>. HIDE DEF after
    <3>. QED BY <2>1, <2>3, <2>5, <2>7, <3>1, <1>PromoteConsistent
  <2>. HIDE DEF after
  <2>9. RemovalsKept(Snapshots(s), after)
    BY <2>1, <2>3, <2>4, <2>5, <2>7, <2>8, ZenonT(30) DEF RemovalsKept
  <2>. QED BY <2>1, <2>7, <2>8, <2>9, ZenonT(30)
\* observeNewerVersion has an answer.
<1>NewerAccepted.
  ASSUME NEW s, IsState(s), Ranked(s), NEW profile, IsProfile(profile), NewerThan(s, profile),
         Listed(profile), NEW now \in Nat \ {0}, NEW advance \in BOOLEAN, NEW ready \in BOOLEAN,
         NEW skipped \in intermediateHistoricalRecords(s.content, profile)
  PROVE NewerVersion(s, profile, now, advance, ready, skipped) # {}
  <2>. USE <1>NewerAccepted
  <2>. DEFINE c == KeyOf(profile, profile.latest)
              learnt == Learnt(s, profile, now, advance, skipped)
              advanced == Advanced(s, profile, now, learnt)
              new == skipped \ DOMAIN Snapshots(s)
  <2>1. /\ Learns(s, learnt, c, new) /\ Extends(s, learnt) /\ IsRecords(Snapshots(learnt))
        /\ Promotes(s, advanced, c, new) /\ Extends(s, advanced) /\ IsRecords(Snapshots(advanced))
    BY NewerSteps, ZenonT(30)
  <2>2. /\ Consistent(Snapshots(learnt)) /\ RemovalsKept(Snapshots(s), Snapshots(learnt))
        /\ Consistent(Snapshots(advanced)) /\ RemovalsKept(Snapshots(s), Snapshots(advanced))
    BY <1>NewerConsistent
  <2>3. /\ c \in Identities(profile) /\ new \in SUBSET Identities(profile)
        /\ c.version = profile.latest
        /\ validateDecryptableState(profile, s.content) /\ profile.minEnc <= profile.latest
        /\ c \in DOMAIN s.content.snapshots => c \in KeysIn(s.content, "pending")
    BY NewerKeys, ZenonT(30) DEF NewerThan, NewKeys, validateProfile, KeysIn, Snapshots
  <2>4. Snapshots(learnt) = orderedRecords(Active(s), upsertPendingRecord(s.content, c,
                              pendingRecord(s.content, c, now, advance), skipped, now))
    BY DEF Learnt, NextStateFile, Snapshots
  <2>5. \/ NewerVersion(s, profile, now, advance, ready, skipped) # {}
        \/ ~(/\ ValidateStateProgress(s, advanced)
             /\ validateProfileForState(profile, advanced.content))
        \/ ~(/\ c \in DOMAIN s.content.snapshots => c \in KeysIn(s.content, "pending")
             /\ ValidateStateProgress(s, learnt)
             /\ validateDecryptableState(profile, learnt.content))
    BY <2>4, ZenonT(30) DEF NewerVersion, Learnt, Advanced, Active
  <2>. HIDE DEF learnt, advanced, new, c
  <2>6. ValidateStateProgress(s, learnt) /\ validateDecryptableState(profile, learnt.content)
    BY <2>1, <2>2, <2>3, <1>StepAccepted, ZenonT(30)
  <2>7. ValidateStateProgress(s, advanced) /\ validateDecryptableState(profile, advanced.content)
    BY <2>1, <2>2, <2>3, <1>StepAccepted, ZenonT(30)
  <2>8. validateProfileForState(profile, advanced.content)
    BY <2>1, <2>3, <2>7, ZenonT(30) DEF validateProfileForState, Promotes, Active
  <2>. QED BY <2>3, <2>5, <2>6, <2>7, <2>8, Zenon
<1>. SUFFICES ASSUME NEW s, IsState(s), Ranked(s), NEW profile, IsProfile(profile), validateProfile(profile),
         Listed(profile), validateDecryptableState(profile, s.content),
         \A v \in DOMAIN profile.createdAt : \A w \in v..profile.latest : w \in DOMAIN profile.createdAt,
         NEW now \in Nat \ {0}, NEW advance \in BOOLEAN, NEW ready \in BOOLEAN
             PROVE observe(s, profile, now, advance, ready) # {}
  OBVIOUS
<1>1. /\ Active(s).version \in DOMAIN profile.createdAt /\ Active(s).version \in Nat
      /\ profile.latest \in Nat /\ Active(s).version <= profile.latest /\ Validate(s.content)
  BY ActiveKnown DEF validateDecryptableState, Lookup, DecryptableStates, Snapshots, IsProfile,
                     validateProfile, IsState
<1>2. CASE profile.latest <= Active(s).version
  <2>1. ~(RejectVersionRollback /\ profile.latest < Active(s).version)
    BY <1>1
  <2>. QED BY <1>1, <1>2, <2>1, Zenon DEF observe, Active
<1>3. CASE ~(profile.latest <= Active(s).version)
  <2>1. NewerThan(s, profile)
    BY <1>1, <1>3 DEF NewerThan
  <2>2. (Active(s).version + 1)..(profile.latest - 1) \subseteq DOMAIN profile.createdAt
    BY <1>1
  <2>3. PICK skipped : skipped \in intermediateHistoricalRecords(s.content, profile)
    BY <2>2, Zenon DEF intermediateHistoricalRecords, Active
  <2>4. PICK r : r \in NewerVersion(s, profile, now, advance, ready, skipped)
    BY <2>1, <2>3, <1>NewerAccepted
  <2>5. ~(RejectVersionRollback /\ profile.latest < Active(s).version)
    BY <1>1
  <2>6. r \in observe(s, profile, now, advance, ready)
    BY <1>1, <1>3, <2>3, <2>4, <2>5, ZenonT(30) DEF observe, Active
  <2>. QED BY <2>6, ZenonT(30)
<1>. QED BY <1>2, <1>3

-----------------------------------------------------------------------------
(* Bootstrap and the operator commands.                                    *)

\* Without local state, the only version becomes active.
LEMMA BootstrapOutcome ==
  ASSUME NEW profile, IsProfile(profile), AssessAutoBootstrapState(profile), NEW now \in Nat,
         NEW n \in RebuildState(profile, now)
  PROVE Bootstrapped(profile, n)
<1>. DEFINE a == KeyOf(profile, profile.latest)
            record == Record("active", now, 0, 0, now)
            records == [k \in {a} |-> record]
<1>1. profile.latest = 1 /\ a.version = 1
  BY DEF AssessAutoBootstrapState, KeyOf
<1>2. (IF profile.minAvail = 0 THEN 1 ELSE profile.minAvail)..profile.latest = {1}
  BY <1>1 DEF AssessAutoBootstrapState, IsProfile
<1>3. {KeyOf(profile, v) : v \in {1}} = {a}
  BY <1>1
<1>4. [k \in {a} |-> IF k = a THEN record ELSE Record("retired", now, 0, 0, 0)] = records
  OBVIOUS
<1>5. /\ n = FirstStateFile(a, orderedRecords(a, records))
      /\ validateProfile(profile) /\ validateProfileForState(profile, n.content)
  BY <1>2, <1>3, <1>4, ZenonT(30) DEF RebuildState
<1>6. a \in KeySet /\ a \in Identities(profile)
  BY <1>5, ZenonT(30) DEF KeyOf, KeySet, IsProfile, validateProfile, Identities
<1>7. IsRecord(record) /\ record.state = "active"
  BY DEF Record, IsRecord
<1>. HIDE DEF a, record
<1>8. IsRecords(records) /\ DOMAIN records = {a} /\ records[a] = record
  BY <1>6, <1>7 DEF IsRecords
<1>. HIDE DEF records
<1>. DEFINE ordered == orderedRecords(a, records)
<1>9. /\ IsRecords(ordered) /\ DOMAIN ordered = {a}
      /\ ordered[a].state = "active" /\ ordered[a].observedAt = record.observedAt
      /\ ordered[a].stableCount = record.stableCount /\ ordered[a].stableAt = record.stableAt
      /\ ordered[a].promotedAt = record.promotedAt
  BY <1>7, <1>8, OrderedKeeps
<1>. HIDE DEF ordered
<1>10. n.generation = 1 /\ n.content = [activeKeyID |-> a, snapshots |-> ordered]
  BY <1>5 DEF FirstStateFile, ordered
<1>11. validateObservationMetadata(ordered[a])
  BY <1>9 DEF validateObservationMetadata, record, Record
<1>12. Validate(n.content)
  BY <1>9, <1>10, <1>11 DEF Validate, KeysIn
<1>13. IsState(n)
  BY <1>6, <1>9, <1>10, <1>12 DEF IsState
<1>14. Active(n) = a /\ Snapshots(n) = ordered
  BY <1>10 DEF Active, Snapshots
<1>15. Ranked(n)
  BY <1>9, <1>14, ZenonT(30) DEF Ranked
<1>16. Fits(profile, n, FALSE)
  BY <1>5, <1>14, ZenonT(30) DEF Fits, validateProfileForState, validateProfile, Active
<1>. QED BY <1>6, <1>9, <1>13, <1>14, <1>15, <1>16, ZenonT(30) DEF Bootstrapped

\* Changing the state of some records in place.
LEMMA RestateMoves ==
  ASSUME NEW s, IsState(s), NEW keys, NEW from, NEW to \in {"retired", "removed"},
         \A k \in keys : /\ k \in DOMAIN Snapshots(s) /\ Snapshots(s)[k].state = from
                         /\ k.version < Active(s).version
  PROVE LET n == Restate(s, keys, to)
        IN /\ Moves(s, n, keys, from, to)
           /\ Extends(s, n) /\ n.generation \in Nat \ {0}
           /\ IsRecords(Snapshots(n))
<1>. DEFINE records == Snapshots(s)
            moved(k) == [records[k] EXCEPT !.state = to]
            after == [k \in DOMAIN records |-> IF k \in keys THEN moved(k) ELSE records[k]]
            n == Restate(s, keys, to)
<1>1. /\ Active(n) = Active(s) /\ Snapshots(n) = after
      /\ n.generation = s.generation + 1 /\ n.previousHash = computeHash(s)
  BY DEF Restate, NextStateFile, Active, Snapshots
<1>2. IsRecords(records) /\ s.generation \in Nat \ {0}
  BY DEF IsState, Snapshots
<1>3. ASSUME NEW k \in DOMAIN records
      PROVE /\ IsRecord(moved(k)) /\ moved(k).state = to
            /\ moved(k).observedAt = records[k].observedAt
  <2>1. IsRecord(records[k])
    BY <1>2, <1>3 DEF IsRecords
  <2>2. ASSUME NEW r, r = [records[k] EXCEPT !.state = to]
        PROVE IsRecord(r) /\ r.state = to /\ r.observedAt = records[k].observedAt
    <3>. HIDE DEF records
    <3>. QED BY <2>1, <2>2 DEF IsRecord
  <2>. QED BY <2>2
<1>. HIDE DEF records, moved, n
<1>4. DOMAIN after = DOMAIN records
  OBVIOUS
<1>5. IsRecords(after)
  BY <1>2, <1>3, <1>4 DEF IsRecords
<1>6. \A k \in DOMAIN records :
        /\ after[k].state = IF k \in keys THEN to ELSE records[k].state
        /\ after[k].observedAt = records[k].observedAt
  BY <1>3, ZenonT(30)
<1>. HIDE DEF after
<1>7. Moves(s, n, keys, from, to)
  BY <1>1, <1>4, <1>6, ZenonT(30) DEF Moves, records
<1>. QED BY <1>1, <1>2, <1>5, <1>7 DEF Extends, n

\* A restatement that validates is what Retire or Restore may commit.
LEMMA MoveManaged ==
  ASSUME NEW s, IsState(s), Ranked(s), NEW n, NEW keys,
         Moves(s, n, keys, "retired", "removed") \/ Moves(s, n, keys, "removed", "retired"),
         Extends(s, n), n.generation \in Nat \ {0}, IsRecords(Snapshots(n)), Validate(n.content)
  PROVE Managed(s, n)
<1>1. keys \in SUBSET DOMAIN Snapshots(s)
  BY ZenonT(30) DEF Moves
<1>2. IsState(n)
  BY ZenonT(30) DEF IsState, Moves, Active, Snapshots
<1>3. \A p \in KeysIn(s.content, "pending") : p \in KeysIn(n.content, "pending")
  BY <1>1, ZenonT(30) DEF Moves, KeysIn, Snapshots
<1>4. ASSUME NEW k \in DOMAIN Snapshots(n)
      PROVE /\ Snapshots(n)[k].state = "removed" => k.version < Active(n).version
            /\ Snapshots(n)[k].state = "retired" /\ k.version > Active(n).version =>
                 \E p \in KeysIn(n.content, "pending") : p.version > k.version
            /\ Snapshots(n)[k].state = "pending" => Snapshots(n)[k].observedAt # 0
  <2>1. k \in DOMAIN Snapshots(s) /\ Active(n) = Active(s)
    BY <1>4, ZenonT(30) DEF Moves
  <2>2. /\ Snapshots(s)[k].state = "removed" => k.version < Active(n).version
        /\ Snapshots(s)[k].state = "retired" /\ k.version > Active(n).version =>
             \E p \in KeysIn(n.content, "pending") : p.version > k.version
        /\ Snapshots(s)[k].state = "pending" => Snapshots(s)[k].observedAt # 0
    BY <1>3, <2>1, ZenonT(30) DEF Ranked
  <2>3. k.version \in Nat /\ Active(n).version \in Nat
    BY <1>2, <2>1, ZenonT(30) DEF IsState, IsRecords, KeySet, Active, Snapshots
  <2>4. CASE k \in keys
    BY <1>1, <2>1, <2>3, <2>4 DEF Moves
  <2>5. CASE k \notin keys
    <3>1. /\ Snapshots(n)[k].state = Snapshots(s)[k].state
          /\ Snapshots(n)[k].observedAt = Snapshots(s)[k].observedAt
      BY <2>1, <2>5, ZenonT(30) DEF Moves
    <3>. QED BY <2>2, <3>1, Zenon
  <2>. QED BY <2>4, <2>5, ZenonT(30)
<1>5. Ranked(n)
  BY <1>4, ZenonT(30) DEF Ranked
<1>. QED BY <1>1, <1>2, <1>5 DEF Managed

\* RetireVersions only moves retired records to removed.
LEMMA RetireManaged ==
  ASSUME NEW s, IsState(s), Ranked(s), NEW before \in Nat, NEW n \in RetireVersions(s, before),
         Validate(n.content)
  PROVE Managed(s, n)
<1>. DEFINE keys == {k \in KeysIn(s.content, "retired") : k.version < before}
<1>1. before <= Active(s).version /\ Active(s).version \in Nat
  BY DEF RetireVersions, IsState, KeySet, Active
<1>2. n = s \/ n = Restate(s, keys, "removed")
  BY Zenon DEF RetireVersions
<1>3. \A k \in keys : /\ k \in DOMAIN Snapshots(s) /\ Snapshots(s)[k].state = "retired"
                      /\ k.version < Active(s).version
  BY <1>1 DEF KeysIn, Snapshots, IsState, IsRecords, KeySet
<1>. HIDE DEF keys
<1>4. CASE n = s
  BY <1>4 DEF Managed
<1>5. CASE n = Restate(s, keys, "removed")
  <2>1. /\ Moves(s, n, keys, "retired", "removed") /\ Extends(s, n)
        /\ n.generation \in Nat \ {0} /\ IsRecords(Snapshots(n))
    BY <1>3, <1>5, RestateMoves, ZenonT(30)
  <2>. QED BY <2>1, MoveManaged
<1>. QED BY <1>2, <1>4, <1>5

\* RestoreVersions only moves removed records back to retired.
LEMMA RestoreManaged ==
  ASSUME NEW s, IsState(s), Ranked(s), NEW versions \in SUBSET Nat,
         NEW n \in RestoreVersions(s, versions), Validate(n.content)
  PROVE Managed(s, n)
<1>. DEFINE records == Snapshots(s)
            keys == {k \in DOMAIN records :
                       /\ k.version \in versions
                       /\ \A j \in DOMAIN records :
                            j.version = k.version =>
                              records[j].position >= records[k].position}
<1>1. /\ n = Restate(s, keys, "retired")
      /\ \A k \in keys : records[k].state = "removed"
  BY ZenonT(30) DEF RestoreVersions, Snapshots
<1>2. \A k \in keys : /\ k \in DOMAIN Snapshots(s) /\ Snapshots(s)[k].state = "removed"
                      /\ k.version < Active(s).version
  BY <1>1, ZenonT(30) DEF Ranked
<1>. HIDE DEF keys
<1>3. /\ Moves(s, n, keys, "removed", "retired") /\ Extends(s, n)
      /\ n.generation \in Nat \ {0} /\ IsRecords(Snapshots(n))
  BY <1>1, <1>2, RestateMoves, Zenon
<1>. QED BY <1>3, MoveManaged

=============================================================================
