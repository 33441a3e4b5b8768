--------------------------- MODULE RegistrySteps ----------------------------
(***************************************************************************)
(* The shape of a registry and what one observation, one bootstrap and one *)
(* operator command may do to it: the vocabulary of RotationProofs and of  *)
(* the proofs about the node.                                              *)
(***************************************************************************)
EXTENDS Rotation

KeySet == [version : Nat, createdAt : Nat]

IsRecord(r) ==
  /\ r = [state |-> r.state, observedAt |-> r.observedAt, stableCount |-> r.stableCount,
          stableAt |-> r.stableAt, promotedAt |-> r.promotedAt, position |-> r.position]
  /\ r.state \in {"active", "pending", "retired", "removed"}
  /\ r.observedAt \in Nat /\ r.stableCount \in Nat
  /\ r.stableAt \in Nat /\ r.promotedAt \in Nat

IsRecords(records) ==
  /\ records = [k \in DOMAIN records |-> records[k]]
  /\ DOMAIN records \subseteq KeySet
  /\ \A k \in DOMAIN records : IsRecord(records[k])

\* A state file that validates.
IsState(s) ==
  /\ s.generation \in Nat \ {0}
  /\ s.content.activeKeyID \in KeySet
  /\ IsRecords(s.content.snapshots)
  /\ Validate(s.content)

IsProfile(p) ==
  /\ p.latest \in Nat /\ p.minAvail \in Nat /\ p.minDec \in Nat /\ p.minEnc \in Nat
  /\ \A v \in DOMAIN p.createdAt : v \in Nat /\ p.createdAt[v] \in Nat

-----------------------------------------------------------------------------
(* The steps of a registry.                                                *)

\* upsertPendingRecord: the candidate is pending, any other pending record and
\* every skipped version is retired, and the rest stays.
Upserted(content, candidate, pending, skipped, records) ==
  /\ IsRecords(records)
  /\ DOMAIN records = DOMAIN content.snapshots \union skipped \union {candidate}
  /\ \A k \in DOMAIN records :
       records[k].state =
         IF k = candidate THEN pending.state
         ELSE IF \/ k \notin DOMAIN content.snapshots
                 \/ content.snapshots[k].state = "pending"
         THEN "retired" ELSE content.snapshots[k].state
  /\ records[candidate].stableAt = pending.stableAt
  /\ records[candidate].observedAt = pending.observedAt

\* promotePendingRecord: the candidate is active, the active key is retired and
\* the rest stays.
Promoted(content, candidate, records, promoted) ==
  /\ IsRecords(promoted)
  /\ DOMAIN promoted = DOMAIN records
  /\ \A k \in DOMAIN records :
       promoted[k].state = IF k = candidate THEN "active"
                           ELSE IF k = content.activeKeyID THEN "retired"
                           ELSE records[k].state

Active(s) == s.content.activeKeyID

Snapshots(s) == s.content.snapshots

\* What becomes of a key when a candidate is learnt.
LearntState(s, candidate, k) ==
  IF k = candidate THEN "pending"
  ELSE IF k \notin DOMAIN Snapshots(s) \/ Snapshots(s)[k].state = "pending" THEN "retired"
  ELSE Snapshots(s)[k].state

\* A candidate is newer than the active key and was never given up, and what
\* is skipped on the way to it is new.
NewKeys(s, candidate, skipped) ==
  /\ candidate \in DOMAIN Snapshots(s) => Snapshots(s)[candidate].state = "pending"
  /\ skipped \intersect DOMAIN Snapshots(s) = {}
  /\ \A k \in skipped \union {candidate} : k \in KeySet /\ k.version > Active(s).version

Learns(s, n, candidate, skipped) ==
  /\ NewKeys(s, candidate, skipped)
  /\ Active(n) = Active(s)
  /\ DOMAIN Snapshots(n) = DOMAIN Snapshots(s) \union skipped \union {candidate}
  /\ \A k \in DOMAIN Snapshots(n) : Snapshots(n)[k].state = LearntState(s, candidate, k)
  /\ candidate \in DOMAIN Snapshots(s) /\ Snapshots(s)[candidate].stableAt # 0
       => Snapshots(n)[candidate].stableAt # 0
  /\ Snapshots(n)[candidate].observedAt # 0

Promotes(s, n, candidate, skipped) ==
  /\ NewKeys(s, candidate, skipped)
  /\ Active(n) = candidate
  /\ DOMAIN Snapshots(n) = DOMAIN Snapshots(s) \union skipped \union {candidate}
  /\ \A k \in DOMAIN Snapshots(n) :
       Snapshots(n)[k].state = IF k = candidate THEN "active"
                               ELSE IF k = Active(s) THEN "retired"
                               ELSE LearntState(s, candidate, k)

\* Removed versions are older than the active one.  A retired version that is
\* newer has been superseded by a candidate that is newer still.  A candidate
\* has the time of its first observation.
Ranked(s) ==
  \A k \in DOMAIN Snapshots(s) :
    LET state == Snapshots(s)[k].state
    IN /\ state = "removed" => k.version < Active(s).version
       /\ state = "retired" /\ k.version > Active(s).version =>
            \E p \in KeysIn(s.content, "pending") : p.version > k.version
       /\ state = "pending" => Snapshots(s)[k].observedAt # 0

\* The profile allows every use of the registry, encryption unless blocked.
Fits(profile, s, blocked) ==
  /\ profile.usable
  /\ validateDecryptableState(profile, s.content)
  /\ ~blocked => profile.minEnc <= Active(s).version

\* The identities of a profile.
Identities(profile) == {KeyOf(profile, v) : v \in DOMAIN profile.createdAt}

Extends(s, n) == n.generation = s.generation + 1 /\ n.previousHash = computeHash(s)

\* What observeNewerVersion returns.
Outcome(s, profile, advance, ready, r) ==
  /\ r.changed \in BOOLEAN /\ r.blocked \in BOOLEAN
  /\ IsState(r.state) /\ Ranked(r.state)
  /\ Fits(profile, r.state, r.blocked)
  /\ ~r.changed => r.state = s
  /\ r.changed =>
       /\ Extends(s, r.state)
       /\ \E skipped \in SUBSET Identities(profile) :
            LET c == KeyOf(profile, profile.latest)
            IN \/ Learns(s, r.state, c, skipped)
               \/ /\ Promotes(s, r.state, c, skipped)
                  /\ advance /\ (ActivationDelay = 0 \/ ready)

\* The state files that observeNewerVersion makes.
Learnt(s, profile, now, advance, skipped) ==
  LET c == KeyOf(profile, profile.latest)
  IN NextStateFile(s, Active(s), orderedRecords(Active(s),
       upsertPendingRecord(s.content, c, pendingRecord(s.content, c, now, advance), skipped, now)))

Advanced(s, profile, now, learnt) ==
  LET c == KeyOf(profile, profile.latest)
  IN NextStateFile(s, c, orderedRecords(c,
       promotePendingRecord(s.content, c, Snapshots(learnt), now)))

NewerThan(s, profile) ==
  /\ validateProfile(profile) /\ validateDecryptableState(profile, s.content)
  /\ profile.latest > Active(s).version

-----------------------------------------------------------------------------
(* Bootstrap and the operator commands.                                    *)

Bootstrapped(profile, n) ==
  /\ IsState(n) /\ Ranked(n) /\ Fits(profile, n, FALSE)
  /\ Active(n) \in Identities(profile)
  /\ DOMAIN Snapshots(n) = {Active(n)}

\* Records that an operator command moves between retired and removed.
Moves(s, n, keys, from, to) ==
  /\ \A k \in keys : /\ k \in DOMAIN Snapshots(s) /\ Snapshots(s)[k].state = from
                     /\ k.version < Active(s).version
  /\ Active(n) = Active(s)
  /\ DOMAIN Snapshots(n) = DOMAIN Snapshots(s)
  /\ \A k \in DOMAIN Snapshots(s) :
       /\ Snapshots(n)[k].state = IF k \in keys THEN to ELSE Snapshots(s)[k].state
       /\ Snapshots(n)[k].observedAt = Snapshots(s)[k].observedAt

\* What RetireVersions and RestoreVersions return, once the profile has
\* validated it.
Managed(s, n) ==
  /\ IsState(n) /\ Ranked(n)
  /\ \/ n = s
     \/ /\ Extends(s, n)
        /\ \E keys \in SUBSET DOMAIN Snapshots(s) :
             \/ Moves(s, n, keys, "retired", "removed")
             \/ Moves(s, n, keys, "removed", "retired")

-----------------------------------------------------------------------------
(* What every step has in common.                                          *)

NotNewer(k, a) == k.version < a.version \/ k = a

\* The active key never goes back and no key_id is forgotten.
Follows(s, n) == /\ NotNewer(Active(s), Active(n))
                 /\ DOMAIN Snapshots(s) \subseteq DOMAIN Snapshots(n)

-----------------------------------------------------------------------------
(* What the store checks of a registry.                                    *)

\* The same record, up to its place and its state.
SameTimes(r, o) ==
  /\ o.observedAt = r.observedAt /\ o.stableCount = r.stableCount
  /\ o.stableAt = r.stableAt /\ o.promotedAt = r.promotedAt

\* Learning a candidate leaves every record consistent and every removal
\* record as it is.
Consistent(records) == \A k \in DOMAIN records : validateObservationMetadata(records[k])

RemovalsKept(before, after) ==
  \A k \in DOMAIN before :
    before[k].state = "removed" => Unplaced(after[k]) = Unplaced(before[k])

\* Transit decrypts with every available version from the active one on.
Listed(profile) == \A v \in DOMAIN profile.createdAt : profile.minAvail <= v

-----------------------------------------------------------------------------
(* Registries of a Transit that numbers its versions.                      *)

\* Transit numbers its versions and keeps them all.
KeyAt(v) == [version |-> v, createdAt |-> v]

Complete(p) ==
  /\ p = [latest |-> p.latest, createdAt |-> p.createdAt, minAvail |-> p.minAvail,
          minDec |-> p.minDec, minEnc |-> p.minEnc, usable |-> p.usable]
  /\ p.latest \in Nat \ {0} /\ p.createdAt = [v \in 1..p.latest |-> v]
  /\ p.minAvail \in Nat /\ p.minDec \in Nat /\ p.minEnc \in Nat

\* A registry knows every version up to the newest one that it knows.
Unbroken(c, latest) ==
  \A k \in DOMAIN c.snapshots :
    /\ \E v \in 1..latest : k = KeyAt(v)
    /\ \A v \in 1..k.version : KeyAt(v) \in DOMAIN c.snapshots

IsRegistry(c, latest) ==
  IsState(Unobserved(c)) /\ Ranked(Unobserved(c)) /\ Unbroken(c, latest)

\* The registry d is c or what a step made of it.
Continued(c, d) == /\ c.activeKeyID.version <= d.activeKeyID.version
                   /\ DOMAIN c.snapshots \subseteq DOMAIN d.snapshots

=============================================================================
