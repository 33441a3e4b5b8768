------------------------------ MODULE Rotation ------------------------------
(***************************************************************************)
(* The rotation state machine of one metadata observation                  *)
(* (internal/status/rotation.go, bootstrap.go): pure functions from a      *)
(* state file and a Transit key profile to the next state file.            *)
(*                                                                         *)
(* A profile is the parsed Transit metadata [latest, createdAt, minAvail,  *)
(* minDec, minEnc, usable]: createdAt maps the listed versions to their    *)
(* creation times, and usable is false for soft-deleted keys and blocking  *)
(* settings (AssessKeyProfile).  A result that may be an error is an       *)
(* option: the empty set is the error.                                     *)
(***************************************************************************)
EXTENDS KeyRegistry

CONSTANTS RequireStableObservationCount,   \* rotation.requireStableObservationCount
          ActivationDelay,                 \* rotation.activationDelay, in ticks
          RejectVersionRollback            \* rotation.rejectVersionRollback

ASSUME PolicyAssumption == /\ RequireStableObservationCount \in Nat \ {0}
                           /\ ActivationDelay \in Nat
                           /\ RejectVersionRollback \in BOOLEAN

Max2(a, b) == IF a >= b THEN a ELSE b

Record(state, observedAt, stableCount, stableAt, promotedAt) ==
  [state |-> state, observedAt |-> observedAt, stableCount |-> stableCount,
   stableAt |-> stableAt, promotedAt |-> promotedAt, position |-> 0]

-----------------------------------------------------------------------------
(* Validation of a profile, alone and against a state.                     *)

\* validateProfile with validatedVersionCreationTimes.
validateProfile(profile) ==
  /\ profile.latest > 0
  /\ profile.usable
  /\ profile.minAvail <= profile.latest
  /\ profile.minEnc <= profile.latest
  /\ profile.minDec <= profile.latest
  /\ DOMAIN profile.createdAt \subseteq 1..profile.latest
  /\ profile.latest \in DOMAIN profile.createdAt

KeyOf(profile, version) ==
  [version |-> version, createdAt |-> profile.createdAt[version]]

\* Mutant: the creation time of a version is not compared.
validateDecryptableStateByNumber(profile, content) ==
  \A k \in Lookup(content) :
    /\ profile.minAvail <= k.version
    /\ profile.minDec <= k.version
    /\ k.version \in DOMAIN profile.createdAt

\* Mutant: removed versions must still exist.
validateDecryptableStateOfAll(profile, content) ==
  \A k \in DOMAIN content.snapshots :
    /\ profile.minAvail <= k.version
    /\ profile.minDec <= k.version
    /\ k.version \in DOMAIN profile.createdAt
    /\ profile.createdAt[k.version] = k.createdAt

\* validateDecryptableState: every retained identity can still decrypt and is
\* still the same key.
validateDecryptableState(profile, content) ==
  \A k \in Lookup(content) :
    /\ profile.minAvail <= k.version
    /\ profile.minDec <= k.version
    /\ k.version \in DOMAIN profile.createdAt
    /\ profile.createdAt[k.version] = k.createdAt

\* validateProfileForState: the active version can encrypt as well.
validateProfileForState(profile, content) ==
  /\ profile.minEnc <= content.activeKeyID.version
  /\ validateDecryptableState(profile, content)

\* ValidateRecoveryProfile, used by the retirement commands.
ValidateRecoveryProfile(profile, content) ==
  /\ Validate(content)
  /\ validateProfile(profile)
  /\ validateDecryptableState(profile, content)

-----------------------------------------------------------------------------
(* Bootstrap without any local state.                                      *)

AssessAutoBootstrapState(profile) ==
  profile.latest = 1 /\ profile.minAvail <= 1 /\ profile.minDec <= 1

\* RebuildState: the latest version active, the other available ones retired.
RebuildState(profile, now) ==
  LET first == IF profile.minAvail = 0 THEN 1 ELSE profile.minAvail
      versions == first..profile.latest
      active == KeyOf(profile, profile.latest)
      records == [k \in {KeyOf(profile, v) : v \in versions} |->
                    IF k = active THEN Record("active", now, 0, 0, now)
                    ELSE Record("retired", now, 0, 0, 0)]
      state == FirstStateFile(active, orderedRecords(active, records))
  IN IF /\ validateProfile(profile)
        /\ versions \subseteq DOMAIN profile.createdAt
        /\ validateProfileForState(profile, state.content)
     THEN {state} ELSE {}

-----------------------------------------------------------------------------
(* A newer version.                                                        *)

\* intermediateHistoricalRecords: versions between the active and the latest
\* one that no decryptable record has yet.
intermediateHistoricalRecords(content, profile) ==
  LET skipped == (content.activeKeyID.version + 1)..(profile.latest - 1)
      retained == {k.version : k \in Lookup(content)}
  IN IF skipped \subseteq DOMAIN profile.createdAt
     THEN {{KeyOf(profile, v) : v \in skipped \ retained}}
     ELSE {}

\* Mutant: one observation more than required, which the capped count never
\* reaches.
pendingRecordNeverStable(content, candidate, now, advance) ==
  LET old == IF candidate \in KeysIn(content, "pending")
             THEN content.snapshots[candidate]
             ELSE Record("pending", now, 0, 0, 0)
  IN [old EXCEPT !.stableCount =
        IF advance /\ @ < RequireStableObservationCount THEN @ + 1 ELSE @]

\* Mutant: the stable time is not floored at the time of first observation.
pendingRecordUnfloored(content, candidate, now, advance) ==
  LET old == IF candidate \in KeysIn(content, "pending")
             THEN content.snapshots[candidate]
             ELSE Record("pending", now, 0, 0, 0)
      count == IF advance /\ old.stableCount < RequireStableObservationCount
               THEN old.stableCount + 1 ELSE old.stableCount
  IN [old EXCEPT !.stableCount = count,
                 !.stableAt = IF /\ advance /\ old.stableAt = 0
                                 /\ count >= RequireStableObservationCount
                              THEN now ELSE old.stableAt]

\* The candidate's record after this observation.
pendingRecord(content, candidate, now, advance) ==
  LET old == IF candidate \in KeysIn(content, "pending")
             THEN content.snapshots[candidate]
             ELSE Record("pending", now, 0, 0, 0)
      count == IF advance /\ old.stableCount < RequireStableObservationCount
               THEN old.stableCount + 1 ELSE old.stableCount
      stable == advance /\ count >= RequireStableObservationCount
  IN [old EXCEPT !.stableCount = count,
                 !.stableAt = IF stable /\ old.stableAt = 0
                              THEN Max2(now, old.observedAt) ELSE old.stableAt]

\* upsertPendingRecord: another pending record is retired, not dropped.
upsertPendingRecord(content, candidate, pending, skipped, now) ==
  [k \in DOMAIN content.snapshots \union skipped \union {candidate} |->
     IF k = candidate THEN pending
     ELSE IF k \notin DOMAIN content.snapshots THEN Record("retired", now, 0, 0, 0)
     ELSE IF k \in KeysIn(content, "pending")
     THEN [content.snapshots[k] EXCEPT !.state = "retired"]
     ELSE content.snapshots[k]]

\* promotePendingRecord.
promotePendingRecord(content, candidate, records, now) ==
  LET pending == records[candidate]
      old == records[content.activeKeyID]
  IN [records EXCEPT
        ![candidate] = [pending EXCEPT
           !.state = "active",
           !.promotedAt = Max2(now, Max2(pending.observedAt, pending.stableAt))],
        ![content.activeKeyID] =
           Record("retired", old.observedAt, 0, 0, old.promotedAt)]

promotionAllowed(pending, ready) ==
  /\ pending.stableAt # 0
  /\ pending.stableCount >= RequireStableObservationCount
  /\ ActivationDelay = 0 \/ ready

Result(state, changed, blocked) ==
  [state |-> state, changed |-> changed, blocked |-> blocked]

\* observeNewerVersion, from the skipped identities on.
NewerVersion(state, profile, now, advance, ready, skipped) ==
  LET content == state.content
      candidate == KeyOf(profile, profile.latest)
      blocked == profile.minEnc > content.activeKeyID.version
      pending == pendingRecord(content, candidate, now, advance)
      records == orderedRecords(content.activeKeyID,
                   upsertPendingRecord(content, candidate, pending, skipped, now))
      promoted == NextStateFile(state, candidate, orderedRecords(candidate,
                    promotePendingRecord(content, candidate, records, now)))
      next == NextStateFile(state, content.activeKeyID, records)
  IN IF ~advance /\ candidate \in KeysIn(content, "pending")
     THEN {Result(state, FALSE, blocked)}
     ELSE IF advance /\ promotionAllowed(pending, ready)
     THEN IF /\ ValidateStateProgress(state, promoted)
             /\ validateProfileForState(profile, promoted.content)
          THEN {Result(promoted, TRUE, FALSE)} ELSE {}
     ELSE IF records = content.snapshots
     THEN {Result(state, FALSE, blocked)}
     ELSE IF /\ candidate \in DOMAIN content.snapshots =>
                  candidate \in KeysIn(content, "pending")
             /\ ValidateStateProgress(state, next)
             /\ validateDecryptableState(profile, next.content)
     THEN {Result(next, TRUE, blocked)}
     ELSE {}

\* A registry as the first state file that holds it.
Unobserved(content) == [generation |-> 1, previousHash |-> NoHash, content |-> content]

\* observe: one successful metadata read applied to a state file.
observe(state, profile, now, advance, ready) ==
  LET active == state.content.activeKeyID
  IN IF \/ ~Validate(state.content)
        \/ ~validateProfile(profile)
        \/ RejectVersionRollback /\ profile.latest < active.version
        \/ ~validateDecryptableState(profile, state.content)
     THEN {}
     ELSE IF profile.latest <= active.version
     THEN {Result(state, FALSE, profile.minEnc > active.version)}
     ELSE UNION {NewerVersion(state, profile, now, advance, ready, skipped) :
                   skipped \in intermediateHistoricalRecords(state.content, profile)}

\* Discover never advances observations and never promotes.
Discover(state, profile, now) == observe(state, profile, now, FALSE, FALSE)

\* observationOnly: the attempted state differs only in the count and the
\* stable time of pending records.
observationOnly(previous, next) ==
  LET before == previous.content.snapshots
      after  == next.content.snapshots
  IN /\ ValidateStateProgress(previous, next)
     /\ previous.content.activeKeyID = next.content.activeKeyID
     /\ DOMAIN before = DOMAIN after
     /\ before # after
     /\ \A k \in DOMAIN before :
          before[k] # after[k] =>
            /\ before[k].state = "pending"
            /\ after[k].stableCount >= before[k].stableCount
            /\ before[k].stableAt # 0 => after[k].stableAt = before[k].stableAt
            /\ [after[k] EXCEPT !.stableCount = before[k].stableCount,
                                !.stableAt = before[k].stableAt] = before[k]

=============================================================================
