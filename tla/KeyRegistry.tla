---------------------------- MODULE KeyRegistry ----------------------------
(***************************************************************************)
(* The content of a registry state file and its legal transitions          *)
(* (internal/keyregistry).                                                 *)
(*                                                                         *)
(* A state file is [generation, previousHash, content], see StateFiles.    *)
(* Its content is [activeKeyID, snapshots], where snapshots maps each      *)
(* key_id of the file to its record.  DeriveKeyID hashes the configured    *)
(* identity, the Transit version and its creation time; the identity is    *)
(* fixed, so a key_id is the pair [version, createdAt].  A record holds    *)
(* its state and local timestamps (0 is "unset") and its position in the   *)
(* snapshots slice, which slices.Equal and the hash can tell apart.        *)
(* The state "rejected" is declared in the code and never assigned.        *)
(***************************************************************************)
EXTENDS StateFiles, FiniteSets

DecryptableStates == {"active", "pending", "retired"}

\* StateFile.Registry: the key_ids that Lookup accepts.
Lookup(content) == {k \in DOMAIN content.snapshots :
                      content.snapshots[k].state \in DecryptableStates}

KeysIn(content, state) == {k \in DOMAIN content.snapshots :
                             content.snapshots[k].state = state}

\* validateObservationMetadata.
validateObservationMetadata(r) ==
  /\ r.stableCount > 0 => r.observedAt # 0
  /\ r.stableAt # 0 => r.stableCount # 0
  /\ r.stableAt # 0 /\ r.observedAt # 0 => r.stableAt >= r.observedAt
  /\ r.promotedAt # 0 /\ r.observedAt # 0 => r.promotedAt >= r.observedAt

\* StateFile.Validate: one active record, the selected one.  Duplicate key_ids
\* cannot be written down in this representation; see upsertPendingRecord.
Validate(content) ==
  /\ KeysIn(content, "active") = {content.activeKeyID}
  /\ \A k \in DOMAIN content.snapshots :
       validateObservationMetadata(content.snapshots[k])

-----------------------------------------------------------------------------
(* orderedRecords: active, pending, retired, removed; newest first.        *)

priority(activeKeyID, k, r) ==
  CASE k = activeKeyID      -> 0
    [] r.state = "pending"  -> 1
    [] r.state = "retired"  -> 2
    [] OTHER                -> 4

Before(activeKeyID, records, j, k) ==
  LET pj == priority(activeKeyID, j, records[j])
      pk == priority(activeKeyID, k, records[k])
  IN \/ pj < pk
     \/ pj = pk /\ j.version > k.version
     \/ pj = pk /\ j.version = k.version /\ j.createdAt < k.createdAt

orderedRecords(activeKeyID, records) ==
  [k \in DOMAIN records |->
     [records[k] EXCEPT !.position =
        Cardinality({j \in DOMAIN records : Before(activeKeyID, records, j, k)})]]

-----------------------------------------------------------------------------
(* Transitions.                                                            *)

\* NewStateFileFromRecords for generation one and for a successor.
FirstStateFile(activeKeyID, records) ==
  [generation |-> 1, previousHash |-> NoHash,
   content |-> [activeKeyID |-> activeKeyID, snapshots |-> records]]

NextStateFile(previous, activeKeyID, records) ==
  [generation |-> previous.generation + 1, previousHash |-> computeHash(previous),
   content |-> [activeKeyID |-> activeKeyID, snapshots |-> records]]

\* A record without its place in the slice, as validateRetainedSnapshots
\* compares removed records.
Unplaced(r) == [r EXCEPT !.position = 0]

\* validateRetainedSnapshots: a decryptable identity stays decryptable, never
\* becomes pending again, and a removal record never changes.
validateRetainedSnapshots(previous, next) ==
  \A k \in DOMAIN previous.snapshots :
    LET was == previous.snapshots[k]
    IN /\ k \in DOMAIN next.snapshots
       /\ was.state = "pending" => next.snapshots[k].state \in DecryptableStates
       /\ was.state \in {"active", "retired"} =>
            next.snapshots[k].state \in {"active", "retired"}
       /\ was.state = "removed" => Unplaced(next.snapshots[k]) = Unplaced(was)

\* ValidateStateProgress, between two state files.
ValidateStateProgress(previous, next) ==
  /\ Validate(previous.content) /\ Validate(next.content)
  /\ next.generation > previous.generation
  /\ next.previousHash = computeHash(previous)
  /\ next.content.activeKeyID.version >= previous.content.activeKeyID.version
  /\ validateRetainedSnapshots(previous.content, next.content)

\* The next generation with the state of some records changed in place:
\* their positions stay.
Restate(previous, keys, state) ==
  LET records == previous.content.snapshots
  IN NextStateFile(previous, previous.content.activeKeyID,
       [k \in DOMAIN records |->
          IF k \in keys THEN [records[k] EXCEPT !.state = state] ELSE records[k]])

\* RetireVersions: an option, empty for a refused boundary; the previous file
\* itself when nothing below the boundary is retired.
RetireVersions(previous, beforeVersion) ==
  LET keys == {k \in KeysIn(previous.content, "retired") :
                 k.version < beforeVersion}
  IN IF \/ beforeVersion <= 1
        \/ beforeVersion > previous.content.activeKeyID.version
     THEN {}
     ELSE IF keys = {} THEN {previous}
     ELSE {Restate(previous, keys, "removed")}

\* Mutant: a restored version becomes a candidate for promotion.
RestoreVersionsAsPending(previous, versions) ==
  LET keys == {k \in KeysIn(previous.content, "removed") : k.version \in versions}
  IN IF keys = {} THEN {} ELSE {Restate(previous, keys, "pending")}

\* RestoreVersions: an option.  Every selected version is below the active
\* one, and the first record that has it must be removed.
RestoreVersions(previous, versions) ==
  LET records == previous.content.snapshots
      keys == {k \in DOMAIN records :
                 /\ k.version \in versions
                 /\ \A j \in DOMAIN records :
                      j.version = k.version =>
                        records[j].position >= records[k].position}
  IN IF \/ versions = {}
        \/ \E v \in versions : \/ v >= previous.content.activeKeyID.version
                               \/ \A k \in keys : k.version # v
        \/ \E k \in keys : records[k].state # "removed"
     THEN {}
     ELSE {Restate(previous, keys, "retired")}

=============================================================================
