---------------------------- MODULE KmsDataProofs ----------------------------
(***************************************************************************)
(* What Status, Encrypt and Decrypt answer, for every history of rotations,*)
(* restarts and calls: the registry of the node, the stored values and the *)
(* calls under way keep what the answers rest on.                          *)
(***************************************************************************)
EXTENDS KmsServer, RotationProofs

-----------------------------------------------------------------------------
(* Registries of a Transit that numbers its versions.                      *)

\* A profile of Transit names each version by its number.
LEMMA CompleteProfile ==
  ASSUME NEW p, Complete(p)
  PROVE /\ IsProfile(p)
        /\ \A v \in 1..p.latest : KeyOf(p, v) = KeyAt(v)
        /\ DOMAIN p.createdAt = 1..p.latest
BY DEF Complete, IsProfile, KeyOf, KeyAt

\* A registry for which nothing has been saved yet.
LEMMA UnobservedState ==
  /\ \A c : Active(Unobserved(c)) = c.activeKeyID /\ Snapshots(Unobserved(c)) = c.snapshots
            /\ Unobserved(c).content = c
  /\ \A n : IsState(n) => IsState(Unobserved(n.content))
  /\ \A n : Ranked(n) => Ranked(Unobserved(n.content))
<1>1. \A c : /\ Unobserved(c).content = c /\ Unobserved(c).generation = 1
             /\ Active(Unobserved(c)) = c.activeKeyID /\ Snapshots(Unobserved(c)) = c.snapshots
  BY DEF Unobserved, Active, Snapshots
<1>2. ASSUME NEW n, IsState(n) PROVE IsState(Unobserved(n.content))
  BY <1>1, <1>2 DEF IsState
<1>3. ASSUME NEW n, Ranked(n) PROVE Ranked(Unobserved(n.content))
  <2>1. /\ Active(Unobserved(n.content)) = Active(n)
        /\ Snapshots(Unobserved(n.content)) = Snapshots(n)
    BY <1>1 DEF Active, Snapshots
  <2>. QED BY <1>1, <1>3, <2>1 DEF Ranked
<1>. QED BY <1>1, <1>2, <1>3

\* An observation continues the registry and takes in every version that the
\* profile lists.
LEMMA ObserveRegistry ==
  \A c : \A latest \in Nat : \A p : \A advance, ready \in BOOLEAN : \A r \in observe(Unobserved(c), p, 1, advance, ready) :
    /\ IsRegistry(c, latest)
    /\ Complete(p)
    /\ p.latest <= latest
    => /\ IsRegistry(r.state.content, latest) /\ Continued(c, r.state.content)
       /\ \A v \in 1..p.latest : KeyAt(v) \in DOMAIN r.state.content.snapshots
\* The key_ids of the registry after an observation.
<1>ObserveKeys.
  ASSUME NEW s, IsState(s), NEW p, NEW now, NEW advance, NEW ready,
         NEW r \in observe(s, p, now, advance, ready)
  PROVE \/ p.latest <= Active(s).version /\ r.state = s
        \/ r.state = s /\ KeyOf(p, p.latest) \in DOMAIN Snapshots(s)
        \/ \E skipped \in intermediateHistoricalRecords(s.content, p) :
             DOMAIN Snapshots(r.state) =
               DOMAIN Snapshots(s) \union skipped \union {KeyOf(p, p.latest)}
  <2>. USE <1>ObserveKeys
  <2>0. \A x, y, z : Result(x, y, z).state = x
    BY DEF Result
  <2>1. \/ p.latest <= Active(s).version /\ \E b : r = Result(s, FALSE, b)
        \/ /\ ~(p.latest <= Active(s).version)
           /\ \E skipped \in intermediateHistoricalRecords(s.content, p) :
                r \in NewerVersion(s, p, now, advance, ready, skipped)
    BY Zenon DEF observe, Active
  <2>2. ASSUME NEW skipped, r \in NewerVersion(s, p, now, advance, ready, skipped)
        PROVE \/ DOMAIN Snapshots(r.state) =
                   DOMAIN Snapshots(s) \union skipped \union {KeyOf(p, p.latest)}
              \/ r.state = s /\ KeyOf(p, p.latest) \in DOMAIN Snapshots(s)
    <3>. DEFINE c == KeyOf(p, p.latest)
                pending == pendingRecord(s.content, c, now, advance)
                records == orderedRecords(Active(s),
                             upsertPendingRecord(s.content, c, pending, skipped, now))
                promoted == NextStateFile(s, c, orderedRecords(c,
                              promotePendingRecord(s.content, c, records, now)))
                next == NextStateFile(s, Active(s), records)
    <3>1. \/ r.state = s /\ (c \in KeysIn(s.content, "pending") \/ records = Snapshots(s))
          \/ r.state = promoted \/ r.state = next
      <4>1. \/ /\ \E b : r = Result(s, FALSE, b)
               /\ c \in KeysIn(s.content, "pending") \/ records = Snapshots(s)
            \/ r = Result(promoted, TRUE, FALSE) \/ \E b : r = Result(next, TRUE, b)
        BY <2>2, Zenon DEF NewerVersion, Active, Snapshots
      <4>. HIDE DEF c, records, promoted, next
      <4>2. CASE r = Result(promoted, TRUE, FALSE)
        BY <2>0, <4>2, Zenon
      <4>3. ASSUME NEW b, r = Result(next, TRUE, b) PROVE r.state = next
        BY <2>0, <4>3, Zenon
      <4>4. ASSUME NEW b, r = Result(s, FALSE, b) PROVE r.state = s
        BY <2>0, <4>4, Zenon
      <4>. QED BY <4>1, <4>2, <4>3, <4>4, Zenon
    <3>2. DOMAIN records = DOMAIN Snapshots(s) \union skipped \union {c}
      BY DEF orderedRecords, upsertPendingRecord, Snapshots
    <3>. HIDE DEF records, pending, c
    <3>3. Snapshots(next) = records
      BY DEF NextStateFile, Snapshots
    <3>4. DOMAIN Snapshots(promoted) = DOMAIN records
      BY Zenon DEF NextStateFile, Snapshots, orderedRecords, promotePendingRecord
    <3>5. c \in KeysIn(s.content, "pending") => c \in DOMAIN Snapshots(s)
      BY DEF KeysIn, Snapshots
    <3>. HIDE DEF next, promoted
    <3>. QED BY <3>1, <3>2, <3>3, <3>4, <3>5 DEF c
  <2>. QED BY <2>0, <2>1, <2>2, Zenon
\* An observation leaves no gap, and afterwards the registry knows every
\* version that the profile lists.
<1>ObserveCovers.
  ASSUME NEW s, IsState(s), NEW p, Complete(p), NEW latest \in Nat, p.latest <= latest,
         Unbroken(s.content, latest), NEW now, NEW advance, NEW ready,
         NEW r \in observe(s, p, now, advance, ready)
  PROVE /\ Unbroken(r.state.content, latest)
        /\ \A v \in 1..p.latest : KeyAt(v) \in DOMAIN Snapshots(r.state)
  <2>. USE <1>ObserveCovers
  <2>. DEFINE keys == DOMAIN Snapshots(s)
              a == Active(s).version
  <2>1. /\ p.latest \in Nat \ {0} /\ \A v \in 1..p.latest : KeyOf(p, v) = KeyAt(v)
    BY CompleteProfile DEF Complete
  <2>2. Active(s) \in keys /\ a \in Nat
    BY ActiveKnown DEF IsState, KeySet, Active
  <2>3. \A k \in keys : /\ \E v \in 1..latest : k = KeyAt(v)
                        /\ \A v \in 1..k.version : KeyAt(v) \in keys
    BY DEF Unbroken, Snapshots
  <2>4. \A v : KeyAt(v).version = v
    BY DEF KeyAt
  <2>5. \A v \in 1..a : KeyAt(v) \in keys
    BY <2>2, <2>3
  <2>6. CASE r.state = s /\ p.latest <= a
    BY <2>1, <2>2, <2>5, <2>6
  <2>7. CASE r.state = s /\ KeyOf(p, p.latest) \in keys
    BY <2>1, <2>3, <2>4, <2>7
  <2>8. ASSUME NEW skipped \in intermediateHistoricalRecords(s.content, p),
               DOMAIN Snapshots(r.state) = keys \union skipped \union {KeyOf(p, p.latest)}
        PROVE /\ Unbroken(r.state.content, latest)
              /\ \A v \in 1..p.latest : KeyAt(v) \in DOMAIN Snapshots(r.state)
    <3>. DEFINE new == DOMAIN Snapshots(r.state)
    <3>1. skipped = {KeyOf(p, v) : v \in ((a + 1)..(p.latest - 1)) \
                                           {k.version : k \in Lookup(s.content)}}
      BY <2>8 DEF intermediateHistoricalRecords, Active
    <3>2. Lookup(s.content) \subseteq keys
      BY DEF Lookup, Snapshots
    <3>3. ASSUME NEW v \in 1..p.latest PROVE KeyAt(v) \in new
      <4>1. CASE v <= a
        BY <2>2, <2>5, <2>8, <4>1
      <4>2. CASE v = p.latest
        BY <2>1, <2>8, <4>2
      <4>3. CASE v \in (a + 1)..(p.latest - 1) /\ \E k \in Lookup(s.content) : k.version = v
        <5>1. PICK k \in keys : k.version = v
          BY <3>2, <4>3
        <5>2. k = KeyAt(v)
          BY <2>3, <2>4, <5>1
        <5>. QED BY <2>8, <5>1, <5>2
      <4>4. CASE v \in (a + 1)..(p.latest - 1) /\ ~\E k \in Lookup(s.content) : k.version = v
        <5>1. KeyOf(p, v) \in skipped
          BY <3>1, <4>4
        <5>. QED BY <2>1, <2>8, <5>1
      <4>. QED BY <2>1, <2>2, <4>1, <4>2, <4>3, <4>4
    <3>4. ASSUME NEW k \in new \ keys
          PROVE k.version \in 1..p.latest /\ k = KeyAt(k.version)
      <4>1. PICK v \in 1..p.latest : k = KeyOf(p, v)
        BY <2>1, <2>2, <2>8, <3>1
      <4>. QED BY <2>1, <2>4, <4>1
    <3>5. ASSUME NEW k \in new
          PROVE /\ \E v \in 1..latest : k = KeyAt(v)
                /\ \A v \in 1..k.version : KeyAt(v) \in new
      <4>1. CASE k \in keys
        BY <2>3, <2>8, <4>1
      <4>2. CASE k \notin keys
        BY <2>1, <3>3, <3>4, <4>2
      <4>. QED BY <4>1, <4>2
    <3>. QED BY <3>3, <3>5 DEF Unbroken, Snapshots
  <2>9. \/ r.state = s /\ p.latest <= a
        \/ r.state = s /\ KeyOf(p, p.latest) \in keys
        \/ \E skipped \in intermediateHistoricalRecords(s.content, p) :
             DOMAIN Snapshots(r.state) = keys \union skipped \union {KeyOf(p, p.latest)}
    <3>. HIDE DEF keys, a
    <3>1. keys = DOMAIN Snapshots(s) /\ a = Active(s).version
      BY DEF keys, a
    <3>2. \/ p.latest <= Active(s).version /\ r.state = s
          \/ r.state = s /\ KeyOf(p, p.latest) \in DOMAIN Snapshots(s)
          \/ \E skipped \in intermediateHistoricalRecords(s.content, p) :
               DOMAIN Snapshots(r.state) =
                 DOMAIN Snapshots(s) \union skipped \union {KeyOf(p, p.latest)}
      BY ONLY <1>ObserveKeys, IsState(s), r \in observe(s, p, now, advance, ready)
    <3>. QED BY <3>1, <3>2, Zenon
  <2>. HIDE DEF keys, a
  <2>. QED BY <2>6, <2>7, <2>8, <2>9, Zenon
<1>. SUFFICES ASSUME NEW c, NEW latest \in Nat, IsRegistry(c, latest), NEW p, Complete(p),
         p.latest <= latest, NEW advance \in BOOLEAN, NEW ready \in BOOLEAN,
         NEW r \in observe(Unobserved(c), p, 1, advance, ready)
             PROVE /\ IsRegistry(r.state.content, latest) /\ Continued(c, r.state.content)
                   /\ \A v \in 1..p.latest : KeyAt(v) \in DOMAIN r.state.content.snapshots
  OBVIOUS
<1>. DEFINE s == Unobserved(c)
            n == r.state
<1>1. /\ Active(s) = c.activeKeyID /\ Snapshots(s) = c.snapshots /\ s.content = c
      /\ IsState(s) /\ Ranked(s) /\ Unbroken(s.content, latest)
  BY UnobservedState DEF IsRegistry
<1>2. r \in observe(s, p, 1, advance, ready)
  OBVIOUS
<1>. HIDE DEF s
<1>3. IsProfile(p)
  BY CompleteProfile
<1>4. Outcome(s, p, advance, ready, r)
  <2>1. 1 \in Nat \ {0}
    OBVIOUS
  <2>. QED BY ONLY <1>1, <1>2, <1>3, <2>1, ObserveOutcome, advance \in BOOLEAN, ready \in BOOLEAN
<1>5. /\ Unbroken(n.content, latest) /\ \A v \in 1..p.latest : KeyAt(v) \in DOMAIN Snapshots(n)
  BY ONLY <1>1, <1>2, <1>ObserveCovers, Complete(p), latest \in Nat, p.latest <= latest
<1>6. IsState(n) /\ Ranked(n)
  BY <1>4 DEF Outcome
<1>7. Continued(c, n.content)
  <2>1. CASE ~r.changed
    <3>1. n.content = c
      BY <1>1, <1>4, <2>1 DEF Outcome
    <3>2. c.activeKeyID.version \in Nat
      BY <1>1 DEF IsState, KeySet
    <3>. QED BY <3>1, <3>2 DEF Continued
  <2>2. CASE r.changed
    <3>1. PICK skipped : \/ Learns(s, n, KeyOf(p, p.latest), skipped)
                         \/ Promotes(s, n, KeyOf(p, p.latest), skipped)
      BY <1>4, <2>2, ZenonT(30) DEF Outcome
    <3>2. DOMAIN Snapshots(s) \subseteq DOMAIN Snapshots(n)
      BY <3>1 DEF Learns, Promotes
    <3>3. Active(s).version \in Nat /\ Active(n).version \in Nat
      BY <1>1, <1>6 DEF IsState, KeySet, Active
    <3>4. Active(s).version <= Active(n).version
      BY <3>1, <3>3 DEF Learns, Promotes, NewKeys
    <3>. QED BY <1>1, <3>2, <3>4 DEF Continued, Active, Snapshots
  <2>. QED BY <2>1, <2>2
<1>. QED BY <1>5, <1>6, <1>7, UnobservedState DEF IsRegistry, Snapshots

\* So does an operator who retires versions.
LEMMA RetireRegistry ==
  ASSUME NEW c, NEW latest, IsRegistry(c, latest), NEW before \in Nat,
         NEW n \in RetireVersions(Unobserved(c), before)
  PROVE IsRegistry(n.content, latest) /\ Continued(c, n.content)
<1>. DEFINE s == Unobserved(c)
<1>1. /\ Active(s) = c.activeKeyID /\ Snapshots(s) = c.snapshots /\ s.content = c
      /\ IsState(s) /\ Ranked(s)
  BY UnobservedState DEF IsRegistry
<1>2. n \in RetireVersions(s, before)
  OBVIOUS
<1>. HIDE DEF s
<1>3. Validate(n.content)
  <2>. DEFINE keys == {k \in KeysIn(s.content, "retired") : k.version < before}
              records == Snapshots(s)
              after == [k \in DOMAIN records |->
                          IF k \in keys THEN [records[k] EXCEPT !.state = "removed"]
                          ELSE records[k]]
  <2>1. \A k \in DOMAIN records : IsRecord(records[k])
    BY <1>1 DEF IsState, IsRecords, Snapshots
  <2>2. \A k \in keys : k \in DOMAIN records /\ records[k].state = "retired"
    BY DEF KeysIn, Snapshots
  <2>3. n = s \/ n = Restate(s, keys, "removed")
    BY <1>2, Zenon DEF RetireVersions
  <2>. HIDE DEF keys
  <2>4. n = s \/ n.content = [activeKeyID |-> Active(s), snapshots |-> after]
    BY <2>3 DEF Restate, NextStateFile, Active, Snapshots
  <2>5. ASSUME NEW k \in DOMAIN records
        PROVE /\ SameTimes(after[k], records[k])
              /\ after[k].state = "active" <=> records[k].state = "active"
    <3>1. IsRecord(records[k]) /\ (k \in keys => records[k].state = "retired")
      BY <2>1, <2>2
    <3>. HIDE DEF records
    <3>. QED BY <3>1 DEF IsRecord, SameTimes
  <2>6. CASE n.content = [activeKeyID |-> Active(s), snapshots |-> after]
    <3>1. KeysIn(n.content, "active") = {Active(s)}
      <4>1. KeysIn(s.content, "active") = {Active(s)}
        BY <1>1 DEF IsState, Validate, Active
      <4>2. /\ DOMAIN n.content.snapshots = DOMAIN records
            /\ \A k \in DOMAIN records : n.content.snapshots[k] = after[k]
        BY <2>6
      <4>3. \A k : k \in KeysIn(n.content, "active") <=> k \in KeysIn(s.content, "active")
        <5>. HIDE DEF after
        <5>. QED BY <2>5, <4>2 DEF KeysIn, Snapshots
      <4>. QED BY <4>1, <4>3
    <3>2. ASSUME NEW k \in DOMAIN records PROVE validateObservationMetadata(after[k])
      <4>1. validateObservationMetadata(records[k])
        BY <1>1 DEF IsState, Validate, Snapshots
      <4>. QED BY <2>5, <4>1 DEF SameTimes, validateObservationMetadata
    <3>. QED BY <2>6, <3>1, <3>2 DEF Validate
  <2>. QED BY <1>1, <2>4, <2>6 DEF IsState
<1>4. Managed(s, n)
  BY ONLY <1>1, <1>2, <1>3, RetireManaged, before \in Nat
<1>5. IsState(n) /\ Ranked(n) /\ Active(n) = Active(s) /\ DOMAIN Snapshots(n) = DOMAIN Snapshots(s)
  BY <1>4 DEF Managed, Moves
<1>6. Unbroken(n.content, latest)
  BY <1>1, <1>5 DEF IsRegistry, Unbroken, Snapshots
<1>7. Active(s).version \in Nat
  BY <1>1 DEF IsState, KeySet, Active
<1>8. Continued(c, n.content)
  BY <1>1, <1>5, <1>7 DEF Continued, Active, Snapshots
<1>. QED BY <1>5, <1>6, <1>8, UnobservedState DEF IsRegistry

\* The registry that bootstrap makes of the first version.
LEMMA FirstRebuild ==
  ASSUME NEW t, t.latest = 1, t.createdAt = [v \in {1} |-> 1], t.minAvail = 0, t.minDec = 1,
         t.minEnc = 0, t.usable
  PROVE \E c : /\ {s.content : s \in RebuildState(t, 1)} = {c}
               /\ IsRegistry(c, 1) /\ c.activeKeyID.version = 1
<1>. DEFINE a == KeyOf(t, 1)
            record == Record("active", 1, 0, 0, 1)
            records == [k \in {a} |-> record]
            state == FirstStateFile(a, orderedRecords(a, records))
<1>3. a = KeyAt(1) /\ a \in KeySet /\ a.version = 1 /\ a.createdAt = 1
  BY DEF KeyOf, KeyAt, KeySet
<1>4. (IF t.minAvail = 0 THEN 1 ELSE t.minAvail)..t.latest = {1}
  OBVIOUS
<1>5. [k \in {KeyOf(t, v) : v \in {1}} |->
         IF k = a THEN record ELSE Record("retired", 1, 0, 0, 0)] = records
  OBVIOUS
<1>6. DOMAIN state.content.snapshots = {a} /\ state.content.activeKeyID = a
  <2>1. IsRecords(records) /\ DOMAIN records = {a}
    BY <1>3 DEF IsRecords, IsRecord, Record
  <2>. HIDE DEF a, records
  <2>. QED BY <2>1, OrderedKeeps DEF FirstStateFile
<1>7. validateProfile(t) /\ {1} \subseteq DOMAIN t.createdAt
  BY DEF validateProfile
<1>8. validateProfileForState(t, state.content)
  <2>. HIDE DEF a, state
  <2>. QED BY <1>3, <1>6
       DEF validateProfileForState, validateDecryptableState, Lookup
<1>9. RebuildState(t, 1) = {state}
  <2>1. KeyOf(t, t.latest) = a
    OBVIOUS
  <2>. QED BY <1>4, <1>5, <1>7, <1>8, <2>1 DEF RebuildState
<1>. HIDE DEF a, record, records, state
<1>10. IsProfile(t) /\ AssessAutoBootstrapState(t)
  BY <1>7 DEF IsProfile, AssessAutoBootstrapState
<1>11. Bootstrapped(t, state)
  BY <1>9, <1>10, BootstrapOutcome
<1>12. IsState(Unobserved(state.content)) /\ Ranked(Unobserved(state.content))
  BY <1>11, UnobservedState DEF Bootstrapped
<1>13. Unbroken(state.content, 1)
  BY <1>3, <1>6 DEF Unbroken
<1>14. {s.content : s \in RebuildState(t, 1)} = {state.content}
  BY <1>9
<1>. QED BY <1>3, <1>6, <1>12, <1>13, <1>14 DEF IsRegistry

-----------------------------------------------------------------------------
(* What the answers rest on.                                               *)

CallFields == {"pc", "method", "input", "snapshot", "aad", "failed", "throttled", "floor"}

\* A record with the fields of a call that is idle, or inside the handler of
\* its method.
Valid(c) ==
  /\ c = [x \in CallFields |-> c[x]]
  /\ c.method \in Methods
  /\ c.pc \in {"idle"} \cup InHandler
  /\ c.pc = "answer" => c.method = "status"
  /\ c.pc \in {"refresh", "wait", "again"} => c.method = "decrypt"

Inside(c) == c.pc \in InHandler

CallInv == /\ request = [r \in Requests |-> request[r]]
           /\ \A r \in Requests : Valid(request[r])

\* The identity of a version that exists.
Exists(s, latest) == /\ s = Snapshot(s.scope, KeyAt(s.version))
                     /\ s.version \in 1..latest

\* A stored value is what encrypt makes of its key_id.
IsValue(e, latest) ==
  Exists(e.keyID, latest) /\ e = Envelope(e.keyID, RegistryKey(e.keyID))

IsNode(n, latest) ==
  /\ n = [up |-> n.up, content |-> n.content, healthy |-> n.healthy, probe |-> n.probe,
          nextRefresh |-> n.nextRefresh, refreshErr |-> n.refreshErr]
  /\ \A p \in n.probe : /\ n.probe = {p} /\ p.discover \in BOOLEAN /\ Complete(p.profile)
                        /\ p.profile.latest <= latest

\* A key_id that a call has read was active then, and is not older than what
\* had been named before the call.
HasRead(q, latest, c) ==
  \A s \in q.snapshot : /\ Exists(s, latest) /\ s.version >= q.floor
                        /\ s.version <= c.activeKeyID.version

\* The input of a call combines parts of stored values.
Combines(q, latest, values) ==
  /\ q.method # "decrypt" => q.input = {}
  /\ \A i \in q.input : /\ q.input = {i} /\ Exists(i.keyID, latest)
                        /\ \E e \in values : e.ciphertext = i.ciphertext

\* What a call of Transit was prepared for.
Prepared(q) ==
  q.pc = "transit" => \A i \in q.input :
    /\ i.keyID.scope = OwnScope
    /\ Canonical(i.keyID, i.annotations).err = "none"
    /\ q.aad = Canonical(i.keyID, i.annotations).aad

\* A discovery that a call waits for reads the version that the call names,
\* and a call that goes on after a good one finds a record of it.
Refreshed(r, q, c, probe) ==
  \A i \in q.input :
    /\ q.pc = "wait" => \A p \in probe :
         r \in p.by => i.keyID.version <= p.profile.latest
    /\ q.pc = "again" /\ ~q.failed /\ ~q.throttled /\ i.keyID.scope = OwnScope
       => RegistryKey(i.keyID) \in DOMAIN c.snapshots

CallData(r, q, latest, values, c, probe) ==
  HasRead(q, latest, c) /\ Combines(q, latest, values) /\ Prepared(q) /\ Refreshed(r, q, c, probe)

\* c is the registry of this node.
Data(c) ==
  /\ node.content = {c} /\ IsRegistry(c, transit.latest)
  /\ seen \in Nat /\ seen <= c.activeKeyID.version
  /\ Complete(transit) /\ IsNode(node, transit.latest)
  /\ \A e \in stored : IsValue(e, transit.latest)
  /\ \A r \in Requests : CallData(r, request[r], transit.latest, stored, c, node.probe)

DataInv == \E c \in node.content : Data(c)

\* An input names a version that exists and has the ciphertext of some value.
Given(i, latest, values) ==
  Exists(i.keyID, latest) /\ \E e \in values : e.ciphertext = i.ciphertext

\* What a reply says of the input of its call.
Right(i, throttled, code) ==
  /\ code = "OK" =>
       \E e \in stored : /\ e.ciphertext = i.ciphertext /\ e.keyID = i.keyID
                         /\ e.keyID.scope = OwnScope
  /\ /\ code \in {"NotFound", "InvalidArgument"}
     /\ \E e \in stored : /\ e.keyID.scope = OwnScope /\ e.keyID = i.keyID
                          /\ e.ciphertext = i.ciphertext
                          /\ e.annotations = i.annotations
     => \/ throttled \/ i.keyID.version < transit.minDec
        \/ Recorded(i.keyID) /\ ~Known(i.keyID)

\* What the properties say of an answer.
AnswerInv == PlaintextOnlyForItsKey /\ PeerValueNotRefused /\ NoOlderKeyLater

-----------------------------------------------------------------------------
\* A new call, idle and inside no handler.
LEMMA NewCall ==
  /\ Valid(IdleCall) /\ ~Inside(IdleCall)
  /\ \A m \in Methods : Valid(New(m)) /\ New(m).method = m /\ New(m).pc = "idle"
<1>1. Valid(IdleCall) /\ ~Inside(IdleCall)
  BY DEF IdleCall, Valid, CallFields, Methods, InHandler, Inside
<1>2. ASSUME NEW m \in Methods
      PROVE Valid(New(m)) /\ New(m).method = m /\ New(m).pc = "idle"
  BY Zenon DEF New, IdleCall, Valid, CallFields, Methods, InHandler
<1>. QED BY <1>1, <1>2

\* What a call keeps when it stores a result and moves on.
LEMMA Stores ==
  ASSUME NEW c, Valid(c), NEW v, NEW f \in {"input", "snapshot", "aad", "failed", "throttled"}
  PROVE /\ Valid([c EXCEPT ![f] = v])
        /\ [c EXCEPT ![f] = v].method = c.method /\ [c EXCEPT ![f] = v].pc = c.pc
BY DEF Valid, CallFields

-----------------------------------------------------------------------------
(* The calls.                                                              *)

\* What stays of a version that exists.
LEMMA ExistsLater ==
  ASSUME NEW s, NEW latest \in Nat, NEW later \in Nat, latest <= later, Exists(s, latest)
  PROVE Exists(s, later)
BY DEF Exists

\* A call that waits keeps what it knows while the registry continues, Transit
\* adds versions and values are stored.
LEMMA CallKept ==
  ASSUME NEW r, NEW q, NEW latest \in Nat, NEW later \in Nat, latest <= later,
         NEW values, NEW more, values \subseteq more,
         NEW c, NEW d, Continued(c, d),
         c.activeKeyID.version \in Nat, d.activeKeyID.version \in Nat,
         NEW probe, NEW next, \A p \in next : p \in probe \/ r \notin p.by,
         CallData(r, q, latest, values, c, probe)
  PROVE CallData(r, q, later, more, d, next)
<1>1. HasRead(q, later, d)
  <2>1. ASSUME NEW s \in q.snapshot
        PROVE Exists(s, later) /\ s.version >= q.floor /\ s.version <= d.activeKeyID.version
    <3>1. Exists(s, latest) /\ s.version >= q.floor /\ s.version <= c.activeKeyID.version
      BY DEF CallData, HasRead
    <3>2. s.version \in Nat
      BY <3>1 DEF Exists
    <3>. QED BY <3>1, <3>2, ExistsLater DEF Continued
  <2>. QED BY <2>1 DEF HasRead
<1>2. Combines(q, later, more)
  BY ExistsLater DEF CallData, Combines
<1>3. Refreshed(r, q, d, next)
  BY DEF CallData, Refreshed, Continued
<1>. QED BY <1>1, <1>2, <1>3 DEF CallData

\* A registry with no newer version stays one when there are newer versions.
LEMMA RegistryLater ==
  ASSUME NEW c, NEW latest \in Nat, NEW later \in Nat, latest <= later, IsRegistry(c, latest)
  PROVE IsRegistry(c, later) /\ Continued(c, c) /\ c.activeKeyID.version \in Nat
<1>1. c.activeKeyID.version \in Nat
  BY UnobservedState DEF IsRegistry, IsState, KeySet
<1>2. Unbroken(c, later)
  BY DEF IsRegistry, Unbroken
<1>. QED BY <1>1, <1>2 DEF IsRegistry, Continued

\* A step that continues the registry keeps the invariant, if it does for the
\* calls that it touches.
LEMMA Progress ==
  ASSUME NEW c, Data(c), NEW d, node'.content = {d}, IsRegistry(d, transit'.latest),
         Continued(c, d), seen' \in Nat, seen' <= d.activeKeyID.version,
         Complete(transit'), transit.latest <= transit'.latest, IsNode(node', transit'.latest),
         stored \subseteq stored', \A e \in stored' : IsValue(e, transit'.latest),
         \A r \in Requests :
           \/ /\ request'[r] = request[r]
              /\ \A p \in node'.probe : p \in node.probe \/ r \notin p.by
           \/ CallData(r, request'[r], transit'.latest, stored', d, node'.probe)
  PROVE Data(d)'
<1>1. transit.latest \in Nat /\ transit'.latest \in Nat
  BY DEF Data, Complete
<1>2. c.activeKeyID.version \in Nat /\ d.activeKeyID.version \in Nat
  BY <1>1, RegistryLater DEF Data
<1>3. ASSUME NEW r \in Requests
      PROVE CallData(r, request'[r], transit'.latest, stored', d, node'.probe)
  <2>1. CASE /\ request'[r] = request[r]
             /\ \A p \in node'.probe : p \in node.probe \/ r \notin p.by
    <3>1. CallData(r, request[r], transit.latest, stored, c, node.probe)
      BY DEF Data
    <3>2. CallData(r, request[r], transit'.latest, stored', d, node'.probe)
      BY <1>1, <1>2, <2>1, <3>1, CallKept
    <3>. QED BY <2>1, <3>2
  <2>. QED BY <2>1, Zenon
<1>. QED BY <1>3, ZenonT(30) DEF Data

\* A step of one call.
LEMMA CallStep ==
  ASSUME NEW c, Data(c), CallInv, NEW r \in Requests, NEW q,
         CallData(r, q, transit.latest, stored, c, node.probe),
         request' = [request EXCEPT ![r] = q], UNCHANGED <<transit, node, stored, seen>>
  PROVE DataInv'
<1>1. \A o \in Requests : request'[o] = IF o = r THEN q ELSE request[o]
  BY DEF CallInv
<1>2. node'.content = {c} /\ IsRegistry(c, transit'.latest) /\ transit.latest \in Nat
  BY DEF Data, Complete
<1>3. Data(c)'
  BY <1>1, <1>2, Zenon DEF Data
<1>. QED BY <1>2, <1>3 DEF DataInv

\* A call that goes on outside Transit keeps what it has read and was given.
LEMMA GoesOnData ==
  ASSUME NEW r, NEW q, NEW o, NEW latest, NEW values, NEW c, NEW probe,
         HasRead(q, latest, c), Combines(q, latest, values), o.snapshot = q.snapshot,
         o.floor = q.floor, o.input = q.input, o.method = q.method, o.pc # "transit",
         Refreshed(r, o, c, probe)
  PROVE CallData(r, o, latest, values, c, probe)
<1>1. HasRead(o, latest, c)
  BY ONLY HasRead(q, latest, c), o.snapshot = q.snapshot, o.floor = q.floor DEF HasRead
<1>2. Combines(o, latest, values)
  BY ONLY Combines(q, latest, values), o.input = q.input, o.method = q.method DEF Combines
<1>3. Prepared(o)
  BY ONLY o.pc # "transit" DEF Prepared
<1>. QED BY ONLY <1>1, <1>2, <1>3, Refreshed(r, o, c, probe) DEF CallData

\* A call that has not begun.
LEMMA IdleData == \A r, latest, values, c, probe : CallData(r, IdleCall, latest, values, c, probe)
BY ZenonT(30) DEF CallData, HasRead, Combines, Prepared, Refreshed, IdleCall

\* A step without an answer.
LEMMA NoAnswer == answer' = {} => AnswerInv'
BY DEF AnswerInv, PlaintextOnlyForItsKey, PeerValueNotRefused, NoOlderKeyLater

\* A step that answers a call.
LEMMA FinishSound ==
  ASSUME NEW r, NEW call, NEW code, Finish(r, call, code),
         code = "OK" => \A s \in call.snapshot : s.version >= call.floor,
         \/ call.input = {}
         \/ UNCHANGED <<transit, node, stored>>
            /\ \A i \in call.input : Right(i, call.throttled, code)
  PROVE AnswerInv'
<1>1. \A a \in answer' : a.call = call /\ a.reply = code
  BY DEF Finish
<1>2. NoOlderKeyLater'
  BY <1>1 DEF NoOlderKeyLater
<1>3. PlaintextOnlyForItsKey'
  BY <1>1 DEF PlaintextOnlyForItsKey, Right
<1>4. PeerValueNotRefused'
  BY <1>1, ZenonT(30) DEF PeerValueNotRefused, Right, Recorded, Known
<1>. QED BY <1>2, <1>3, <1>4 DEF AnswerInv

\* A reply that invites the caller to try again.
LEMMA NotFinal ==
  ASSUME NEW r, NEW call, NEW code, Finish(r, call, code), code \notin Final
  PROVE AnswerInv'
BY NoAnswer DEF Finish

\* The replies of this service itself.
LEMMA LocalCodes ==
  /\ \A err : localCode(err) # "OK"
  /\ \A err \in {"key metadata refresh", "canceled", "deadline", "panic"} :
       localCode(err) \notin Final
<1>1. \A err : localCode(err) # "OK"
  BY Zenon DEF localCode
<1>2. \A err \in {"key metadata refresh", "canceled", "deadline", "panic"} :
        localCode(err) \notin {"NotFound", "InvalidArgument"}
  BY Zenon DEF localCode
<1>. QED BY <1>1, <1>2, Zenon DEF Final

-----------------------------------------------------------------------------
(* The first segment of a call.                                            *)

\* A new call has read nothing.
LEMMA NewData ==
  ASSUME NEW m \in Methods
  PROVE /\ New(m).input = {} /\ New(m).snapshot = {}
        /\ m # "decrypt" => New(m).floor = seen
        /\ New(m) = [x \in CallFields |-> New(m)[x]]
BY NewCall, ZenonT(30) DEF New, IdleCall, Valid, Methods

\* A call that starts after a version was named reads no older one.
LEMMA ReadStep ==
  \A c : \A r \in Requests : \A m \in {"status", "encrypt"} : \A got \in SUBSET activeStatus : \A pc \in {"answer", "transit"} :
    /\ Data(c)
    /\ CallInv
    /\ Continues(r, [New(m) EXCEPT !.snapshot = got], pc)
    /\ UNCHANGED <<transit, node, stored, seen>>
    => DataInv' /\ AnswerInv'
\* The key_id that the cache hands out.
<1>ActiveStatus.
  ASSUME NEW c, Data(c), NEW s \in activeStatus
  PROVE Exists(s, transit.latest) /\ s.version = c.activeKeyID.version
  <2>. USE <1>ActiveStatus
  <2>1. s = Snapshot(OwnScope, c.activeKeyID)
    BY DEF activeStatus, Data
  <2>2. c.activeKeyID \in DOMAIN c.snapshots
    BY UnobservedState, ActiveKnown, ZenonT(30) DEF Data, IsRegistry
  <2>3. PICK v \in 1..transit.latest : c.activeKeyID = KeyAt(v)
    BY <2>2, Zenon DEF Data, IsRegistry, Unbroken
  <2>. QED BY <2>1, <2>3 DEF Exists, Snapshot, KeyAt
<1>. SUFFICES ASSUME NEW c, Data(c), CallInv, NEW r \in Requests, NEW m \in {"status", "encrypt"},
         NEW got \in SUBSET activeStatus, NEW pc \in {"answer", "transit"},
         Continues(r, [New(m) EXCEPT !.snapshot = got], pc),
         UNCHANGED <<transit, node, stored, seen>>
             PROVE DataInv' /\ AnswerInv'
  OBVIOUS
<1>. DEFINE q == [[New(m) EXCEPT !.snapshot = got] EXCEPT !.pc = pc]
<1>1. /\ New(m).input = {} /\ New(m).floor = seen
      /\ New(m) = [x \in CallFields |-> New(m)[x]] /\ New(m).method = m
  BY NewData, NewCall DEF Methods
<1>2. q.snapshot = got /\ q.input = {} /\ q.floor = seen /\ q.pc = pc
  <2>. HIDE DEF New
  <2>. QED BY <1>1 DEF CallFields
<1>3. request' = [request EXCEPT ![r] = q] /\ answer' = {}
  BY DEF Continues
<1>. HIDE DEF q
<1>4. \A s \in got : /\ Exists(s, transit.latest) /\ s.version = c.activeKeyID.version
  BY <1>ActiveStatus
<1>5. seen \in Nat /\ seen <= c.activeKeyID.version /\ c.activeKeyID.version \in Nat
  BY RegistryLater DEF Data, Complete
<1>6. HasRead(q, transit.latest, c)
  BY <1>2, <1>4, <1>5 DEF HasRead
<1>7. CallData(r, q, transit.latest, stored, c, node.probe)
  BY <1>2, <1>6 DEF CallData, Combines, Prepared, Refreshed
<1>. QED BY <1>3, <1>7, CallStep, NoAnswer, Zenon

\* A handler that returns at once.
LEMMA ReturnData ==
  ASSUME NEW c, Data(c), CallInv, NEW r \in Requests, NEW m \in Methods, NEW code,
         Returns(r, New(m), code), UNCHANGED <<transit, node, stored, seen>>
  PROVE DataInv' /\ AnswerInv'
<1>1. Finish(r, New(m), code) /\ request' = [request EXCEPT ![r] = IdleCall]
  BY DEF Returns, Finish
<1>2. AnswerInv'
  BY <1>1, NewData, FinishSound
<1>. QED BY <1>1, <1>2, IdleData, CallStep, ZenonT(30)

\* Status and Encrypt up to their first wait.
LEMMA AdmitData ==
  ASSUME NEW c, Data(c), CallInv, NEW r \in Requests, Status(r) \/ Encrypt(r)
  PROVE DataInv' /\ AnswerInv'
<1>0. UNCHANGED <<transit, node, stored, seen>> /\ "status" \in Methods /\ "encrypt" \in Methods
  BY Zenon DEF Status, Encrypt, Methods
<1>1. \/ \E m \in {"status", "encrypt"} : \E code : Returns(r, New(m), code)
      \/ Continues(r, [New("status") EXCEPT !.snapshot = activeStatus], "answer")
      \/ \E s \in activeStatus : Continues(r, [New("encrypt") EXCEPT !.snapshot = {s}], "transit")
  BY ZenonT(30) DEF Status, Encrypt, Waits
<1>2. CASE \E m \in {"status", "encrypt"} : \E code : Returns(r, New(m), code)
  BY <1>0, <1>2, ReturnData
<1>3. CASE Continues(r, [New("status") EXCEPT !.snapshot = activeStatus], "answer")
  BY <1>0, <1>3, ReadStep
<1>4. ASSUME NEW s \in activeStatus,
             Continues(r, [New("encrypt") EXCEPT !.snapshot = {s}], "transit")
      PROVE DataInv' /\ AnswerInv'
  <2>1. {s} \in SUBSET activeStatus
    BY <1>4
  <2>. QED BY <1>0, <1>4, <2>1, ReadStep
<1>. QED BY <1>1, <1>2, <1>3, <1>4, ZenonT(30)

-----------------------------------------------------------------------------
(* Decrypt.                                                                *)

\* The parts of a stored value.
LEMMA StoredParts ==
  \A e : \A latest \in Nat :
    IsValue(e, latest)
    => /\ Canonical(e.keyID, e.annotations).err = "none"
       /\ e.ciphertext.aad = Canonical(e.keyID, e.annotations).aad
       /\ e.ciphertext.key = KeyAt(e.keyID.version)
       /\ e = [ciphertext |-> e.ciphertext, keyID |-> e.keyID, annotations |-> e.annotations]
\* The annotations that encrypt returns are the ones that decrypt accepts.
<1>OwnAnnotations.
  ASSUME NEW s, s.version \in Nat \ {0}
  PROVE Canonical(s, BuildAnnotations(s, "v1.0")).err = "none"
  <2>. USE <1>OwnAnnotations
  <2>. DEFINE a == BuildAnnotations(s, "v1.0")
  <2>1. /\ RequiredKeys \subseteq DOMAIN a
        /\ "malformed" \notin DOMAIN a
        /\ "namespaceHash" \in DOMAIN a <=> s.scope.namespace # ""
    BY Zenon DEF BuildAnnotations, RequiredKeys
  <2>2. a["provider"] = "openbao" /\ a["version"] = s.version /\ a["aadVersion"] = "v1"
    BY DEF BuildAnnotations, RequiredKeys
  <2>3. a["keyIDHash"] = HashValue(s) /\ a["mountHash"] = HashValue(s.scope.mount)
        /\ a["keyHash"] = HashValue(s.scope.lineage)
    BY DEF BuildAnnotations, RequiredKeys
  <2>4. "namespaceHash" \in DOMAIN a => a["namespaceHash"] = HashValue(s.scope.namespace)
    BY Zenon DEF BuildAnnotations, RequiredKeys
  <2>. HIDE DEF a
  <2>. DEFINE p == [keyIDHash |-> a["keyIDHash"], version |-> a["version"],
           mountHash |-> a["mountHash"], keyHash |-> a["keyHash"],
           namespaceHash |-> IF "namespaceHash" \in DOMAIN a
                             THEN a["namespaceHash"] ELSE <<>>]
  <2>5. ParseAnnotations(a) = {p}
    <3>1. a["version"] > 0
      BY <2>2
    <3>. QED BY <2>1, <2>2, <3>1, ZenonT(30) DEF ParseAnnotations
  <2>6. ValidateForSnapshot(s, p)
    BY <2>1, <2>2, <2>3, <2>4, ZenonT(30) DEF ValidateForSnapshot
  <2>. HIDE DEF p
  <2>7. {q \in {p} : ValidateForSnapshot(s, q)} # {} /\ {p} # {}
    BY <2>6
  <2>. QED BY <2>5, <2>7, ZenonT(30) DEF Canonical, a
<1>. SUFFICES ASSUME NEW e, NEW latest \in Nat, IsValue(e, latest)
             PROVE /\ Canonical(e.keyID, e.annotations).err = "none"
                   /\ e.ciphertext.aad = Canonical(e.keyID, e.annotations).aad
                   /\ e.ciphertext.key = KeyAt(e.keyID.version)
                   /\ e = [ciphertext |-> e.ciphertext, keyID |-> e.keyID, annotations |-> e.annotations]
  OBVIOUS
<1>1. /\ Exists(e.keyID, latest) /\ e = Envelope(e.keyID, RegistryKey(e.keyID))
  BY DEF IsValue
<1>2. e.keyID.version \in Nat \ {0} /\ RegistryKey(e.keyID) = KeyAt(e.keyID.version)
  BY <1>1 DEF Exists, RegistryKey, Snapshot, KeyAt
<1>3. /\ e.annotations = BuildAnnotations(e.keyID, "v1.0")
      /\ e.ciphertext = [key |-> RegistryKey(e.keyID),
                         aad |-> Canonical(e.keyID, BuildAnnotations(e.keyID, "v1.0")).aad]
      /\ e = [ciphertext |-> e.ciphertext, keyID |-> e.keyID, annotations |-> e.annotations]
  <2>1. \A s, used :
          /\ Envelope(s, used).annotations = BuildAnnotations(s, "v1.0")
          /\ Envelope(s, used).ciphertext =
               [key |-> used, aad |-> Canonical(s, BuildAnnotations(s, "v1.0")).aad]
          /\ Envelope(s, used) = [ciphertext |-> Envelope(s, used).ciphertext,
                                  keyID |-> Envelope(s, used).keyID,
                                  annotations |-> Envelope(s, used).annotations]
    BY ZenonT(30) DEF Envelope
  <2>. QED BY <1>1, <2>1
<1>. QED BY <1>2, <1>3, <1>OwnAnnotations

\* What a decrypt may be asked for.
LEMMA InputsGiven ==
  ASSUME NEW c, Data(c), NEW i \in Inputs
  PROVE Given(i, transit.latest, stored)
<1>1. \A e \in stored :
        /\ Exists(e.keyID, transit.latest)
        /\ e = [ciphertext |-> e.ciphertext, keyID |-> e.keyID, annotations |-> e.annotations]
  <2>1. \A e \in stored : IsValue(e, transit.latest) /\ transit.latest \in Nat
    BY DEF Data, Complete
  <2>. QED BY <2>1, StoredParts DEF IsValue
<1>2. \/ i \in stored
      \/ \E e \in stored, f \in stored : i = [f EXCEPT !.ciphertext = e.ciphertext]
      \/ \E f \in stored : \E a : i = [f EXCEPT !.annotations = a]
  <2>. DEFINE own == {e \in stored : e.keyID.scope = OwnScope}
              others == {e.annotations : e \in stored} \union
                        {[malformed |-> "x"] : m \in Events \intersect {"malformed"}}
  <2>1. \/ i \in stored
        \/ i \in {[f EXCEPT !.ciphertext = e.ciphertext] : e \in stored, f \in own}
        \/ i \in {[f EXCEPT !.annotations = a] : f \in own, a \in others}
    BY DEF Inputs
  <2>2. own \subseteq stored
    OBVIOUS
  <2>. HIDE DEF own, others
  <2>. QED BY <2>1, <2>2
<1>3. CASE i \in stored
  BY <1>1, <1>3 DEF Given
<1>4. ASSUME NEW e \in stored, NEW f \in stored, i = [f EXCEPT !.ciphertext = e.ciphertext]
      PROVE i.keyID = f.keyID /\ i.ciphertext = e.ciphertext
  BY <1>1, <1>4
<1>5. ASSUME NEW f \in stored, NEW a, i = [f EXCEPT !.annotations = a]
      PROVE i.keyID = f.keyID /\ i.ciphertext = f.ciphertext
  BY <1>1, <1>5
<1>. QED BY <1>1, <1>2, <1>3, <1>4, <1>5 DEF Given

\* PrepareDecrypt refuses no stored value, and what it passes on to Transit is
\* bound to the key_id of the request.
LEMMA PrepareData ==
  ASSUME NEW c, Data(c), CallInv, NEW r \in Requests, NEW call, Valid(call),
         NEW i, call.input = {i}, Given(i, transit.latest, stored), HasRead(call, transit.latest, c),
         call.method = "decrypt", Known(i.keyID), PrepareDecrypt(r, call, i),
         UNCHANGED <<transit, node, stored, seen>>
  PROVE DataInv' /\ AnswerInv'
<1>. DEFINE canonical == Canonical(i.keyID, i.annotations)
<1>1. CASE canonical.err # "none" /\ Finish(r, call, localCode(canonical.err))
  <2>1. request' = [request EXCEPT ![r] = IdleCall]
    BY <1>1, ZenonT(30) DEF Finish
  <2>2. ASSUME NEW e \in stored, e.keyID = i.keyID, e.annotations = i.annotations
        PROVE FALSE
    <3>1. IsValue(e, transit.latest) /\ transit.latest \in Nat
      BY ZenonT(30) DEF Data, Complete
    <3>2. Canonical(e.keyID, e.annotations).err = "none"
      BY <3>1, StoredParts
    <3>. QED BY <1>1, <2>2, <3>2, ZenonT(30)
  <2>3. Right(i, call.throttled, localCode(canonical.err))
    BY <2>2, LocalCodes, ZenonT(30) DEF Right
  <2>4. AnswerInv'
    <3>. HIDE DEF canonical
    <3>. QED BY <1>1, <2>3, LocalCodes, FinishSound, ZenonT(30)
  <2>. QED BY <2>1, <2>4, IdleData, CallStep, ZenonT(30)
<1>2. CASE /\ canonical.err = "none"
           /\ Continues(r, [call EXCEPT !.aad = canonical.aad], "transit")
  <2>. DEFINE q == [[call EXCEPT !.aad = canonical.aad] EXCEPT !.pc = "transit"]
  <2>1. /\ q.snapshot = call.snapshot /\ q.floor = call.floor /\ q.input = {i}
        /\ q.aad = canonical.aad /\ q.pc = "transit" /\ q.method = "decrypt"
    <3>. HIDE DEF canonical
    <3>. QED BY DEF Valid, CallFields
  <2>2. request' = [request EXCEPT ![r] = q] /\ answer' = {}
    BY <1>2 DEF Continues
  <2>. HIDE DEF q
  <2>3. i.keyID.scope = OwnScope
    BY ZenonT(30) DEF Known
  <2>4. CallData(r, q, transit.latest, stored, c, node.probe)
    BY <1>2, <2>1, <2>3 DEF CallData, HasRead, Combines, Prepared, Refreshed, Given
  <2>. QED BY <2>2, <2>4, CallStep, NoAnswer, ZenonT(30)
<1>. QED BY <1>1, <1>2, ZenonT(30) DEF PrepareDecrypt

\* The first segment of Decrypt.
LEMMA DecryptData ==
  ASSUME NEW c, Data(c), CallInv, NEW r \in Requests, Decrypt(r)
  PROVE DataInv' /\ AnswerInv'
<1>0. UNCHANGED <<transit, node, stored, seen>> /\ "decrypt" \in Methods
  BY ZenonT(30) DEF Decrypt, Methods
<1>1. CASE \E code : Returns(r, New("decrypt"), code)
  BY <1>0, <1>1, ReturnData
<1>2. ASSUME NEW i \in Inputs,
             LET given == [New("decrypt") EXCEPT !.input = {i}]
             IN \/ Known(i.keyID) /\ PrepareDecrypt(r, given, i)
                \/ Continues(r, given, "refresh")
      PROVE DataInv' /\ AnswerInv'
  <2>. DEFINE given == [New("decrypt") EXCEPT !.input = {i}]
              q == [given EXCEPT !.pc = "refresh"]
  <2>1. Valid(New("decrypt")) /\ New("decrypt").method = "decrypt" /\ New("decrypt").snapshot = {}
    BY <1>0, NewCall, NewData
  <2>2. /\ Valid(given) /\ given.method = "decrypt"
        /\ given.snapshot = {} /\ given.input = {i} /\ HasRead(given, transit.latest, c)
    <3>. HIDE DEF New
    <3>1. Valid(given) /\ given.method = "decrypt"
      BY <2>1, Stores, ZenonT(30)
    <3>2. given.snapshot = {} /\ given.input = {i}
      BY <2>1 DEF Valid, CallFields
    <3>. HIDE DEF given
    <3>. QED BY <3>1, <3>2 DEF HasRead
  <2>3. \/ Known(i.keyID) /\ PrepareDecrypt(r, given, i)
        \/ Continues(r, given, "refresh")
    BY <1>2
  <2>. HIDE DEF given
  <2>4. Given(i, transit.latest, stored)
    BY InputsGiven
  <2>5. CASE Known(i.keyID) /\ PrepareDecrypt(r, given, i)
    BY <1>0, <2>2, <2>4, <2>5, PrepareData, ZenonT(30)
  <2>6. CASE Continues(r, given, "refresh")
    <3>1. q.snapshot = {} /\ q.input = {i} /\ q.pc = "refresh" /\ q.method = "decrypt"
      BY <2>2 DEF Valid, CallFields
    <3>2. request' = [request EXCEPT ![r] = q] /\ answer' = {}
      BY <2>6 DEF Continues
    <3>. HIDE DEF q
    <3>3. CallData(r, q, transit.latest, stored, c, node.probe)
      BY <2>4, <3>1, ZenonT(30) DEF CallData, HasRead, Combines, Prepared, Refreshed, Given
    <3>. QED BY <1>0, <3>2, <3>3, CallStep, NoAnswer, ZenonT(30)
  <2>. QED BY <2>3, <2>5, <2>6
<1>. QED BY <1>1, <1>2, ZenonT(30) DEF Decrypt

\* The input of a call that waits.
LEMMA CallInput ==
  ASSUME NEW c, Data(c), CallInv, NEW r \in Requests, NEW i \in request[r].input
  PROVE /\ Valid(request[r]) /\ request[r].input = {i} /\ request[r].method = "decrypt"
        /\ Given(i, transit.latest, stored)
        /\ CallData(r, request[r], transit.latest, stored, c, node.probe)
BY Zenon DEF Data, CallInv, CallData, Combines, Given

\* A call that has been refreshed is refused only if the registry has removed
\* its key_id.
LEMMA AgainData ==
  ASSUME NEW c, Data(c), CallInv, NEW r \in Requests, DecryptAgain(r)
  PROVE DataInv' /\ AnswerInv'
<1>1. PICK i \in request[r].input :
        /\ request[r].pc = "again"
        /\ \/ Known(i.keyID) /\ PrepareDecrypt(r, request[r], i)
           \/ /\ ~Known(i.keyID)
              /\ Finish(r, request[r], localCode(IF request[r].failed THEN "key metadata refresh"
                                                 ELSE "unknown key_id"))
        /\ UNCHANGED <<transit, node, stored, seen>>
  BY ZenonT(30) DEF DecryptAgain
<1>2. PICK q : q = request[r]
  BY ZenonT(30)
<1>3. /\ Valid(q) /\ q.input = {i} /\ q.method = "decrypt" /\ Given(i, transit.latest, stored)
      /\ CallData(r, q, transit.latest, stored, c, node.probe) /\ HasRead(q, transit.latest, c)
  BY <1>2, CallInput, ZenonT(30) DEF CallData
<1>4. CASE Known(i.keyID) /\ PrepareDecrypt(r, request[r], i)
  <2>1. PrepareDecrypt(r, q, i) /\ Known(i.keyID) /\ UNCHANGED <<transit, node, stored, seen>>
    BY <1>1, <1>2, <1>4, ZenonT(30)
  <2>. QED BY ONLY <1>3, <2>1, PrepareData, Data(c), CallInv, r \in Requests, ZenonT(30)
<1>5. CASE q.failed /\ Finish(r, q, localCode("key metadata refresh"))
  <2>1. request' = [request EXCEPT ![r] = IdleCall] /\ AnswerInv'
    BY <1>5, LocalCodes, NotFinal, ZenonT(30) DEF Finish
  <2>. QED BY <1>1, <2>1, IdleData, CallStep, ZenonT(30)
<1>6. CASE ~q.failed /\ ~Known(i.keyID) /\ Finish(r, q, localCode("unknown key_id"))
  <2>1. request' = [request EXCEPT ![r] = IdleCall]
    BY <1>6, ZenonT(30) DEF Finish
  <2>2. i.keyID.scope = OwnScope /\ ~q.throttled => Recorded(i.keyID)
    BY <1>1, <1>2, <1>3, <1>6, ZenonT(30) DEF CallData, Refreshed, Recorded, Data
  <2>3. Right(i, q.throttled, localCode("unknown key_id"))
    BY <1>6, <2>2, LocalCodes, ZenonT(30) DEF Right
  <2>4. AnswerInv'
    BY <1>1, <1>3, <1>6, <2>3, LocalCodes, FinishSound, ZenonT(30)
  <2>. QED BY <1>1, <2>1, <2>4, IdleData, CallStep, ZenonT(30)
<1>. QED BY <1>1, <1>2, <1>4, <1>5, <1>6, ZenonT(30)

\* A call that waits for a refresh.
LEMMA RefreshData ==
  ASSUME NEW c, Data(c), CallInv, NEW r \in Requests, RefreshForDecrypt(r)
  PROVE DataInv' /\ AnswerInv'
<1>1. PICK i \in request[r].input :
        /\ request[r].pc = "refresh" /\ UNCHANGED <<transit, stored, seen>>
        /\ \/ Recorded(i.keyID) /\ Continues(r, request[r], "again") /\ UNCHANGED node
           \/ RefreshWithinInterval(r) /\ UNCHANGED node
           \/ /\ Continues(r, request[r], "wait") /\ node.probe = NoProbe
              /\ node' = [node EXCEPT !.nextRefresh = TRUE,
                   !.probe = {[discover |-> TRUE, profile |-> transit, by |-> {r}]}]
  BY ZenonT(30) DEF RefreshForDecrypt
<1>2. PICK q : q = request[r]
  OBVIOUS
<1>3. /\ Valid(q) /\ q.input = {i} /\ q.method = "decrypt" /\ Given(i, transit.latest, stored)
      /\ HasRead(q, transit.latest, c) /\ Combines(q, transit.latest, stored)
  BY <1>2, CallInput, ZenonT(30) DEF CallData
<1>4. CASE Recorded(i.keyID) /\ Continues(r, request[r], "again") /\ UNCHANGED node
  <2>. DEFINE o == [q EXCEPT !.pc = "again"]
  <2>1. request' = [request EXCEPT ![r] = o] /\ answer' = {}
    BY <1>2, <1>4 DEF Continues
  <2>2. /\ o.snapshot = q.snapshot /\ o.floor = q.floor /\ o.input = {i} /\ o.method = "decrypt"
        /\ o.pc = "again"
    BY <1>3 DEF Valid, CallFields
  <2>. HIDE DEF o
  <2>3. RegistryKey(i.keyID) \in DOMAIN c.snapshots
    BY <1>4, ZenonT(30) DEF Recorded, Data
  <2>4. Refreshed(r, o, c, node.probe)
    BY ONLY <2>2, <2>3, ZenonT(30) DEF Refreshed
  <2>5. CallData(r, o, transit.latest, stored, c, node.probe)
    BY ONLY <1>3, <2>2, <2>4, GoesOnData, ZenonT(30)
  <2>. QED BY <1>1, <1>4, <2>1, <2>5, CallStep, NoAnswer, ZenonT(30)
<1>5. CASE RefreshWithinInterval(r) /\ UNCHANGED node
  <2>1. CASE Finish(r, q, localCode("key metadata refresh"))
    <3>1. request' = [request EXCEPT ![r] = IdleCall] /\ AnswerInv'
      BY <2>1, LocalCodes, NotFinal, ZenonT(30) DEF Finish
    <3>. QED BY <1>1, <1>5, <3>1, IdleData, CallStep, ZenonT(30)
  <2>2. CASE Continues(r, [q EXCEPT !.throttled = TRUE], "again")
    <3>. DEFINE o == [[q EXCEPT !.throttled = TRUE] EXCEPT !.pc = "again"]
    <3>1. request' = [request EXCEPT ![r] = o] /\ answer' = {}
      BY <2>2 DEF Continues
    <3>2. /\ o.snapshot = q.snapshot /\ o.floor = q.floor /\ o.input = {i} /\ o.method = "decrypt"
          /\ o.pc = "again" /\ o.throttled
      BY <1>3 DEF Valid, CallFields
    <3>. HIDE DEF o
    <3>3. Refreshed(r, o, c, node.probe)
      BY ONLY <3>2 DEF Refreshed
    <3>4. CallData(r, o, transit.latest, stored, c, node.probe)
      BY ONLY <1>3, <3>2, <3>3, GoesOnData, ZenonT(30)
    <3>. QED BY <1>1, <1>5, <3>1, <3>4, CallStep, NoAnswer, ZenonT(30)
  <2>. QED BY <1>2, <1>5, <2>1, <2>2, ZenonT(30) DEF RefreshWithinInterval
<1>6. CASE /\ Continues(r, request[r], "wait") /\ node.probe = NoProbe
           /\ node' = [node EXCEPT !.nextRefresh = TRUE,
                !.probe = {[discover |-> TRUE, profile |-> transit, by |-> {r}]}]
  <2>. DEFINE o == [q EXCEPT !.pc = "wait"]
              p == [discover |-> TRUE, profile |-> transit, by |-> {r}]
  <2>1. request' = [request EXCEPT ![r] = o] /\ answer' = {}
    BY <1>2, <1>6 DEF Continues
  <2>2. /\ o.snapshot = q.snapshot /\ o.floor = q.floor /\ o.input = {i} /\ o.method = "decrypt"
        /\ o.pc = "wait"
    BY <1>3 DEF Valid, CallFields
  <2>. HIDE DEF o
  <2>3. /\ node' = [up |-> node.up, content |-> node.content, healthy |-> node.healthy,
                    probe |-> {p}, nextRefresh |-> TRUE, refreshErr |-> node.refreshErr]
    BY <1>6, ZenonT(30) DEF Data, IsNode
  <2>4. Complete(transit) /\ transit.latest \in Nat /\ i.keyID.version \in 1..transit.latest
    BY <1>3, ZenonT(30) DEF Data, Complete, Given, Exists
  <2>5. p.discover \in BOOLEAN /\ p.profile = transit /\ p.by = {r}
    BY ZenonT(30)
  <2>. HIDE DEF p
  <2>6. IsNode(node', transit'.latest) /\ node'.content = {c} /\ node'.probe = {p}
    <3>1. node.content = {c} /\ transit'.latest = transit.latest
      BY <1>1 DEF Data
    <3>2. node'.content = {c} /\ node'.probe = {p}
      BY ONLY <2>3, <3>1, ZenonT(30)
    <3>. QED BY ONLY <2>3, <2>4, <2>5, <3>1, <3>2 DEF IsNode
  <2>7. CallData(r, o, transit.latest, stored, c, {p})
    <3>1. Refreshed(r, o, c, {p})
      BY ONLY <2>2, <2>4, <2>5 DEF Refreshed
    <3>. QED BY ONLY <1>3, <2>2, <3>1, GoesOnData, ZenonT(30)
  <2>8. ASSUME NEW x \in Requests
        PROVE \/ /\ request'[x] = request[x]
                 /\ \A z \in node'.probe : z \in node.probe \/ x \notin z.by
              \/ CallData(x, request'[x], transit'.latest, stored', c, node'.probe)
    <3>1. CASE x = r
      BY <1>1, <2>1, <2>6, <2>7, <3>1 DEF CallInv
    <3>2. CASE x # r
      BY <2>1, <2>5, <2>6, <3>2 DEF CallInv
    <3>. QED BY <3>1, <3>2, ZenonT(30)
  <2>9. IsRegistry(c, transit'.latest) /\ Continued(c, c)
    BY <1>1, <2>4, RegistryLater DEF Data
  <2>10. /\ seen' \in Nat /\ seen' <= c.activeKeyID.version /\ Complete(transit')
         /\ transit.latest <= transit'.latest /\ stored \subseteq stored'
         /\ \A e \in stored' : IsValue(e, transit'.latest)
    BY <1>1, <2>4 DEF Data
  <2>11. Data(c)'
    BY ONLY <2>6, <2>8, <2>9, <2>10, Progress, Data(c), ZenonT(30)
  <2>. QED BY <2>1, <2>6, <2>11, NoAnswer, ZenonT(30) DEF DataInv
<1>. QED BY <1>1, <1>4, <1>5, <1>6, ZenonT(30)

-----------------------------------------------------------------------------
(* Answers.                                                                *)

\* A call that names a key_id answers: what it names was active, so nothing
\* newer has been named by others only.
LEMMA NamedData ==
  ASSUME NEW c, Data(c), CallInv, NEW r \in Requests, request' = [request EXCEPT ![r] = IdleCall],
         UNCHANGED <<transit, node>>, stored \subseteq stored',
         \A e \in stored' : IsValue(e, transit.latest),
         \/ UNCHANGED seen
         \/ \E s \in request[r].snapshot : seen' = Max2(seen, s.version)
  PROVE DataInv'
<1>1. node'.content = {c} /\ transit.latest \in Nat /\ seen \in Nat
  BY ZenonT(30) DEF Data, Complete
<1>2. IsRegistry(c, transit.latest) /\ Continued(c, c) /\ c.activeKeyID.version \in Nat
  BY <1>1, RegistryLater DEF Data
<1>3. seen' \in Nat /\ seen' <= c.activeKeyID.version
  <2>1. CASE UNCHANGED seen
    BY <2>1, ZenonT(30) DEF Data
  <2>2. ASSUME NEW s \in request[r].snapshot, seen' = Max2(seen, s.version)
        PROVE seen' \in Nat /\ seen' <= c.activeKeyID.version
    <3>1. /\ CallData(r, request[r], transit.latest, stored, c, node.probe)
          /\ seen <= c.activeKeyID.version
      BY ZenonT(30) DEF Data
    <3>2. s.version \in Nat /\ s.version <= c.activeKeyID.version
      BY ONLY <1>1, <3>1, s \in request[r].snapshot DEF CallData, HasRead, Exists
    <3>. QED BY ONLY <1>1, <1>2, <2>2, <3>1, <3>2, ZenonT(30) DEF Max2
  <2>. QED BY <2>1, <2>2, ZenonT(30)
<1>4. ASSUME NEW x \in Requests
      PROVE \/ /\ request'[x] = request[x]
               /\ \A p \in node'.probe : p \in node.probe \/ x \notin p.by
            \/ CallData(x, request'[x], transit'.latest, stored', c, node'.probe)
  <2>1. request'[x] = IF x = r THEN IdleCall ELSE request[x]
    BY DEF CallInv
  <2>. QED BY <2>1, IdleData, ZenonT(30)
<1>5. Complete(transit) /\ IsNode(node, transit.latest)
  BY ZenonT(30) DEF Data
<1>6. /\ Complete(transit') /\ transit.latest <= transit'.latest /\ IsNode(node', transit'.latest)
      /\ IsRegistry(c, transit'.latest) /\ \A e \in stored' : IsValue(e, transit'.latest)
  BY <1>1, <1>2, <1>5
<1>7. Data(c)'
  BY ONLY <1>1, <1>2, <1>3, <1>4, <1>6, Progress, Data(c), stored \subseteq stored', ZenonT(30)
<1>. QED BY <1>1, <1>7 DEF DataInv

\* The second step of Status.
LEMMA StatusData ==
  ASSUME NEW c, Data(c), CallInv, NEW r \in Requests, StatusAnswers(r)
  PROVE DataInv' /\ AnswerInv'
<1>1. /\ request' = [request EXCEPT ![r] = IdleCall] /\ Finish(r, request[r], "OK")
      /\ UNCHANGED <<transit, node, stored>>
      /\ UNCHANGED seen \/ \E s \in request[r].snapshot : seen' = Max2(seen, s.version)
  BY ZenonT(30) DEF StatusAnswers, Finish
<1>2. request[r].method = "status"
  BY ZenonT(30) DEF StatusAnswers, CallInv, Valid
<1>3. CallData(r, request[r], transit.latest, stored, c, node.probe)
  BY ZenonT(30) DEF Data
<1>4. /\ request[r].input = {}
      /\ \A s \in request[r].snapshot : s.version >= request[r].floor
  BY ONLY <1>2, <1>3, ZenonT(30) DEF CallData, Combines, HasRead
<1>5. AnswerInv'
  BY <1>1, <1>4, FinishSound, ZenonT(30)
<1>6. \A e \in stored' : IsValue(e, transit.latest)
  BY <1>1, ZenonT(30) DEF Data
<1>. QED BY <1>1, <1>5, <1>6, NamedData, ZenonT(30)

\* The second step of Encrypt: what is stored was encrypted with the version
\* that its key_id names.
LEMMA EncryptData ==
  ASSUME NEW c, Data(c), CallInv, NEW r \in Requests, TransitEncrypts(r)
  PROVE DataInv' /\ AnswerInv'
<1>0. /\ request[r].method = "encrypt" /\ UNCHANGED <<transit, node>>
      /\ CallData(r, request[r], transit.latest, stored, c, node.probe)
  BY ZenonT(30) DEF TransitEncrypts, Data
<1>1. PICK code : Finish(r, request[r], code)
  BY ZenonT(30) DEF TransitEncrypts
<1>2. request' = [request EXCEPT ![r] = IdleCall]
  BY <1>1, Zenon DEF Finish
<1>3. /\ request[r].input = {}
      /\ \A s \in request[r].snapshot : s.version >= request[r].floor
  BY ONLY <1>0, ZenonT(30) DEF CallData, Combines, HasRead
<1>4. AnswerInv'
  BY <1>1, <1>3, FinishSound, ZenonT(30)
<1>5. CASE UNCHANGED <<stored, seen>>
  <2>1. \A e \in stored' : IsValue(e, transit.latest)
    BY <1>5, ZenonT(30) DEF Data
  <2>. QED BY <1>0, <1>2, <1>4, <1>5, <2>1, NamedData, ZenonT(30)
<1>6. ASSUME NEW s \in request[r].snapshot, NEW reported \in {0} \union DOMAIN transit.createdAt,
             CanEncrypt(s), VersionAccepted(reported, s), seen' = Max2(seen, s.version),
             stored' = stored \union {Envelope(s, KeyOf(transit,
                         IF reported = 0 THEN s.version ELSE reported))}
      PROVE DataInv'
  <2>1. Exists(s, transit.latest)
    BY ONLY <1>0, s \in request[r].snapshot, ZenonT(30) DEF CallData, HasRead
  <2>2. (IF reported = 0 THEN s.version ELSE reported) = s.version
    BY <1>6, ZenonT(30) DEF VersionAccepted
  <2>3. KeyOf(transit, s.version) = RegistryKey(s)
    BY ONLY CanEncrypt(s), ZenonT(30) DEF CanEncrypt, KeyOf, RegistryKey
  <2>4. Envelope(s, RegistryKey(s)).keyID = s
    BY ZenonT(30) DEF Envelope
  <2>5. IsValue(Envelope(s, RegistryKey(s)), transit.latest)
    BY <2>1, <2>4, ZenonT(30) DEF IsValue
  <2>6. stored' = stored \union {Envelope(s, RegistryKey(s))}
    BY <1>6, <2>2, <2>3, ZenonT(30)
  <2>7. stored \subseteq stored' /\ \A e \in stored' : IsValue(e, transit.latest)
    BY <2>5, <2>6, ZenonT(30) DEF Data
  <2>. QED BY <1>0, <1>2, <1>6, <2>7, NamedData, ZenonT(30)
<1>7. \/ UNCHANGED <<stored, seen>>
      \/ \E s \in request[r].snapshot :
           \E reported \in {0} \union DOMAIN transit.createdAt :
             /\ CanEncrypt(s) /\ VersionAccepted(reported, s) /\ seen' = Max2(seen, s.version)
             /\ stored' = stored \union {Envelope(s, KeyOf(transit,
                            IF reported = 0 THEN s.version ELSE reported))}
  BY Zenon DEF TransitEncrypts
<1>. QED BY <1>4, <1>5, <1>6, <1>7, ZenonT(30)

\* A call that ends without naming a key_id.
LEMMA EndData ==
  ASSUME NEW c, Data(c), CallInv, NEW r \in Requests, NEW call, NEW code, Finish(r, call, code),
         UNCHANGED <<transit, node, stored, seen>>
  PROVE DataInv'
<1>1. request' = [request EXCEPT ![r] = IdleCall]
  BY ZenonT(30) DEF Finish
<1>. QED BY <1>1, IdleData, CallStep, Zenon

\* Transit hands out a plaintext only if the associated data of the request is
\* that of the ciphertext, and does so for every value that may be decrypted.
LEMMA AnswerRight ==
  \A c, i, aad, throttled :
    /\ Data(c)
    /\ Given(i, transit.latest, stored)
    /\ i.keyID.scope = OwnScope
    /\ Canonical(i.keyID, i.annotations).err = "none"
    /\ aad = Canonical(i.keyID, i.annotations).aad
    => LET class == doOpenBao(TransitAnswer(i, aad))
       IN Right(i, throttled, IF class = "ok" THEN "OK" ELSE transitCode(class, FALSE))
\* A failure of Transit is never an answer.
<1>CodeNotOK.
  \A class, a : transitCode(class, a) # "OK"
  BY ZenonT(30) DEF transitCode
\* What the exchange says of Transit's answers.
<1>Classes.
  /\ doOpenBao(Response(200, "nothing", "fits")) = "ok"
  /\ doOpenBao(Response(400, "nothing", "fits")) # "ok"
  /\ doOpenBao(Response(400, "mac", "fits")) # "ok"
  BY DEF doOpenBao, Response, readOpenBaoResponse, readBoundedResponseBody, classifyError
\* The associated data binds the key_id.
<1>CanonicalBinds.
  ASSUME NEW s, NEW a, NEW t, NEW b,
         Canonical(s, a).err = "none", Canonical(s, a).aad = Canonical(t, b).aad
  PROVE s = t
  <2>. USE <1>CanonicalBinds
  <2>1. PICK p : /\ ValidateForSnapshot(s, p)
                 /\ buildCanonicalFromParsed(s, p) \in Canonical(s, a).aad
    BY ZenonT(30) DEF Canonical
  <2>2. PICK o : /\ ValidateForSnapshot(t, o)
                 /\ buildCanonicalFromParsed(t, o) = buildCanonicalFromParsed(s, p)
    BY <2>1, Zenon DEF Canonical
  <2>3. o.keyIDHash = p.keyIDHash
    BY <2>2, Zenon DEF buildCanonicalFromParsed
  <2>4. <<s>> = <<t>>
    BY <2>1, <2>2, <2>3, ZenonT(30) DEF ValidateForSnapshot, HashValue
  <2>5. \A x, y : <<x>> = <<y>> => x = y
    BY ZenonT(30)
  <2>. QED BY <2>4, <2>5
<1>. SUFFICES ASSUME NEW c, Data(c), NEW i, NEW aad, Given(i, transit.latest, stored),
         i.keyID.scope = OwnScope, Canonical(i.keyID, i.annotations).err = "none",
         aad = Canonical(i.keyID, i.annotations).aad, NEW throttled
             PROVE LET class == doOpenBao(TransitAnswer(i, aad))
                   IN Right(i, throttled, IF class = "ok" THEN "OK" ELSE transitCode(class, FALSE))
  BY ZenonT(30)
<1>. DEFINE class == doOpenBao(TransitAnswer(i, aad))
            code == IF class = "ok" THEN "OK" ELSE transitCode(class, FALSE)
<1>0. transit.latest \in Nat /\ \A e \in stored : IsValue(e, transit.latest)
  BY ZenonT(30) DEF Data, Complete
<1>1. class = "ok" <=> CanDecrypt(i.ciphertext.key) /\ i.ciphertext.aad = aad
  BY <1>Classes, ZenonT(30) DEF TransitAnswer
<1>. HIDE DEF class
<1>2. code = "OK" <=> class = "ok"
  BY <1>CodeNotOK, Zenon
<1>3. PICK e \in stored : e.ciphertext = i.ciphertext
  BY ZenonT(30) DEF Given
<1>4. ASSUME i.ciphertext.aad = aad PROVE e.keyID = i.keyID
  <2>1. e.ciphertext.aad = Canonical(e.keyID, e.annotations).aad
    BY <1>0, StoredParts, ZenonT(30)
  <2>2. Canonical(i.keyID, i.annotations).aad = Canonical(e.keyID, e.annotations).aad
    BY <1>3, <1>4, <2>1, ZenonT(30)
  <2>. QED BY <2>2, <1>CanonicalBinds, ZenonT(30)
<1>5. ASSUME NEW f \in stored, f.keyID = i.keyID, f.ciphertext = i.ciphertext,
             f.annotations = i.annotations, ~(i.keyID.version < transit.minDec)
      PROVE class = "ok"
  <2>1. /\ f.ciphertext.aad = Canonical(f.keyID, f.annotations).aad
        /\ f.ciphertext.key = KeyAt(f.keyID.version)
    BY <1>0, StoredParts, ZenonT(30)
  <2>2. i.keyID.version \in 1..transit.latest
    BY ZenonT(30) DEF Given, Exists
  <2>3. CanDecrypt(KeyAt(i.keyID.version))
    <3>1. Complete(transit)
      BY ZenonT(30) DEF Data
    <3>. QED BY ONLY <1>0, <2>2, <3>1, ~(i.keyID.version < transit.minDec)
                  DEF CanDecrypt, KeyAt, Complete
  <2>. QED BY ONLY <1>1, <1>5, <2>1, <2>3, aad = Canonical(i.keyID, i.annotations).aad, ZenonT(30)
<1>. HIDE DEF code
<1>6. Right(i, throttled, code)
  BY <1>1, <1>2, <1>3, <1>4, <1>5, ZenonT(30) DEF Right
<1>. QED BY <1>6, ZenonT(30) DEF code, class

\* The second step of Decrypt.
LEMMA PlaintextData ==
  ASSUME NEW c, Data(c), CallInv, NEW r \in Requests, TransitDecrypts(r)
  PROVE DataInv' /\ AnswerInv'
<1>1. PICK i \in request[r].input :
        /\ request[r].pc = "transit" /\ UNCHANGED <<transit, node, stored, seen>>
        /\ \/ \E x \in Exchanges, authentication \in BOOLEAN :
                Finish(r, request[r], transitCode(doOpenBao(x), authentication))
           \/ LET class == doOpenBao(TransitAnswer(i, request[r].aad))
              IN Finish(r, request[r], IF class = "ok" THEN "OK" ELSE transitCode(class, FALSE))
  BY ZenonT(30) DEF TransitDecrypts
<1>2. PICK q : q = request[r]
  OBVIOUS
<1>3. /\ q.input = {i} /\ Given(i, transit.latest, stored) /\ HasRead(q, transit.latest, c)
      /\ Prepared(q) /\ q.pc = "transit"
  BY <1>1, <1>2, CallInput, ZenonT(30) DEF CallData
<1>4. UNCHANGED <<transit, node, stored, seen>>
  BY <1>1, ZenonT(30)
<1>5. ASSUME NEW x \in Exchanges, NEW authentication \in BOOLEAN,
             Finish(r, request[r], transitCode(doOpenBao(x), authentication))
      PROVE DataInv' /\ AnswerInv'
  <2>1. AnswerInv'
    BY <1>5, ExchangeAssumption, NotFinal, ZenonT(30)
  <2>. QED BY <1>4, <1>5, <2>1, EndData, ZenonT(30)
<1>6. CASE LET class == doOpenBao(TransitAnswer(i, request[r].aad))
           IN Finish(r, request[r], IF class = "ok" THEN "OK" ELSE transitCode(class, FALSE))
  <2>. DEFINE class == doOpenBao(TransitAnswer(i, q.aad))
              code == IF class = "ok" THEN "OK" ELSE transitCode(class, FALSE)
  <2>1. Finish(r, q, code)
    BY <1>2, <1>6, ZenonT(30)
  <2>2. /\ i.keyID.scope = OwnScope /\ Canonical(i.keyID, i.annotations).err = "none"
        /\ q.aad = Canonical(i.keyID, i.annotations).aad
    BY <1>3, ZenonT(30) DEF Prepared
  <2>3. Right(i, q.throttled, code)
    BY <1>3, <2>2, AnswerRight, ZenonT(30)
  <2>. HIDE DEF code
  <2>4. \A s \in q.snapshot : s.version >= q.floor
    BY <1>3 DEF HasRead
  <2>5. AnswerInv'
    BY <1>3, <1>4, <2>1, <2>3, <2>4, FinishSound
  <2>. QED BY <1>4, <2>1, <2>5, EndData, ZenonT(30)
<1>. QED BY <1>1, <1>5, <1>6, ZenonT(30)

\* A context that ends and a panic.
LEMMA CutData ==
  ASSUME NEW c, Data(c), CallInv, NEW r \in Requests, ContextEnds(r) \/ Panics(r)
  PROVE DataInv' /\ AnswerInv'
<1>1. PICK err \in {"canceled", "deadline", "panic"} : Finish(r, request[r], localCode(err))
  BY Zenon DEF ContextEnds, Panics, Contexts
<1>2. UNCHANGED <<transit, node, stored, seen>>
  BY Zenon DEF ContextEnds, Panics
<1>3. AnswerInv'
  BY <1>1, LocalCodes, NotFinal, Zenon
<1>. QED BY <1>1, <1>2, <1>3, EndData

=============================================================================
