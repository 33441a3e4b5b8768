--------------------------- MODULE KmsServerProofs ---------------------------
(***************************************************************************)
(* The KMS service for every number of calls, limit, failure and event:    *)
(* the limiters, and what Status, Encrypt and Decrypt answer.              *)
(***************************************************************************)
EXTENDS KmsDataProofs, FiniteSetTheorems

-----------------------------------------------------------------------------
(* The registry of this node, Transit and the peers.                       *)

\* A step that leaves the calls alone and starts no discovery.
LEMMA QuietData ==
  ASSUME NEW c, Data(c), NEW d, node'.content = {d}, IsRegistry(d, transit'.latest),
         Continued(c, d), Complete(transit'), transit.latest <= transit'.latest,
         IsNode(node', transit'.latest), stored \subseteq stored',
         \A e \in stored' : IsValue(e, transit'.latest), UNCHANGED <<request, seen>>, answer' = {},
         \A p \in node'.probe : p \in node.probe \/ p.by = {}
  PROVE DataInv' /\ AnswerInv'
<1>1. seen' \in Nat /\ seen' <= d.activeKeyID.version
  <2>1. c.activeKeyID.version \in Nat /\ d.activeKeyID.version \in Nat
    BY RegistryLater DEF Data, Complete
  <2>. QED BY <2>1 DEF Data, Continued
<1>2. ASSUME NEW x \in Requests
      PROVE \/ /\ request'[x] = request[x]
               /\ \A p \in node'.probe : p \in node.probe \/ x \notin p.by
            \/ CallData(x, request'[x], transit'.latest, stored', d, node'.probe)
  OBVIOUS
<1>3. Data(d)'
  BY <1>1, <1>2, Progress, ZenonT(30)
<1>. QED BY <1>3, NoAnswer DEF DataInv

\* What a quiet step may take from the invariant.
LEMMA DataFacts ==
  ASSUME NEW c, Data(c)
  PROVE /\ IsRegistry(c, transit.latest) /\ Continued(c, c) /\ Complete(transit)
        /\ transit.latest \in Nat /\ IsNode(node, transit.latest) /\ node.content = {c}
        /\ \A e \in stored : IsValue(e, transit.latest)
BY RegistryLater DEF Data, Complete

\* A probe begins, the refresh interval or the health of the cache ends.
LEMMA ControlData ==
  ASSUME NEW c, Data(c), BeginProbe \/ RefreshIntervalEnds \/ HealthLapses
  PROVE DataInv' /\ AnswerInv'
<1>0. UNCHANGED <<transit, request, slots, stored, seen>> /\ answer' = {}
  BY ZenonT(30) DEF BeginProbe, RefreshIntervalEnds, HealthLapses
<1>1. IsRegistry(c, transit.latest) /\ Continued(c, c) /\ Complete(transit)
      /\ transit.latest \in Nat /\ IsNode(node, transit.latest) /\ node.content = {c}
      /\ \A e \in stored : IsValue(e, transit.latest)
  BY DataFacts
<1>2. \/ node' = [node EXCEPT !.probe = {[discover |-> FALSE, profile |-> transit, by |-> {}]}]
      \/ node' = [node EXCEPT !.nextRefresh = FALSE, !.refreshErr = FALSE]
      \/ node' = [node EXCEPT !.healthy = FALSE]
  BY DEF BeginProbe, RefreshIntervalEnds, HealthLapses
<1>3. /\ node' = [up |-> node'.up, content |-> node'.content, healthy |-> node'.healthy,
                  probe |-> node'.probe, nextRefresh |-> node'.nextRefresh,
                  refreshErr |-> node'.refreshErr]
      /\ node'.content = node.content
      /\ \/ node'.probe = node.probe
         \/ node'.probe = {[discover |-> FALSE, profile |-> transit, by |-> {}]}
  BY <1>1, <1>2, ZenonT(30) DEF IsNode
<1>4. \A p \in node'.probe : /\ p \in node.probe \/ p.by = {}
                             /\ node'.probe = {p} /\ p.discover \in BOOLEAN /\ Complete(p.profile)
                             /\ p.profile.latest <= transit.latest
  <2>1. CASE node'.probe = node.probe
    BY <1>1, <2>1 DEF IsNode
  <2>2. ASSUME NEW p, p = [discover |-> FALSE, profile |-> transit, by |-> {}]
        PROVE p.by = {} /\ p.discover \in BOOLEAN /\ p.profile = transit
    BY <2>2
  <2>. QED BY <1>1, <1>3, <2>1, <2>2
<1>5. IsNode(node', transit'.latest)
  BY <1>0, <1>3, <1>4 DEF IsNode
<1>6. node'.content = {c} /\ transit.latest <= transit'.latest /\ stored \subseteq stored'
      /\ \A e \in stored' : IsValue(e, transit'.latest)
  BY <1>0, <1>1, <1>3
<1>. QED BY <1>0, <1>1, <1>4, <1>5, <1>6, QuietData

\* Transit adds a version or raises its minimums.
LEMMA TransitData ==
  ASSUME NEW c, Data(c), Rotate \/ RaiseMinimums
  PROVE DataInv' /\ AnswerInv'
<1>0. UNCHANGED <<node, request, slots, stored, seen>> /\ answer' = {}
  BY ZenonT(30) DEF Rotate, RaiseMinimums
<1>1. IsRegistry(c, transit.latest) /\ Complete(transit)
      /\ transit.latest \in Nat /\ IsNode(node, transit.latest) /\ node.content = {c}
      /\ \A e \in stored : IsValue(e, transit.latest)
  BY DataFacts
<1>2. Complete(transit') /\ transit.latest <= transit'.latest /\ transit'.latest \in Nat
  <2>1. CASE Rotate
    <3>. DEFINE v == transit.latest + 1
    <3>1. transit' = [transit EXCEPT !.latest = v, !.createdAt = [u \in 1..v |-> u]]
      BY <2>1 DEF Rotate
    <3>2. v \in Nat \ {0} /\ transit.latest <= v
      BY <1>1
    <3>. HIDE DEF v
    <3>. QED BY <1>1, <3>1, <3>2, ZenonT(30) DEF Complete
  <2>2. CASE RaiseMinimums
    <3>1. PICK v \in (transit.minDec + 1)..transit.latest :
            transit' = [transit EXCEPT !.minDec = v, !.minEnc = v]
      BY <2>2, ZenonT(30) DEF RaiseMinimums
    <3>2. v \in Nat
      BY <1>1, <3>1 DEF Complete
    <3>3. transit' = [latest |-> transit.latest, createdAt |-> transit.createdAt,
                      minAvail |-> transit.minAvail, minDec |-> v, minEnc |-> v,
                      usable |-> transit.usable]
      BY <1>1, <3>1, ZenonT(30) DEF Complete
    <3>. QED BY <1>1, <3>2, <3>3 DEF Complete
  <2>. QED BY <2>1, <2>2
<1>3. IsRegistry(c, transit'.latest) /\ Continued(c, c)
  BY <1>1, <1>2, RegistryLater
<1>4. IsNode(node', transit'.latest)
  <2>1. ASSUME NEW p \in node.probe
        PROVE /\ node.probe = {p} /\ p.discover \in BOOLEAN /\ Complete(p.profile)
              /\ p.profile.latest <= transit'.latest
    <3>1. node.probe = {p} /\ p.discover \in BOOLEAN /\ Complete(p.profile) /\ p.profile.latest <= transit.latest
      BY <1>1 DEF IsNode
    <3>2. p.profile.latest \in Nat
      BY <3>1 DEF Complete
    <3>. QED BY <1>1, <1>2, <3>1, <3>2
  <2>. QED BY <1>0, <1>1, <2>1 DEF IsNode
<1>5. \A e \in stored' : IsValue(e, transit'.latest)
  BY <1>0, <1>1, <1>2, ExistsLater DEF IsValue
<1>6. node'.content = {c} /\ stored \subseteq stored' /\ \A p \in node'.probe : p \in node.probe
  BY <1>0, <1>1
<1>. QED BY <1>0, <1>2, <1>3, <1>4, <1>5, <1>6, QuietData

\* A peer stores a value.
LEMMA PeerData == ASSUME NEW c, Data(c), PeerEncrypts PROVE DataInv' /\ AnswerInv'
<1>0. UNCHANGED <<transit, node, request, slots, seen>> /\ answer' = {}
  BY ZenonT(30) DEF PeerEncrypts
<1>1. IsRegistry(c, transit.latest) /\ Continued(c, c) /\ Complete(transit)
      /\ transit.latest \in Nat /\ IsNode(node, transit.latest) /\ node.content = {c}
      /\ \A e \in stored : IsValue(e, transit.latest)
  BY DataFacts
<1>2. PICK v \in DOMAIN transit.createdAt :
        stored' = stored \union {Envelope(Snapshot(OwnScope, KeyOf(transit, v)), KeyOf(transit, v))}
  BY ZenonT(30) DEF PeerEncrypts
<1>3. v \in 1..transit.latest /\ KeyOf(transit, v) = KeyAt(v)
  BY <1>1, <1>2, CompleteProfile
<1>. DEFINE s == Snapshot(OwnScope, KeyAt(v))
<1>4. Exists(s, transit.latest) /\ RegistryKey(s) = KeyAt(v)
  BY <1>3 DEF Exists, Snapshot, KeyAt, RegistryKey
<1>. HIDE DEF s
<1>5. IsValue(Envelope(s, KeyAt(v)), transit.latest)
  <2>1. Envelope(s, KeyAt(v)).keyID = s
    BY DEF Envelope
  <2>. QED BY <1>4, <2>1 DEF IsValue
<1>6. stored \subseteq stored' /\ \A e \in stored' : IsValue(e, transit'.latest)
  BY <1>0, <1>1, <1>2, <1>3, <1>5 DEF s
<1>7. /\ node'.content = {c} /\ IsRegistry(c, transit'.latest) /\ Complete(transit')
      /\ transit.latest <= transit'.latest /\ IsNode(node', transit'.latest)
      /\ \A p \in node'.probe : p \in node.probe
  BY <1>0, <1>1
<1>. QED BY <1>0, <1>1, <1>6, <1>7, QuietData

\* The end of a probe.
LEMMA ProbeData ==
  \A c : \A p \in node.probe : \A failed \in BOOLEAN : \A d :
    /\ Data(c)
    /\ CallInv
    /\ node.probe = {p}
    /\ ProbeEnds(p, failed)
    /\ node'.content = {d}
    /\ node'.probe = {}
    /\ IsNode(node', transit.latest)
    /\ IsRegistry(d, transit.latest)
    /\ Continued(c, d)
    /\ (~failed => \A v \in 1..p.profile.latest : KeyAt(v) \in DOMAIN d.snapshots)
    => DataInv' /\ AnswerInv'
\* The waiter of a discovery goes on: after a failure, or with a registry that
\* knows what the discovery read.
<1>WakeData.
  ASSUME NEW r, NEW q, Valid(q), q.pc = "wait", NEW latest \in Nat, NEW values, NEW c, NEW p,
         CallData(r, q, latest, values, c, {p}), r \in p.by, NEW failed \in BOOLEAN,
         ~failed => \A v \in 1..p.profile.latest : KeyAt(v) \in DOMAIN c.snapshots,
         p.profile.latest \in Nat
  PROVE CallData(r, [q EXCEPT !.pc = "again", !.failed = failed], latest, values, c, {})
  <2>. USE <1>WakeData
  <2>. DEFINE o == [q EXCEPT !.pc = "again", !.failed = failed]
  <2>1. /\ o.snapshot = q.snapshot /\ o.floor = q.floor /\ o.input = q.input /\ o.method = q.method
        /\ o.pc = "again" /\ o.failed = failed
    BY ZenonT(30) DEF Valid, CallFields
  <2>. HIDE DEF o
  <2>2. ASSUME ~failed, NEW i \in q.input PROVE RegistryKey(i.keyID) \in DOMAIN c.snapshots
    <3>1. Exists(i.keyID, latest) /\ i.keyID.version <= p.profile.latest
      BY DEF CallData, Combines, Refreshed
    <3>2. RegistryKey(i.keyID) = KeyAt(i.keyID.version) /\ i.keyID.version \in 1..p.profile.latest
      BY <3>1 DEF Exists, RegistryKey, Snapshot, KeyAt
    <3>. QED BY <2>2, <3>2
  <2>3. HasRead(o, latest, c) /\ Combines(o, latest, values) /\ Prepared(o)
    BY <2>1 DEF CallData, HasRead, Combines, Prepared
  <2>4. Refreshed(r, o, c, {})
    BY <2>1, <2>2 DEF Refreshed
  <2>. QED BY <2>3, <2>4 DEF CallData, o
<1>. SUFFICES ASSUME NEW c, Data(c), CallInv, NEW p \in node.probe, NEW failed \in BOOLEAN,
         node.probe = {p}, ProbeEnds(p, failed), NEW d, node'.content = {d}, node'.probe = {},
         IsNode(node', transit.latest), IsRegistry(d, transit.latest), Continued(c, d),
         ~failed => \A v \in 1..p.profile.latest : KeyAt(v) \in DOMAIN d.snapshots
             PROVE DataInv' /\ AnswerInv'
  OBVIOUS
<1>0. UNCHANGED <<transit, slots, stored, seen>> /\ answer' = {}
  BY ZenonT(30) DEF ProbeEnds
<1>1. request' = [r \in Requests |-> IF r \in p.by /\ request[r].pc = "wait"
                    THEN [request[r] EXCEPT !.pc = "again", !.failed = failed]
                    ELSE request[r]]
  BY ZenonT(30) DEF ProbeEnds
<1>2. Complete(transit) /\ transit.latest \in Nat /\ \A e \in stored : IsValue(e, transit.latest)
  BY DataFacts
<1>3. c.activeKeyID.version \in Nat /\ d.activeKeyID.version \in Nat
  BY <1>2, RegistryLater DEF Data
<1>4. p.profile.latest \in Nat
  BY ZenonT(30) DEF Data, IsNode, Complete
<1>5. ASSUME NEW r \in Requests
      PROVE \/ /\ request'[r] = request[r]
               /\ \A z \in node'.probe : z \in node.probe \/ r \notin z.by
            \/ CallData(r, request'[r], transit'.latest, stored', d, node'.probe)
  <2>1. CASE request'[r] = request[r]
    BY <2>1
  <2>2. CASE /\ r \in p.by /\ request[r].pc = "wait"
             /\ request'[r] = [request[r] EXCEPT !.pc = "again", !.failed = failed]
    <3>1. PICK q : q = request[r]
      OBVIOUS
    <3>2. Valid(q) /\ q.pc = "wait" /\ CallData(r, q, transit.latest, stored, c, {p})
      <4>1. Valid(request[r]) /\ CallData(r, request[r], transit.latest, stored, c, {p})
        BY ONLY Data(c), CallInv, r \in Requests, node.probe = {p} DEF CallInv, Data
      <4>. QED BY <2>2, <3>1, <4>1, ZenonT(30)
    <3>3. CallData(r, q, transit.latest, stored, d, {p})
      BY <1>2, <1>3, <3>2, CallKept
    <3>4. CallData(r, [q EXCEPT !.pc = "again", !.failed = failed],
                   transit.latest, stored, d, {})
      BY <1>2, <1>4, <2>2, <3>2, <3>3, <1>WakeData, ZenonT(30)
    <3>5. request'[r] = [q EXCEPT !.pc = "again", !.failed = failed]
      BY <2>2, <3>1, ZenonT(30)
    <3>. QED BY <1>0, <3>4, <3>5, ZenonT(30)
  <2>. QED BY <1>1, <2>1, <2>2, ZenonT(30)
<1>6. /\ seen' \in Nat /\ seen' <= d.activeKeyID.version
  <2>1. seen \in Nat /\ seen <= c.activeKeyID.version
    BY DEF Data
  <2>. QED BY <1>0, <1>3, <2>1 DEF Continued
<1>7. /\ Complete(transit') /\ transit.latest <= transit'.latest /\ stored \subseteq stored'
      /\ IsNode(node', transit'.latest) /\ IsRegistry(d, transit'.latest)
      /\ \A e \in stored' : IsValue(e, transit'.latest)
  <2>1. transit.latest <= transit.latest
    BY <1>2
  <2>. QED BY <1>0, <1>2, <2>1, ZenonT(30)
<1>8. Data(d)'
  BY ONLY <1>5, <1>6, <1>7, Progress, Data(c), node'.content = {d}, Continued(c, d), ZenonT(30)
<1>. QED BY <1>0, <1>8, NoAnswer DEF DataInv

\* A probe fails or publishes, and serve stops and starts.
LEMMA RegistryData ==
  ASSUME NEW c, Data(c), CallInv, ProbeStep \/ Stop \/ Start
  PROVE DataInv' /\ AnswerInv'
<1>1. IsRegistry(c, transit.latest) /\ Continued(c, c) /\ Complete(transit)
      /\ transit.latest \in Nat /\ IsNode(node, transit.latest) /\ node.content = {c}
      /\ \A e \in stored : IsValue(e, transit.latest)
  BY DataFacts
<1>2. CASE Stop
  <2>1. PICK d \in {c} \union {s.content : s \in
                      UNION {RetireVersions(Unobserved(c), v) : v \in 1..MaxVersion}} :
          node' = [up |-> FALSE, content |-> {d}, healthy |-> FALSE,
                   probe |-> NoProbe, nextRefresh |-> FALSE, refreshErr |-> FALSE]
    BY <1>1, <1>2, ZenonT(30) DEF Stop
  <2>2. IsRegistry(d, transit.latest) /\ Continued(c, d)
    <3>1. CASE d = c
      BY <1>1, <3>1
    <3>2. ASSUME NEW v \in 1..MaxVersion, NEW s \in RetireVersions(Unobserved(c), v), d = s.content
          PROVE IsRegistry(d, transit.latest) /\ Continued(c, d)
      <4>1. v \in Nat
        BY KmsAssumption
      <4>. QED BY <1>1, <3>2, <4>1, RetireRegistry, ZenonT(30)
    <3>. QED BY <2>1, <3>1, <3>2
  <2>3. /\ request' = [r \in Requests |-> IdleCall] /\ UNCHANGED <<transit, stored, seen>>
        /\ answer' = {}
    BY <1>2, ZenonT(30) DEF Stop
  <2>4. node'.content = {d} /\ node'.probe = {} /\ IsNode(node', transit'.latest)
    BY <2>1 DEF IsNode, NoProbe
  <2>5. ASSUME NEW x \in Requests
        PROVE \/ /\ request'[x] = request[x]
                 /\ \A p \in node'.probe : p \in node.probe \/ x \notin p.by
              \/ CallData(x, request'[x], transit'.latest, stored', d, node'.probe)
    BY <2>3, IdleData, ZenonT(30)
  <2>6. /\ seen' \in Nat /\ seen' <= d.activeKeyID.version
    <3>1. c.activeKeyID.version \in Nat /\ d.activeKeyID.version \in Nat
      BY <1>1, <2>2, RegistryLater
    <3>2. seen \in Nat /\ seen <= c.activeKeyID.version
      BY DEF Data
    <3>. QED BY <2>2, <2>3, <3>1, <3>2 DEF Continued
  <2>7. /\ Complete(transit') /\ transit.latest <= transit'.latest /\ stored \subseteq stored'
        /\ IsRegistry(d, transit'.latest) /\ \A e \in stored' : IsValue(e, transit'.latest)
    BY <1>1, <2>2, <2>3
  <2>8. Data(d)'
    BY ONLY <2>2, <2>4, <2>5, <2>6, <2>7, Progress, Data(c), ZenonT(30)
  <2>. QED BY <2>3, <2>4, <2>8, NoAnswer DEF DataInv
<1>3. CASE Start
  <2>1. PICK res \in observe(Unobserved(c), transit, 1, TRUE, FALSE) :
          node' = [node EXCEPT !.up = TRUE, !.healthy = TRUE, !.content = {res.state.content}]
    BY <1>1, <1>3, ZenonT(30) DEF Start
  <2>2. IsRegistry(res.state.content, transit.latest) /\ Continued(c, res.state.content)
    <3>1. TRUE \in BOOLEAN /\ FALSE \in BOOLEAN /\ transit.latest <= transit.latest
      BY <1>1
    <3>. QED BY <1>1, <2>1, <3>1, ObserveRegistry, ZenonT(30)
  <2>3. UNCHANGED <<transit, request, slots, stored, seen>> /\ answer' = {}
    BY <1>3, ZenonT(30) DEF Start
  <2>4. PICK d : d = res.state.content
    OBVIOUS
  <2>5. /\ node' = [up |-> TRUE, content |-> {d}, healthy |-> TRUE, probe |-> node.probe,
                    nextRefresh |-> node.nextRefresh, refreshErr |-> node.refreshErr]
    BY <1>1, <2>1, <2>4, ZenonT(30) DEF IsNode
  <2>6. node'.content = {d} /\ IsNode(node', transit'.latest) /\ node'.probe = node.probe
    BY <1>1, <2>3, <2>5 DEF IsNode
  <2>7. /\ IsRegistry(d, transit'.latest) /\ Continued(c, d) /\ Complete(transit')
        /\ transit.latest <= transit'.latest /\ stored \subseteq stored'
        /\ \A e \in stored' : IsValue(e, transit'.latest)
    BY <1>1, <2>2, <2>3, <2>4
  <2>. QED BY <2>3, <2>6, <2>7, QuietData, ZenonT(30)
<1>4. CASE ProbeStep
  <2>1. ASSUME NEW p \in node.probe, NEW d, NEW failed \in BOOLEAN, NEW healthy, NEW err,
               node' = [up |-> node.up, content |-> {d}, healthy |-> healthy, probe |-> NoProbe,
                        nextRefresh |-> node.nextRefresh, refreshErr |-> err],
               ProbeEnds(p, failed), IsRegistry(d, transit.latest), Continued(c, d),
               ~failed => \A v \in 1..p.profile.latest : KeyAt(v) \in DOMAIN d.snapshots
        PROVE DataInv' /\ AnswerInv'
    <3>1. node.probe = {p}
      BY <1>1, <2>1, ZenonT(30) DEF IsNode
    <3>2. node'.content = {d} /\ node'.probe = {} /\ IsNode(node', transit.latest)
      BY <2>1, ZenonT(30) DEF IsNode, NoProbe
    <3>. QED BY ONLY <2>1, <3>1, <3>2, Data(c), CallInv, ProbeData, ZenonT(30)
  <2>2. ASSUME NEW p \in node.probe, ProbeEnds(p, TRUE),
               node' = [node EXCEPT !.probe = NoProbe, !.healthy = FALSE,
                                    !.refreshErr = refreshErrAfter(p, TRUE)]
        PROVE DataInv' /\ AnswerInv'
    <3>1. PICK err : err = refreshErrAfter(p, TRUE)
      BY ZenonT(30)
    <3>2. node' = [up |-> node.up, content |-> {c}, healthy |-> FALSE, probe |-> NoProbe,
                   nextRefresh |-> node.nextRefresh, refreshErr |-> err]
      BY <1>1, <2>2, <3>1, ZenonT(30) DEF IsNode
    <3>. QED BY <1>1, <2>1, <2>2, <3>2, ZenonT(30)
  <2>3. ASSUME NEW p \in node.probe, NEW healthy \in BOOLEAN, ProbeEnds(p, FALSE),
               NEW res \in observe(Unobserved(c), p.profile, 1, ~p.discover, ~p.discover),
               node' = [node EXCEPT !.probe = NoProbe, !.healthy = healthy,
                                    !.content = {res.state.content},
                                    !.refreshErr = refreshErrAfter(p, FALSE)]
        PROVE DataInv' /\ AnswerInv'
    <3>1. PICK err, d : err = refreshErrAfter(p, FALSE) /\ d = res.state.content
      BY ZenonT(30)
    <3>2. node' = [up |-> node.up, content |-> {d}, healthy |-> healthy, probe |-> NoProbe,
                   nextRefresh |-> node.nextRefresh, refreshErr |-> err]
      BY <1>1, <2>3, <3>1, ZenonT(30) DEF IsNode
    <3>3. (~p.discover) \in BOOLEAN /\ Complete(p.profile) /\ p.profile.latest <= transit.latest
      BY <1>1 DEF IsNode
    <3>4. /\ IsRegistry(d, transit.latest) /\ Continued(c, d)
          /\ \A v \in 1..p.profile.latest : KeyAt(v) \in DOMAIN d.snapshots
      BY <1>1, <2>3, <3>1, <3>3, ObserveRegistry, ZenonT(30)
    <3>. QED BY <2>1, <2>3, <3>2, <3>4, ZenonT(30)
  <2>4. CASE ProbeFails
    BY <2>2, <2>4, ZenonT(30) DEF ProbeFails
  <2>5. CASE ProbePublishes
    BY <1>1, <2>2, <2>3, <2>5, ZenonT(30) DEF ProbePublishes
  <2>. QED BY <1>4, <2>4, <2>5 DEF ProbeStep
<1>. QED BY <1>2, <1>3, <1>4

\* The first state of the service.
LEMMA InitData ==
 Init => DataInv /\ AnswerInv
\* The registry that the node starts with.
<1>FirstRegistry.
  ASSUME Init
  PROVE \E c : node.content = {c} /\ IsRegistry(c, 1) /\ c.activeKeyID.version = 1
  <2>. USE <1>FirstRegistry
  <2>1. transit = [latest |-> 1, createdAt |-> [v \in {1} |-> 1], minAvail |-> 0,
                   minDec |-> 1, minEnc |-> 0, usable |-> TRUE]
    BY ZenonT(30) DEF Init
  <2>2. /\ transit.latest = 1 /\ transit.createdAt = [v \in {1} |-> 1] /\ transit.minAvail = 0
        /\ transit.minDec = 1 /\ transit.minEnc = 0 /\ transit.usable
    BY ONLY <2>1
  <2>3. node.content = {s.content : s \in RebuildState(transit, 1)}
    BY ZenonT(30) DEF Init
  <2>4. PICK c : /\ {s.content : s \in RebuildState(transit, 1)} = {c}
                 /\ IsRegistry(c, 1) /\ c.activeKeyID.version = 1
    BY ONLY <2>2, FirstRebuild, ZenonT(30)
  <2>. QED BY ONLY <2>3, <2>4
<1>. SUFFICES ASSUME Init PROVE DataInv /\ AnswerInv
  OBVIOUS
<1>1. PICK c : node.content = {c} /\ IsRegistry(c, 1) /\ c.activeKeyID.version = 1
  BY <1>FirstRegistry
<1>2. /\ transit = [latest |-> 1, createdAt |-> [v \in {1} |-> 1], minAvail |-> 0,
                    minDec |-> 1, minEnc |-> 0, usable |-> TRUE]
      /\ node = [up |-> TRUE, content |-> node.content, healthy |-> TRUE, probe |-> NoProbe,
                 nextRefresh |-> FALSE, refreshErr |-> FALSE]
      /\ request = [r \in Requests |-> IdleCall] /\ answer = {} /\ seen = 1
      /\ stored = {Envelope(Snapshot(s, KeyOf(transit, 1)), KeyOf(transit, 1)) : s \in OtherScopes}
  BY ZenonT(30) DEF Init
<1>3. Complete(transit) /\ transit.latest = 1
  BY <1>2 DEF Complete
<1>4. IsNode(node, 1)
  BY <1>2 DEF IsNode, NoProbe
<1>5. ASSUME NEW e \in stored PROVE IsValue(e, 1)
  <2>1. PICK s \in OtherScopes : e = Envelope(Snapshot(s, KeyOf(transit, 1)), KeyOf(transit, 1))
    BY <1>2, ZenonT(30)
  <2>2. KeyOf(transit, 1) = KeyAt(1)
    BY <1>3, CompleteProfile
  <2>. DEFINE x == Snapshot(s, KeyAt(1))
  <2>3. x.version = 1 /\ x.scope = s /\ RegistryKey(x) = KeyAt(1)
    BY ZenonT(30) DEF Snapshot, RegistryKey, KeyAt
  <2>4. Exists(x, 1)
    BY <2>3 DEF Exists
  <2>. HIDE DEF x
  <2>5. e = Envelope(x, KeyAt(1)) /\ e.keyID = x
    BY <2>1, <2>2, ZenonT(30) DEF Envelope, x
  <2>. QED BY <2>3, <2>4, <2>5, ZenonT(30) DEF IsValue
<1>6. \A r \in Requests : CallData(r, request[r], 1, stored, c, node.probe)
  BY <1>2, IdleData, ZenonT(30)
<1>7. Data(c)
  BY <1>1, <1>2, <1>3, <1>4, <1>5, <1>6 DEF Data
<1>. QED BY <1>1, <1>2, <1>7, ZenonT(30) DEF DataInv, AnswerInv, PlaintextOnlyForItsKey, PeerValueNotRefused,
                                NoOlderKeyLater

\* Every step keeps the data and gives a right answer.
LEMMA DataStep ==
  ASSUME CallInv, DataInv, AnswerInv, [Next]_vars PROVE DataInv' /\ AnswerInv'
<1>1. PICK c \in node.content : Data(c)
  BY DEF DataInv
<1>2. ASSUME NEW r \in Requests,
             \/ Status(r) \/ Encrypt(r) \/ Decrypt(r) \/ Handler(r) \/ ContextEnds(r) \/ Panics(r)
      PROVE DataInv' /\ AnswerInv'
  BY <1>1, <1>2, AdmitData, DecryptData, StatusData, EncryptData, PlaintextData, RefreshData,
     AgainData, CutData, ZenonT(30) DEF Handler
<1>3. CASE \/ BeginProbe \/ ProbeStep \/ RefreshIntervalEnds \/ HealthLapses
           \/ Stop \/ Start \/ Rotate \/ RaiseMinimums \/ PeerEncrypts
  BY <1>1, <1>3, ControlData, RegistryData, TransitData, PeerData, ZenonT(30)
<1>4. CASE UNCHANGED vars
  <2>1. UNCHANGED <<transit, node, request, stored, answer, seen>>
    BY <1>4, ZenonT(30) DEF vars
  <2>2. DataInv'
    BY <2>1, ZenonT(30) DEF DataInv, Data
  <2>3. AnswerInv'
    BY <2>1, ZenonT(30) DEF AnswerInv, PlaintextOnlyForItsKey, PeerValueNotRefused, NoOlderKeyLater,
                Recorded, Known
  <2>. QED BY <2>2, <2>3, ZenonT(30)
<1>. QED BY <1>2, <1>3, <1>4, ZenonT(30) DEF Next

-----------------------------------------------------------------------------
(* The limiters.                                                           *)

\* The calls of a method that are inside its handler.
Calls(m) == {r \in Requests : request[r].method = m /\ Inside(request[r])}

\* A slot is taken only when one is free, so none is beyond the limit.
SlotInv == /\ slots = [m \in Methods |-> slots[m]]
           /\ \A m \in Methods : slots[m] = Cardinality(Calls(m)) /\ slots[m] <= MaxConcurrent[m]

IInv == CallInv /\ SlotInv

\* The calls of a method are finitely many.
LEMMA CallsFinite == \A m : IsFiniteSet(Calls(m)) /\ Cardinality(Calls(m)) \in Nat
BY KmsAssumption, FS_Subset, FS_CardinalityType, Zenon DEF Calls

\* A call that becomes c changes no other.
LEMMA OneCall ==
  ASSUME CallInv, NEW r \in Requests, NEW c, Valid(c), request' = [request EXCEPT ![r] = c]
  PROVE /\ CallInv'
        /\ \A q \in Requests : request'[q] = IF q = r THEN c ELSE request[q]
BY DEF CallInv

\* A call that stays outside, or inside the same handler.
LEMMA StayStep ==
  ASSUME IInv, NEW r \in Requests, NEW c, Valid(c), request' = [request EXCEPT ![r] = c],
         Inside(c) = Inside(request[r]), Inside(c) => c.method = request[r].method,
         UNCHANGED slots
  PROVE IInv'
<1>1. CallInv' /\ \A q \in Requests : request'[q] = IF q = r THEN c ELSE request[q]
  BY OneCall, Zenon DEF IInv
<1>2. \A m : Calls(m)' = Calls(m)
  BY <1>1, ZenonT(30) DEF Calls
<1>. QED BY <1>1, <1>2, ZenonT(30) DEF IInv, SlotInv

\* A call that enters its handler takes a slot.
LEMMA EnterStep ==
  ASSUME IInv, NEW r \in Requests, NEW c, Valid(c), request' = [request EXCEPT ![r] = c],
         ~Inside(request[r]), Inside(c), tryAcquire(c.method), acquire(c.method)
  PROVE IInv'
<1>1. CallInv' /\ \A q \in Requests : request'[q] = IF q = r THEN c ELSE request[q]
  BY OneCall, ZenonT(30) DEF IInv
<1>2. c.method \in Methods
  BY DEF Valid
<1>3. Calls(c.method)' = Calls(c.method) \cup {r} /\ r \notin Calls(c.method)
  BY <1>1 DEF Calls
<1>4. \A m \in Methods : m # c.method => Calls(m)' = Calls(m)
  BY <1>1 DEF Calls
<1>5. Cardinality(Calls(c.method)') = Cardinality(Calls(c.method)) + 1
  BY <1>3, CallsFinite, FS_AddElement, Zenon
<1>6. \A m \in Methods : slots[m] \in Nat /\ MaxConcurrent[m] \in Nat
  BY CallsFinite, KmsAssumption DEF IInv, SlotInv, Methods
<1>7. \A m \in Methods : slots'[m] = IF m = c.method THEN slots[m] + 1 ELSE slots[m]
  BY DEF IInv, SlotInv, acquire
<1>8. slots' = [m \in Methods |-> slots'[m]]
  BY DEF IInv, SlotInv, acquire
<1>9. slots[c.method] < MaxConcurrent[c.method]
  BY DEF tryAcquire
<1>10. ASSUME NEW m \in Methods
       PROVE slots'[m] = Cardinality(Calls(m)') /\ slots'[m] <= MaxConcurrent[m]
  BY <1>2, <1>4, <1>5, <1>6, <1>7, <1>9 DEF IInv, SlotInv
<1>. QED BY <1>1, <1>8, <1>10, ZenonT(30) DEF IInv, SlotInv

\* A call that leaves its handler returns the slot.
LEMMA LeaveStep ==
  ASSUME IInv, NEW r \in Requests, NEW c, Valid(c), request' = [request EXCEPT ![r] = c],
         Inside(request[r]), ~Inside(c), release(request[r].method)
  PROVE IInv'
<1>0. PICK method : method = request[r].method
  OBVIOUS
<1>1. CallInv' /\ \A q \in Requests : request'[q] = IF q = r THEN c ELSE request[q]
  BY OneCall, Zenon DEF IInv
<1>2. method \in Methods
  BY <1>0 DEF IInv, CallInv, Valid
<1>3. Calls(method)' = Calls(method) \ {r} /\ r \in Calls(method)
  BY <1>0, <1>1 DEF Calls
<1>4. \A m \in Methods : m # method => Calls(m)' = Calls(m)
  BY <1>0, <1>1 DEF Calls
<1>5. Cardinality(Calls(method)') = Cardinality(Calls(method)) - 1
  BY <1>3, CallsFinite, FS_RemoveElement, ZenonT(30)
<1>6. \A m \in Methods : slots[m] \in Nat /\ MaxConcurrent[m] \in Nat
  BY CallsFinite, KmsAssumption DEF IInv, SlotInv, Methods
<1>7. \A m \in Methods : slots'[m] = IF m = method THEN slots[m] - 1 ELSE slots[m]
  BY <1>0 DEF IInv, SlotInv, release
<1>8. slots' = [m \in Methods |-> slots'[m]]
  BY <1>0 DEF IInv, SlotInv, release
<1>9. ASSUME NEW m \in Methods
      PROVE slots'[m] = Cardinality(Calls(m)') /\ slots'[m] <= MaxConcurrent[m]
  BY <1>2, <1>4, <1>5, <1>6, <1>7 DEF IInv, SlotInv
<1>. QED BY <1>1, <1>8, <1>9 DEF IInv, SlotInv

-----------------------------------------------------------------------------
\* Moving on within the handler of its method.
LEMMA GoesOn ==
  ASSUME NEW c, Valid(c), NEW pc \in {"idle"} \cup InHandler,
         pc = "answer" => c.method = "status",
         pc \in {"refresh", "wait", "again"} => c.method = "decrypt"
  PROVE /\ Valid([c EXCEPT !.pc = pc])
        /\ [c EXCEPT !.pc = pc].method = c.method /\ [c EXCEPT !.pc = pc].pc = pc
BY DEF Valid, CallFields

\* A handler that answers returns its slot.
LEMMA FinishStep ==
  ASSUME IInv, NEW r \in Requests, NEW call, NEW code, Finish(r, call, code),
         Inside(request[r]), release(request[r].method)
  PROVE IInv'
BY NewCall, LeaveStep, Zenon DEF Finish

\* A handler that answers in its first segment.
LEMMA ReturnStep ==
  ASSUME IInv, NEW r \in Requests, NEW call, NEW code, Returns(r, call, code),
         request[r].pc = "idle"
  PROVE IInv'
<1>1. ~Inside(request[r]) /\ request' = [request EXCEPT ![r] = IdleCall] /\ UNCHANGED slots
  BY DEF Returns, Finish, Inside, InHandler
<1>2. Inside(IdleCall) = Inside(request[r])
  BY <1>1, NewCall DEF Inside
<1>. QED BY <1>1, <1>2, NewCall, StayStep, ZenonT(30)

\* A new call that waits in its handler holds a slot.
LEMMA WaitStep ==
  ASSUME IInv, NEW r \in Requests, NEW call, Valid(call), NEW pc \in InHandler,
         pc = "answer" => call.method = "status",
         pc \in {"refresh", "wait", "again"} => call.method = "decrypt",
         request[r].pc = "idle", tryAcquire(call.method), Waits(r, call, pc)
  PROVE IInv'
<1>. DEFINE c == [call EXCEPT !.pc = pc]
<1>1. Valid(c) /\ c.method = call.method /\ c.pc = pc
  BY GoesOn
<1>2. request' = [request EXCEPT ![r] = c] /\ acquire(call.method)
  BY DEF Waits, Continues
<1>. HIDE DEF c
<1>3. Inside(c) /\ ~Inside(request[r])
  BY <1>1 DEF Inside, InHandler
<1>. QED BY <1>1, <1>2, <1>3, EnterStep, ZenonT(30)

\* A call that goes on in its handler keeps its slot.
LEMMA ContinueStep ==
  ASSUME IInv, NEW r \in Requests, NEW call, Valid(call), NEW pc \in InHandler,
         call.method = request[r].method, Inside(request[r]),
         pc = "answer" => call.method = "status",
         pc \in {"refresh", "wait", "again"} => call.method = "decrypt",
         Continues(r, call, pc), UNCHANGED slots
  PROVE IInv'
<1>. DEFINE c == [call EXCEPT !.pc = pc]
<1>1. Valid(c) /\ c.method = call.method /\ c.pc = pc
  BY GoesOn
<1>2. request' = [request EXCEPT ![r] = c]
  BY DEF Continues
<1>. HIDE DEF c
<1>3. Inside(c)
  BY <1>1 DEF Inside
<1>. QED BY <1>1, <1>2, <1>3, StayStep, ZenonT(30)

-----------------------------------------------------------------------------
\* The first segment of Status and Encrypt.
LEMMA AdmitSteps ==
  ASSUME IInv, NEW r \in Requests, Status(r) \/ Encrypt(r)
  PROVE IInv'
<1>0. "status" \in Methods /\ "encrypt" \in Methods /\ request[r].pc = "idle"
  BY Zenon DEF Methods, Status, Encrypt
<1>1. \A call, code : Returns(r, call, code) => IInv'
  BY <1>0, ReturnStep
<1>2. CASE Status(r)
  <2>1. CASE \E code : Returns(r, New("status"), code)
    BY <1>1, <2>1
  <2>2. CASE /\ tryAcquire("status")
             /\ \E v : Waits(r, [New("status") EXCEPT !.snapshot = v], "answer")
    <3>1. PICK v : Waits(r, [New("status") EXCEPT !.snapshot = v], "answer")
      BY <2>2, Zenon
    <3>. DEFINE call == [New("status") EXCEPT !.snapshot = v]
    <3>2. Valid(call) /\ call.method = "status"
      <4>1. Valid(New("status")) /\ New("status").method = "status"
        BY <1>0, NewCall
      <4>. HIDE DEF New
      <4>. QED BY <4>1, Stores, ZenonT(30)
    <3>. HIDE DEF call
    <3>3. Waits(r, call, "answer")
      BY <3>1 DEF call
    <3>. QED BY <1>0, <2>2, <3>2, <3>3, WaitStep DEF InHandler
  <2>. QED BY <1>2, <2>1, <2>2, ZenonT(30) DEF Status
<1>3. CASE Encrypt(r)
  <2>1. CASE \E code : Returns(r, New("encrypt"), code)
    BY <1>1, <2>1
  <2>2. CASE /\ tryAcquire("encrypt")
             /\ \E v : Waits(r, [New("encrypt") EXCEPT !.snapshot = v], "transit")
    <3>1. PICK v : Waits(r, [New("encrypt") EXCEPT !.snapshot = v], "transit")
      BY <2>2, Zenon
    <3>. DEFINE call == [New("encrypt") EXCEPT !.snapshot = v]
    <3>2. Valid(call) /\ call.method = "encrypt"
      <4>1. Valid(New("encrypt")) /\ New("encrypt").method = "encrypt"
        BY <1>0, NewCall
      <4>. HIDE DEF New
      <4>. QED BY <4>1, Stores, ZenonT(30)
    <3>. HIDE DEF call
    <3>3. Waits(r, call, "transit")
      BY <3>1 DEF call
    <3>. QED BY <1>0, <2>2, <3>2, <3>3, WaitStep DEF InHandler
  <2>. QED BY <1>3, <2>1, <2>2, ZenonT(30) DEF Encrypt
<1>. QED BY <1>2, <1>3

\* PrepareDecrypt answers, or goes on to Transit.
LEMMA Prepares ==
  ASSUME NEW r \in Requests, CallInv, NEW call, Valid(call), NEW input,
         PrepareDecrypt(r, call, input)
  PROVE \/ request' = [request EXCEPT ![r] = IdleCall] /\ request'[r] = IdleCall
        \/ \E c : /\ Valid(c) /\ c.method = call.method
                  /\ Continues(r, c, "transit") /\ request'[r] # IdleCall
<1>1. CASE \E code : Finish(r, call, code)
  BY <1>1 DEF Finish, CallInv
<1>2. CASE \E v : Continues(r, [call EXCEPT !.aad = v], "transit")
  <2>1. PICK v : Continues(r, [call EXCEPT !.aad = v], "transit")
    BY <1>2
  <2>. DEFINE c == [call EXCEPT !.aad = v]
              d == [c EXCEPT !.pc = "transit"]
  <2>2. Valid(c) /\ c.method = call.method
    BY Stores, Zenon
  <2>3. Valid(d) /\ d.pc = "transit"
    BY <2>2, GoesOn, ZenonT(30) DEF InHandler
  <2>4. request'[r] = d
    BY <2>1 DEF Continues, CallInv
  <2>5. d # IdleCall
    BY <2>3, NewCall, ZenonT(30) DEF Inside, InHandler
  <2>. QED BY <2>1, <2>2, <2>4, <2>5, ZenonT(30)
<1>. QED BY <1>1, <1>2, ZenonT(30) DEF PrepareDecrypt

\* The first segment of Decrypt.
LEMMA DecryptStep == ASSUME IInv, NEW r \in Requests, Decrypt(r) PROVE IInv'
<1>0. "decrypt" \in Methods /\ request[r].pc = "idle" /\ CallInv
  BY Zenon DEF Methods, Decrypt, IInv
<1>1. CASE \E code : Returns(r, New("decrypt"), code)
  BY <1>0, <1>1, ReturnStep
<1>2. ASSUME NEW input, tryAcquire("decrypt"),
             \/ PrepareDecrypt(r, [New("decrypt") EXCEPT !.input = {input}], input)
             \/ Continues(r, [New("decrypt") EXCEPT !.input = {input}], "refresh"),
             IF request'[r] = IdleCall THEN UNCHANGED slots ELSE acquire("decrypt")
      PROVE IInv'
  <2>. DEFINE call == [New("decrypt") EXCEPT !.input = {input}]
  <2>1. Valid(call) /\ call.method = "decrypt"
    <3>1. Valid(New("decrypt")) /\ New("decrypt").method = "decrypt"
      BY <1>0, NewCall
    <3>. HIDE DEF New
    <3>. QED BY <3>1, Stores, ZenonT(30)
  <2>2. \/ PrepareDecrypt(r, call, input) \/ Continues(r, call, "refresh")
    BY <1>2
  <2>. HIDE DEF call
  <2>3. CASE request' = [request EXCEPT ![r] = IdleCall] /\ request'[r] = IdleCall
    <3>1. Inside(IdleCall) = Inside(request[r])
      BY <1>0, NewCall DEF Inside, InHandler
    <3>. QED BY <1>2, <2>3, <3>1, NewCall, StayStep, ZenonT(30)
  <2>4. ASSUME NEW c, Valid(c), c.method = "decrypt", NEW pc \in {"transit", "refresh"},
               Continues(r, c, pc), request'[r] # IdleCall
        PROVE IInv'
    <3>1. Waits(r, c, pc)
      BY <1>2, <2>4 DEF Waits
    <3>. QED BY <1>0, <1>2, <2>4, <3>1, WaitStep DEF InHandler
  <2>5. CASE Continues(r, call, "refresh")
    <3>1. request'[r] = [call EXCEPT !.pc = "refresh"]
      BY <1>0, <2>5 DEF Continues, CallInv
    <3>2. [call EXCEPT !.pc = "refresh"].pc = "refresh"
      BY <2>1, GoesOn DEF InHandler
    <3>3. request'[r] # IdleCall
      BY <3>1, <3>2 DEF IdleCall
    <3>. QED BY <2>1, <2>4, <2>5, <3>3
  <2>6. CASE PrepareDecrypt(r, call, input)
    BY <1>0, <2>1, <2>3, <2>4, <2>6, Prepares
  <2>. QED BY <2>2, <2>5, <2>6
<1>. QED BY <1>1, <1>2, Zenon DEF Decrypt

\* The answers of Transit and of the cache, and the ways a call is cut short.
LEMMA AnswerSteps ==
  ASSUME IInv, NEW r \in Requests,
         \/ StatusAnswers(r) \/ TransitEncrypts(r) \/ TransitDecrypts(r)
         \/ ContextEnds(r) \/ Panics(r)
  PROVE IInv'
<1>1. Inside(request[r]) /\ release(request[r].method)
  BY Zenon DEF StatusAnswers, TransitEncrypts, TransitDecrypts, ContextEnds, Panics,
         Inside, InHandler, IInv, CallInv, Valid
<1>2. \E call, code : Finish(r, call, code)
  <2>1. CASE TransitEncrypts(r)
    BY <2>1, Zenon DEF TransitEncrypts
  <2>2. CASE TransitDecrypts(r)
    BY <2>2, ZenonT(30) DEF TransitDecrypts
  <2>3. CASE StatusAnswers(r) \/ ContextEnds(r) \/ Panics(r)
    BY <2>3 DEF StatusAnswers, ContextEnds, Panics
  <2>. QED BY <2>1, <2>2, <2>3
<1>. QED BY <1>1, <1>2, FinishStep

\* Decrypt of an unknown key_id, before and after the refresh.
LEMMA RefreshSteps ==
  ASSUME IInv, NEW r \in Requests, RefreshForDecrypt(r) \/ DecryptAgain(r)
  PROVE IInv'
<1>. DEFINE call == request[r]
<1>0. /\ Valid(call) /\ Inside(call) /\ call.method = "decrypt" /\ CallInv
  BY ZenonT(30) DEF RefreshForDecrypt, DecryptAgain, IInv, CallInv, Valid, Inside, InHandler
<1>1. ASSUME NEW c, Valid(c), c.method = "decrypt", NEW pc \in {"again", "wait", "transit"},
             Continues(r, c, pc), UNCHANGED slots
      PROVE IInv'
  BY <1>0, <1>1, ContinueStep DEF InHandler
<1>2. ASSUME NEW code, Finish(r, call, code), release("decrypt") PROVE IInv'
  BY <1>0, <1>2, FinishStep
<1>3. CASE RefreshForDecrypt(r)
  <2>1. Valid([call EXCEPT !.throttled = TRUE])
        /\ [call EXCEPT !.throttled = TRUE].method = call.method
    BY <1>0, Stores, ZenonT(30)
  <2>2. \/ (\E pc \in {"again", "wait"} : Continues(r, call, pc)) /\ UNCHANGED slots
        \/ RefreshWithinInterval(r)
    BY <1>3 DEF RefreshForDecrypt
  <2>3. RefreshWithinInterval(r) => IInv'
    BY <1>0, <1>1, <1>2, <2>1, ZenonT(30) DEF RefreshWithinInterval
  <2>. QED BY <1>0, <1>1, <2>2, <2>3
<1>4. CASE DecryptAgain(r)
  <2>1. PICK input : PrepareDecrypt(r, call, input) \/ \E code : Finish(r, call, code)
    BY <1>4, Zenon DEF DecryptAgain
  <2>2. IF request'[r] = IdleCall THEN release("decrypt") ELSE UNCHANGED slots
    BY <1>4, Zenon DEF DecryptAgain
  <2>3. CASE request' = [request EXCEPT ![r] = IdleCall] /\ request'[r] = IdleCall
    BY <1>0, <2>2, <2>3, NewCall, LeaveStep, ZenonT(30)
  <2>4. CASE \E code : Finish(r, call, code)
    BY <1>0, <2>3, <2>4 DEF Finish, CallInv
  <2>5. CASE PrepareDecrypt(r, call, input)
    BY <1>0, <1>1, <2>2, <2>3, <2>5, Prepares
  <2>. QED BY <2>1, <2>4, <2>5
<1>. QED BY <1>3, <1>4

-----------------------------------------------------------------------------
\* The end of a probe wakes its waiter, which keeps its slot.
LEMMA ProbeStepKeeps == ASSUME IInv, NEW p, NEW failed, ProbeEnds(p, failed) PROVE IInv'
<1>1. /\ request' = [r \in Requests |->
                       IF r \in p.by /\ request[r].pc = "wait"
                       THEN [request[r] EXCEPT !.pc = "again", !.failed = failed]
                       ELSE request[r]]
      /\ UNCHANGED slots
  BY ZenonT(30) DEF ProbeEnds
<1>2. ASSUME NEW r \in Requests
      PROVE /\ Valid(request'[r]) /\ request'[r].method = request[r].method
            /\ Inside(request'[r]) = Inside(request[r])
  <2>1. CASE request'[r] = request[r]
    BY <2>1 DEF IInv, CallInv
  <2>. DEFINE c == [request[r] EXCEPT !.pc = "again", !.failed = failed]
  <2>2. CASE request[r].pc = "wait" /\ request'[r] = c
    <3>1. Valid(request[r])
      BY DEF IInv, CallInv
    <3>2. Valid(c) /\ c.method = request[r].method /\ c.pc = "again"
      BY <2>2, <3>1, Zenon DEF Valid, CallFields, InHandler
    <3>. HIDE DEF c
    <3>. QED BY <2>2, <3>2 DEF Inside, InHandler
  <2>. QED BY <1>1, <2>1, <2>2, ZenonT(30)
<1>3. CallInv'
  BY <1>1, <1>2, Zenon DEF CallInv
<1>4. \A m : Calls(m)' = Calls(m)
  BY <1>2 DEF Calls
<1>. QED BY <1>1, <1>3, <1>4, ZenonT(30) DEF IInv, SlotInv

\* serve stops: no call, no slot.
LEMMA StopStep ==
  ASSUME request' = [r \in Requests |-> IdleCall], slots' = [m \in Methods |-> 0]
  PROVE IInv'
<1>1. CallInv'
  BY NewCall DEF CallInv
<1>2. \A m : Calls(m)' = {}
  BY NewCall DEF Calls
<1>3. \A m \in Methods : MaxConcurrent[m] \in Nat /\ MaxConcurrent[m] >= 0
  BY KmsAssumption DEF Methods
<1>. QED BY <1>1, <1>2, <1>3, FS_EmptySet DEF IInv, SlotInv

\* Init establishes the invariant.
LEMMA IInvInit == Init => IInv
<1>. SUFFICES ASSUME Init PROVE IInv
  OBVIOUS
<1>1. request = [r \in Requests |-> IdleCall] /\ slots = [m \in Methods |-> 0]
  BY DEF Init
<1>2. CallInv /\ \A m : Calls(m) = {}
  BY <1>1, NewCall DEF CallInv, Calls
<1>3. \A m \in Methods : MaxConcurrent[m] \in Nat /\ MaxConcurrent[m] >= 0
  BY KmsAssumption DEF Methods
<1>. QED BY <1>1, <1>2, <1>3, FS_EmptySet DEF IInv, SlotInv

\* Every step keeps the invariant.
LEMMA IInvStep == IInv /\ [Next]_vars => IInv'
<1>. SUFFICES ASSUME IInv, [Next]_vars PROVE IInv'
  OBVIOUS
<1>1. UNCHANGED <<request, slots>> => IInv'
  BY DEF IInv, CallInv, SlotInv, Calls
<1>2. BeginProbe \/ RefreshIntervalEnds \/ HealthLapses \/ Start \/ Rotate \/ RaiseMinimums
      \/ PeerEncrypts \/ UNCHANGED vars => UNCHANGED <<request, slots>>
  BY ZenonT(30) DEF BeginProbe, RefreshIntervalEnds, HealthLapses, Start, Rotate, RaiseMinimums,
         PeerEncrypts, vars
<1>3. ProbeStep => IInv'
  BY ProbeStepKeeps, ZenonT(30) DEF ProbeStep, ProbePublishes, ProbeFails
<1>4. Stop => IInv'
  BY StopStep DEF Stop
<1>. QED BY <1>1, <1>2, <1>3, <1>4, AdmitSteps, DecryptStep, AnswerSteps, RefreshSteps
         DEF Next, Handler

-----------------------------------------------------------------------------
(* The theorems.                                                           *)

\* A limiter counts exactly the calls inside its handler: no path out of one,
\* a panic or a cancelled context included, keeps or returns a slot too many
\* (tryAcquire and the deferred release).
THEOREM SlotsAreHeld == Spec => []SlotsHeld
<1>1. IInv => SlotsHeld
  BY DEF IInv, SlotInv, SlotsHeld, Calls, Inside
<1>. QED BY <1>1, IInvInit, IInvStep, PTL DEF Spec

\* Whatever happens to the calls inside, a handler never admits more of them
\* than its limit (tryAcquire).
THEOREM LimitRespected ==
  Spec => [](\A m \in Methods : slots[m] <= MaxConcurrent[m])
<1>1. IInv => \A m \in Methods : slots[m] <= MaxConcurrent[m]
  BY DEF IInv, SlotInv
<1>. QED BY <1>1, IInvInit, IInvStep, PTL DEF Spec

-----------------------------------------------------------------------------
(* The answers.                                                            *)

\* The invariants hold together.
LEMMA Invariants == Spec => [](IInv /\ DataInv /\ AnswerInv)
<1>1. Init => IInv /\ DataInv /\ AnswerInv
  BY IInvInit, InitData
<1>2. IInv /\ DataInv /\ AnswerInv /\ [Next]_vars => (IInv /\ DataInv /\ AnswerInv)'
  BY IInvStep, DataStep DEF IInv
<1>. QED BY <1>1, <1>2, PTL DEF Spec

\* Whatever ciphertext, key_id and annotations a request combines, decrypt
\* returns a plaintext only for a ciphertext that was stored under that very
\* key_id, and only under this node's identity.
THEOREM PlaintextForItsKey == Spec => []PlaintextOnlyForItsKey
<1>1. AnswerInv => PlaintextOnlyForItsKey
  BY DEF AnswerInv
<1>. QED BY <1>1, Invariants, PTL

\* A decrypt of a value that some node of the cluster stored is refused for good
\* only when Transit no longer decrypts its version, when a record of this node
\* says that the version was removed, or when the refresh was throttled.
THEOREM PeerValuesAccepted == Spec => []PeerValueNotRefused
<1>1. AnswerInv => PeerValueNotRefused
  BY DEF AnswerInv
<1>. QED BY <1>1, Invariants, PTL

\* A Status or Encrypt never names an older key_id than one that was named
\* before the call began, over restarts of serve as well.
THEOREM KeysNamedInOrder == Spec => []NoOlderKeyLater
<1>1. AnswerInv => NoOlderKeyLater
  BY DEF AnswerInv
<1>. QED BY <1>1, Invariants, PTL

\* Transit decrypts every stored value whose version it still allows, with the
\* associated data that decrypt builds from the value's own annotations.
THEOREM StoredReadable == Spec => []StoredIsReadable
<1>1. DataInv => StoredIsReadable
  <2>. SUFFICES ASSUME DataInv, NEW e \in stored, e.keyID.version >= transit.minDec
                PROVE TransitAnswer(e, Canonical(e.keyID, e.annotations).aad).status = 200
    BY DEF StoredIsReadable
  <2>1. IsValue(e, transit.latest) /\ Complete(transit) /\ transit.latest \in Nat
    BY DEF DataInv, Data, Complete
  <2>2. /\ e.ciphertext.aad = Canonical(e.keyID, e.annotations).aad
        /\ e.ciphertext.key = KeyAt(e.keyID.version)
    BY <2>1, StoredParts
  <2>3. e.keyID.version \in 1..transit.latest
    BY <2>1 DEF IsValue, Exists
  <2>4. CanDecrypt(e.ciphertext.key)
    BY <2>1, <2>2, <2>3 DEF CanDecrypt, KeyAt, Complete
  <2>. QED BY <2>2, <2>4 DEF TransitAnswer, Response
<1>. QED BY <1>1, Invariants, PTL

=============================================================================
