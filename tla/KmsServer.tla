------------------------------ MODULE KmsServer ------------------------------
(***************************************************************************)
(* The KMS v2 service of one node (internal/kmsv2) in a cluster: requests  *)
(* in flight while probes replace the registry, peers that encrypt with    *)
(* whatever version they have promoted, and Transit (external).            *)
(*                                                                         *)
(* The registry moves by the functions of Rotation, under probeGate as in  *)
(* StatusController, which has the details of probes, saves and health:    *)
(* here a probe reads, then publishes, and health after a good probe is    *)
(* open where it depends on the deep probe.  A step of a request is what   *)
(* it does between two waits.                                              *)
(***************************************************************************)
EXTENDS Rotation, AAD, OpenBaoClient

CONSTANTS Requests,          \* calls that may be in flight
          MaxConcurrent,       \* kms.maxConcurrent*, by method
          OwnScope,          \* the configured identity of this node
          OtherScopes,       \* of other providers that use the same Transit key
          MaxVersion,        \* bound: Transit versions that come to exist
          Exchanges,         \* exchanges with OpenBao that may fail a call
          Events             \* which of AllEvents may happen

AllEvents == {"read",        \* a metadata read fails
              "minimums",    \* an operator raises the minimum versions
              "restart",     \* serve stops, an operator may retire versions
              "context",     \* a caller cancels, or its deadline passes
              "panic",       \* a handler panics
              "malformed"}   \* requests that no plugin answer produced

ASSUME KmsAssumption ==
  /\ IsFiniteSet(Requests)
  /\ \A m \in {"status", "encrypt", "decrypt"} : MaxConcurrent[m] \in Nat \ {0}
  /\ OwnScope \notin OtherScopes
  /\ MaxVersion \in Nat \ {0}
  /\ Events \subseteq AllEvents

VARIABLES transit,   \* external: the profile of the Transit key
          node,      \* the parts of Store and Controller that requests touch
          request,   \* the progress of each call
          slots,     \* the three limiters: slots in use
          stored,    \* Encrypt responses that the API server keeps
          answer,    \* the call that this step has answered, an option
          seen       \* history: the newest version that this node has reported

vars == <<transit, node, request, slots, stored, answer, seen>>

Methods == {"status", "encrypt", "decrypt"}

\* KeySnapshot of a registry key_id, and the envelope made of one.
Snapshot(scope, k) == [scope |-> scope, version |-> k.version,
                       createdAt |-> k.createdAt]
RegistryKey(s) == [version |-> s.version, createdAt |-> s.createdAt]

\* EncryptResponse for a snapshot, with the key that Transit really used.
Envelope(s, used) ==
  LET annotations == BuildAnnotations(s, "v1.0")
  IN [ciphertext |-> [key |-> used, aad |-> Canonical(s, annotations).aad],
      keyID |-> s, annotations |-> annotations]

IdleCall == [pc |-> "idle", method |-> "status", input |-> {}, snapshot |-> {},
             aad |-> {}, failed |-> FALSE, throttled |-> FALSE, floor |-> 0]

NoProbe == {}

Init ==
  /\ transit = [latest |-> 1, createdAt |-> [v \in {1} |-> 1], minAvail |-> 0,
                minDec |-> 1, minEnc |-> 0, usable |-> TRUE]
  /\ node = [up |-> TRUE, content |-> {s.content : s \in RebuildState(transit, 1)},
             healthy |-> TRUE, probe |-> NoProbe, nextRefresh |-> FALSE,
             refreshErr |-> FALSE]
  /\ request = [r \in Requests |-> IdleCall]
  /\ slots = [m \in Methods |-> 0]
  /\ stored = {Envelope(Snapshot(s, KeyOf(transit, 1)), KeyOf(transit, 1)) :
                 s \in OtherScopes}
  /\ answer = {}
  /\ seen = 1

-----------------------------------------------------------------------------
(* What a request reads.                                                   *)

\* Store.Lookup: a key_id of another scope is unknown, whatever its version.
Known(s) == /\ s.scope = OwnScope
            /\ \E c \in node.content : RegistryKey(s) \in Lookup(c)

\* A record of any state, which prepareDecryptRefresh looks for.
Recorded(s) == /\ s.scope = OwnScope
               /\ \E c \in node.content : RegistryKey(s) \in DOMAIN c.snapshots

\* Mutant: while the cache is unhealthy the oldest usable record serves.
activeStatusFallback ==
  LET usable == UNION {Lookup(c) : c \in node.content}
  IN {Snapshot(OwnScope, k) : k \in
        IF node.healthy THEN {c.activeKeyID : c \in node.content}
        ELSE {j \in usable : \A i \in usable : j.version <= i.version}}

\* activeStatus with validateCachedStatus: an option.
activeStatus ==
  IF ~node.healthy THEN {}
  ELSE {Snapshot(OwnScope, c.activeKeyID) : c \in node.content}

-----------------------------------------------------------------------------
(* Errors at the RPC boundary.                                             *)

\* sentinelErrorPolicies, for errors that are no backend failure.
localCode(err) ==
  CASE err = "canceled" -> "Canceled"
    [] err = "deadline" -> "DeadlineExceeded"
    [] err = "key metadata refresh" -> "Unavailable"
    [] err \in {"plaintext required", "ciphertext required", "request limit",
                "key_id malformed", "annotations invalid",
                "annotation mismatch"} -> "InvalidArgument"
    [] err = "concurrency limit" -> "ResourceExhausted"
    [] err = "unknown key_id" -> "NotFound"
    [] err = "status unhealthy" -> "FailedPrecondition"
    [] OTHER -> "Internal"    \* response limit, invalid response, panic

\* openBaoErrorPolicies and transitErrorPolicy.  An error of the token source
\* is Unauthenticated unless its cause is an unavailable backend.
transitCode(class, authentication) ==
  CASE class = "canceled" -> "Canceled"
    [] class = "deadline" -> "DeadlineExceeded"
    [] class \in {"rate_limited"} -> "ResourceExhausted"
    [] class \in {"sealed", "unavailable", "tls_failed", "dns_failed",
                  "connection_failed"} -> "Unavailable"
    [] authentication \/ class = "unauthenticated" -> "Unauthenticated"
    [] class = "permission_denied" -> "PermissionDenied"
    [] class = "not_found" -> "NotFound"
    [] class \in {"invalid_request", "decrypt_failed"} -> "InvalidArgument"
    [] OTHER -> "Unavailable"

-----------------------------------------------------------------------------
(* Entering and leaving a handler.                                         *)

\* tryAcquire, which never waits.
tryAcquire(m) == slots[m] < MaxConcurrent[m]

acquire(m) == slots' = [slots EXCEPT ![m] = @ + 1]

release(m) == slots' = [slots EXCEPT ![m] = @ - 1]

\* Replies that a caller takes as the last word.
Final == {"OK", "NotFound", "InvalidArgument"}

\* An exchange that fails a call does not blame the request: Transit's answer
\* to the request itself is TransitAnswer's.
ASSUME ExchangeAssumption ==
  \A x \in Exchanges, authentication \in BOOLEAN :
    transitCode(doOpenBao(x), authentication) \notin Final

\* finishRequest: the reply is set after the inner handler released its slot.
\* A reply that invites the caller to try again is not kept.
Finish(r, call, code) ==
  /\ request' = [request EXCEPT ![r] = IdleCall]
  /\ answer' = {[call |-> call, reply |-> c] : c \in {code} \intersect Final}

\* A handler that returns in its first segment leaves its limiter as it was.
Returns(r, call, code) == Finish(r, call, code) /\ UNCHANGED slots

\* A call goes on to its next wait.
Continues(r, call, pc) ==
  /\ request' = [request EXCEPT ![r] = [call EXCEPT !.pc = pc]]
  /\ answer' = {}

Waits(r, call, pc) == Continues(r, call, pc) /\ acquire(call.method)

\* Only a call that names a key_id is compared with what was seen before it.
New(method) == [IdleCall EXCEPT !.method = method,
                                !.floor = IF method = "decrypt" THEN 0 ELSE seen]

\* Status: takes a slot, reads the cache, and answers in a second step.
Status(r) ==
  /\ node.up /\ request[r].pc = "idle"
  /\ IF ~tryAcquire("status")
     THEN Returns(r, New("status"), localCode("concurrency limit"))
     ELSE Waits(r, [New("status") EXCEPT !.snapshot = activeStatus], "answer")
  /\ UNCHANGED <<transit, node, stored, seen>>

StatusAnswers(r) ==
  /\ request[r].pc = "answer"
  /\ Finish(r, request[r], "OK")
  /\ release("status")
  /\ \/ request[r].snapshot = {} /\ UNCHANGED seen
     \/ \E s \in request[r].snapshot : seen' = Max2(seen, s.version)
  /\ UNCHANGED <<transit, node, stored>>

\* Encrypt up to its call of Transit.
Encrypt(r) ==
  LET call == New("encrypt")
  IN /\ node.up /\ request[r].pc = "idle"
     /\ \/ /\ ~tryAcquire("encrypt")
           /\ Returns(r, call, localCode("concurrency limit"))
        \/ /\ tryAcquire("encrypt") /\ "malformed" \in Events
           /\ Returns(r, call, localCode("plaintext required"))
        \/ /\ tryAcquire("encrypt") /\ activeStatus = {}
           /\ Returns(r, call, localCode("status unhealthy"))
        \/ \E s \in activeStatus :
             /\ tryAcquire("encrypt")
             /\ Waits(r, [call EXCEPT !.snapshot = {s}], "transit")
     /\ UNCHANGED <<transit, node, stored, seen>>

\* External: Transit encrypts with the version it is told to, if it may.
CanEncrypt(s) == /\ s.version \in DOMAIN transit.createdAt
                 /\ s.version >= transit.minEnc
                 /\ transit.createdAt[s.version] = s.createdAt

\* Mutant: the version that Transit reports is not compared.
VersionAcceptedAny(reported, s) == TRUE

\* encrypt refuses a response that names another version than it asked for.
VersionAccepted(reported, s) == reported = 0 \/ reported = s.version

\* Encrypt from the call of Transit on.  A response names the version that was
\* used, or none; a backend that used another one says so.
TransitEncrypts(r) ==
  \E s \in request[r].snapshot :
    /\ request[r].pc = "transit" /\ request[r].method = "encrypt"
    /\ release("encrypt")
    /\ \/ \E x \in Exchanges, authentication \in BOOLEAN :
            /\ Finish(r, request[r], transitCode(doOpenBao(x), authentication))
            /\ UNCHANGED <<stored, seen>>
       \/ /\ ~CanEncrypt(s)
          /\ Finish(r, request[r],
               transitCode(doOpenBao(Response(400, "nothing", "fits")), FALSE))
          /\ UNCHANGED <<stored, seen>>
       \/ \E reported \in {0} \union DOMAIN transit.createdAt :
            /\ CanEncrypt(s)
            /\ IF VersionAccepted(reported, s)
               THEN /\ Finish(r, request[r], "OK")
                    /\ stored' = stored \union {Envelope(s, KeyOf(transit,
                                    IF reported = 0 THEN s.version ELSE reported))}
                    /\ seen' = Max2(seen, s.version)
               ELSE /\ Finish(r, request[r], localCode("invalid response"))
                    /\ UNCHANGED <<stored, seen>>
    /\ UNCHANGED <<transit, node>>

-----------------------------------------------------------------------------
(* Decrypt.                                                                *)

\* A DecryptRequest: a stored value, or one of this node's with the ciphertext
\* or the annotations of another value, or with malformed annotations.
Inputs ==
  LET own == {e \in stored : e.keyID.scope = OwnScope}
      others == {e.annotations : e \in stored} \union
                {[malformed |-> "x"] : m \in Events \intersect {"malformed"}}
  IN UNION {stored,
            {[f EXCEPT !.ciphertext = e.ciphertext] : e \in stored, f \in own},
            {[f EXCEPT !.annotations = a] : f \in own, a \in others}}

\* PrepareDecrypt of a known key_id, and the call of Transit.
PrepareDecrypt(r, call, input) ==
  LET canonical == Canonical(input.keyID, input.annotations)
  IN IF canonical.err # "none"
     THEN Finish(r, call, localCode(canonical.err))
     ELSE Continues(r, [call EXCEPT !.aad = canonical.aad], "transit")

Decrypt(r) ==
  LET call == New("decrypt")
  IN /\ node.up /\ request[r].pc = "idle"
     /\ \/ /\ ~tryAcquire("decrypt")
           /\ Returns(r, call, localCode("concurrency limit"))
        \/ \E err \in {"ciphertext required", "request limit", "key_id malformed"} :
             /\ tryAcquire("decrypt") /\ "malformed" \in Events
             /\ Returns(r, call, localCode(err))
        \/ \E input \in Inputs :
             LET given == [call EXCEPT !.input = {input}]
             IN /\ tryAcquire("decrypt")
                /\ IF Known(input.keyID) THEN PrepareDecrypt(r, given, input)
                   ELSE Continues(r, given, "refresh")
                /\ IF request'[r] = IdleCall THEN UNCHANGED slots
                   ELSE acquire("decrypt")
     /\ UNCHANGED <<transit, node, stored, seen>>

\* Mutant: a failed attempt within the interval counts as a good one.
RefreshWithinIntervalOK(r) ==
  /\ Continues(r, request[r], "again")
  /\ UNCHANGED slots

\* prepareDecryptRefresh within the interval: the last attempt's result.
RefreshWithinInterval(r) ==
  IF node.refreshErr
  THEN /\ Finish(r, request[r], localCode("key metadata refresh"))
       /\ release("decrypt")
  ELSE /\ Continues(r, [request[r] EXCEPT !.throttled = TRUE], "again")
       /\ UNCHANGED slots

\* RefreshForDecrypt, once it has the probe gate: the registry may have the key
\* by now, or know it as removed, or the interval is not over; otherwise it
\* starts a discovery that holds the gate.
RefreshForDecrypt(r) ==
  \E input \in request[r].input :
    /\ request[r].pc = "refresh" /\ node.probe = NoProbe
    /\ \/ /\ Recorded(input.keyID)
          /\ Continues(r, request[r], "again")
          /\ UNCHANGED <<node, slots>>
       \/ /\ ~Recorded(input.keyID) /\ node.nextRefresh
          /\ RefreshWithinInterval(r)
          /\ UNCHANGED node
       \/ /\ ~Recorded(input.keyID) /\ ~node.nextRefresh
          /\ Continues(r, request[r], "wait")
          /\ node' = [node EXCEPT !.nextRefresh = TRUE,
                        !.probe = {[discover |-> TRUE, profile |-> transit, by |-> {r}]}]
          /\ UNCHANGED slots
    /\ UNCHANGED <<transit, stored, seen>>

\* RefreshForDecrypt returned.  A failure does not matter if the key is known
\* after all; otherwise Decrypt looks again.
DecryptAgain(r) ==
  \E input \in request[r].input :
    /\ request[r].pc = "again"
    /\ IF Known(input.keyID) THEN PrepareDecrypt(r, request[r], input)
       ELSE Finish(r, request[r],
              localCode(IF request[r].failed THEN "key metadata refresh"
                        ELSE "unknown key_id"))
    /\ IF request'[r] = IdleCall THEN release("decrypt") ELSE UNCHANGED slots
    /\ UNCHANGED <<transit, node, stored, seen>>

\* External: Transit finds the version in the ciphertext and checks the AAD.
CanDecrypt(key) == /\ key.version \in DOMAIN transit.createdAt
                   /\ key.version >= transit.minDec
                   /\ transit.createdAt[key.version] = key.createdAt

TransitAnswer(input, aad) ==
  IF ~CanDecrypt(input.ciphertext.key) THEN Response(400, "nothing", "fits")
  ELSE IF input.ciphertext.aad # aad THEN Response(400, "mac", "fits")
  ELSE Response(200, "nothing", "fits")

TransitDecrypts(r) ==
  \E input \in request[r].input :
    /\ request[r].pc = "transit" /\ request[r].method = "decrypt"
    /\ \/ \E x \in Exchanges, authentication \in BOOLEAN :
            Finish(r, request[r], transitCode(doOpenBao(x), authentication))
       \/ LET class == doOpenBao(TransitAnswer(input, request[r].aad))
          IN Finish(r, request[r], IF class = "ok" THEN "OK"
                                   ELSE transitCode(class, FALSE))
    /\ release("decrypt")
    /\ UNCHANGED <<transit, node, stored, seen>>

-----------------------------------------------------------------------------
(* Any handler.                                                            *)

InHandler == {"answer", "transit", "refresh", "wait", "again"}

\* The caller's context ends while the handler waits.  A discovery goes on.
ContextEnds(r) ==
  /\ "context" \in Events
  /\ request[r].pc \in {"transit", "refresh", "wait"}
  /\ \E err \in Contexts : Finish(r, request[r], localCode(err))
  /\ release(request[r].method)
  /\ UNCHANGED <<transit, node, stored, seen>>

\* Mutant: the slot of a handler that panics is lost.
PanicsHoldingSlot(r) ==
  /\ "panic" \in Events /\ request[r].pc \in InHandler
  /\ Finish(r, request[r], localCode("panic"))
  /\ UNCHANGED <<slots, transit, node, stored, seen>>

\* A handler panics: its deferred release runs, then finishRequest recovers.
Panics(r) ==
  /\ "panic" \in Events /\ request[r].pc \in InHandler
  /\ Finish(r, request[r], localCode("panic"))
  /\ release(request[r].method)
  /\ UNCHANGED <<transit, node, stored, seen>>

-----------------------------------------------------------------------------
(* The registry of this node.                                              *)

\* A scheduled probe takes the gate and reads the key profile.
BeginProbe ==
  /\ node.up /\ node.probe = NoProbe
  /\ node' = [node EXCEPT
       !.probe = {[discover |-> FALSE, profile |-> transit, by |-> {}]}]
  /\ answer' = {} /\ UNCHANGED <<transit, request, slots, stored, seen>>

\* The result of a discovery counts until the interval ends.
refreshErrAfter(p, failed) ==
  IF p.discover THEN failed /\ node.nextRefresh ELSE node.refreshErr

\* The end of a probe: the waiter of a discovery, if it still waits, goes on.
ProbeEnds(p, failed) ==
  /\ request' = [r \in Requests |->
       IF r \in p.by /\ request[r].pc = "wait"
       THEN [request[r] EXCEPT !.pc = "again", !.failed = failed]
       ELSE request[r]]
  /\ answer' = {}
  /\ UNCHANGED <<transit, slots, stored, seen>>

\* publishObservation with its save, or a failed probe.
ProbeFails ==
  \E p \in node.probe :
    /\ "read" \in Events
    /\ node' = [node EXCEPT !.probe = NoProbe, !.healthy = FALSE,
                            !.refreshErr = refreshErrAfter(p, TRUE)]
    /\ ProbeEnds(p, TRUE)

ProbePublishes ==
  \E p \in node.probe, c \in node.content :
    LET results == observe(Unobserved(c), p.profile, 1, ~p.discover, ~p.discover)
    IN /\ \/ /\ results = {}
             /\ node' = [node EXCEPT !.probe = NoProbe, !.healthy = FALSE,
                                     !.refreshErr = refreshErrAfter(p, TRUE)]
             /\ ProbeEnds(p, TRUE)
          \/ \E res \in results, healthy \in BOOLEAN :
               /\ res.blocked => ~healthy
               /\ node' = [node EXCEPT !.probe = NoProbe, !.healthy = healthy,
                             !.content = {res.state.content},
                             !.refreshErr = refreshErrAfter(p, FALSE)]
               /\ ProbeEnds(p, FALSE)

\* The refresh interval passes.
RefreshIntervalEnds ==
  /\ node.nextRefresh
  /\ node' = [node EXCEPT !.nextRefresh = FALSE, !.refreshErr = FALSE]
  /\ answer' = {} /\ UNCHANGED <<transit, request, slots, stored, seen>>

\* The cache becomes stale, or a deep probe fails.
HealthLapses ==
  /\ node.healthy
  /\ node' = [node EXCEPT !.healthy = FALSE]
  /\ answer' = {} /\ UNCHANGED <<transit, request, slots, stored, seen>>

\* serve stops, and its calls with it; an operator may retire versions.
Stop ==
  /\ "restart" \in Events /\ node.up
  /\ \E c \in node.content :
       \E d \in {c} \union {s.content : s \in
                    UNION {RetireVersions(Unobserved(c), v) : v \in 1..MaxVersion}} :
         node' = [up |-> FALSE, content |-> {d}, healthy |-> FALSE,
                  probe |-> NoProbe, nextRefresh |-> FALSE, refreshErr |-> FALSE]
  /\ request' = [r \in Requests |-> IdleCall]
  /\ slots' = [m \in Methods |-> 0]
  /\ answer' = {} /\ UNCHANGED <<transit, stored, seen>>

\* serve starts: it listens once its bootstrap probe has succeeded.
Start ==
  /\ ~node.up
  /\ \E c \in node.content : \E res \in observe(Unobserved(c), transit, 1, TRUE, FALSE) :
       /\ ~res.blocked
       /\ node' = [node EXCEPT !.up = TRUE, !.healthy = TRUE,
                               !.content = {res.state.content}]
  /\ answer' = {} /\ UNCHANGED <<transit, request, slots, stored, seen>>

-----------------------------------------------------------------------------
(* External: Transit and the peers.                                        *)

Rotate ==
  /\ transit.latest < MaxVersion
  /\ LET v == transit.latest + 1
     IN transit' = [transit EXCEPT !.latest = v,
                      !.createdAt = [u \in 1..v |-> u]]
  /\ answer' = {} /\ UNCHANGED <<node, request, slots, stored, seen>>

RaiseMinimums ==
  /\ "minimums" \in Events
  /\ \E v \in (transit.minDec + 1)..transit.latest :
       transit' = [transit EXCEPT !.minDec = v, !.minEnc = v]
  /\ answer' = {} /\ UNCHANGED <<node, request, slots, stored, seen>>

\* A peer of the cluster has promoted some version and stores a value.
PeerEncrypts ==
  /\ \E v \in DOMAIN transit.createdAt :
       LET s == Snapshot(OwnScope, KeyOf(transit, v))
       IN /\ CanEncrypt(s)
          /\ stored' = stored \union {Envelope(s, KeyOf(transit, v))}
  /\ answer' = {} /\ UNCHANGED <<transit, node, request, slots, seen>>

-----------------------------------------------------------------------------
Handler(r) ==
  \/ StatusAnswers(r) \/ TransitEncrypts(r) \/ TransitDecrypts(r)
  \/ RefreshForDecrypt(r) \/ DecryptAgain(r)

ProbeStep == ProbePublishes \/ ProbeFails

Next ==
  \/ \E r \in Requests : \/ Status(r) \/ Encrypt(r) \/ Decrypt(r) \/ Handler(r)
                         \/ ContextEnds(r) \/ Panics(r)
  \/ BeginProbe \/ ProbeStep \/ RefreshIntervalEnds \/ HealthLapses
  \/ Stop \/ Start \/ Rotate \/ RaiseMinimums \/ PeerEncrypts

Spec == Init /\ [][Next]_vars

-----------------------------------------------------------------------------
\* decrypt hands out a plaintext only for a ciphertext that was stored under
\* the very key_id of the request and under this node's identity, whatever
\* ciphertext, key_id and annotations are combined.
PlaintextOnlyForItsKey ==
  \A a \in answer : \A input \in a.call.input : a.reply = "OK" =>
    \E e \in stored : /\ e.ciphertext = input.ciphertext /\ e.keyID = input.keyID
                      /\ e.keyID.scope = OwnScope

\* What encrypt answered stays readable with its own key_id and annotations for
\* as long as the version its key_id names may decrypt.
StoredIsReadable ==
  \A e \in stored : e.keyID.version >= transit.minDec =>
    TransitAnswer(e, Canonical(e.keyID, e.annotations).aad).status = 200

\* Decrypt refuses a stored value of this cluster for good (NotFound,
\* InvalidArgument) only if its version was retired here or may no longer
\* decrypt, or if a discovery succeeded within the refresh interval and was not
\* repeated for this key_id.  Failing and slow calls never look like that.
PeerValueNotRefused ==
  \A a \in answer : \A input \in a.call.input :
    /\ a.reply \in {"NotFound", "InvalidArgument"}
    /\ \E e \in stored : /\ e.keyID.scope = OwnScope /\ e.keyID = input.keyID
                         /\ e.ciphertext = input.ciphertext
                         /\ e.annotations = input.annotations
    => \/ a.call.throttled
       \/ input.keyID.version < transit.minDec
       \/ Recorded(input.keyID) /\ ~Known(input.keyID)

\* Once Status or Encrypt has named a version, a call that starts later never
\* names an older one, across promotions, slow calls and restarts.
NoOlderKeyLater ==
  \A a \in answer : \A s \in a.call.snapshot :
    a.reply = "OK" => s.version >= a.call.floor

\* A limiter counts exactly the calls inside its handler: no path out of one,
\* a panic included, keeps or returns a slot too many.
SlotsHeld ==
  \A m \in Methods :
    slots[m] = Cardinality({r \in Requests : /\ request[r].method = m
                                              /\ request[r].pc \in InHandler})
=============================================================================
