--------------------------- MODULE NodeProperties ---------------------------
(***************************************************************************)
(* What the node of StatusController promises: of the key_ids it hands out, *)
(* of its health, of the activation delay, of the operator commands and of *)
(* the registry on disk.                                                   *)
(***************************************************************************)
EXTENDS StatusController

\* Every variable has its shape; in particular a cached, a committed and a
\* written state file validate (StateFile.Validate), so no step ever builds a
\* registry that the next load would call corrupt.
TypeOK ==
  /\ proc \in {"none", "loading", "cliLoading", "cliSaving"} \union Running
  /\ probe.pc \in {"free", "reading", "recovering", "saving"}
  /\ probe.pc # "free" => proc \in Running
  /\ IsOption(store.state) /\ IsOption(commit)
  /\ \A s \in store.state \union disk.state \union io.next :
       s.generation > 0 /\ Validate(s.content)

\* What Status or Encrypt has handed out is never older than the active key of
\* the registry, in memory or on disk, so that key_id never flips back: not
\* across probes, restarts, failed saves, a Transit restored from backup, or
\* operator commands.
KeyIDNeverFlipsBack ==
  \A k \in reported, a \in active(store.state) \union active(disk.state) :
    k.version < a.version \/ k = a

\* A key_id that the node has handed out stays in the registry on disk, and
\* stays decryptable unless an operator removed it.
ReportedStaysKnown ==
  \A k \in reported : \E s \in disk.state :
    k \in Lookup(s.content) \/ k \in KeysIn(s.content, "removed")

\* The decision to promote comes only after this process has seen the stable
\* candidate on disk for the whole activation delay: restarts, failed saves,
\* superseded candidates and clock corrections never shorten it.
FullDelayBeforePromotion ==
  [][\A c \in commit' \ commit :
       active(c.previous) \notin {{}, active({c.next})} /\ proc \in Running
         => /\ waited >= ActivationDelay
            /\ ActivationDelay > 0 => active({c.next}) = CandidateOn(disk)]_vars

\* A healthy, fresh cache reports a key_id whose own deep probe succeeded, and
\* metadata validated the cached registry at most MaxStaleness ago.
HealthyIsChecked ==
  Current(store) /\ proc \in Running
    => checked.key = active(store.state) /\ checked.age <= MaxStaleness

\* A probe that reports healthy metadata has, in the profile it read, every
\* identity it keeps decryptable, unchanged and above the decryption minimum,
\* and an active version that may encrypt: also when it publishes an earlier
\* attempt it has just recovered, or defers a failed save.
HealthyMatchesTransit ==
  [][\A profile \in IF probe.profile = {} THEN {transit} ELSE probe.profile :
       probe.pc # "free" /\ probe'.pc = "free" /\ store'.metadataOK =>
         \A s \in store'.state :
           /\ profile.usable /\ profile.minEnc <= s.content.activeKeyID.version
           /\ \A k \in Lookup(s.content) :
                /\ profile.minDec <= k.version
                /\ k.version \in DOMAIN profile.createdAt
                /\ profile.createdAt[k.version] = k.createdAt]_vars

\* While Transit still holds every identity that the registry keeps
\* decryptable, above its minimums, no metadata read is refused: no history of
\* observations, clock corrections, supersessions, promotions, retirements,
\* restores and trimming leaves a registry that its own checks reject.
IntactKeyNeverRefused ==
  \A s \in store.state :
    /\ transit.usable
    /\ \A k \in Lookup(s.content) : /\ k.version >= transit.minDec
                                    /\ k.version \in DOMAIN transit.createdAt
                                    /\ k.createdAt = transit.createdAt[k.version]
    => \A now \in WallTimes :
         /\ \A ready \in BOOLEAN : observe(s, transit, now, TRUE, ready) # {}
         /\ Discover(s, transit, now) # {}

\* A command replaces exactly the state file that its plan was reviewed
\* against, even if serve ran between the review and the application.
AppliesReviewedState ==
  [][proc = "cliSaving" /\ disk'.state # disk.state =>
       \E s \in disk.state, p \in plan : p.hash = computeHash(s)]_vars

\* "Discovery never advances promotion": the active key does not change in a
\* probe that an unknown key_id triggered.
DiscoveryNeverPromotes ==
  [][probe.discover /\ proc' # "none" => active(store'.state) = active(store.state)]_vars

\* "Retirement needs no pending rotation, an active version equal to Transit's
\* latest": whenever retire-versions is applied.
RetirementNeedsSettledRotation ==
  [][\A s \in disk.state, p \in plan :
       proc = "none" /\ proc' = "cliLoading" /\ p.op.kind = "retire" =>
         /\ KeysIn(s.content, "pending") = {}
         /\ s.content.activeKeyID.version = transit.latest]_vars

\* A node that runs on and can reach Transit becomes healthy again: neither an
\* open breaker nor a failed save nor a stale cache is final.
HealthRecovers == proc \in Serving ~> (proc = "none" \/ Current(store))

\* A running node ends up on Transit's latest version, although saves and
\* reads may fail and discovery may come in between.
RotationCompletes ==
  proc \in Serving ~> \/ proc = "none"
                      \/ \A k \in active(store.state) : k.version = transit.latest

-----------------------------------------------------------------------------
(* The visible state file implements KeyLifecycle.                         *)

LifeOf(state) ==
  [k \in AllKeys |->
     IF \E s \in state : k \in DOMAIN s.content.snapshots
     THEN (CHOOSE s \in state : TRUE).content.snapshots[k].state
     ELSE "unknown"]

Lifecycle == INSTANCE KeyLifecycle WITH Keys <- AllKeys, life <- LifeOf(disk.state)

\* Every change of the state file, whoever saves it and however the save is
\* interrupted or repeated, is a step of the documented state diagram.
ImplementsLifecycle == Lifecycle!Spec

=============================================================================
