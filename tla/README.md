# TLA+ verification of openbao-kubernetes-kms

The provider is a Kubernetes KMS v2 plugin backed by an OpenBao Transit key. Kubernetes
asks it for a `key_id` (Status), hands it data to encrypt and decrypt, and re-encrypts
stored data whenever `key_id` changes. The plugin *observes* Transit rotations and decides
when to move to a newer version. A `key_id` that moves too early, moves back, or is
forgotten costs the cluster its data, so the part that decides and persists this is the
core of the development. Around it are the request path, the OpenBao session, the process
with its socket and credentials, and the tools that set a host up.

All source paths are relative to the repository root.

## Inventory

| part | state | operations | hard behaviour |
|---|---|---|---|
| registry files (`internal/keyregistry/state.go`) | state file, checkpoint | write temp, rename, sync directory | stop or power loss between any two steps |
| state store (`internal/status/state_store.go`, `state_recovery.go`) | none of its own | Save, Load, Recover, Confirm | retry of a half-done save |
| key registry (`internal/keyregistry`) | snapshots, active key_id | Lookup, RetireVersions, RestoreVersions | long sequences of legal transitions |
| rotation observer (`internal/status/rotation.go`, `bootstrap.go`) | none, pure | Observe, Discover, RebuildState | skipped, superseded and reused versions, wall clock steps |
| status controller (`internal/status/controller.go`, `persistence.go`, `activation.go`) | pending commit, activation wait, breakers | ProbeOnce, DeepProbeOnce, RefreshForDecrypt | results used after slow calls; failed saves |
| status cache (`internal/status/store.go`) | published registry, health flags, freshness | publish*, Current, Lookup | stale evidence |
| operator commands (`cmd/bao-kms-provider/retirement.go`) | reviewed plan | plan, apply | registry changes between review and apply |
| KMS v2 server (`internal/kmsv2`, `internal/aad`) | limiter slots, requests in flight | Status, Encrypt, Decrypt | registry replaced during a request |
| token manager (`internal/auth`) and request retry (`internal/openbao/client.go`) | token, shared refresh, backoff | Token, RecoverToken, RejectToken | rejection racing a renewal |
| clock (`internal/clock`) | origin | Deadline, Lifetime | two clocks that disagree |
| process, listeners, socket (`cmd/bao-kms-provider/serve.go`, `internal/runtime`, `internal/socket`) | lock, listeners, drain | serve, Listen, shutdown | two processes on one path, failures half way |
| login sources (`internal/auth`, `internal/oauth2`) | files, certificates | read, check, present | a file replaced between check and read |
| configuration and preflight (`internal/config`, `cmd/bao-kms-provider/diagnostics.go`) | none | Load, Validate, doctor, verify-* | preflight and serve drifting apart |
| init and its scripts (`cmd/bao-kms-provider/init.go`, `internal/scaffold`) | generated files, host | render, write, install, check, start | runs that overlap or stop half way |

Transit is the shared external system. The controller polls it; requests read only the
cache, and Decrypt may trigger a discovery probe. `probeGate` serialises all probes of a
node and the file lock serialises all writers of a registry.

## Modules

| module | models | correspondence |
|---|---|---|
| `StateFiles` | state file and checkpoint as values | SHA-256 is an ideal injective hash; a hash is the hashed body in a one-tuple |
| `StateStore` | `FileStateStore`, `saveEncodedFile` | `disk` is the visible pair of files, `durable` the images a power loss can leave, `io` the call in progress |
| `Persistence` | who calls the store and what is remembered | `published` is `Store.state`, `commit` is `Controller.pendingCommit`; the content of a generation is left open |
| `KeyRegistry` | content of a state file and its transitions | a `key_id` is the pair of version and creation time that `DeriveKeyID` hashes with a fixed identity |
| `Rotation` | the observer as pure functions | an error result is the empty set |
| `StatusController` | one node: controller, cache, breakers, scheduler, commands, and Transit as environment | composes `StateStore` and `Rotation`; each Go method is an action or an operator of the same name |
| `NodeProperties` | what the node promises | the properties of `StatusController`, and the mapping of its state file to `KeyLifecycle` |
| `RegistrySteps` | the observer and the commands as relations | `Learns`, `Promotes`, `Managed`, `Bootstrapped`: what may become of a state file; used by the proofs |
| `StatusEffects` | the invariants of the node and the effects of its steps | definitions for the proofs, no code of their own |
| `KeyLifecycle` | what the registry promises: the state diagram of `docs/architecture/rotation-model.md` | abstract specification that `StatusController` implements |
| `AAD` | annotations and associated data | records of the fields they bind |
| `OpenBaoClient` | what one HTTP exchange means to its caller | error classes, namespaces |
| `KmsServer` | Status, Encrypt and Decrypt in flight, limiters, panics, error policy | composes `Rotation`, `AAD`, `OpenBaoClient`; a probe is read and publish, its details are those of `StatusController` |
| `Clock` | `Deadline`, `Lifetime` | ticks left, ticks since the start |
| `AuthManager` | token manager and its callers | a step is what the code does under `Manager.mu` or one exchange |
| `Config`, `EncryptionConfig` | loading, defaults, validation | a validation is the set of fields it reports |
| `Credentials` | login sources and their checks | kinds of files, relative times |
| `Diagnostics` | doctor, verify-key, verify-rotation, rotation-plan | a report is the set of failed checks |
| `Provider` | serve processes from start to exit | one process record with its step, listeners, grace and requests |
| `Installation` | what init renders | a generated text is the value it stands for |
| `Host` | init runs, set-up scripts, a host and its OpenBao | composes `Provider` and `Installation` |
| `MCAuthManager`, `MCKmsServer`, `MCProvider` | instances for TLC | symmetry, settings, plans |
| `*Proofs` | theorems | see Proofs |

Definitions whose comment starts with "Mutant" are deliberate faults. They are not part of
any specification; each shows that a property can fail.

### Abstractions

* A metadata probe is split where the code waits: read, recover, save, publish. The
  upsert flag and the key profile are two requests in the code and one read here. A deep
  probe is one step: it holds `probeGate`, publishes at its end and uses nothing that
  another goroutine could change meanwhile.
* A failed OpenBao call of any cause, a deadline included, is `ReadFails` or a failed deep
  probe.
* Elapsed time is a tick; deadlines and ages are capped counters. The wall clock is any
  reading in `WallTimes`, in any order. A wall clock ahead of elapsed time only ages the
  cache (`WallClockAhead`), which is what `Lifetime.Age` does with it.
* A breaker's failure count is capped at its threshold, where the code only compares it.
* A journaling file system is assumed: renames of one directory reach the disk in order,
  and a directory sync makes all earlier ones durable.
* The declared but never assigned registry state "rejected" is left out.
* Configured texts are of a few kinds ("ok", "empty", "blank", "malformed"), a validation
  reports fields and not messages, and YAML, JSON and HTTP decoding succeed or fail.
* Optional values are sets with at most one element throughout.

## Runs

| run | checks | about |
|---|---|---|
| `persist` | `TypeOK`, `ReloadAccepts`, `RecoverNeverWedges`, `ConfirmedOnDisk`, `HashChain`, `CommitDurable`, `CommitResolves` | all four faults at every step of every save, by serve and by the commands; failed saves complete in the end |
| `ctl_faults` | `HealthyIsChecked`, `KeyIDNeverFlipsBack`, `IntactKeyNeverRefused`, `FullDelayBeforePromotion` | one rotation under failing writes, stops, slow probes, discovery and wall clock steps |
| `ctl_transit` | `TypeOK`, `ReportedStaysKnown`, `HealthyMatchesTransit` | Transit restored from a backup with reused version numbers, moving minimums, changed settings |
| `ctl_operator` | `IntactKeyNeverRefused`, `AppliesReviewedState`, `ImplementsLifecycle` | retirement, restoration and trimming between runs of serve |
| `ctl_live` | `HealthRecovers`, `RotationCompletes` | failing calls and saves, breakers, and the recovery from them |
| `auth` | `RejectedNeverRestored`, `ExecutedAtMostOnce`, `RecoveryLoginsSpaced`, `OnlyRefusedIsDiscarded` | two callers, refused tokens, failing calls, cancellation and stop |
| `auth_live` | `LeaseNeverYounger`, `CallersReturn` | a wall clock that disagrees with elapsed time; every call ends |
| `kms` | `PlaintextOnlyForItsKey`, `StoredIsReadable`, `PeerValueNotRefused`, `NoOlderKeyLater`, `SlotsHeld` | two requests in flight while probes publish, Transit rotates, serve restarts and handlers panic |
| `provider` | `ServingOwnsPath`, `EndedHoldsNothing`, `PresentsSafeFile`, `OneInstallation`, `GeneratedIsAccepted`, `PreflightPredictsServe`, `GeneratedKeepsSettings`, `StartsWhatWasChecked`, `StartSettles`, `StopCompletes` | two processes and two init runs on one host, from generated files to serve and its end |
| `persist_drift`, `ctl_discovery`, `ctl_retirement` | one violated property each | see Findings |

### Bounds

Two contents and three generations let a failed save be followed by a different attempt,
by the other writer and by a reload. Persistence compares generations only with their
direct predecessor, and the theorems remove this bound altogether. Three Transit versions
give one skipped or superseded version; two suffice where only one rotation matters. A
stable count of two separates the first observation from stability, and a delay of one
tick separates stability from promotion. `MaxProbeTicks` lets a deadline pass during a
probe, which then uses up part of `MaxStaleness` or of the open duration. `CreationTimes`
of two values let a version number be reused by another key. `MaxGeneration` bounds only
what operator commands write in `StatusController`, since retire and restore could
alternate for ever. `Events` and `Faults` select the disturbances of a run; combinations
are split over runs to keep each within minutes. The theorems hold for every choice of
them, so for all disturbances at once. `ctl_faults` has no failing syncs: to the
controller a failed sync is a failed save, as a failed write is, and `persist` covers the
difference on disk. Without the event "time" no elapsed time passes: `ctl_transit` and
`ctl_operator`, which have no activation delay, leave it out, and there an opened deep
breaker stays open until a restart.

Two callers and three tokens let a late rejection meet a replacement. One or two lease
ticks separate renewal from expiry. Two requests suffice for the limiters, whose theorem
holds for any number, and let a promotion or restart fall between the steps of either.
`Provider` combines each login source with at most one deviation from a working host,
and `MCProvider` lists the combinations; two processes compete for the lock and the path.

### Fairness

`Persistence!FairSpec`: the scheduler keeps probing and calls return; a storage step or an
unchanged observation that can succeed again and again does so once. This is an assumption
on the storage and on Transit, not on the code.

`StatusController!FairSpec`: time passes, started calls return (every call has a context
deadline), and both tickers of `Scheduler.Run` keep firing. Go serves goroutines that wait
on a channel in order of arrival, so neither scheduled probe is starved at `probeGate`. The
conjunct `<>[][~Fails]_vars` says that disturbances of OpenBao and of the storage end at
some time. Without it a failing disk prevents any promotion, as it should. No fairness is
assumed for operators, Transit changes, discovery or the start of a process.

`AuthManager!AuthFairSpec`: goroutines that can run do, every exchange ends by its timeout and
a refresh by `refreshTimeout`, and a request ends once the manager has stopped. No caller's
own context is assumed to end. A woken caller gets the mutex long before a lease runs out,
so it cannot miss every usable token, nor every moment without a refresh: strong fairness
of these two steps only.

`Provider!Fairness`: the steps of a start, which never wait, those of a stop, and the
handlers that a forced stop has cancelled are taken. Nothing makes a process start or stop,
and a handler that is not cancelled may outlast the drain.

## Proofs

The theorems hold for every value of the constants that satisfies the assumptions named
in the modules (`FaultsAssumption`, `MaxGenerationAssumption`, `PolicyAssumption`,
`ControllerAssumption`, `AuthAssumption`, `KmsAssumption`, `ProviderAssumption`): bounds
and delays are natural numbers, sets of events are among the known ones, creation times
and clock readings are not zero. Three more say what the provers cannot compute or the
environment grants, and TLC evaluates them on the instances: doubling a backoff does not
shrink it (`DoublingAssumption`, a fact on powers of two), an exchange that fails on its
way does not blame the request (`ExchangeAssumption`), and every run of init writes to one
of the modelled directories (`HostAssumption`).

The eight modules with theorems are `RotationProofs`, `StatusStepProofs`,
`StatusControllerProofs`, `StatusLifecycleProofs`, `KmsDataProofs`, `KmsServerProofs`,
`StoreAndAuthProofs` and `HostProofs`; `tlapm` checks each of them on its own.

### The node

`RotationProofs`, `StatusStepProofs`, `StatusControllerProofs` and `StatusLifecycleProofs`
prove every safety property of `NodeProperties` that a passing run checks, for any number of Transit versions,
probes, restarts and commands, any policy and clock, and all events and faults at once:

| theorem | property |
|---|---|
| `TypeCorrect` | `TypeOK`: in particular, every state file that is written validates |
| `KeyIDSafe` | `KeyIDNeverFlipsBack` |
| `ReportedKept` | `ReportedStaysKnown` |
| `HealthChecked` | `HealthyIsChecked` |
| `HealthyMatches` | `HealthyMatchesTransit` |
| `AppliesReviewed` | `AppliesReviewedState` |
| `LifecycleRefinement` | `ImplementsLifecycle` |
| `FullDelay` | `FullDelayBeforePromotion` |
| `IntactAccepted` | `IntactKeyNeverRefused` |
| `AlwaysOneActive`, `ActiveNeverFlipsBack`, `RetiredNeverReturns`, `IdentitiesAreKept` | the promises of `KeyLifecycle`, for the state file of the node |

*The observer.* `RotationProofs` turns the pure functions into relations between a state
file and its successor: `Learns` (a candidate is recorded, skipped versions are retired),
`Promotes`, `Managed` (a retirement or restoration), and the result of a first
observation. `ObserveOutcome`, `BootstrapOutcome`, `RetireManaged` and `RestoreManaged`
show that nothing else happens. None of this holds of an arbitrary valid file: an older
version could be promoted, or a candidate without a first observation refused for ever.
The invariant `Ranked` excludes it: removed versions are older than the active one, a
retired version that is newer has been superseded by a candidate newer still, and a
candidate has the time of its first observation. Every operation keeps it.
`ObserveAccepted` shows that an observation never refuses a registry of this kind when
Transit holds all its decryptable keys: each function builds a file that passes
`Validate`, and two clock readings in any order leave its times consistent.

*The node.* No property of the list is inductive. The invariant `IInv` has three parts.
`ShapeInv` gives the fields of the records and that Transit numbers its versions without
gaps. `ControlInv` says who is at which step and ties the memory to the disk: without an
unresolved commit a running provider has published exactly the state file, and a file in
progress is the one being saved. `FilesInv` speaks of all states that the files hold or
may come to hold (the visible one, the one being written, both ends of an unresolved
commit): each is ranked, knows every reported key, has an active key at least as new, and
follows what is published. Restarts, failed saves and recoveries are then harmless
because whichever of these states survives satisfies the properties. `HealthInv` ties
the health flags to the last checks; `ProfileInv` says that what a probe is saving fits
the profile it has read; `ReviewedInv` says that the command line saves over a state
whose hash was planned. `NodeInv` is their conjunction.

The induction has two halves. `NextEffect` (`StatusStepProofs`) reduces the actions of the node to fourteen
*effects* on files, memory and reported keys (a rest, a report, an exit, a write, a probe
that reads, recovers, saves, ...), with one lemma per action. `EffectKeeps`,
`EffectProfile`, `EffectReviewed`, `EffectMatches` and the lemmas of the next paragraph
then work with effects alone.

*The lifecycle and the delay.* `CommitInv` says that a commit is one step of the registry
from the state it replaces and that all keys are Transit's. The only effect that changes
the state file replaces it by the other end of the commit, so each step of the node maps
to a step of `KeyLifecycle` or to none (`StepRefines`, `LifecycleRefinement`). What the
lifecycle promises follows from the mapped steps and `LifeInv`: no key is known yet, or
exactly one is active. `DelayInv`
says that the ticks left and the ticks waited with the confirmed candidate on disk add up
to the activation delay, that a probe which considers the deadline passed has waited it
out, and that the waiting key stays the candidate of every state the files may come to
hold. Every step other than a tick keeps, confirms or drops the countdown
(`UntimedCountdown`); with `PromotionReady` this gives `FullDelay`.

### The KMS service

`KmsDataProofs` and `KmsServerProofs` prove every property of `KmsServer`, for any number
of requests, limits, exchanges, rotations, restarts and peers:

| theorem | property |
|---|---|
| `PlaintextForItsKey` | `PlaintextOnlyForItsKey` |
| `PeerValuesAccepted` | `PeerValueNotRefused` |
| `KeysNamedInOrder` | `NoOlderKeyLater` |
| `StoredReadable` | `StoredIsReadable` |
| `SlotsAreHeld`, `LimitRespected` | `SlotsHeld`, and the limit itself |

The properties speak of answers, and an answer is the end of a call that has waited
several times while the registry moved on. `DataInv` therefore says of every call under
way what its next segment relies on. The key it has read was active then, exists in
Transit and is not older than what had been named before the call (`HasRead`). Its input
combines parts of stored values (`Combines`), its associated data is the canonical one of
that input (`Prepared`), and after a discovery its key is in the registry, or the
discovery failed or was throttled (`Refreshed`). The registry of the node records every
version of Transit up to the newest it knows (`IsRegistry`), and every stored value names
a version that exists (`IsValue`). `KmsDataProofs` shows that each segment of a handler keeps
`DataInv` and gives answers that satisfy `AnswerInv`; `KmsServerProofs` does the same for
probes, restarts, rotations and peers. That an observation keeps `IsRegistry` comes from
the lemmas of `RotationProofs`. The limiters have an invariant of their own that counts
the calls inside each handler.

### The state store and the token manager

`StoreAndAuthProofs` holds two independent developments.

* The store, for every set of contents, generation bound and set of faults: the files can
  always be loaded and a remembered failed save can always be recovered
  (`ReloadAlwaysAccepts`, `RecoverAlwaysAccepts`), the visible state moves along its hash
  chain and stays level with what serve has published (`GenerationsChain`,
  `PublishedStaysOnDisk`), and a pending commit is only forgotten for a durable state
  (`ResolvedIsDurable`). A power loss may take the state back, so the chain excepts that
  step and `confirmed` counts from the last one. The inductive invariant `ProtocolInv`
  says that every possible image is acceptable (nothing, a state without checkpoint in
  the first generation, or a state with its own or its predecessor's checkpoint) and ties
  the disk to the stage of the lock holder: with a pending commit it is *between* the
  commit's two states.
* The token manager, for any callers, leases, backoffs and clocks: `RejectionIsFinal`,
  `DiscardsOnlyRefused`, `LeaseAgeMonotone`, `CallsExecuteOnce`, `RecoverySpacing`. The
  invariant `ManagerInv` says that values are issued once and that what a shared refresh
  brings is either unseen or the value it started with, which the code compares with the
  current one. `RecoverySpacing` needs `Spaced` on top, which relates the two deadlines of
  the recovery throttle to the ages of the last two recovery logins: the quiet period
  outlasts the interval of the earlier one, and the next login waits for the interval of
  the later one unless the earlier one is already out of reach.

### The host

`HostProofs`, for any number of processes and runs of init and any settings, about the
composed specification `HostSpec`:

* `HostPathIsOwned`, `HostEndedIsClean`: the lock has one holder, the only process past
  `LockState` (`LockInv`), and the socket path belongs to a holder from its bind to its
  end (`PathInv`).
* `HostOnlySafeContent`: a safe entry at the credential's path is on record as such
  (`FileInv`), and what is presented has passed the comparison with that entry.
* `StartsChecked`: the marker file is what the last accepted check has written, and at
  most one configuration is loaded (`CheckInv`).
* `DirectoriesUnmixed`: all files of a directory are by the writer of its `config.yaml`,
  and what a run has written so far is there, whole (`OutInv`). `config.yaml` is the first
  file that every run creates, so `O_EXCL` lets one run of a directory pass.
* `DurationsLoadBack`: every duration that init writes loads back to itself.

### What is only model-checked

* Liveness: `CommitResolves`, `HealthRecovers`, `RotationCompletes`, `CallersReturn`,
  `StartSettles`, `StopCompletes`. Fairness and `ENABLED` are outside the prover's reach.
* `GeneratedIsAccepted`, `GeneratedKeepsSettings` and `PreflightPredictsServe`. They
  compare tables of settings built with `@@` and `:>`, whose definitions the provers do
  not expand, and they range over the enumerated settings of `MCProvider`: the run covers
  every combination there is in the model.
* The three violated properties under Findings.

## Findings

Three places where a document or comment promises more than the code does:

1. `FileStateStore.Load` returns a matching pair without syncing the directory
   (`internal/status/state_store.go:58`). After a stop between a rename and its sync, serve
   publishes a state that is not durable, whereas `docs/architecture/rotation-model.md:171`
   and `internal/status/activation.go:9` speak of durable observations (`persist_drift`).
2. `validateRetirementProfile` (`cmd/bao-kms-provider/retirement.go:193`) accepts a pending
   rotation and a newer latest version; `docs/architecture/rotation-model.md:102` says
   that retirement needs neither (`ctl_retirement`).
3. A discovery probe completes a promotion whose save failed and publishes it
   (`internal/status/persistence.go:21`), although "Discovery never advances promotion."
   (`internal/status/controller.go:169`). The decision was made earlier by a scheduled
   probe after the full delay (`ctl_discovery`), as `FullDelay` proves.

Four smaller ones were met while reading the code and have no run:

* After the retirement that `docs/operate/rotation.md` describes, serve works but doctor
  and verify-key fail `key_id.deterministic`: `RebuildState` (`internal/status/rotation.go:78`)
  starts at version 1 when `min_available_version` is 0.
* `isOAuth2Error` (`cmd/bao-kms-provider/diagnostics.go:302`) does not list
  `oauth2.ErrUnavailable`, so an unavailable token endpoint is not reported under
  `oauth2.acquire`, which `docs/reference/cli.md:45` gives to token acquisition.
* init with certificate login always fails in `buildNodeLayout`, although the message of
  `errInitStaticPodAuth` suggests that only static pods need a JWT.
* An install phase of node-setup.sh that fails half way cannot be run again.

## Not modelled

Metrics, logging, health endpoints, the probe and benchmark commands, release and
laboratory tools, and the decoding of YAML, JSON and HTTP: they have no state of their own
or are input and output. `PROJECT.json` lists every part with its reason.
