------------------------------ MODULE Provider ------------------------------
(***************************************************************************)
(* The life of "serve" processes on one host: configuration, the registry  *)
(* lock, construction, the bootstrap probes within their grace, binding    *)
(* the socket and the listeners, serving, draining and exit                *)
(* (cmd/bao-kms-provider/serve.go, internal/runtime, internal/socket).     *)
(*                                                                         *)
(* The processes share the configuration, so the state path and the socket *)
(* path.  A setting [source, start, deviation] is what they run in: the    *)
(* login source, the registry they start from, and at most one place where *)
(* it differs from a working one, a triple <<part, field, value>>.         *)
(***************************************************************************)
EXTENDS Diagnostics

CONSTANTS Processes,
          Settings,        \* the settings Init chooses from
          MaxReplacements, \* how often the JWT file is replaced
          MaxRequests      \* requests in flight per process

VARIABLES world,     \* what the processes find and do not change
          registry,  \* the registry files
          up,        \* OpenBao answers
          identity,  \* the entry at the path of the JWT file
          safe,      \* the inodes that were a safe file at that path
          used,      \* the inodes whose content was presented to OpenBao
          lock,      \* the holder of the registry lock
          path,      \* what the socket path leads to
          bound,     \* the TCP listeners, [address, by]
          proc       \* the processes

vars == <<world, registry, up, identity, safe, used, lock, path, bound, proc>>

None == <<"none">>

-----------------------------------------------------------------------------
(* The working setting of each login source, and deviations from it.       *)

Values(source) ==
  [field \in {"configVersion", "server.socketGroup", "openbao.address",
              "openbao.caCertFile", "openbao.tlsServerName"} \cup IdentityFields |-> "ok"]
  @@ (IF source = "file"
      THEN [field \in {"auth.jwt.mountPath", "auth.jwt.role", "auth.jwt.jwtFile"} |-> "ok"]
      ELSE IF source = "oauth2"
      THEN "auth.jwt.source" :> "oauth2"
           @@ [field \in {"auth.jwt.mountPath", "auth.jwt.role", "auth.jwt.expectedIssuer",
                          "auth.jwt.expectedAudience"} \cup OAuth2Fields |-> "ok"]
      ELSE "auth.method" :> "cert" @@ "auth.cert.source" :> source
           @@ "auth.cert.mountPath" :> "ok"
           @@ (IF source = "pkcs11"
               THEN "auth.cert.pkcs11.maxSessions" :> 2
                    @@ [field \in {"auth.cert.pkcs11.certificateFile",
                                   "auth.cert.pkcs11.modulePath",
                                   "auth.cert.pkcs11.tokenLabel",
                                   "auth.cert.pkcs11.keyLabel",
                                   "auth.cert.pkcs11.pinFile"} |-> "ok"]
               ELSE [field \in {"auth.cert.spiffe.workloadAPISocket",
                                "auth.cert.spiffe.spiffeID"} |-> "ok"]))

Without(f, field) == [x \in DOMAIN f \ {field} |-> f[x]]

\* One part of a setting with the deviation applied.
Deviate(setting, part, f) ==
  IF setting.deviation[1] = part
  THEN [f EXCEPT ![setting.deviation[2]] = setting.deviation[3]] ELSE f

File(setting) ==
  LET values == Values(setting.source)
      d == setting.deviation
  IN Deviate(setting, "document",
       [readable |-> TRUE, decodes |-> TRUE, numericDuration |-> FALSE,
        values |-> IF d[1] = "omit" THEN Without(values, d[2])
                   ELSE IF d[1] \in {"set", "replaced"} THEN d[2] :> d[3] @@ values
                   ELSE values])

Overrides(setting) ==
  IF setting.deviation[1] = "flag"
  THEN setting.deviation[2] :> setting.deviation[3] ELSE <<>>

FilesOf(setting) ==
  Deviate(setting, "file",
    [field \in {"config", "openbao.caCertFile", "auth.jwt.oauth2.clientSecretFile",
                "auth.jwt.oauth2.caCertFile", "auth.cert.pkcs11.certificateFile",
                "auth.cert.pkcs11.pinFile", "auth.jwt.jwtFile"} |-> "regular"]
    @@ "socketParent" :> "directory")

CredOf(setting) ==
  [jwt |-> Deviate(setting, "jwt",
     [content |-> "ok", expiresAt |-> {2}, notBefore |-> {0}, issuedAt |-> {},
      issuer |-> "ok", audience |-> "ok", subject |-> "ok"]),
   endpoint |-> Deviate(setting, "endpoint",
     [status |-> 200, body |-> "ok", expiresIn |-> {2}]),
   cert |-> Deviate(setting, "cert",
     [content |-> "ok", key |-> "k1", weakSignature |-> FALSE, notBefore |-> 0,
      notAfter |-> 2, clientAuth |-> TRUE, uris |-> {[domain |-> "ok", id |-> "ok"]}]),
   signer |-> Deviate(setting, "signer", [key |-> "k1", signs |-> TRUE])]
  @@ Deviate(setting, "cred",
       [ca |-> "ok", secret |-> "ok", pin |-> "ok", certAuthBuilt |-> TRUE])

\* The Transit key: one version, or two when it was rotated.
FirstKey ==
  [latest |-> 1, createdAt |-> 1 :> 1, minAvail |-> 0, minDec |-> 1, minEnc |-> 0,
   softDeleted |-> FALSE, flaws |-> {}]

RotatedKey == [FirstKey EXCEPT !.latest = 2, !.createdAt = 1 :> 1 @@ 2 :> 2]

\* A key whose first version was retired: the raised minimum hides it.
RetiredKey == [RotatedKey EXCEPT !.minDec = 2, !.createdAt = 2 :> 2]

BaoOf(setting) ==
  [key |-> Deviate(setting, "key",
     IF setting.start \in {"absent", "first"} THEN FirstKey
     ELSE IF setting.start = "retired" THEN RetiredKey ELSE RotatedKey),
   caps |-> Deviate(setting, "caps",
     [p \in CapabilityPaths |->
        IF p \in {"metadata", "mountConfig"} THEN {"read"}
        ELSE IF p \in {"encrypt", "decrypt"} THEN {"update"} ELSE {"deny"}])]
  @@ Deviate(setting, "bao", [login |-> TRUE, disableUpsert |-> TRUE])

\* The registry files a setting starts from: none, version 1 active, version
\* 2 pending, version 2 active, or version 2 active and version 1 removed
\* (retire-versions).
RegistryAt(start) ==
  LET first == RebuildState(Profile(FirstKey), 1)
      second == RebuildState(Profile(RotatedKey), 1)
      state == IF start = "absent" THEN {}
               ELSE IF start = "first" THEN first
               ELSE IF start = "pending"
               THEN UNION {{r.state : r \in observe(s, Profile(RotatedKey), 1, TRUE, FALSE)} :
                             s \in first}
               ELSE IF start = "rotated" THEN second
               ELSE UNION {RetireVersions(s, 2) : s \in second}
  IN [readable |-> TRUE, state |-> state,
      checkpoint |-> {NewStateCheckpoint(s) : s \in state},
      fingerprint |-> [field \in IdentityFields \cup {"openbao.namespace"} |->
                         IF field = "openbao.namespace" THEN "empty" ELSE "ok"]]

\* What the socket path leads to, and the ports others listen on.
PathOf(setting) == Deviate(setting, "path", [kind |-> "absent"]).kind

PortsOf(setting) == Deviate(setting, "port", [taken |-> {}]).taken

\* The entry at the path of the JWT file.
IdentityOf(setting) == Deviate(setting, "identity", [inode |-> 1, kind |-> "regular"])

\* No process has bound anything before it starts, and the JWT file, whatever
\* its kind, has the first inode.
ASSUME ProviderAssumption ==
  /\ "absent" \notin Processes /\ "stale" \notin Processes
  /\ \A setting \in Settings : /\ PathOf(setting) \notin Processes
                               /\ \A l \in PortsOf(setting) : l.by \notin Processes
                               /\ IdentityOf(setting).inode = 1

Off(failure) ==
  [pc |-> "off", token |-> FALSE, opened |-> {}, grace |-> 0, requests |-> 0,
   failure |-> failure]

\* What the processes find and do not change: the configuration that Load
\* returns, an option, the files, the host, the credentials and OpenBao.  In a
\* setting that deviates one process runs at a time, also in "replaced", where
\* the JWT file is: several do nothing to it that one does not do.
World(setting) ==
  [deviates |-> setting.deviation # None,
   replaced |-> setting.deviation[1] = "replaced",
   loaded |-> Load(File(setting), Overrides(setting)),
   files |-> FilesOf(setting),
   host |-> Deviate(setting, "host",
              [linux |-> TRUE, group |-> TRUE, stateDirectory |-> TRUE, chown |-> TRUE]),
   cred |-> CredOf(setting),
   bao |-> BaoOf(setting)]

Init ==
  /\ \E setting \in Settings :
       /\ world = World(setting)
       /\ registry = Deviate(setting, "registry", RegistryAt(setting.start))
       /\ identity = IdentityOf(setting)
       /\ path = PathOf(setting)
       /\ bound = PortsOf(setting)
  /\ up = TRUE
  /\ safe = IF SafeFile(identity.kind) THEN {1} ELSE {}
  /\ used = {}
  /\ lock = {}
  /\ proc = [p \in Processes |-> Off("none")]

-----------------------------------------------------------------------------
(* Steps of a process.                                                     *)

Cfg == CHOOSE cfg \in world.loaded : TRUE

Files == [world.files EXCEPT !["auth.jwt.jwtFile"] = identity.kind]

\* What Lstat tells of the socket path: a process or "stale", "foreign" and
\* "mute" (a listener nobody can reach) are sockets.
Target == IF path \in {"absent", "symlink", "other"} THEN path ELSE "socket"

Becomes(p, record) == proc' = [proc EXCEPT ![p] = record]

Goes(p, pc) == Becomes(p, [proc[p] EXCEPT !.pc = pc])

\* serve returns: the deferred Close releases the lock.
Fail(p, reason) ==
  /\ Becomes(p, Off(reason))
  /\ lock' = lock \ {p}

\* newServeCommand up to the platform check.
Start(p) ==
  /\ proc[p].pc = "off"
  /\ world.deviates => \A q \in Processes : proc[q].pc = "off"
  /\ IF \/ world.loaded = {}
        \/ ValidateConfig(Cfg, Files, Target) # {}
     THEN Becomes(p, Off("config"))
     ELSE IF ~world.host.linux THEN Becomes(p, Off("platform"))
     ELSE Goes(p, "locking")
  /\ UNCHANGED <<world, registry, up, identity, safe, used, lock, path, bound>>

\* Mutant: the lock does not exclude.
LockStateShared(p) ==
  /\ proc[p].pc = "locking"
  /\ lock' = lock \cup {p}
  /\ Goes(p, "building")
  /\ UNCHANGED <<world, registry, up, identity, safe, used, path, bound>>

\* LockState does not wait.
LockState(p) ==
  /\ proc[p].pc = "locking"
  /\ IF Unset(Cfg["state.path"]) \/ ~world.host.stateDirectory THEN Fail(p, "stateDirectory")
     ELSE IF lock # {} THEN Fail(p, "locked")
     ELSE lock' = {p} /\ Goes(p, "building")
  /\ UNCHANGED <<world, registry, up, identity, safe, used, path, bound>>

\* lookupGroupID: no group and a numeric one are not looked up.
lookupGroupID(cfg) == cfg["server.socketGroup"] \in {"empty", "gid"} \/ world.host.group

\* buildStatusRuntime: NewStore, newRotationObserver, NewController, which
\* loads the registry, and NewScheduler.
buildStatusRuntime(cfg) ==
  /\ \A field \in {"status.statusMaxStaleness", "rotation.requireStableObservationCount",
                   "status.probeInterval", "status.deepProbeInterval"} : cfg[field] > 0
  /\ cfg["rotation.activationDelay"] >= 0
  /\ \A field \in IdentityFields : ~Unset(cfg[field])
  /\ loadConfiguredRegistryState(cfg, registry) # "refused"

\* buildRuntime up to the bootstrap probe.
Build(p) ==
  /\ proc[p].pc = "building"
  /\ IF ~lookupGroupID(Cfg) THEN Fail(p, "group")
     ELSE IF ~buildAuthManager(Cfg, Files, world.cred) THEN Fail(p, "authManager")
     ELSE IF ~NewClient(Cfg, Files, world.cred) THEN Fail(p, "client")
     ELSE IF ~buildStatusRuntime(Cfg) THEN Fail(p, "registry")
     ELSE /\ Becomes(p, [proc[p] EXCEPT !.pc = "probing",
                                        !.grace = Cfg["bootstrap.graceTimeout"]])
          /\ UNCHANGED lock
  /\ UNCHANGED <<world, registry, up, identity, safe, used, path, bound>>

\* Mutant: the time already spent is not counted.
AttemptFailsForever(p, reason) ==
  Goes(p, "probing") /\ UNCHANGED lock

\* probeOnceWithBootstrapGrace after a failed attempt: give up when the grace
\* is over, or sleep and try again.  The attempt and the sleep take a part of
\* what remains.
AttemptFails(p, reason) ==
  \/ proc[p].grace = 0 /\ Fail(p, reason)
  \/ \E spent \in 1..proc[p].grace :
       /\ Becomes(p, [proc[p] EXCEPT !.pc = "probing", !.opened = {}, !.grace = @ - spent])
       /\ UNCHANGED lock

UsesJWTFile == Cfg["auth.method"] = "jwt" /\ Cfg["auth.jwt.source"] = "file"

\* ReadJWTFile in three steps, on a file that may be replaced between them.
StatIdentity(p) ==
  /\ proc[p].pc = "probing" /\ ~proc[p].token /\ UsesJWTFile
  /\ IF SafeFile(identity.kind) THEN Goes(p, "opening") /\ UNCHANGED lock
     ELSE AttemptFails(p, "login")
  /\ UNCHANGED <<world, registry, up, identity, safe, used, path, bound>>

OpenIdentity(p) ==
  /\ proc[p].pc = "opening"
  /\ IF Opened(identity) = {} THEN AttemptFails(p, "login")
     ELSE /\ Becomes(p, [proc[p] EXCEPT !.pc = "verifying", !.opened = Opened(identity)])
          /\ UNCHANGED lock
  /\ UNCHANGED <<world, registry, up, identity, safe, used, path, bound>>

\* Login of the three sources; JWTLoginSource presents what it has read.
LoginWith(p, presented, ready) ==
  /\ used' = IF ready THEN used \cup presented ELSE used
  /\ IF ready /\ up /\ world.bao.login
     THEN /\ Becomes(p, [proc[p] EXCEPT !.pc = "probing", !.token = TRUE, !.opened = {}])
          /\ UNCHANGED lock
     ELSE AttemptFails(p, "login")
  /\ UNCHANGED <<world, registry, up, identity, safe, path, bound>>

LoginJWTFile(p) ==
  /\ proc[p].pc = "verifying"
  /\ \E opened \in proc[p].opened :
       LoginWith(p, {opened.inode},
                 /\ validateOpenedFile(opened, identity)
                 /\ ParseClaims(world.cred.jwt)
                 /\ ValidateClaims(world.cred.jwt, Cfg))

Login(p) ==
  /\ proc[p].pc = "probing" /\ ~proc[p].token /\ ~UsesJWTFile
  /\ LoginWith(p, {}, CredentialReady(Cfg, Files, world.cred))

\* publishObservation on the loaded registry, the empty set when the observer
\* refuses.  The activation delay starts again with the process, so nothing
\* is promoted here.
FirstProbe ==
  IF registry.state = {}
  THEN {Result(s, TRUE, FALSE) : s \in RebuildState(Profile(world.bao.key), 1)}
  ELSE UNION {observe(s, Profile(world.bao.key), 1, TRUE, FALSE) : s \in registry.state}

\* Where the bootstrap probes end for the results of the observation, "" when
\* they succeed.
ProbeFailure(observed) ==
  IF ~up \/ ~CanReadMount(world.bao) THEN "metadata"
  ELSE IF ~world.bao.disableUpsert THEN "disableUpsert"
  ELSE IF ~CanReadKey(world.bao) THEN "metadata"
  ELSE IF registry.state = {} /\ ~AssessAutoBootstrapState(Profile(world.bao.key))
  THEN "notEligible"
  ELSE IF ~validateProfile(Profile(world.bao.key)) THEN "profile"
  ELSE IF observed = {} /\ ~VersionRestricted(registry, world.bao.key) THEN "history"
  ELSE IF \A r \in observed : r.blocked THEN "restricted"
  ELSE IF \A r \in observed :
            ~CanRoundTrip(world.bao, r.state.content.activeKeyID.version)
  THEN "deepProbe"
  ELSE ""

\* runBootstrapProbe: ProbeOnce saves a changed state, even one whose active
\* version may no longer encrypt, then DeepProbeOnce.
Probe(p) ==
  /\ proc[p].pc = "probing" /\ proc[p].token
  /\ LET observed == FirstProbe
         failure == ProbeFailure(observed)
         changed == IF failure \in {"", "restricted", "deepProbe"}
                    THEN {r.state : r \in {r \in observed : r.changed}} ELSE {}
     IN /\ registry' = IF changed = {} THEN registry
                       ELSE [registry EXCEPT !.state = changed,
                               !.fingerprint = IdentityFingerprint(Cfg),
                               !.checkpoint = {NewStateCheckpoint(s) : s \in changed}]
        /\ IF failure = "" THEN Goes(p, "listening") /\ UNCHANGED lock
           ELSE AttemptFails(p, failure)
  /\ UNCHANGED <<world, up, identity, safe, used, path, bound>>

\* After a failed attempt the login backoff or the circuit breaker may still
\* refuse the next one.
BackedOff(p) ==
  /\ proc[p].pc = "probing" /\ proc[p].grace < Cfg["bootstrap.graceTimeout"]
  /\ AttemptFails(p, "backoff")
  /\ UNCHANGED <<world, registry, up, identity, safe, used, path, bound>>

-----------------------------------------------------------------------------
(* Binding: socket.Listen, then the two HTTP listeners.                    *)

\* probeSocket and classifyDialErr: someone answers, the connection is refused
\* although the file is there, or neither can be told.
probeSocket ==
  IF path \in Processes \cup {"foreign"} THEN "live"
  ELSE IF path = "stale" THEN "dead" ELSE "uncertain"

\* validateOptions, validateParent and prepareTarget up to its probe.
PrepareTarget(p) ==
  /\ proc[p].pc = "listening"
  /\ IF Cfg["server.socketMode"] = "0000" THEN Fail(p, "socketMode")
     ELSE IF Files["socketParent"] # "directory" THEN Fail(p, "socketParent")
     ELSE IF Target \in {"symlink", "other"} THEN Fail(p, "socketTarget")
     ELSE IF Target = "absent" THEN Goes(p, "binding") /\ UNCHANGED lock
     ELSE IF probeSocket = "live" THEN Fail(p, "liveSocket")
     ELSE IF probeSocket = "uncertain" THEN Fail(p, "indeterminate")
     ELSE Goes(p, "removing") /\ UNCHANGED lock
  /\ UNCHANGED <<world, registry, up, identity, safe, used, path, bound>>

\* os.Remove takes whatever the path leads to by now.
RemoveStale(p) ==
  /\ proc[p].pc = "removing"
  /\ IF path = "absent" THEN Fail(p, "remove") /\ UNCHANGED path
     ELSE path' = "absent" /\ Goes(p, "binding") /\ UNCHANGED lock
  /\ UNCHANGED <<world, registry, up, identity, safe, used, bound>>

\* net.Listen, chmod and chown; a failed chown closes and unlinks the socket.
BindSocket(p) ==
  /\ proc[p].pc = "binding"
  /\ IF path # "absent" THEN Fail(p, "bind") /\ UNCHANGED path
     ELSE IF ~world.host.chown THEN Fail(p, "chown") /\ UNCHANGED path
     ELSE path' = p /\ Goes(p, "health") /\ UNCHANGED lock
  /\ UNCHANGED <<world, registry, up, identity, safe, used, bound>>

\* external: net.Listen.  Every host of these addresses is the loopback or the
\* wildcard one, so a port is taken or free; port 0 is always free.
CanListen(address) ==
  /\ Len(address) = 2
  /\ address[2] = 0 \/ \A l \in bound : l.address[2] # address[2]

\* Mutant: a failed HTTP listener leaves the socket bound.
BindHTTPLeaks(p, address, next) ==
  IF address = <<>> \/ CanListen(address)
  THEN /\ bound' = IF address = <<>> THEN bound
                   ELSE bound \cup {[address |-> address, by |-> p]}
       /\ Goes(p, next)
       /\ UNCHANGED <<lock, path>>
  ELSE /\ Fail(p, next)
       /\ bound' = {l \in bound : l.by # p}
       /\ UNCHANGED path

\* New, for one listener: an empty address disables it, a failure closes the
\* socket, which unlinks its path, and the listener before.
BindHTTP(p, address, next) ==
  IF address = <<>> \/ CanListen(address)
  THEN /\ bound' = IF address = <<>> THEN bound
                   ELSE bound \cup {[address |-> address, by |-> p]}
       /\ Goes(p, next)
       /\ UNCHANGED <<lock, path>>
  ELSE /\ Fail(p, "listener")
       /\ bound' = {l \in bound : l.by # p}
       /\ path' = "absent"

BindHealth(p) ==
  /\ proc[p].pc = "health"
  /\ BindHTTP(p, Cfg["server.healthAddress"], "metrics")
  /\ UNCHANGED <<world, registry, up, identity, safe, used>>

BindMetrics(p) ==
  /\ proc[p].pc = "metrics"
  /\ BindHTTP(p, Cfg["server.metricsAddress"], "ready")
  /\ UNCHANGED <<world, registry, up, identity, safe, used>>

-----------------------------------------------------------------------------
(* Serving and shutdown.                                                   *)

Run(p) ==
  /\ proc[p].pc = "ready"
  /\ Goes(p, "serving")
  /\ UNCHANGED <<world, registry, up, identity, safe, used, lock, path, bound>>

\* A request arrives through the socket path.
Accept(p) ==
  /\ proc[p].pc = "serving" /\ path = p /\ ~world.deviates
  /\ proc[p].requests < MaxRequests
  /\ Becomes(p, [proc[p] EXCEPT !.requests = @ + 1])
  /\ UNCHANGED <<world, registry, up, identity, safe, used, lock, path, bound>>

\* A handler returns: with its answer, or because Stop cancelled it.
Answer(p) ==
  /\ proc[p].pc \in {"serving", "draining", "stopping"} /\ proc[p].requests > 0
  /\ Becomes(p, [proc[p] EXCEPT !.requests = @ - 1])
  /\ UNCHANGED <<world, registry, up, identity, safe, used, lock, path, bound>>

\* A signal, a server or the scheduler ends: shutdown begins with
\* GracefulStop, whose first act closes the listener and unlinks its path.
Shutdown(p) ==
  /\ proc[p].pc = "serving"
  /\ Goes(p, "draining")
  /\ path' = "absent"
  /\ UNCHANGED <<world, registry, up, identity, safe, used, lock, bound>>

\* Mutant: only GracefulStop is waited for.
DrainTimesOutNever(p) ==
  /\ proc[p].pc = "draining" /\ proc[p].requests = 0
  /\ Goes(p, "stopping")
  /\ UNCHANGED <<world, registry, up, identity, safe, used, lock, path, bound>>

\* ShutdownTimeout: Stop cancels the handlers GracefulStop still waits for.
DrainTimesOut(p) ==
  /\ proc[p].pc = "draining"
  /\ Goes(p, "stopping")
  /\ UNCHANGED <<world, registry, up, identity, safe, used, lock, path, bound>>

\* GracefulStop returns; the HTTP servers close their listeners.
Drained(p) ==
  /\ proc[p].pc \in {"draining", "stopping"} /\ proc[p].requests = 0
  /\ Goes(p, "returning")
  /\ bound' = {l \in bound : l.by # p}
  /\ UNCHANGED <<world, registry, up, identity, safe, used, lock, path>>

\* Run and the scheduler have returned; the lock is released.
Exit(p) ==
  /\ proc[p].pc = "returning"
  /\ Fail(p, "none")
  /\ UNCHANGED <<world, registry, up, identity, safe, used, path, bound>>

\* Killed, or a signal before Run installed its handler: the kernel drops the
\* lock and the listeners, the socket file stays.
Crash(p) ==
  /\ proc[p].pc # "off" /\ ~world.deviates
  /\ Fail(p, "none")
  /\ path' = IF path = p THEN "stale" ELSE path
  /\ bound' = {l \in bound : l.by # p}
  /\ UNCHANGED <<world, registry, up, identity, safe, used>>

-----------------------------------------------------------------------------
(* The environment.                                                        *)

\* external: OpenBao goes away and comes back.
OpenBaoChanges ==
  /\ ~world.deviates \/ world.replaced
  /\ up' = ~up
  /\ UNCHANGED <<world, registry, identity, safe, used, lock, path, bound, proc>>

\* external: the agent that renews the JWT renames a new file over the old
\* one, or someone puts something else at the path.
ReplaceIdentity ==
  /\ world.replaced
  /\ identity.inode <= MaxReplacements
  /\ \E kind \in {"regular", "open", "symlink", "missing"} :
       identity' = [inode |-> identity.inode + 1, kind |-> kind]
  /\ safe' = IF SafeFile(identity'.kind) THEN safe \cup {identity'.inode} ELSE safe
  /\ UNCHANGED <<world, registry, up, used, lock, path, bound, proc>>

Starts(p) ==
  \/ LockState(p) \/ Build(p) \/ StatIdentity(p) \/ OpenIdentity(p) \/ LoginJWTFile(p)
  \/ Login(p) \/ Probe(p) \/ BackedOff(p) \/ PrepareTarget(p) \/ RemoveStale(p)
  \/ BindSocket(p) \/ BindHealth(p) \/ BindMetrics(p) \/ Run(p)

Stops(p) == DrainTimesOut(p) \/ Drained(p) \/ Exit(p)

Next ==
  \/ \E p \in Processes : \/ Start(p) \/ Starts(p) \/ Accept(p) \/ Answer(p)
                          \/ Shutdown(p) \/ Stops(p) \/ Crash(p)
  \/ OpenBaoChanges
  \/ ReplaceIdentity

\* Exactly when Starts(p) is enabled: no step of a start waits.
Starting(p) ==
  proc[p].pc \notin {"off", "serving", "draining", "stopping", "returning"}

\* Weak fairness of the steps of a start, with Starting(p) for their ENABLED,
\* of those of a stop, and of the handlers Stop has cancelled: all are the
\* process's own code.  Nothing makes a process start or stop, and a handler
\* that is not cancelled may outlast the drain.
Fairness ==
  \A p \in Processes :
    /\ []<>~Starting(p) \/ []<><<Starts(p)>>_vars
    /\ WF_vars(Stops(p))
    /\ WF_vars(proc[p].pc = "stopping" /\ Answer(p))

Spec == Init /\ [][Next]_vars /\ Fairness

-----------------------------------------------------------------------------
(* Properties.                                                             *)

\* However starts, stale sockets, crashes and drains interleave, a process
\* that serves is the one its socket path leads to: prepareTarget's unlink,
\* a bind and the unlink of a closing listener never take the path from it.
ServingOwnsPath ==
  \A p \in Processes : proc[p].pc \in {"health", "metrics", "ready", "serving"} => path = p

\* A process that has ended, wherever it failed, holds nothing: not the
\* registry lock, not a listener, and a socket path that leads to it only
\* when it was killed.
EndedHoldsNothing ==
  \A p \in Processes :
    proc[p].pc = "off" => p \notin lock /\ path # p /\ \A l \in bound : l.by # p

\* Only the content of a file that was safe at the configured path is ever
\* presented to OpenBao, even when the file is replaced while ReadJWTFile
\* stats, opens and stats it again.
PresentsSafeFile == used \subseteq safe

\* The ways a start may fail that no preflight command looks at.
Unchecked ==
  {"platform", "stateDirectory", "locked", "notEligible", "history", "socketMode",
   "socketParent", "liveSocket", "indeterminate", "remove", "bind", "chown", "listener",
   "backoff", "none"}

FailsUnwarned(p, warned) ==
  /\ proc'[p] # proc[p] /\ proc'[p].pc = "off"
  /\ up /\ ~warned
  /\ \A opened \in proc[p].opened : opened = identity

\* When doctor reports no failed check, serve in the same state fails only for
\* reasons doctor does not look at; when verify-key reports none, only for
\* those, file modes, the group, and what only a round trip shows; and when
\* verify-rotation succeeds without a local registry, serve can bootstrap one.
PreflightPredictsServe ==
  [][\A p \in Processes :
       /\ FailsUnwarned(p, runDoctor(world.loaded, Files, Target, lookupGroupID(Cfg), {},
                                     world.cred, registry, world.bao) # {}) =>
            proc'[p].failure \in Unchecked
       /\ FailsUnwarned(p, runVerifyKey(world.loaded, Files, world.cred, registry, world.bao) # {}) =>
            proc'[p].failure \in Unchecked \cup {"config", "group", "deepProbe"}
       /\ FailsUnwarned(p, ~buildRotationReport(world.loaded, Files, world.cred, registry,
                                                world.bao)) =>
            proc'[p].failure \in
              (IF registry.state = {} THEN Unchecked \ {"notEligible", "history"} ELSE Unchecked)
              \cup {"config", "group", "deepProbe", "metadata", "disableUpsert", "restricted",
                    "profile"}]_vars

\* Every start comes to an end: the process serves, or it has given up, since
\* the bootstrap grace bounds the retries.
StartSettles ==
  \A p \in Processes : Starting(p) ~> proc[p].pc \in {"serving", "off"}

\* A shutdown ends although handlers may never return by themselves: after
\* ShutdownTimeout Stop cancels them, and GracefulStop returns.
StopCompletes ==
  \A p \in Processes : proc[p].pc = "draining" ~> proc[p].pc = "off"

=============================================================================
