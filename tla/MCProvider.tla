----------------------------- MODULE MCProvider -----------------------------
(* The settings Provider is checked in, and the plans of Host.             *)
EXTENDS Host

CONSTANTS r1, r2

Sources == {"file", "oauth2", "pkcs11", "spiffe"}

Setting(source, start, deviation) ==
  [source |-> source, start |-> start, deviation |-> deviation]

Each(part, fields, values) == {<<part, f, v>> : f \in fields, v \in values}

\* Texts that are missing, blank or badly formed, fields left out of the file,
\* and the limits, relations and listeners that are off.
ConfigDeviations ==
  Each("set", {"openbao.namespace", "state.path", "server.socketPath"},
       {"other", "empty", "blank", "malformed", "elsewhere"})
  \cup Each("set", {"openbao.instanceId", "openbao.address", "openbao.caCertFile",
                    "auth.jwt.mountPath", "auth.jwt.jwtFile"}, {"empty", "blank", "malformed"})
  \cup Each("set", {"transit.keyName"}, {"other"})
  \cup Each("set", {"server.socketMode"}, {"0000", "0777"})
  \cup Each("set", {"auth.method", "auth.jwt.source"}, {"empty", "elsewhere"})
  \cup Each("set", {"auth.jwt.oauth2.clientId", "auth.jwt.expectedAudience"}, {"ok", "blank"})
  \cup Each("set", {"status.probeInterval", "auth.tokenRenewalIncrement",
                    "server.maxConcurrentDecrypt", "bootstrap.graceTimeout",
                    "auth.jwt.minRemainingTtl"}, {-1, 0, 1, 2, 3})
  \cup Each("set", {"server.healthAddress", "server.metricsAddress"},
            {<<>>, <<"blank">>, <<"malformed">>, <<"LOCALHOST", 8081>>,
             <<"::ffff:127.0.0.1", 8081>>, <<"0.0.0.0", 8082>>, <<"127.0.0.1", 0>>})
  \cup Each("set", {"logging.debugCorrelation.enabled"}, {TRUE})
  \cup Each("flag", {"logging.level"}, {"debug", "loud"})
  \cup {<<"omit", f>> : f \in {"configVersion", "server.socketGroup", "auth.jwt.role",
                               "transit.keyName"}}
  \cup Each("set", {"server.socketGroup"}, {"gid"})
  \cup Each("document", {"readable", "decodes"}, {FALSE})
  \cup Each("document", {"numericDuration"}, {TRUE})

HostDeviations ==
  Each("host", {"linux", "group", "stateDirectory", "chown"}, {FALSE})
  \cup Each("file", {"config", "openbao.caCertFile"}, {"open", "symlink", "missing"})
  \cup Each("file", {"socketParent"}, {"foreign", "open", "missing"})
  \cup Each("identity", {"kind"}, {"open", "symlink", "missing"})
  \cup Each("path", {"kind"}, {"stale", "foreign", "mute", "symlink", "other"})
  \cup {<<"port", "taken", {[address |-> <<"127.0.0.1", port>>, by |-> "foreign"]}>> :
          port \in {8081, 8082}}

JWTDeviations ==
  Each("jwt", {"content"}, {"empty", "malformed"})
  \cup Each("jwt", {"expiresAt"}, {{}, {-2}, {1}})
  \cup Each("jwt", {"notBefore", "issuedAt"}, {{1}, {2}})
  \cup Each("jwt", {"issuer", "audience"}, {"other"})
  \cup Each("cred", {"ca"}, {"malformed"})

OAuth2Deviations ==
  JWTDeviations
  \cup Each("set", {"auth.jwt.jwtFile"}, {"ok"})
  \cup Each("set", OAuth2Fields, {"empty", "malformed"})
  \cup {<<"omit", f>> : f \in {"auth.jwt.expectedIssuer", "auth.jwt.expectedAudience"}}
  \cup Each("file", {"auth.jwt.oauth2.clientSecretFile", "auth.jwt.oauth2.caCertFile"},
            {"open", "symlink"})
  \cup Each("cred", {"secret"}, {"malformed"})
  \cup Each("endpoint", {"status"}, {401, 503})
  \cup Each("endpoint", {"body"}, {"malformed"})
  \cup Each("endpoint", {"expiresIn"}, {{}, {1}})

CertDeviations ==
  Each("cred", {"certAuthBuilt"}, {FALSE})
  \cup Each("cert", {"content"}, {"malformed"})
  \cup Each("cert", {"key"}, {"k2"})
  \cup Each("cert", {"weakSignature"}, {TRUE})
  \cup Each("cert", {"clientAuth"}, {FALSE})
  \cup Each("cert", {"notBefore"}, {1, 2})
  \cup Each("cert", {"notAfter"}, {-2, 1})
  \cup Each("cert", {"uris"}, {{}, {[domain |-> "elsewhere", id |-> "ok"]}})
  \cup Each("signer", {"key"}, {"none", "k2"})
  \cup Each("signer", {"signs"}, {FALSE})
  \cup Each("set", {"auth.cert.mountPath", "auth.cert.name"}, {"malformed"})

PKCS11Deviations ==
  CertDeviations
  \cup Each("set", {"auth.cert.pkcs11.maxSessions"}, {1})
  \cup Each("set", {"auth.cert.pkcs11.pinFile", "auth.cert.pkcs11.keyLabel"},
            {"empty", "malformed"})
  \cup Each("file", {"auth.cert.pkcs11.pinFile"}, {"open", "missing"})
  \cup Each("cred", {"pin"}, {"malformed"})

SPIFFEDeviations ==
  CertDeviations
  \cup Each("set", {"auth.cert.spiffe.spiffeID", "auth.cert.spiffe.trustDomain"},
            {"ok", "blank", "malformed", "elsewhere"})

BaoDeviations ==
  Each("bao", {"login", "disableUpsert"}, {FALSE})
  \cup Each("caps", CapabilityPaths, {{}, {"deny"}, {"update"}, {"read"}, {"root"}})
  \cup Each("key", {"flaws"}, {{f} : f \in KeyFlaws})
  \cup Each("key", {"softDeleted"}, {TRUE})
  \cup Each("key", {"minAvail", "minDec", "minEnc"}, {1, 2, 3})
  \cup Each("key", {"latest"}, {0, 1, 3})
  \cup Each("key", {"createdAt"}, {1 :> 1, 2 :> 2, 1 :> 3 @@ 2 :> 2, 1 :> 1 @@ 2 :> 3})
  \cup Each("registry", {"readable"}, {FALSE})
  \cup Each("registry", {"state", "checkpoint"}, {{}})
  \cup Each("registry", {"checkpoint"}, {{[generation |-> 9, currentHash |-> NoHash]}})

MCSettings ==
  {Setting("oauth2", "first", None), Setting("file", "first", <<"replaced", "bootstrap.graceTimeout", 2>>)}
  \cup {Setting(source, "first", <<"alone">>) : source \in Sources}
  \cup {Setting("file", start, <<"alone">>) : start \in {"absent", "pending", "retired"}}
  \cup {Setting("file", "first", d) : d \in ConfigDeviations \cup HostDeviations \cup JWTDeviations}
  \cup {Setting("oauth2", "first", d) : d \in OAuth2Deviations}
  \cup {Setting("pkcs11", "first", d) : d \in PKCS11Deviations}
  \cup {Setting("spiffe", "first", d) : d \in SPIFFEDeviations}
  \cup {Setting("file", start, d) :
          start \in {"absent", "first", "pending", "rotated"}, d \in BaoDeviations}

-----------------------------------------------------------------------------
(* Plans: what the runs of init are given.                                 *)

\* A values file that leaves the paths to init, with further settings.
InitValues(source, given) ==
  LET values == given @@ "auth.jwt.source" :> source
                @@ [field \in {"auth.jwt.expectedIssuer", "auth.jwt.expectedAudience",
                               "auth.jwt.expectedSubject"} |-> "ok"]
                @@ Without(Without(Without(Values(source), "openbao.caCertFile"),
                                   "server.socketGroup"), "auth.jwt.jwtFile")
  IN [readable |-> TRUE, decodes |-> TRUE, numericDuration |-> FALSE, values |-> values]

Systemd(values) ==
  [model |-> "systemd", newKey |-> FALSE, policyName |-> "ok", image |-> "empty",
   socketGID |-> 0, dir |-> "d1", values |-> values, reuses |-> {}]

StaticPod(values) == [Systemd(values) EXCEPT !.model = "static-pod", !.image = "ok",
                                             !.socketGID = 1]

Lineage(value) == "transit.keyIdScope.keyLineageId" :> value

\* Durations of 3 and 6 ticks, a namespace, no rollback check, a listener
\* given as a name, and correlation logging.
Chosen ==
  "status.statusMaxStaleness" :> 6 @@ "auth.tokenRenewalIncrement" :> 3
  @@ "bootstrap.graceTimeout" :> 0 @@ "openbao.namespace" :> "other"
  @@ "rotation.rejectVersionRollback" :> FALSE
  @@ "server.metricsAddress" :> <<"localhost", 8081>> @@ "logging.level" :> "debug"
  @@ "logging.debugCorrelation.enabled" :> TRUE
  @@ "logging.debugCorrelation.incidentId" :> "ok"
  @@ "logging.debugCorrelation.ttl" :> 3

AcceptedOpts ==
  {Systemd(InitValues("file", Chosen)), StaticPod(InitValues("file", <<>>)),
   StaticPod(InitValues("oauth2", <<>>)),
   Systemd(InitValues("oauth2", "auth.jwt.oauth2.caCertFile" :> "empty"))}

\* Options init refuses, and options whose files do not fit this host.
RefusedOpts ==
  {Systemd(InitValues(source, <<>>)) : source \in {"pkcs11", "spiffe"}}
  \cup {Systemd(InitValues("file", given)) : given \in
          {"auth.jwt.mountPath" :> "unprefixed", "auth.jwt.mountPath" :> "malformed",
           "auth.loginBeforeTokenExpiry" :> 3 @@ "auth.tokenRenewalIncrement" :> 4,
           "auth.jwt.expectedIssuer" :> "empty", "auth.jwt.expectedSubject" :> "empty",
           "state.path" :> "apart", Lineage("empty"),
           "server.healthAddress" :> <<>>, "server.healthAddress" :> <<"127.0.0.1", 0>>}}
  \cup {StaticPod(InitValues("oauth2", given)) : given \in
          {"state.path" :> "shared", "openbao.caCertFile" :> "shared",
           "auth.jwt.oauth2.caCertFile" :> "shared",
           "auth.jwt.oauth2.clientSecretFile" :> "shared", "server.metricsAddress" :> <<>>}}
  \cup {[Systemd(InitValues("file", <<>>)) EXCEPT !.newKey = TRUE],
        [Systemd(InitValues("file", <<>>)) EXCEPT !.policyName = "malformed"],
        [Systemd(InitValues("file", <<>>)) EXCEPT !.image = "ok"],
        [Systemd(InitValues("file", <<>>)) EXCEPT !.values.decodes = FALSE],
        [StaticPod(InitValues("file", <<>>)) EXCEPT !.image = "malformed"],
        [StaticPod(InitValues("file", <<>>)) EXCEPT !.socketGID = 0],
        [StaticPod(InitValues("file", <<>>)) EXCEPT !.socketGID = 2],
        StaticPod(InitValues("spiffe", <<>>))}

\* Two runs in one directory; two generations of the key; and a second node's
\* files from the first one's configuration.
Fresh == [Systemd(InitValues("file", Lineage("empty"))) EXCEPT !.newKey = TRUE]

Pairs ==
  {<<Fresh, Fresh>>, <<Fresh, [Fresh EXCEPT !.dir = "d2"]>>,
   <<StaticPod(InitValues("file", Chosen)),
     [StaticPod(InitValues("file", <<>>)) EXCEPT !.dir = "d2", !.reuses = {r1},
                                                 !.socketGID = 2]>>}

MCPlans ==
  {r1 :> {opts} @@ r2 :> {} : opts \in AcceptedOpts \cup RefusedOpts}
  \cup {r1 :> {pair[1]} @@ r2 :> {pair[2]} : pair \in Pairs}

=============================================================================
