------------------------------- MODULE Config -------------------------------
(***************************************************************************)
(* The provider's configuration: what Load makes of a file, the overrides  *)
(* and the defaults, and which fields Validate complains about             *)
(* (internal/config, internal/oauth2 ValidateConfig).                      *)
(*                                                                         *)
(* A configuration is a function from the source's field names to values.  *)
(* A text is "ok", "empty", "blank" (white space only) or "malformed"      *)
(* (against the format of its field: a relative path, a bad URL, ...); a   *)
(* duration is a number of ticks; a listener address is <<>> (empty),      *)
(* <<"blank">>, <<"malformed">> or <<host, port>>.  A validation is the    *)
(* set of fields it reports.                                               *)
(***************************************************************************)
EXTENDS Integers, FiniteSets, Sequences, TLC

CONSTANTS UnsupportedSPIFFECertAuthAllowed   \* the build's gate

Unset(value) == value \in {"empty", "blank"}

Bad(value) == value \in {"blank", "malformed"}

-----------------------------------------------------------------------------
(* Loading.                                                                *)

PositiveDurations ==
  {"openbao.timeout", "auth.loginBeforeTokenExpiry", "auth.tokenRenewalIncrement",
   "bootstrap.retryInterval", "status.probeInterval", "status.deepProbeInterval",
   "status.statusMaxStaleness", "rotation.activationDelay"}

NonNegativeDurations == {"auth.loginTimeout", "bootstrap.graceTimeout"}

Limits == {"server.maxConcurrentStatus", "server.maxConcurrentEncrypt",
           "server.maxConcurrentDecrypt"}

\* maxConcurrentKMSRequests, maxDebugCorrelationTTL and the default
\* durations, in ticks that keep their order.
maxConcurrentKMSRequests == 2
maxDebugCorrelationTTL == 3

OAuth2Fields ==
  {"auth.jwt.oauth2.tokenUrl", "auth.jwt.oauth2.clientId",
   "auth.jwt.oauth2.clientSecretFile", "auth.jwt.oauth2.authMethod",
   "auth.jwt.oauth2.caCertFile", "auth.jwt.oauth2.parameters"}

\* What the sections of the two login methods hold besides those.
JWTFields ==
  {"auth.jwt.source", "auth.jwt.mountPath", "auth.jwt.role", "auth.jwt.jwtFile",
   "auth.jwt.minRemainingTtl", "auth.jwt.clockSkewLeeway", "auth.jwt.expectedIssuer",
   "auth.jwt.expectedAudience", "auth.jwt.expectedSubject"}

CertFields ==
  {"auth.cert.source", "auth.cert.mountPath", "auth.cert.name",
   "auth.cert.minRemainingTtl", "auth.cert.clockSkewLeeway",
   "auth.cert.pkcs11.certificateFile", "auth.cert.pkcs11.modulePath",
   "auth.cert.pkcs11.tokenLabel", "auth.cert.pkcs11.keyLabel",
   "auth.cert.pkcs11.pinFile", "auth.cert.pkcs11.maxSessions"}

SPIFFEFields ==
  {"auth.cert.spiffe.workloadAPISocket", "auth.cert.spiffe.spiffeID",
   "auth.cert.spiffe.trustDomain"}

Durations ==
  PositiveDurations \cup NonNegativeDurations \cup
  {"auth.jwt.minRemainingTtl", "auth.jwt.clockSkewLeeway", "auth.cert.minRemainingTtl",
   "auth.cert.clockSkewLeeway", "logging.debugCorrelation.ttl"}

\* Config: every text field without a default, at its zero value.
ZeroConfig ==
  [field \in
     {"server.socketGroup", "openbao.address", "openbao.namespace",
      "openbao.caCertFile", "openbao.tlsServerName", "openbao.instanceId",
      "auth.jwt.mountPath", "auth.jwt.role", "auth.jwt.source", "auth.jwt.jwtFile",
      "auth.jwt.expectedIssuer", "auth.jwt.expectedSubject",
      "auth.jwt.expectedAudience", "auth.cert.mountPath", "auth.cert.name",
      "auth.cert.source", "auth.cert.pkcs11.certificateFile",
      "auth.cert.pkcs11.modulePath", "auth.cert.pkcs11.tokenLabel",
      "auth.cert.pkcs11.keyLabel", "auth.cert.pkcs11.pinFile",
      "auth.cert.spiffe.workloadAPISocket", "auth.cert.spiffe.spiffeID",
      "auth.cert.spiffe.trustDomain", "transit.mountPath", "transit.keyName",
      "transit.keyIdScope.providerName", "transit.keyIdScope.clusterId",
      "transit.keyIdScope.transitMountId", "transit.keyIdScope.keyLineageId",
      "logging.debugCorrelation.incidentId"} \cup OAuth2Fields |-> "empty"]
  @@ "auth.loginTimeout" :> 0
  @@ "auth.cert.pkcs11.maxSessions" :> 0

applyDefaults ==
  "status.statusMaxStaleness" :> 2
  @@ "auth.tokenRenewalIncrement" :> 2
  @@ [field \in PositiveDurations \cup Limits |-> 1]
  @@ "configVersion" :> "ok"
  @@ "server.socketPath" :> "ok"
  @@ "server.socketMode" :> "0660"
  @@ "server.metricsAddress" :> <<"127.0.0.1", 8081>>
  @@ "server.healthAddress" :> <<"127.0.0.1", 8082>>
  @@ "auth.method" :> "jwt"
  @@ "auth.jwt.minRemainingTtl" :> 1
  @@ "auth.jwt.clockSkewLeeway" :> 1
  @@ "auth.cert.minRemainingTtl" :> 1
  @@ "auth.cert.clockSkewLeeway" :> 1
  @@ "bootstrap.graceTimeout" :> 1
  @@ "state.path" :> "ok"
  @@ "rotation.mode" :> "ok"
  @@ "rotation.requireStableObservationCount" :> 3
  @@ "rotation.rejectVersionRollback" :> TRUE
  @@ "logging.level" :> "info"
  @@ "logging.format" :> "ok"
  @@ "logging.logOpenBaoRequestIDs" :> TRUE
  @@ "logging.debugCorrelation.enabled" :> FALSE
  @@ "logging.debugCorrelation.ttl" :> 1

\* A file is [readable, decodes, numericDuration, values]: the values it
\* gives, a function on some of the fields.  overrides holds the flags and
\* environment variables that are set (logging.level, the two listeners).
LoadRefused(file) ==
  \/ ~file.readable
  \/ "configVersion" \notin DOMAIN file.values
  \/ file.numericDuration
  \/ ~file.decodes

\* legacyFileJWT: a file from before OAuth support names no source.
legacyFileJWT(given, cfg) ==
  /\ cfg["auth.method"] = "jwt"
  /\ cfg["auth.jwt.jwtFile"] # "empty"
  /\ ({"auth.jwt.source"} \cup OAuth2Fields) \cap given = {}

Load(file, overrides) ==
  LET cfg == overrides @@ file.values @@ applyDefaults @@ ZeroConfig
  IN IF LoadRefused(file) THEN {}
     ELSE IF legacyFileJWT(DOMAIN file.values, cfg)
     THEN {[cfg EXCEPT !["auth.jwt.source"] = "file"]}
     ELSE {cfg}

-----------------------------------------------------------------------------
(* Validate.                                                               *)

\* appendCertSourceRequired
CertSourceRequired(cfg) ==
  IF cfg["auth.cert.source"] = "pkcs11"
  THEN {"auth.cert.pkcs11.certificateFile", "auth.cert.pkcs11.modulePath",
        "auth.cert.pkcs11.tokenLabel", "auth.cert.pkcs11.keyLabel",
        "auth.cert.pkcs11.pinFile"}
  ELSE IF cfg["auth.cert.source"] = "spiffe" /\ UnsupportedSPIFFECertAuthAllowed
  THEN {"auth.cert.spiffe.workloadAPISocket", "auth.cert.spiffe.spiffeID"}
  ELSE {}

\* appendAuthRequired
AuthRequired(cfg) ==
  IF cfg["auth.method"] = "jwt"
  THEN {"auth.jwt.mountPath", "auth.jwt.role", "auth.jwt.source"} \cup
       (IF cfg["auth.jwt.source"] = "file" THEN {"auth.jwt.jwtFile"} ELSE {})
  ELSE IF cfg["auth.method"] = "cert"
  THEN {"auth.cert.mountPath", "auth.cert.source"} \cup CertSourceRequired(cfg)
  ELSE {}

\* configIdentityMaterial: what the fingerprint of the state file names.
IdentityFields ==
  {"openbao.instanceId", "transit.mountPath", "transit.keyName",
   "transit.keyIdScope.providerName", "transit.keyIdScope.clusterId",
   "transit.keyIdScope.transitMountId", "transit.keyIdScope.keyLineageId"}

validateRequired(cfg) ==
  {field \in {"server.socketPath", "server.socketMode", "server.socketGroup",
              "openbao.address", "openbao.caCertFile", "openbao.tlsServerName",
              "auth.method"} \cup IdentityFields \cup AuthRequired(cfg) :
     Unset(cfg[field])}

\* oauth2.ValidateConfig: all of it is reported under one field.
ValidateOAuth2Config(cfg) ==
  /\ cfg["auth.jwt.oauth2.tokenUrl"] = "ok"
  /\ cfg["auth.jwt.oauth2.clientId"] \in {"ok", "blank"}
  /\ cfg["auth.jwt.oauth2.clientSecretFile"] = "ok"
  /\ cfg["auth.jwt.oauth2.authMethod"] = "ok"
  /\ ~Bad(cfg["auth.jwt.oauth2.caCertFile"])
  /\ cfg["auth.jwt.oauth2.parameters"] # "malformed"

validateJWTSource(cfg) ==
  LET source == cfg["auth.jwt.source"]
  IN {field \in {"auth.jwt.jwtFile"} : source = "file" /\ Bad(cfg[field])}
     \cup {field \in {"auth.jwt.oauth2"} :
             \/ source = "file" /\ \E f \in OAuth2Fields : cfg[f] # "empty"
             \/ source = "oauth2" /\ ~ValidateOAuth2Config(cfg)}
     \cup {field \in {"auth.jwt.jwtFile"} : source = "oauth2" /\ cfg[field] # "empty"}
     \cup {field \in {"auth.jwt.expectedIssuer"} : source = "oauth2" /\ Unset(cfg[field])}
     \cup {field \in {"auth.jwt.expectedAudience"} : source = "oauth2" /\ cfg[field] = "empty"}
     \cup {field \in {"auth.jwt.source"} : source \notin {"file", "oauth2"}}

\* validateJWTAuthValues.  "malformed" for the audience is a list with an
\* empty or badly formed member.
validateJWTAuthValues(cfg) ==
  validateJWTSource(cfg)
  \cup {field \in {"auth.jwt.mountPath", "auth.jwt.role", "auth.jwt.expectedIssuer",
                   "auth.jwt.expectedSubject", "auth.jwt.expectedAudience"} :
          Bad(cfg[field])}
  \cup {field \in {"auth.jwt.minRemainingTtl"} : cfg[field] <= 0}
  \cup {field \in {"auth.jwt.clockSkewLeeway"} : cfg[field] < 0}

\* validateCertAuthValues with the PKCS#11 and the SPIFFE settings.
\* "elsewhere" is a trust domain other than the one of the SPIFFE ID.
validateCertAuthValues(cfg) ==
  LET source == cfg["auth.cert.source"]
  IN {field \in {"auth.cert.mountPath", "auth.cert.name"} : Bad(cfg[field])}
     \cup {field \in {"auth.cert.minRemainingTtl"} : cfg[field] <= 0}
     \cup {field \in {"auth.cert.clockSkewLeeway"} : cfg[field] < 0}
     \cup {field \in {"auth.cert.pkcs11.certificateFile", "auth.cert.pkcs11.modulePath",
                      "auth.cert.pkcs11.tokenLabel", "auth.cert.pkcs11.keyLabel",
                      "auth.cert.pkcs11.pinFile"} :
             source = "pkcs11" /\ Bad(cfg[field])}
     \cup {field \in {"auth.cert.pkcs11.maxSessions"} : source = "pkcs11" /\ cfg[field] < 2}
     \cup {field \in {"auth.cert.spiffe.workloadAPISocket", "auth.cert.spiffe.spiffeID",
                      "auth.cert.spiffe.trustDomain"} :
             /\ source = "spiffe" /\ UnsupportedSPIFFECertAuthAllowed
             /\ \/ Bad(cfg[field])
                \/ /\ cfg[field] = "elsewhere"
                   /\ cfg["auth.cert.spiffe.spiffeID"] = "ok"}
     \cup {field \in {"auth.cert.source"} :
             source \notin {"pkcs11", "empty"} \cup
               (IF UnsupportedSPIFFECertAuthAllowed THEN {"spiffe"} ELSE {})}

validateAuthValues(cfg) ==
  IF cfg["auth.method"] = "jwt" THEN validateJWTAuthValues(cfg)
  ELSE IF cfg["auth.method"] = "cert" THEN validateCertAuthValues(cfg)
  ELSE IF cfg["auth.method"] = "empty" THEN {}
  ELSE {"auth.method"}

validateDebugCorrelation(cfg) ==
  IF ~cfg["logging.debugCorrelation.enabled"] THEN {}
  ELSE {field \in {"logging.debugCorrelation.enabled"} : cfg["logging.level"] # "debug"}
       \cup {field \in {"logging.logOpenBaoRequestIDs"} : ~cfg[field]}
       \cup {field \in {"logging.debugCorrelation.ttl"} :
               cfg[field] <= 0 \/ cfg[field] > maxDebugCorrelationTTL}
       \cup {field \in {"logging.debugCorrelation.incidentId"} : cfg[field] # "ok"}

\* Host names as sameFixedListener compares them: IP addresses unmapped,
\* names folded.
Canonical(host) ==
  IF host = "::ffff:127.0.0.1" THEN "127.0.0.1"
  ELSE IF host = "LOCALHOST" THEN "localhost"
  ELSE host

sameFixedListener(first, second) ==
  /\ Len(first) = 2 /\ Len(second) = 2
  /\ first[2] # 0 /\ first[2] = second[2]
  /\ Canonical(first[1]) = Canonical(second[1])

validateRelationships(cfg) ==
  {field \in {"status.probeInterval"} :
     /\ cfg[field] > 0 /\ cfg["status.statusMaxStaleness"] > 0
     /\ cfg[field] >= cfg["status.statusMaxStaleness"]}
  \cup {field \in {"auth.tokenRenewalIncrement"} :
          /\ cfg[field] > 0 /\ cfg["auth.loginBeforeTokenExpiry"] > 0
          /\ cfg[field] <= cfg["auth.loginBeforeTokenExpiry"]}
  \cup {field \in {"server.metricsAddress"} :
          sameFixedListener(cfg["server.healthAddress"], cfg[field])}

validateValues(cfg) ==
  {field \in {"configVersion", "openbao.address", "rotation.mode", "logging.format"} :
     cfg[field] # "ok"}
  \cup {field \in {"openbao.namespace", "state.path"} \cup IdentityFields : Bad(cfg[field])}
  \cup {field \in {"server.metricsAddress", "server.healthAddress"} :
          cfg[field] = <<"malformed">>}
  \cup {field \in Limits : cfg[field] \notin 1..maxConcurrentKMSRequests}
  \cup {field \in PositiveDurations \cup {"rotation.requireStableObservationCount"} :
          cfg[field] <= 0}
  \cup {field \in NonNegativeDurations : cfg[field] < 0}
  \cup {field \in {"logging.level"} : cfg[field] \notin {"debug", "info", "warn", "error"}}
  \cup validateAuthValues(cfg)
  \cup validateDebugCorrelation(cfg)
  \cup validateRelationships(cfg)

\* ParseSocketMode and validateSocketPolicy.  "elsewhere" is an absolute path
\* outside the approved directories; a mode of no permission bits passes.
validateSocketPolicy(cfg) ==
  {field \in {"server.socketPath"} : cfg[field] # "ok"}
  \cup {field \in {"server.socketMode"} : cfg[field] \notin {"0660", "0000"}}

\* validateRegularFile on the kind of a file that is configured.
RegularFile(cfg, files, field) == cfg[field] = "empty" \/ files[field] = "regular"

\* validateFilesystem: the files of the selected login source, the directory
\* of the socket and what is at its path now.
validateFilesystem(cfg, files, target) ==
  {field \in {"openbao.caCertFile"} \cup
      (IF cfg["auth.method"] = "jwt" /\ cfg["auth.jwt.source"] = "file"
       THEN {"auth.jwt.jwtFile"}
       ELSE IF cfg["auth.method"] = "jwt" /\ cfg["auth.jwt.source"] = "oauth2"
       THEN {"auth.jwt.oauth2.clientSecretFile", "auth.jwt.oauth2.caCertFile"}
       ELSE IF cfg["auth.method"] = "cert" /\ cfg["auth.cert.source"] = "pkcs11"
       THEN {"auth.cert.pkcs11.certificateFile", "auth.cert.pkcs11.pinFile"}
       ELSE {}) :
     ~RegularFile(cfg, files, field) \/ Bad(cfg[field])}
  \cup {field \in {"config"} : files[field] # "regular"}
  \cup {field \in {"server.socketPath"} :
          \/ files["socketParent"] \notin {"directory", "foreign"}
          \/ target \in {"symlink", "other"}}

\* Validate, without and with CheckFilesystem.
ValidateSettings(cfg) ==
  validateRequired(cfg) \cup validateValues(cfg) \cup validateSocketPolicy(cfg)

ValidateConfig(cfg, files, target) ==
  ValidateSettings(cfg) \cup validateFilesystem(cfg, files, target)

\* IdentityFingerprint names the identity fields and the namespace.
IdentityFingerprint(cfg) == [field \in IdentityFields \cup {"openbao.namespace"} |-> cfg[field]]

=============================================================================
