---------------------------- MODULE Installation ----------------------------
(***************************************************************************)
(* What init makes of one values file: the provider configuration, the     *)
(* EncryptionConfigurations, the OpenBao policy and role, the static pod   *)
(* and the layout of a node (cmd/bao-kms-provider/init.go,                 *)
(* internal/scaffold).                                                     *)
(*                                                                         *)
(* opts holds the flags: [model, newKey, policyName, image, socketGID].    *)
(* A path is "ok" where the packages keep it, "shared" in the directory of *)
(* the socket, and "apart" in one of its own.  The mount path of the login *)
(* method is "unprefixed" without "auth/".  A generated text, the content  *)
(* of a file, is the value it stands for.                                  *)
(***************************************************************************)
EXTENDS Diagnostics

-----------------------------------------------------------------------------
(* The values.                                                             *)

\* validateInitFlags and validateStaticPodFlags.
validateInitFlags(opts) ==
  \/ opts.model = "systemd" /\ opts.image = "empty" /\ opts.socketGID = 0
  \/ opts.model = "static-pod" /\ opts.image = "ok" /\ opts.socketGID > 0

\* applyInitHostLayout: the documented paths for those left out; the group of
\* a static pod is always the one of the flag.
applyInitHostLayout(cfg, opts) ==
  LET fills == {"openbao.caCertFile", "server.socketGroup"} \cup
               (IF cfg["auth.method"] = "jwt" /\ cfg["auth.jwt.source"] = "file"
                THEN {"auth.jwt.jwtFile"} ELSE {})
      filled == [field \in DOMAIN cfg |->
                   IF field \in fills /\ cfg[field] = "empty" THEN "ok" ELSE cfg[field]]
  IN IF opts.model = "static-pod" THEN [filled EXCEPT !["server.socketGroup"] = "gid"]
     ELSE filled

\* resolveInitLineage: a lineage is generated once; an option.
resolveInitLineage(cfg, newKey, generated) ==
  LET lineage == cfg["transit.keyIdScope.keyLineageId"]
  IN IF newKey # (lineage = "empty") THEN {}
     ELSE IF newKey THEN {[cfg EXCEPT !["transit.keyIdScope.keyLineageId"] = generated]}
     ELSE {cfg}

loadInitValues(values, opts, generated) ==
  {cfg \in UNION {resolveInitLineage(applyInitHostLayout(c, opts), opts.newKey, generated) :
                    c \in Load(values, <<>>)} :
     /\ ValidateSettings(cfg) = {}
     /\ opts.model = "static-pod" => cfg["auth.method"] = "jwt"}

-----------------------------------------------------------------------------
(* config.yaml.                                                            *)

\* The units of a duration, in ticks.
Units == [h |-> 4, m |-> 2, s |-> 1]

\* Mutant: the largest unit that is not too large.
formatDurationRounded(value) ==
  IF value = 0 THEN <<0, "s">>
  ELSE LET fits == {u \in DOMAIN Units : Units[u] <= value}
           unit == CHOOSE u \in fits : \A v \in fits : Units[v] <= Units[u]
       IN <<value \div Units[unit], unit>>

\* formatDuration: the largest exact unit.
formatDuration(value) ==
  IF value = 0 THEN <<0, "s">>
  ELSE LET exact == {u \in DOMAIN Units : value % Units[u] = 0}
           unit == CHOOSE u \in exact : \A v \in exact : Units[v] <= Units[u]
       IN <<value \div Units[unit], unit>>

ParseDuration(text) == text[1] * Units[text[2]]

\* providerConfigFile and its parts: the section of one login method only, and
\* of that what is not left out when empty.
FileFields(cfg) ==
  (DOMAIN cfg \ (JWTFields \cup OAuth2Fields \cup CertFields \cup SPIFFEFields))
  \cup (IF cfg["auth.method"] = "cert" THEN CertFields
        ELSE {field \in JWTFields : field = "auth.jwt.jwtFile" => cfg[field] # "empty"}
             \cup {field \in OAuth2Fields :
                     /\ cfg["auth.jwt.source"] = "oauth2"
                     /\ field \in {"auth.jwt.oauth2.caCertFile", "auth.jwt.oauth2.parameters"} =>
                          cfg[field] # "empty"})

RenderProviderConfig(cfg) ==
  [readable |-> TRUE, decodes |-> TRUE, numericDuration |-> FALSE,
   values |-> [field \in FileFields(cfg) |->
                 IF field \in Durations THEN formatDuration(cfg[field]) ELSE cfg[field]]]

\* The durations of a rendered file, as Load decodes them.
DecodeDurations(file) ==
  [file EXCEPT !.values = [field \in DOMAIN file.values |->
                             IF field \in Durations THEN ParseDuration(file.values[field])
                             ELSE file.values[field]]]

checkGeneratedFiles(providerConfig, encryptionConfig) ==
  \E reloaded \in Load(DecodeDurations(providerConfig), <<>>),
     parsed \in LoadEncryptionConfiguration(encryptionConfig) :
       /\ ValidateSettings(reloaded) = {}
       /\ ValidateEncryptionConfiguration(reloaded, parsed, TRUE)

-----------------------------------------------------------------------------
(* OpenBao.                                                                *)

\* WriteOpenBaoPolicy on OpenBaoPolicyPaths, with the renewal.
WriteOpenBaoPolicy ==
  "metadata" :> {"read"} @@ "encrypt" :> {"update"} @@ "decrypt" :> {"update"}
  @@ "mountConfig" :> {"read"} @@ "capabilitiesSelf" :> {"update"}
  @@ "renewSelf" :> {"update"}

\* external: what OpenBao tells a token of this policy alone.
PolicyCapabilities(policy) ==
  [p \in CapabilityPaths |->
     IF "capabilitiesSelf" \notin DOMAIN policy THEN {}
     ELSE IF p \in DOMAIN policy THEN policy[p] ELSE {"deny"}]

\* The TTL of the generated role, 30m, in ticks.
jwtTokenTTL == 3

ValidateSetup(cfg, policyName) ==
  /\ ValidateSettings(cfg) = {}
  /\ policyName # "malformed"
  /\ cfg["auth.method"] = "jwt" =>
       /\ cfg["auth.loginBeforeTokenExpiry"] < jwtTokenTTL
       /\ cfg["auth.jwt.mountPath"] # "unprefixed"
       /\ \A field \in {"auth.jwt.expectedIssuer", "auth.jwt.expectedAudience",
                        "auth.jwt.expectedSubject"} : cfg[field] # "empty"

\* setupJWTRole and the mount's bound_issuer.
setupJWTRole(cfg) ==
  [issuer |-> cfg["auth.jwt.expectedIssuer"], audience |-> cfg["auth.jwt.expectedAudience"],
   subject |-> cfg["auth.jwt.expectedSubject"]]

\* RenderOpenBaoSetup: the commands of each phase; "all" runs every phase.
SetupPhases == {"all", "transit", "policy", "auth-mount", "auth-config", "auth-role"}

SetupCommands(phase) ==
  LET transit == <<"mount", "disable_upsert", "key">>
  IN IF phase = "all" THEN transit \o <<"policy", "auth-mount", "auth-config", "auth-role">>
     ELSE IF phase = "transit" THEN transit
     ELSE <<phase>>

-----------------------------------------------------------------------------
(* The static pod and the node.                                            *)

addressPort(address) == Len(address) = 2 /\ address[2] > 0

\* The file node-setup.sh installs as --credential.
credentialPath(cfg) ==
  IF cfg["auth.jwt.source"] = "oauth2" THEN "auth.jwt.oauth2.clientSecretFile"
  ELSE "auth.jwt.jwtFile"

\* The CA bundle of the token endpoint, when there is one.
issuerCA(cfg) ==
  {field \in {"auth.jwt.oauth2.caCertFile"} :
     cfg["auth.jwt.source"] = "oauth2" /\ cfg[field] # "empty"}

\* validateStaticPodDirectories: what is mounted read-only lies apart from the
\* socket's directory, and so does the state.
validateStaticPodDirectories(cfg) ==
  \A field \in {"state.path", "openbao.caCertFile"} \cup issuerCA(cfg) \cup
                 (IF cfg["auth.jwt.source"] = "oauth2" THEN {credentialPath(cfg)} ELSE {}) :
    cfg[field] # "shared"

\* Mutant: the pod gets no mount for its credential.
buildStaticPodWithoutCredential(cfg, opts) ==
  IF /\ cfg["auth.method"] = "jwt" /\ opts.image = "ok" /\ opts.socketGID > 0
     /\ addressPort(cfg["server.metricsAddress"]) /\ addressPort(cfg["server.healthAddress"])
     /\ validateStaticPodDirectories(cfg)
     /\ cfg[credentialPath(cfg)] # "shared"
  THEN {[image |-> opts.image, supplementalGroup |-> opts.socketGID,
         readOnly |-> {"config", "openbao.caCertFile"} \cup issuerCA(cfg),
         writable |-> {"socketParent", "state.path"}]}
  ELSE {}

\* buildStaticPod: an option; what is mounted, by the setting that names it.
buildStaticPod(cfg, opts) ==
  IF /\ cfg["auth.method"] = "jwt" /\ opts.image = "ok" /\ opts.socketGID > 0
     /\ addressPort(cfg["server.metricsAddress"]) /\ addressPort(cfg["server.healthAddress"])
     /\ validateStaticPodDirectories(cfg)
     /\ cfg[credentialPath(cfg)] # "shared"
  THEN {[image |-> opts.image, supplementalGroup |-> opts.socketGID,
         readOnly |-> {"config", "openbao.caCertFile", credentialPath(cfg)} \cup issuerCA(cfg),
         writable |-> {"socketParent", "state.path"}]}
  ELSE {}

\* modelLayout: the directories node-setup.sh prepares besides those of the
\* files, or none when the model does not fit the configuration; an option.
modelLayout(cfg, opts) ==
  IF opts.model = "systemd"
  THEN {dirs \in {{}} : cfg["state.path"] = "ok"}
  ELSE {dirs \in {{"config", "state"}} :
          opts.image = "ok" /\ opts.socketGID > 0 /\ validateStaticPodDirectories(cfg)}

\* addCredentialLayout: what node-setup.sh installs, in its order.
addCredentialLayout(cfg) ==
  << [path |-> "openbao.caCertFile", mode |-> "644"],
     [path |-> credentialPath(cfg), mode |-> "640"] >>
  \o (IF issuerCA(cfg) = {} THEN << >>
      ELSE << [path |-> "auth.jwt.oauth2.caCertFile", mode |-> "644"] >>)

\* buildNodeLayout: an option of the directories and the files, config first.
buildNodeLayout(cfg, opts) ==
  IF cfg["auth.method"] = "jwt" /\ addressPort(cfg["server.healthAddress"])
  THEN LET files == addCredentialLayout(cfg)
       IN {[dirs |-> dirs \cup {files[i].path : i \in DOMAIN files},
            files |-> << [path |-> "config", mode |-> "640"] >> \o files] :
              dirs \in modelLayout(cfg, opts)}
  ELSE {}

\* renderInitFiles: an option.  renderInitNodeSetup adds the fingerprint to
\* the layout.
renderInitFiles(cfg, opts) ==
  LET providerConfig == RenderProviderConfig(cfg)
      writers == renderEncryptionConfig(cfg, FALSE)
      readers == renderEncryptionConfig(cfg, TRUE)
      pods == IF opts.model = "static-pod" THEN buildStaticPod(cfg, opts) ELSE {}
  IN IF /\ checkGeneratedFiles(providerConfig, writers)
        /\ checkGeneratedFiles(providerConfig, readers)
        /\ ValidateSetup(cfg, opts.policyName)
        /\ opts.model = "static-pod" => pods # {}
     THEN {[config |-> providerConfig, writers |-> writers, readers |-> readers,
            policy |-> WriteOpenBaoPolicy, role |-> setupJWTRole(cfg), pod |-> pods,
            fingerprint |-> IdentityFingerprint(cfg), layout |-> layout] :
              layout \in buildNodeLayout(cfg, opts)}
     ELSE {}

\* The names of the files, in the order they are written.
initFiles(opts) ==
  <<"config.yaml", "encryption-config.yaml", "encryption-config-readers.yaml",
    "openbao-policy.hcl", "openbao-setup.sh">>
  \o (IF opts.model = "static-pod" THEN <<"bao-kms-provider.yaml">> ELSE << >>)
  \o <<"node-setup.sh", "installation.json">>

=============================================================================
