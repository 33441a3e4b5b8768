----------------------------- MODULE Diagnostics -----------------------------
(***************************************************************************)
(* The preflight commands doctor, verify-key, verify-rotation and          *)
(* rotation-plan (cmd/bao-kms-provider/diagnostics.go, rotation.go,        *)
(* registry_state.go) and the parts of OpenBao they look at.  A report is  *)
(* the set of failed checks; passed, skipped and warned ones do not change *)
(* the exit code.                                                          *)
(*                                                                         *)
(* bao is [login, disableUpsert, caps, key]: whether the role accepts the  *)
(* credential, the mount setting, the capabilities of the token per path,  *)
(* and the Transit key.  A key is a profile of Rotation whose "usable" is  *)
(* spelled out: softDeleted, and flaws, the settings AssessKeyProfile      *)
(* objects to.  registry is [readable, state, checkpoint, fingerprint].    *)
(***************************************************************************)
EXTENDS Credentials, EncryptionConfig, Rotation

-----------------------------------------------------------------------------
(* The Transit key.                                                        *)

\* AssessKeyProfile: the settings and the minimum versions.
AssessKeyProfile(key) ==
  key.flaws
  \cup {f \in {"minEncryption"} : key.minEnc > key.latest}
  \cup {f \in {"minDecryption"} : key.minDec > key.latest}

\* The settings a key of another type, or a key that may leave OpenBao, has.
KeyFlaws == {"type", "exportable", "plaintextBackup", "deletionAllowed", "derived",
             "convergent", "noEncryption", "noDecryption"}

keyProfileFindings(key) ==
  AssessKeyProfile(key)
  \cup {f \in {"latest"} : key.latest <= 0}
  \cup {f \in {"softDeleted"} : key.softDeleted}
  \cup {f \in {"minAvailable"} : key.minAvail > key.latest}

\* ReadKeyProfile: the profile as the rotation observer sees it.
Profile(key) ==
  [latest |-> key.latest, createdAt |-> key.createdAt, minAvail |-> key.minAvail,
   minDec |-> key.minDec, minEnc |-> key.minEnc,
   usable |-> AssessKeyProfile(key) = {} /\ ~key.softDeleted]

-----------------------------------------------------------------------------
(* Capabilities.                                                           *)

CapabilityPaths ==
  {"metadata", "encrypt", "decrypt", "rotate", "export", "backup", "keyConfig",
   "mountConfig", "trim", "restore", "restoreNamed", "rewrap"}

Writing == {"create", "update", "delete", "sudo", "root"}

unsafeTransitCapabilities(caps) ==
  \/ \E p \in CapabilityPaths \ {"encrypt", "decrypt", "export", "backup"} :
       caps[p] \cap Writing # {}
  \/ \E p \in {"export", "backup"} : caps[p] \cap (Writing \cup {"read"}) # {}
  \/ caps["encrypt"] \cap {"create", "sudo", "root"} # {}
  \/ caps["decrypt"] \cap {"sudo", "root"} # {}

checkCapabilities(caps) ==
  /\ \A p \in CapabilityPaths : caps[p] # {}
  /\ ~unsafeTransitCapabilities(caps)
  /\ "read" \in caps["metadata"]
  /\ "update" \in caps["encrypt"]
  /\ "update" \in caps["decrypt"]

\* external: OpenBao allows a call by the capabilities of its path.
Allowed(caps, path, capability) == caps[path] \cap {capability, "root"} # {}

\* A key that does not exist has no version.
CanReadKey(bao) == Allowed(bao.caps, "metadata", "read") /\ DOMAIN bao.key.createdAt # {}

CanReadMount(bao) == Allowed(bao.caps, "mountConfig", "read")

\* external: Transit encrypts and decrypts with this version (ProbeEncryptDecrypt).
CanRoundTrip(bao, version) ==
  /\ Allowed(bao.caps, "encrypt", "update")
  /\ Allowed(bao.caps, "decrypt", "update")
  /\ ~bao.key.softDeleted
  /\ bao.key.flaws \cap {"noEncryption", "noDecryption"} = {}
  /\ version \in DOMAIN bao.key.createdAt
  /\ bao.key.minEnc <= version /\ bao.key.minDec <= version

-----------------------------------------------------------------------------
(* The registry files.                                                     *)

\* loadRegistryStateWithCheckpoint and loadConfiguredRegistryState: "absent",
\* "loaded" or "refused".  FileStateStore.Load and validateStateScope accept
\* the same files when the provider starts.
loadConfiguredRegistryState(cfg, registry) ==
  IF ~registry.readable \/ Unset(cfg["state.path"]) THEN "refused"
  ELSE IF registry.state = {}
  THEN IF registry.checkpoint = {} THEN "absent" ELSE "refused"
  ELSE IF \/ \E s \in registry.state, c \in registry.checkpoint : ~ValidateState(c, s)
          \/ registry.fingerprint # IdentityFingerprint(cfg)
  THEN "refused"
  ELSE "loaded"

\* The versions a minimum makes unusable: active and retired ones for reading,
\* the active one for writing.  Pending ones are not looked at.
VersionRestricted(registry, key) ==
  \E s \in registry.state : \E k \in DOMAIN s.content.snapshots :
    \/ /\ s.content.snapshots[k].state \in {"active", "retired"}
       /\ key.minAvail > k.version \/ key.minDec > k.version
    \/ /\ s.content.snapshots[k].state = "active"
       /\ key.minEnc > k.version

\* checkLatestVersionRestrictions
checkLatestVersionRestrictions(key) ==
  key.minAvail <= key.latest /\ key.minEnc <= key.latest /\ key.minDec <= key.latest

\* Mutant: only the latest version is compared with the minimums.
checkLatestOnly(cfg, registry, key) ==
  {check \in {"version.restrictions"} : ~checkLatestVersionRestrictions(key)}

\* checkRegistryVersionRestrictions: an absent file is a warning, whether or
\* not serve may bootstrap one.
checkRegistryVersionRestrictions(cfg, registry, key) ==
  LET loaded == loadConfiguredRegistryState(cfg, registry)
  IN {check \in {"registry.state"} : loaded = "refused"}
     \cup {check \in {"version.restrictions"} :
             \/ loaded = "loaded" /\ VersionRestricted(registry, key)
             \/ loaded = "absent" /\ ~checkLatestVersionRestrictions(key)}

-----------------------------------------------------------------------------
(* The commands.                                                           *)

\* checkKeyIDDeterminism: the rebuilt state, derived twice; an option.
checkKeyIDDeterminism(key) ==
  LET first == RebuildState(Profile(key), 1)
      second == RebuildState(Profile(key), 1)
  IN IF first = {} \/ second = {} THEN {}
     ELSE {s \in first : \A t \in second : t.content.activeKeyID = s.content.activeKeyID}

\* checkStatusEncryptConsistency: a server over a store that holds the rebuilt
\* state answers Status and Encrypt, with a Transit that never fails, from
\* the same active snapshot.
checkStatusEncryptConsistency(state) ==
  /\ state.content.activeKeyID \in DOMAIN state.content.snapshots
  /\ state.content.snapshots[state.content.activeKeyID].state = "active"

\* runTransitDiagnostics, then the checks that need its result.
runTransitDiagnostics(cfg, registry, bao, includeProbe) ==
  LET profileSafe == keyProfileFindings(bao.key) = {}
      rebuilt == checkKeyIDDeterminism(bao.key)
  IN {check \in {"transit.capabilities"} : ~checkCapabilities(bao.caps)}
     \cup (IF ~CanReadKey(bao) THEN {"transit.metadata"}
           ELSE {check \in {"transit.profile"} : ~profileSafe}
                \cup {check \in {"transit.disable_upsert"} :
                        ~CanReadMount(bao) \/ ~bao.disableUpsert}
                \cup {check \in {"transit.probe"} :
                        /\ includeProbe /\ profileSafe
                        /\ ~CanRoundTrip(bao, bao.key.latest)}
                \cup {check \in {"key_id.deterministic"} : profileSafe /\ rebuilt = {}}
                \cup (IF profileSafe /\ rebuilt # {}
                      THEN checkRegistryVersionRestrictions(cfg, registry, bao.key)
                           \cup {check \in {"status_encrypt.invariant"} :
                                   includeProbe /\ \E s \in rebuilt :
                                                     ~checkStatusEncryptConsistency(s)}
                      ELSE {}))

\* authenticateForDiagnostics: "" when the login succeeds.
authenticateForDiagnostics(cfg, files, cred, bao) ==
  IF ~NewTLSConfig(cfg, files, cred) THEN "openbao.tls"
  ELSE IF ~buildAuthManager(cfg, files, cred) \/ ~CredentialReady(cfg, files, cred)
  THEN "openbao.auth"
  ELSE IF ~bao.login THEN "openbao.auth"
  ELSE IF ~NewClient(cfg, files, cred) THEN "openbao.tls"
  ELSE ""

AuthenticatedDiagnostics(cfg, files, cred, registry, bao, includeProbe) ==
  LET failed == authenticateForDiagnostics(cfg, files, cred, bao)
  IN IF failed # "" THEN {failed}
     ELSE runTransitDiagnostics(cfg, registry, bao, includeProbe)

\* checkLocalCertificateAuthForDoctor, in both builds.
checkLocalCertificateAuthForDoctor(cfg, files, cred) ==
  /\ cred.certAuthBuilt
  /\ newCertificateProvider(cfg, files, cred)
  /\ NewCertLoginSource(cfg)
  /\ ValidateLocal(cfg, files, cred)

checkLocalAuthForDoctor(cfg, files, cred) ==
  IF cfg["auth.method"] = "cert" THEN checkLocalCertificateAuthForDoctor(cfg, files, cred)
  ELSE IF cfg["auth.jwt.source"] = "oauth2" THEN ReadClientSecret(cfg, files, cred.secret)
  ELSE ReadAndValidateJWT(cfg, files, cred.jwt)

\* runDoctor on what Load returned.  target is what the socket path leads to,
\* group whether lookupGroupID finds the group, and encryptionConfig the file
\* given with --encryption-config, an option.
runDoctor(loaded, files, target, group, encryptionConfig, cred, registry, bao) ==
  IF loaded = {} THEN {"config.load"}
  ELSE LET cfg == CHOOSE c \in loaded : TRUE
       IN IF ValidateConfig(cfg, files, target) # {} THEN {"config.validate"}
          ELSE IF loadConfiguredRegistryState(cfg, registry) = "refused"
          THEN {"registry.state"}
          ELSE {check \in {"socket.group"} : ~group}
               \cup {check \in {"encryption.config"} :
                       ~checkEncryptionConfiguration(cfg, encryptionConfig)}
               \cup IF ~checkLocalAuthForDoctor(cfg, files, cred) THEN {"auth.local"}
                    ELSE AuthenticatedDiagnostics(cfg, files, cred, registry, bao, TRUE)

\* runVerifyKey: no file permissions, no probe.
runVerifyKey(loaded, files, cred, registry, bao) ==
  IF loaded = {} THEN {"config.load"}
  ELSE LET cfg == CHOOSE c \in loaded : TRUE
       IN IF ValidateSettings(cfg) # {} THEN {"config.validate"}
          ELSE AuthenticatedDiagnostics(cfg, files, cred, registry, bao, FALSE)

\* applyTransitProfileToRotationReport: without local state, serve must be
\* able to bootstrap one.
applyTransitProfileToRotationReport(registry, key) ==
  registry.state = {} =>
    AssessAutoBootstrapState(Profile(key)) /\ RebuildState(Profile(key), 1) # {}

\* verify-rotation and rotation-plan: loadAndValidateConfig and
\* buildRotationReport.  TRUE when the command succeeds.
buildRotationReport(loaded, files, cred, registry, bao) ==
  \E cfg \in loaded :
    /\ ValidateSettings(cfg) = {}
    /\ loadConfiguredRegistryState(cfg, registry) # "refused"
    /\ authenticateForDiagnostics(cfg, files, cred, bao) = ""
    /\ CanReadKey(bao)
    /\ applyTransitProfileToRotationReport(registry, bao.key)

=============================================================================
