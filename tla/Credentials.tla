----------------------------- MODULE Credentials -----------------------------
(***************************************************************************)
(* The credentials a provider logs in with: JWT files, OAuth 2.0 access    *)
(* tokens, PKCS#11 and SPIFFE client certificates, and the constructors of *)
(* the login sources and OpenBao clients (internal/auth, internal/oauth2,  *)
(* internal/openbao/client.go).                                            *)
(*                                                                         *)
(* files maps a configured path to the kind of file there: "regular" (with *)
(* safe permissions), "open" (permissions too wide), "symlink",            *)
(* "directory" or "missing".  cred holds what the files, the token         *)
(* endpoint, the PKCS#11 token and the Workload API hold.  All times are   *)
(* relative to now; a claim that may be absent is an option.               *)
(***************************************************************************)
EXTENDS Config

-----------------------------------------------------------------------------
(* Reading a credential file: stat, open, stat the open file and the path  *)
(* again, read.                                                            *)

\* validateJWTFileMode, validateCertificateFileMode, validatePKCS11PINFileMode
\* and credentialFileReason accept only this kind.
SafeFile(kind) == kind = "regular"

\* os.Open follows a link to a file of its own and refuses a missing one; an
\* entry is what a path leads to, a file is known by its inode.
Opened(entry) ==
  IF entry.kind = "missing" THEN {}
  ELSE IF entry.kind = "symlink" THEN {[inode |-> -entry.inode, kind |-> "regular"]}
  ELSE {entry}

\* Mutant: only the open file is inspected.
validateOpenedFileOnly(opened, current) == SafeFile(opened.kind)

\* validateOpenedJWTFile, validateOpenedCertificateFile,
\* validateOpenedPKCS11PINFile: the open file is safe and still at the path.
validateOpenedFile(opened, current) ==
  /\ SafeFile(opened.kind)
  /\ SafeFile(current.kind)
  /\ opened.inode = current.inode

\* The readers on a file that nobody replaces meanwhile: an absolute path to a
\* safe file.
ReadSafeFile(cfg, files, field) ==
  ~Unset(cfg[field]) /\ ~Bad(cfg[field]) /\ SafeFile(files[field])

\* ReadJWTFile: "empty" is a content that is empty or too large.
ReadJWTFile(cfg, files, jwt) ==
  ReadSafeFile(cfg, files, "auth.jwt.jwtFile") /\ jwt.content # "empty"

\* ReadCertificateChain with ParseCertificateChainPEM.
ReadCertificateChain(cfg, files, cert) ==
  ReadSafeFile(cfg, files, "auth.cert.pkcs11.certificateFile") /\ cert.content = "ok"

\* readPKCS11PINFile: one line.
readPKCS11PINFile(cfg, files, pin) ==
  ReadSafeFile(cfg, files, "auth.cert.pkcs11.pinFile") /\ pin = "ok"

\* ReadClientSecret with parseClientSecret: one line.
ReadClientSecret(cfg, files, secret) ==
  ReadSafeFile(cfg, files, "auth.jwt.oauth2.clientSecretFile") /\ secret = "ok"

-----------------------------------------------------------------------------
(* Tokens.                                                                 *)

\* validateExpectedIdentity: an expectation that is not configured holds; a
\* claim is "ok" when it is the configured value.
validateExpectedIdentity(claims, cfg) ==
  /\ cfg["auth.jwt.expectedIssuer"] # "empty" => claims.issuer = "ok"
  /\ cfg["auth.jwt.expectedAudience"] # "empty" => claims.audience = "ok"
  /\ cfg["auth.jwt.expectedSubject"] # "empty" => claims.subject = "ok"

ValidateClaims(claims, cfg) ==
  LET leeway == cfg["auth.jwt.clockSkewLeeway"]
  IN /\ \A t \in claims.notBefore \cup claims.issuedAt : t <= leeway
     /\ validateExpectedIdentity(claims, cfg)
     /\ \A t \in claims.expiresAt :
          t > -leeway /\ t > cfg["auth.jwt.minRemainingTtl"]

\* ParseClaims: three parts, a JSON payload, and an exp claim.
ParseClaims(jwt) == jwt.content = "ok" /\ jwt.expiresAt # {}

ReadAndValidateJWT(cfg, files, jwt) ==
  /\ ReadJWTFile(cfg, files, jwt)
  /\ ParseClaims(jwt)
  /\ ValidateClaims(jwt, cfg)

\* Client.Token: the secret is read again for every token.  The endpoint
\* answers with a status and, when it is 200, a body; expires_in is optional.
OAuth2Token(cfg, files, cred) ==
  /\ ReadClientSecret(cfg, files, cred.secret)
  /\ cred.endpoint.status = 200
  /\ cred.endpoint.body = "ok"

\* OAuth2LoginSource.Login up to the login call.
OAuth2JWT(cfg, files, cred) ==
  /\ OAuth2Token(cfg, files, cred)
  /\ ParseClaims(cred.jwt)
  /\ \A t \in cred.endpoint.expiresIn : t > cfg["auth.jwt.minRemainingTtl"]
  /\ ValidateClaims(cred.jwt, cfg)

-----------------------------------------------------------------------------
(* Client certificates.                                                    *)

\* validateCertificateSPIFFEIdentity: the expected ID and the trust domain
\* are independent; a certificate has the URI SANs [domain, id].
validateCertificateSPIFFEIdentity(cert, cfg) ==
  LET expected == cfg["auth.cert.spiffe.spiffeID"]
      domain == cfg["auth.cert.spiffe.trustDomain"]
  IN /\ ~Unset(expected) =>
          /\ expected = "ok"
          /\ domain \in {"empty", "blank", "ok"}
          /\ [domain |-> "ok", id |-> "ok"] \in cert.uris
     /\ ~Unset(domain) =>
          /\ cert.uris # {}
          /\ \A uri \in cert.uris : uri.domain = domain

ValidateCertificateChain(cert, cfg) ==
  LET leeway == cfg["auth.cert.clockSkewLeeway"]
  IN /\ ~cert.weakSignature
     /\ cert.notBefore <= leeway
     /\ cert.notAfter > -leeway
     /\ cert.notAfter > cfg["auth.cert.minRemainingTtl"]
     /\ cert.clientAuth
     /\ validateCertificateSPIFFEIdentity(cert, cfg)

\* validateCertificateSignerPublicKey and probeSigner.
ValidateCertificateSigner(cert, signer) == cert.key = signer.key /\ signer.signs

\* CurrentCertificate of the PKCS#11 provider reads the chain again, for the
\* signer that was found when the provider started.
PKCS11CurrentCertificate(cfg, files, cred) ==
  /\ ReadCertificateChain(cfg, files, cred.cert)
  /\ cred.cert.key = cred.signer.key

\* CurrentCertificate of the SPIFFE provider: a complete SVID.
SPIFFECurrentCertificate(cred) == cred.cert.content = "ok"

\* validateTLSClientCertificate with certificateFromTLS.
validateTLSClientCertificate(cfg, cred) ==
  /\ ValidateCertificateChain(cred.cert, cfg)
  /\ ValidateCertificateSigner(cred.cert, cred.signer)

ValidateLocal(cfg, files, cred) ==
  /\ IF cfg["auth.cert.source"] = "pkcs11"
     THEN PKCS11CurrentCertificate(cfg, files, cred)
     ELSE SPIFFECurrentCertificate(cred)
  /\ validateTLSClientCertificate(cfg, cred)

\* authLoginTimeout: a timeout of its own, or that of every request, at least
\* 5s, one tick here.
authLoginTimeout(cfg) ==
  IF cfg["auth.loginTimeout"] > 0 THEN cfg["auth.loginTimeout"]
  ELSE IF cfg["openbao.timeout"] > 1 THEN cfg["openbao.timeout"]
  ELSE 1

validatePKCS11ProviderConfig(cfg) ==
  /\ \A field \in {"auth.cert.pkcs11.certificateFile", "auth.cert.pkcs11.modulePath",
                   "auth.cert.pkcs11.tokenLabel", "auth.cert.pkcs11.keyLabel",
                   "auth.cert.pkcs11.pinFile"} : cfg[field] = "ok"
  /\ cfg["auth.cert.pkcs11.maxSessions"] >= 2
  /\ authLoginTimeout(cfg) > 0

\* NewPKCS11CertificateProvider with loadSigner.
NewPKCS11CertificateProvider(cfg, files, cred) ==
  /\ validatePKCS11ProviderConfig(cfg)
  /\ readPKCS11PINFile(cfg, files, cred.pin)
  /\ cred.signer.key # "none"
  /\ PKCS11CurrentCertificate(cfg, files, cred)

validateSPIFFEProviderConfig(cfg) ==
  /\ ~Unset(cfg["auth.cert.spiffe.workloadAPISocket"])
  /\ ~Unset(cfg["auth.cert.spiffe.spiffeID"])

\* NewSPIFFECertificateProvider: the picker finds an SVID with the expected ID.
NewSPIFFECertificateProvider(cfg, files, cred) ==
  /\ validateSPIFFEProviderConfig(cfg)
  /\ cfg["auth.cert.spiffe.spiffeID"] = "ok"
  /\ \E uri \in cred.cert.uris : uri.id = "ok"
  /\ SPIFFECurrentCertificate(cred)

newCertificateProvider(cfg, files, cred) ==
  \/ cfg["auth.cert.source"] = "pkcs11" /\ NewPKCS11CertificateProvider(cfg, files, cred)
  \/ cfg["auth.cert.source"] = "spiffe" /\ NewSPIFFECertificateProvider(cfg, files, cred)

-----------------------------------------------------------------------------
(* Constructors.                                                           *)

\* NewTLSConfig: os.ReadFile follows links and ignores permissions.
NewTLSConfig(cfg, files, cred) ==
  /\ ~Unset(cfg["openbao.tlsServerName"])
  /\ ~Unset(cfg["openbao.caCertFile"])
  /\ files["openbao.caCertFile"] \notin {"missing", "directory"}
  /\ cred.ca = "ok"

NewHTTPClientWithTLSOptions(cfg, files, cred, timeout) ==
  timeout > 0 /\ NewTLSConfig(cfg, files, cred)

\* NewClient and NewAuthClient with parseAddress.
NewClient(cfg, files, cred) ==
  /\ NewHTTPClientWithTLSOptions(cfg, files, cred, cfg["openbao.timeout"])
  /\ cfg["openbao.address"] = "ok"

NewAuthClient(cfg, files, cred) ==
  /\ NewHTTPClientWithTLSOptions(cfg, files, cred, authLoginTimeout(cfg))
  /\ cfg["openbao.address"] = "ok"

\* validateLifecycleConfig under NewManagerWithSource.
validateLifecycleConfig(cfg) ==
  cfg["auth.loginBeforeTokenExpiry"] > 0 /\ cfg["auth.tokenRenewalIncrement"] > 0

\* validateManagerConfig with normalizeExpectedAudience.
validateManagerConfig(cfg) ==
  /\ cfg["auth.jwt.expectedAudience"] # "malformed"
  /\ cfg["auth.jwt.mountPath"] = "ok"
  /\ cfg["auth.jwt.role"] = "ok"
  /\ cfg["auth.jwt.minRemainingTtl"] > 0
  /\ cfg["auth.jwt.clockSkewLeeway"] >= 0
  /\ validateLifecycleConfig(cfg)

\* oauth2.NewClient: its own CA bundle is read once.
NewOAuth2Client(cfg, files, cred) ==
  /\ ValidateOAuth2Config(cfg)
  /\ cfg["auth.jwt.oauth2.caCertFile"] # "empty" =>
       /\ files["auth.jwt.oauth2.caCertFile"] \notin {"missing", "directory"}
       /\ cred.ca = "ok"

NewJWTLoginSource(cfg) == ~Unset(cfg["auth.jwt.jwtFile"]) /\ validateManagerConfig(cfg)

NewOAuth2LoginSource(cfg, files, cred) ==
  /\ validateManagerConfig(cfg)
  /\ Unset(cfg["auth.jwt.jwtFile"])
  /\ ~Unset(cfg["auth.jwt.expectedIssuer"])
  /\ ~Unset(cfg["auth.jwt.expectedAudience"])
  /\ NewOAuth2Client(cfg, files, cred)

buildJWTLoginSource(cfg, files, cred) ==
  \/ cfg["auth.jwt.source"] = "file" /\ NewJWTLoginSource(cfg)
  \/ cfg["auth.jwt.source"] = "oauth2" /\ NewOAuth2LoginSource(cfg, files, cred)

\* validateCertLoginSourceConfig under NewCertLoginSource.
NewCertLoginSource(cfg) ==
  /\ cfg["auth.cert.mountPath"] = "ok"
  /\ cfg["auth.cert.name"] # "malformed"
  /\ cfg["auth.cert.source"] \in {"pkcs11", "spiffe"}
  /\ cfg["auth.cert.minRemainingTtl"] > 0
  /\ cfg["auth.cert.clockSkewLeeway"] >= 0

\* newCertAuthManager, in the builds that have it and in the default one.
newCertAuthManager(cfg, files, cred) ==
  /\ cred.certAuthBuilt
  /\ newCertificateProvider(cfg, files, cred)
  /\ NewAuthClient(cfg, files, cred)
  /\ NewCertLoginSource(cfg)
  /\ validateLifecycleConfig(cfg)

buildAuthManager(cfg, files, cred) ==
  \/ /\ cfg["auth.method"] = "jwt"
     /\ NewAuthClient(cfg, files, cred)
     /\ buildJWTLoginSource(cfg, files, cred)
     /\ validateLifecycleConfig(cfg)
  \/ /\ cfg["auth.method"] = "cert"
     /\ newCertAuthManager(cfg, files, cred)

\* What the selected source presents to OpenBao: Login of the three sources,
\* up to the call.
CredentialReady(cfg, files, cred) ==
  IF cfg["auth.method"] = "cert" THEN ValidateLocal(cfg, files, cred)
  ELSE IF cfg["auth.jwt.source"] = "oauth2" THEN OAuth2JWT(cfg, files, cred)
  ELSE ReadAndValidateJWT(cfg, files, cred.jwt)

=============================================================================
