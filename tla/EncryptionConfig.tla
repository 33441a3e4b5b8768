-------------------------- MODULE EncryptionConfig --------------------------
(***************************************************************************)
(* The Kubernetes EncryptionConfiguration that points the API server at    *)
(* the provider: what doctor and init accept                               *)
(* (internal/config/encryptionconfig.go) and what init renders             *)
(* (internal/scaffold/encryptionconfig.go).                                *)
(*                                                                         *)
(* A file is [readable, decodes, apiVersion, kind, resources]; resources   *)
(* is a sequence of [resources, providers], and a provider entry a         *)
(* function on the provider types it configures: "kms" is                  *)
(* [apiVersion, name, socket, timeout, cacheSize], "identity" has no       *)
(* settings, the symmetric ones have a set of keys [name, secret].  Texts  *)
(* are those of Config; socket is the path of a unix URL, "malformed" for  *)
(* any other endpoint, and timeout and cacheSize are options.              *)
(***************************************************************************)
EXTENDS Config

SymmetricProviders == {"aescbc", "aesgcm", "secretbox"}

\* LoadEncryptionConfiguration and ParseEncryptionConfiguration: one document
\* of known fields.
LoadEncryptionConfiguration(file) == IF file.readable /\ file.decodes THEN {file} ELSE {}

validateSymmetricProvider(provider) ==
  /\ provider.keys # {}
  /\ \A key \in provider.keys : key.name # "empty" /\ key.secret # "empty"

\* Exactly one provider type per entry.
validateProviderEntry(entry) ==
  /\ Cardinality(DOMAIN entry) = 1
  /\ \A type \in DOMAIN entry \cap SymmetricProviders : validateSymmetricProvider(entry[type])

\* Only the configured provider's socket is compared.
validateKMSEndpoint(socket, configured) == socket # "malformed" /\ configured \subseteq {socket}

Matches(cfg, kms) == kms.name = cfg["transit.keyIdScope.providerName"]

validateKMSProvider(cfg, kms) ==
  /\ kms.name # "empty"
  /\ kms.apiVersion \in {"empty", "v1", "v2"}
  /\ Matches(cfg, kms) => kms.apiVersion = "v2"
  /\ kms.apiVersion = "v2" => kms.cacheSize = {}
  /\ validateKMSEndpoint(kms.socket,
       IF Matches(cfg, kms) THEN {cfg["server.socketPath"]} ELSE {})
  /\ \A timeout \in kms.timeout : timeout > 0

\* The entries of all resource selections.
Entries(file) ==
  UNION {{r.providers[i] : i \in DOMAIN r.providers} :
           r \in {file.resources[i] : i \in DOMAIN file.resources}}

\* An entry that also names identity is not looked at as a KMS provider.
KMSProviders(file) ==
  {entry["kms"] : entry \in {e \in Entries(file) :
                               "kms" \in DOMAIN e /\ "identity" \notin DOMAIN e}}

IdentityFallback(file) == \E entry \in Entries(file) : "identity" \in DOMAIN entry

ValidateEncryptionConfiguration(cfg, file, allowIdentityFallback) ==
  /\ file.apiVersion = "ok" /\ file.kind = "ok"
  /\ file.resources # <<>>
  /\ \A i \in DOMAIN file.resources :
       file.resources[i].resources # {} /\ file.resources[i].providers # <<>>
  /\ \A entry \in Entries(file) : validateProviderEntry(entry)
  /\ \A kms \in KMSProviders(file) : validateKMSProvider(cfg, kms)
  /\ \E kms \in KMSProviders(file) : Matches(cfg, kms)
  /\ IdentityFallback(file) => allowIdentityFallback

\* checkEncryptionConfiguration of doctor: no path, nothing to fail.
checkEncryptionConfiguration(cfg, path) ==
  \A file \in path :
    /\ LoadEncryptionConfiguration(file) # {}
    /\ ValidateEncryptionConfiguration(cfg, file, TRUE)

-----------------------------------------------------------------------------
(* What init renders.                                                      *)

DefaultKMSTimeout == 3

\* renderEncryptionConfig: the identity reader beside the provider, first
\* while the readers are staged.
renderEncryptionConfig(cfg, identityFirst) ==
  LET kms == "kms" :> [apiVersion |-> "v2", name |-> cfg["transit.keyIdScope.providerName"],
                       socket |-> cfg["server.socketPath"], timeout |-> {DefaultKMSTimeout},
                       cacheSize |-> {}]
      identity == "identity" :> [keys |-> {}]
  IN [readable |-> TRUE, decodes |-> TRUE, apiVersion |-> "ok", kind |-> "ok",
      resources |-> << [resources |-> {"secrets"},
                        providers |-> IF identityFirst THEN <<identity, kms>>
                                      ELSE <<kms, identity>>] >>]

=============================================================================
