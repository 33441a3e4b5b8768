--------------------------------- MODULE AAD ---------------------------------
(***************************************************************************)
(* Annotations and associated data of an encrypted value                   *)
(* (internal/aad/aad.go).                                                  *)
(*                                                                         *)
(* A snapshot is the identity that DeriveKeyID hashes: the configured      *)
(* scope [provider, cluster, instance, namespace, mount, lineage], the     *)
(* Transit version and its creation time.  Hashes are ideal, so the        *)
(* snapshot stands for its own key_id and a hash is a one-tuple.           *)
(* Annotations map keys to values; results that may be errors are options. *)
(***************************************************************************)
EXTENDS Naturals

HashValue(value) == <<value>>

RequiredKeys == {"provider", "keyIDHash", "version", "mountHash", "keyHash",
                 "pluginVersion", "aadVersion"}

\* BuildAnnotations: an empty namespace has no annotation.
BuildAnnotations(snapshot, pluginVersion) ==
  [key \in RequiredKeys \union
           (IF snapshot.scope.namespace = "" THEN {} ELSE {"namespaceHash"}) |->
     CASE key = "provider"      -> "openbao"
       [] key = "keyIDHash"     -> HashValue(snapshot)
       [] key = "version"       -> snapshot.version
       [] key = "mountHash"     -> HashValue(snapshot.scope.mount)
       [] key = "keyHash"       -> HashValue(snapshot.scope.lineage)
       [] key = "namespaceHash" -> HashValue(snapshot.scope.namespace)
       [] key = "pluginVersion" -> pluginVersion
       [] key = "aadVersion"    -> "v1"]

\* ParseAnnotations: other keys are ignored if they are domain names, which
\* "malformed" is not; the namespace hash is optional.
ParseAnnotations(a) ==
  IF /\ RequiredKeys \subseteq DOMAIN a
     /\ "malformed" \notin DOMAIN a
     /\ a["provider"] = "openbao"
     /\ a["version"] > 0
     /\ a["aadVersion"] = "v1"
  THEN {[keyIDHash |-> a["keyIDHash"], version |-> a["version"],
         mountHash |-> a["mountHash"], keyHash |-> a["keyHash"],
         namespaceHash |-> IF "namespaceHash" \in DOMAIN a
                           THEN a["namespaceHash"] ELSE <<>>]}
  ELSE {}

\* ValidateForSnapshot.
ValidateForSnapshot(snapshot, parsed) ==
  /\ parsed.version = snapshot.version
  /\ parsed.keyIDHash = HashValue(snapshot)
  /\ parsed.mountHash = HashValue(snapshot.scope.mount)
  /\ parsed.keyHash = HashValue(snapshot.scope.lineage)
  /\ parsed.namespaceHash = IF snapshot.scope.namespace = "" THEN <<>>
                            ELSE HashValue(snapshot.scope.namespace)

\* Mutant: only the scope is bound.
CanonicalOfScope(snapshot, parsed) ==
  [provider |-> snapshot.scope.provider, mount |-> parsed.mountHash,
   key |-> parsed.keyHash]

\* buildCanonicalFromParsed.
buildCanonicalFromParsed(snapshot, parsed) ==
  [provider |-> snapshot.scope.provider,
   cluster |-> HashValue(snapshot.scope.cluster),
   instance |-> HashValue(snapshot.scope.instance),
   namespace |-> parsed.namespaceHash, mount |-> parsed.mountHash,
   key |-> parsed.keyHash, keyID |-> parsed.keyIDHash,
   version |-> snapshot.version]

\* BuildCanonical, and PrepareDecrypt after its lookup: the associated data,
\* or the error's name.
Canonical(snapshot, annotations) ==
  LET parsed == ParseAnnotations(annotations)
      valid == {p \in parsed : ValidateForSnapshot(snapshot, p)}
  IN [err |-> IF parsed = {} THEN "annotations invalid"
              ELSE IF valid = {} THEN "annotation mismatch" ELSE "none",
      aad |-> {buildCanonicalFromParsed(snapshot, p) : p \in valid}]
==============================================================================
