----------------------------- MODULE MCKmsServer -----------------------------
(* KmsServer for TLC: identities, limits and the failing exchanges.        *)
EXTENDS KmsServer, TLC

Scope(provider) == [provider |-> provider, cluster |-> "c1", instance |-> "i1",
                    namespace |-> "", mount |-> "m1", lineage |-> "l1"]
MCOwnScope == Scope("openbao-kms")
MCOtherScopes == {Scope("other-kms")}

MCMaxConcurrent == [status |-> 1, encrypt |-> 1, decrypt |-> 1]

\* One exchange for each way in which a call fails and the request is not blamed.
MCExchanges == {Failed("tls"), Response(403, "nothing", "fits"),
                Response(503, "sealed", "fits")}

RequestSymmetry == Permutations(Requests)
=============================================================================
