----------------------------- MODULE StateFiles -----------------------------
(***************************************************************************)
(* Registry state files and replay checkpoints as values                   *)
(* (internal/keyregistry/state.go).                                        *)
(*                                                                         *)
(* A state file is a record with at least the fields "generation" and      *)
(* "previousHash"; whatever else it holds (the active key_id and the       *)
(* snapshots, see KeyRegistry) takes part in its hash.  SHA-256 is         *)
(* idealised as an injective function, so a hash is the hashed body itself *)
(* wrapped in a one-tuple, and the empty tuple is the empty string that    *)
(* generation one carries as its previous hash.                            *)
(***************************************************************************)
EXTENDS Naturals

NoHash == <<>>

\* StateFile.computeHash: schema, identity, generation, previous hash, active
\* key_id and snapshots are all hashed; CurrentHash is always this value.
computeHash(s) == <<s>>

NewStateCheckpoint(s) ==
  [generation |-> s.generation, currentHash |-> computeHash(s)]

\* StateCheckpoint.ValidateState: the checkpointed state itself, or its direct
\* hash-linked successor.
ValidateState(c, s) ==
  \/ s.generation = c.generation /\ computeHash(s) = c.currentHash
  \/ s.generation = c.generation + 1 /\ s.previousHash = c.currentHash

\* The hash link every constructor of a next generation sets up
\* (generation + 1, previous.CurrentHash) and ValidateStateProgress verifies.
\* "previous" is an option: the empty set before bootstrap.
Links(previous, next) ==
  IF previous = {}
  THEN next.generation = 1 /\ next.previousHash = NoHash
  ELSE \A p \in previous : /\ next.generation = p.generation + 1
                           /\ next.previousHash = computeHash(p)

=============================================================================
