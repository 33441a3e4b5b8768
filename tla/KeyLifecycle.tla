---------------------------- MODULE KeyLifecycle ----------------------------
(***************************************************************************)
(* What one node's registry promises: the life of its key_ids, as the      *)
(* state diagram of docs/architecture/rotation-model.md draws it.  How     *)
(* observations are counted, saved, recovered and published is left to     *)
(* StatusController, whose visible state file implements this module.      *)
(***************************************************************************)
EXTENDS Naturals

CONSTANT Keys     \* key_ids, with the field "version"

VARIABLE life     \* the state of every key_id

Stages == {"unknown", "pending", "active", "retired", "removed"}

In(stage) == {k \in Keys : life[k] = stage}

Init == life = [k \in Keys |-> "unknown"]

Bootstrap ==
  /\ In("unknown") = Keys
  /\ \E k \in Keys : life' = [life EXCEPT ![k] = "active"]

\* A candidate that is newer than the active key is learnt, together with
\* versions that were skipped; an older candidate is kept for decryption.
Learnt(candidate, skipped) ==
  [k \in Keys |-> IF k = candidate THEN "pending"
                  ELSE IF k \in skipped \/ life[k] = "pending" THEN "retired"
                  ELSE life[k]]

Newer(candidate, skipped) ==
  /\ In("active") # {}
  /\ life[candidate] \in {"unknown", "pending"}
  /\ \A a \in In("active"), k \in skipped \union {candidate} :
       k.version > a.version

Observe(candidate, skipped) ==
  /\ Newer(candidate, skipped)
  /\ life' = Learnt(candidate, skipped)

\* The active key is replaced by the candidate.
Promote(candidate, skipped) ==
  /\ Newer(candidate, skipped)
  /\ life' = [k \in Keys |->
                IF k = candidate THEN "active"
                ELSE IF life[k] = "active" THEN "retired"
                ELSE Learnt(candidate, skipped)[k]]

Older(keys) == \A a \in In("active"), k \in keys : k.version < a.version

\* retire-versions and restore-versions.
Move(keys, to) ==
  /\ Older(keys)
  /\ life' = [k \in Keys |-> IF k \in keys THEN to ELSE life[k]]

Retire(keys) == keys \subseteq In("retired") /\ Move(keys, "removed")

Restore(keys) == keys \subseteq In("removed") /\ Move(keys, "retired")

Next ==
  \/ Bootstrap
  \/ \E candidate \in Keys, skipped \in SUBSET In("unknown") :
       Observe(candidate, skipped) \/ Promote(candidate, skipped)
  \/ \E keys \in SUBSET Keys : Retire(keys) \/ Restore(keys)

Spec == Init /\ [][Next]_life

-----------------------------------------------------------------------------
(* What follows from it.                                                   *)

\* Every key_id is in one of the stages of the diagram.
TypeOK == life \in [Keys -> Stages]

\* After bootstrap there is exactly one active key.
OneActive == \/ In("unknown") = Keys
             \/ \E k \in Keys : In("active") = {k}

\* The active key is only ever replaced by a newer one.
ActiveMovesForward ==
  [][\A a \in In("active") : \A b \in In("active")' :
       a = b \/ b.version > a.version]_life

\* A key that has left the active state never becomes active again.
NoReturn ==
  [][\A k \in Keys : life[k] \in {"retired", "removed"} => life'[k] # "active"]_life

\* Nothing that could once be decrypted is forgotten: it is decryptable, or it
\* is recorded as removed and can be restored.
NothingForgotten ==
  [][\A k \in Keys : life[k] # "unknown" =>
       /\ life'[k] # "unknown"
       /\ life[k] \in {"active", "pending"} => life'[k] # "removed"]_life

=============================================================================
