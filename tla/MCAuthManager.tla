---------------------------- MODULE MCAuthManager ----------------------------
(* AuthManager for TLC: callers are interchangeable in safety runs.        *)
EXTENDS AuthManager, TLC

CallerSymmetry == Permutations(Callers)
=============================================================================
