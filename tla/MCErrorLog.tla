----------------------------- MODULE MCErrorLog -----------------------------
(* An instance of ErrorLog for TLC. *)
EXTENDS ErrorLog, TLC

\* The tasks other than the queue task are alike, and so are the errors.
LogSymmetry == Permutations(Reporters \ {QueueTask}) \cup Permutations(Codes)
=============================================================================
