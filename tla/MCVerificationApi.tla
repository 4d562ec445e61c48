-------------------------- MODULE MCVerificationApi --------------------------
(***************************************************************************)
(* VerificationApi on small instances.  Handlers, requests and sessions    *)
(* are interchangeable: no action or property names one of them.           *)
(***************************************************************************)
EXTENDS VerificationApi, TLC

Symmetry == Permutations(Handlers) \cup Permutations(Requests)
              \cup Permutations(Sessions)

=============================================================================
