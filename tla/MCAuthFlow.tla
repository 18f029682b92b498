----------------------------- MODULE MCAuthFlow -----------------------------
(* AuthFlow with a few identities. *)
EXTENDS AuthFlow
=============================================================================
