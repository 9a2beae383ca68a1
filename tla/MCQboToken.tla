----------------------------- MODULE MCQboToken -----------------------------
(* QboToken with a few calls. *)
EXTENDS QboToken
=============================================================================
