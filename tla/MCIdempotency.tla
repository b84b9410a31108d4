------------------------------ MODULE MCIdempotency -----------------------------
(***************************************************************************)
(* Small instances of Idempotency for TLC: one key, since keys never meet. *)
(***************************************************************************)
EXTENDS Idempotency
================================================================================
