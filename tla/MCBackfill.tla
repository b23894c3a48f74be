----------------------------- MODULE MCBackfill -----------------------------
(* Backfill for TLC: accounts are numbers, and backfill.cfg says how many. *)
EXTENDS Backfill
=============================================================================
