----------------------------- MODULE MCEventBus -----------------------------
(***************************************************************************)
(* EventBus for TLC: one or two workers, a stream of two or three entries. *)
(***************************************************************************)
EXTENDS EventBus, TLC

EntryTwo == {2}
=============================================================================
