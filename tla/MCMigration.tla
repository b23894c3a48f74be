---------------------------- MODULE MCMigration ----------------------------
(***************************************************************************)
(* Migration for TLC: two of DiddiGo's users share a phone, and one has a  *)
(* role that the map does not know.                                        *)
(***************************************************************************)
EXTENDS Migration

CONSTANTS d1, d2, d3, p1, p2

MCFirstRows ==
    [i \in {d1, d2, d3} |-> [phone |-> IF i = d3 THEN p2 ELSE p1, known |-> i # d3]]
=============================================================================
