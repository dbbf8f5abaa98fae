---------------------------- MODULE MCEditSession ----------------------------
(* Small instances of EditSession for TLC. *)
EXTENDS EditSession, FiniteSets

CONSTANT MaxEvents \* bound on the events: states with this many are not explored further

FewEvents == Cardinality(events) < MaxEvents
==============================================================================
