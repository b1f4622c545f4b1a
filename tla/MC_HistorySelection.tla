------------------------- MODULE MC_HistorySelection -------------------------
(* Three messages: the middle one has a neighbour on each side. *)
EXTENDS HistorySelection

MCN == 3
=============================================================================
