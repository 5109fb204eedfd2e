------------------------------- MODULE MCTape -------------------------------
(***************************************************************************)
(* MarketTape for TLC: few amounts, several ledgers, a ring of two slots   *)
(* so that it wraps around.                                                *)
(***************************************************************************)
EXTENDS MarketTape

Breakers == {[impact |-> 1400, band |-> 1500]}
=============================================================================
