---------------------------- MODULE MCMarketCore ----------------------------
(***************************************************************************)
(* MarketCore for TLC.  The runs differ in their .cfg only.                *)
(***************************************************************************)
EXTENDS MarketCore, TLC

(* Holders are interchangeable: no operation tells one address from another. *)
HolderSymmetry == Permutations(Holders)

NoBreakers == {}

Breakers == {[impact |-> 4000, band |-> 4500]}

(* Administration is explored around one market, and batches over two      *)
(* markets under the configuration of the deployment.                      *)
OneConcern ==
    /\ nextId = MaxMarkets => UNCHANGED <<config, pending>>
    /\ nextId' = MaxMarkets /\ nextId < MaxMarkets =>
           /\ config.breaker = NoBreaker
           /\ pending = [treasury |-> NoAddr, resolver |-> NoAddr]
           /\ {config.treasury, config.resolver} \cap Peers = {}
=============================================================================
