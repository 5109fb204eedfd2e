----------------------------- MODULE MCTimelock -----------------------------
(***************************************************************************)
(* Timelock for TLC: one governed contract, two sets of roles (with and    *)
(* without an executor and an emergency key).                              *)
(***************************************************************************)
EXTENDS Timelock

CONSTANTS a1, a2, core

Guarded == [proposer |-> a1, canceller |-> a2, executor |-> a2,
            emergency |-> a2]
Open == [proposer |-> a2, canceller |-> a1, executor |-> None,
         emergency |-> None]
BothRoles == {Guarded, Open}

OneKey == {<<core, "configure">>}

SomeCalls ==
    {[target |-> core, fn |-> "set_paused", arg |-> 1],
     [target |-> core, fn |-> "set_paused", arg |-> 0],
     [target |-> core, fn |-> "configure", arg |-> 1],
     [target |-> core, fn |-> "cancel_proposal", arg |-> 0],
     [target |-> Self, fn |-> "set_default_delay", arg |-> 2]}
=============================================================================
