----------------------------- MODULE Settlement -----------------------------
(***************************************************************************)
(* What the resolver promises about a market and its bond, with no rules,  *)
(* votes, feeds, windows or entries: the market is decided once and not    *)
(* before it closed; a proposed outcome may be contested once, against a   *)
(* bond; from then on only the decision of the market ends the contest,    *)
(* and the same step says whose the bond is; it is paid out once.          *)
(***************************************************************************)
EXTENDS Integers

CONSTANTS
    Disputers, Treasury,
    Bond            \* what contesting costs

VARIABLES
    closed,     \* the market has closed
    outcome,    \* "open", or the market's final status
    own,        \* it was decided here, not by another resolver
    contest,    \* the open contest, if any: who contests which outcome
    owed,       \* whom the bond is owed to, if anybody
    held        \* bond collateral held

settlementVars == <<closed, outcome, own, contest, owed, held>>

Finals == {"yes", "no", "void"}

SettlementInit ==
    /\ closed = FALSE
    /\ outcome = "open" /\ own = FALSE
    /\ contest = {} /\ owed = {} /\ held = 0

Close ==
    /\ ~closed /\ closed' = TRUE
    /\ UNCHANGED <<outcome, own, contest, owed, held>>

(* The resolver role was elsewhere.                                        *)
DecideElsewhere(o) ==
    /\ outcome = "open" /\ outcome' = o
    /\ UNCHANGED <<closed, own, contest, owed, held>>

DecideHere(o) ==
    /\ closed /\ outcome = "open"
    /\ outcome' = o /\ own' = TRUE
    /\ UNCHANGED closed

Decide(o) ==
    /\ contest = {}
    /\ DecideHere(o)
    /\ UNCHANGED <<contest, owed, held>>

Contest(d, o) ==
    /\ closed /\ ~own
    /\ contest = {} /\ owed = {}
    /\ contest' = {[by |-> d, against |-> o]}
    /\ held' = held + Bond
    /\ UNCHANGED <<closed, outcome, own, owed>>

(* A disputer who was right gets the bond back.                            *)
Rule(o) ==
    /\ DecideHere(o)
    /\ \E c \in contest :
           owed' = {IF o = c.against THEN Treasury ELSE c.by}
    /\ contest' = {}
    /\ UNCHANGED held

(* Nobody ruled, or the guardian stepped in: void, and the bond goes back. *)
CallOff ==
    /\ DecideHere("void")
    /\ \E c \in contest : owed' = {c.by}
    /\ contest' = {}
    /\ UNCHANGED held

Pay ==
    /\ owed # {}
    /\ owed' = {} /\ held' = held - Bond
    /\ UNCHANGED <<closed, outcome, own, contest>>

SettlementNext ==
    \/ Close \/ CallOff \/ Pay
    \/ \E o \in Finals :
           \/ DecideElsewhere(o) \/ Decide(o) \/ Rule(o)
           \/ \E d \in Disputers : Contest(d, o)

SettlementSpec == SettlementInit /\ [][SettlementNext]_settlementVars
=============================================================================
