------------------------------ MODULE Purchase ------------------------------
(***************************************************************************)
(* What buying a trace with one payment authorization promises, with no    *)
(* ledger, requests or crashes: the facilitator is asked to settle it at   *)
(* most once, the money moves at most once and only when asked, and        *)
(* content is handed out only for money that moved, any number of times.   *)
(***************************************************************************)
EXTENDS Integers

VARIABLES
    asked,      \* how often the facilitator was asked to settle
    taken,      \* the payer's money has moved
    served      \* requests answered with the content

purchaseVars == <<asked, taken, served>>

PurchaseInit == asked = 0 /\ taken = FALSE /\ served = {}

Ask == asked = 0 /\ asked' = 1 /\ UNCHANGED <<taken, served>>

Take == asked = 1 /\ ~taken /\ taken' = TRUE /\ UNCHANGED <<asked, served>>

Serve ==
    /\ taken
    /\ served \subseteq served'
    /\ UNCHANGED <<asked, taken>>

PurchaseNext == Ask \/ Take \/ Serve

PurchaseSpec == PurchaseInit /\ [][PurchaseNext]_purchaseVars
=============================================================================
