--------------------------- MODULE PaymentsProofs ---------------------------
(***************************************************************************)
(* The sale of a trace implements a purchase, for any number of requests   *)
(* and crashes.                                                            *)
(***************************************************************************)
EXTENDS Payments, TLAPS

Places == {"idle", "load", "verify", "verified", "settle", "waiting",
           "deliver", "sent", "done"}

(* Before and after the facilitator was asked, in the claimant's hands.    *)
Preparing == {"verify", "verified", "settle"}
InHand == Preparing \cup {"waiting"}

Types ==
    /\ at \in [Requests -> Places]
    /\ entry \in {"none", "failed", "indeterminate"} \cup Stuck \cup Replayable
    /\ call \in {"no", "sent", "dropped", "answered"}
    /\ charged \in BOOLEAN /\ expired \in BOOLEAN
    /\ asks \in {0, 1}

(* Of the requests, one claimed the payment, and the row of the ledger is  *)
(* where its owner left it.                                                *)
OneOwner == \A r, s \in Requests : at[r] \in InHand /\ at[s] \in InHand => r = s

RowFollowsOwner ==
    \A r \in Requests :
        /\ at[r] \in {"verify", "verified"} => entry = "verifying"
        /\ at[r] \in {"settle", "waiting"} => entry = "settling"
        /\ at[r] \in {"deliver", "sent"} => entry \in Replayable

AskedByOwner ==
    /\ entry = "none" => asks = 0
    /\ \A r \in Requests : at[r] \in Preparing => asks = 0
    /\ call # "no" => asks = 1
    /\ charged => asks = 1

PaidBeforeReplay == entry \in Replayable => charged

PayInv == Types /\ OneOwner /\ RowFollowsOwner /\ AskedByOwner /\ PaidBeforeReplay

LEMMA InitHolds == PayInit => PayInv
BY DEF PayInit, PayInv, Types, OneOwner, RowFollowsOwner, AskedByOwner,
       PaidBeforeReplay, Places, Preparing, InHand, Stuck, Replayable

(* Every step of a request, of the facilitator and of the process keeps    *)
(* the payment with its owner.                                             *)
LEMMA StepHolds == PayInv /\ [PayNext]_payVars => PayInv'
<1> SUFFICES ASSUME PayInv, [PayNext]_payVars PROVE PayInv'
  OBVIOUS
<1> USE DEF PayInv, Types, OneOwner, RowFollowsOwner, AskedByOwner,
            PaidBeforeReplay, Places, Preparing, InHand, Stuck, Replayable,
            Goto, Transition
<1>1. ASSUME NEW r \in Requests, Receive(r) PROVE PayInv'
  BY <1>1 DEF Receive
<1>2. ASSUME NEW r \in Requests, LoadFails(r) PROVE PayInv'
  BY <1>2 DEF LoadFails
<1>3. ASSUME NEW r \in Requests, Claim(r) PROVE PayInv'
  BY <1>3 DEF Claim
<1>4. ASSUME NEW r \in Requests, NEW ok \in BOOLEAN, Verify(r, ok) PROVE PayInv'
  BY <1>4 DEF Verify
<1>5. ASSUME NEW r \in Requests, BeginSettle(r) PROVE PayInv'
  BY <1>5 DEF BeginSettle
<1>6. ASSUME NEW r \in Requests, SendSettle(r) PROVE PayInv'
  BY <1>6 DEF SendSettle
<1>7. ASSUME NEW r \in Requests, SettleSucceeds(r) PROVE PayInv'
  BY <1>7 DEF SettleSucceeds
<1>8. ASSUME NEW r \in Requests, SettleRefused(r) PROVE PayInv'
  BY <1>8 DEF SettleRefused
<1>9. ASSUME NEW r \in Requests, NEW timedOut \in BOOLEAN,
             SettleUnknown(r, timedOut)
      PROVE  PayInv'
  BY <1>9 DEF SettleUnknown
<1>10. ASSUME NEW r \in Requests, Deliver(r) PROVE PayInv'
  BY <1>10 DEF Deliver
<1>11. ASSUME NEW r \in Requests, Finish(r) PROVE PayInv'
  BY <1>11 DEF Finish
<1>12. CASE Land
  BY <1>12 DEF Land
<1>13. CASE Answer
  BY <1>13 DEF Answer
<1>14. CASE LoseAnswer
  BY <1>14 DEF LoseAnswer
<1>15. CASE Expire
  BY <1>15 DEF Expire
<1>16. CASE Restart
  BY <1>16 DEF Restart
<1>17. CASE UNCHANGED payVars
  BY <1>17 DEF payVars
<1> QED
  BY <1>1, <1>2, <1>3, <1>4, <1>5, <1>6, <1>7, <1>8, <1>9, <1>10, <1>11,
     <1>12, <1>13, <1>14, <1>15, <1>16, <1>17 DEF PayNext

(* A step of the service is a step of the purchase or none: asking,        *)
(* charging and serving happen in that order and the first two once.       *)
LEMMA StepRefines ==
    PayInv /\ [PayNext]_payVars => [P!PurchaseNext]_(P!purchaseVars)
<1> SUFFICES ASSUME PayInv, [PayNext]_payVars
             PROVE  [P!PurchaseNext]_(P!purchaseVars)
  OBVIOUS
<1> USE DEF P!purchaseVars
<1>1. ASSUME NEW r \in Requests, SendSettle(r) PROVE P!Ask
  BY <1>1 DEF SendSettle, P!Ask, PayInv, AskedByOwner, Preparing
<1>2. ASSUME NEW r \in Requests, Deliver(r) PROVE P!Serve
  BY <1>2 DEF Deliver, P!Serve, PayInv, RowFollowsOwner, PaidBeforeReplay
<1>3. CASE Land
  <2>1. P!Take
    BY <1>3 DEF Land, P!Take, PayInv, AskedByOwner
  <2> QED BY <2>1 DEF P!PurchaseNext
<1>4. ASSUME NEW r \in Requests,
             \/ Receive(r) \/ LoadFails(r) \/ Claim(r)
             \/ \E ok \in BOOLEAN : Verify(r, ok)
             \/ BeginSettle(r) \/ SettleSucceeds(r) \/ SettleRefused(r)
             \/ \E timedOut \in BOOLEAN : SettleUnknown(r, timedOut)
             \/ Finish(r)
      PROVE  UNCHANGED <<asks, charged, answered>>
  BY <1>4 DEF Receive, LoadFails, Claim, Verify, BeginSettle, SettleSucceeds,
              SettleRefused, SettleUnknown, Finish
<1>5. ASSUME Answer \/ LoseAnswer \/ Expire \/ Restart \/ UNCHANGED payVars
      PROVE  UNCHANGED <<asks, charged, answered>>
  BY <1>5 DEF Answer, LoseAnswer, Expire, Restart, payVars
<1> QED
  BY <1>1, <1>2, <1>3, <1>4, <1>5 DEF PayNext, P!PurchaseNext

(* The handler of GET /traces/:traceId over the durable ledger implements  *)
(* the purchase it promises, however many requests present the payment and *)
(* however often the process dies.                                         *)
THEOREM SaleIsAPurchase == PaySpec => BehavesAsPurchase
<1>1. PayInit => P!PurchaseInit
  BY DEF PayInit, P!PurchaseInit
<1> QED
  BY <1>1, InitHolds, StepHolds, StepRefines, PTL
     DEF PaySpec, BehavesAsPurchase, P!PurchaseSpec
=============================================================================
