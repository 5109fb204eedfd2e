------------------------------ MODULE Payments ------------------------------
(***************************************************************************)
(* x402: GET /traces/:traceId of trace-api.ts over the payment ledger, for *)
(* one payment authorization presented by several requests at once.  Every *)
(* await of the handler is a place where another request, the facilitator  *)
(* or a crash of the process may step in.  The ledger is the durable one   *)
(* (SQLite), and there is one process, restarted after a crash.            *)
(***************************************************************************)
EXTENDS Integers, FiniteSets

CONSTANTS
    Requests,       \* requests that carry the payment
    MaxCrashes      \* bound: crashes of the process

VARIABLES
    entry,          \* state of the payment in the ledger, "none" if absent
    at,             \* where each request is
    call,           \* the call to /settle: "no", "sent", "dropped", "answered"
    asks,           \* calls to /settle
    charged,        \* the transaction landed
    answered,       \* requests answered with the content
    expired,        \* the payment's deadline has passed
    crashes

payVars == <<entry, at, call, asks, charged, answered, expired, crashes>>

Stuck == {"verifying", "settling"}
Replayable == {"settled", "delivered"}

Goto(r, place) == at' = [at EXCEPT ![r] = place]

(* ledger.transition(): a compare-and-set of the row.                      *)
Transition(from, to) == entry \in from /\ entry' = to

-----------------------------------------------------------------------------
(* The handler.                                                            *)

(* ledger.get(): an unknown payment goes on, a settled one is replayed,    *)
(* anything else is answered 409; after the deadline, 402.                 *)
Receive(r) ==
    /\ at[r] = "idle"
    /\ Goto(r, CASE expired -> "done"
                 [] ~expired /\ entry = "none" -> "load"
                 [] ~expired /\ entry \in Replayable -> "deliver"
                 [] OTHER -> "done")
    /\ UNCHANGED <<entry, call, asks, charged, answered, expired, crashes>>

(* The trace is not found, does not verify or does not load in time.       *)
LoadFails(r) ==
    /\ at[r] = "load"
    /\ Goto(r, "done")
    /\ UNCHANGED <<entry, call, asks, charged, answered, expired, crashes>>

(* Mutant: a second claim of a payment takes it over.                      *)
ClaimAnyway(r) ==
    /\ at[r] = "load"
    /\ entry' = "verifying"
    /\ Goto(r, "verify")
    /\ UNCHANGED <<call, asks, charged, answered, expired, crashes>>

(* ledger.claim(): of the requests that saw no entry, one creates it.      *)
Claim(r) ==
    /\ at[r] = "load"
    /\ IF entry = "none"
       THEN entry' = "verifying" /\ Goto(r, "verify")
       ELSE UNCHANGED entry /\ Goto(r, "done")
    /\ UNCHANGED <<call, asks, charged, answered, expired, crashes>>

(* processHTTPRequest(), accepted or not; a failure of the call ends in    *)
(* the catch block, which also records the failure.                        *)
Verify(r, ok) ==
    /\ at[r] = "verify"
    /\ IF ok THEN Goto(r, "verified") /\ UNCHANGED entry
       ELSE Transition({"verifying"}, "failed") /\ Goto(r, "done")
    /\ UNCHANGED <<call, asks, charged, answered, expired, crashes>>

(* The durable transition comes before the call.                           *)
BeginSettle(r) ==
    /\ at[r] = "verified"
    /\ Transition({"verifying"}, "settling")
    /\ Goto(r, "settle")
    /\ UNCHANGED <<call, asks, charged, answered, expired, crashes>>

SendSettle(r) ==
    /\ at[r] = "settle"
    /\ call' = "sent" /\ asks' = asks + 1
    /\ Goto(r, "waiting")
    /\ UNCHANGED <<entry, charged, answered, expired, crashes>>

(* The receipt is recorded, then the content is sent.                      *)
SettleSucceeds(r) ==
    /\ at[r] = "waiting"
    /\ call = "answered" /\ charged
    /\ Transition({"settling"}, "settled")
    /\ Goto(r, "deliver")
    /\ UNCHANGED <<call, asks, charged, answered, expired, crashes>>

(* The facilitator says no: onSettleFailure, or the handler after it.      *)
SettleRefused(r) ==
    /\ at[r] = "waiting"
    /\ call = "answered" /\ ~charged
    /\ Transition({"settling"}, "failed")
    /\ Goto(r, "done")
    /\ UNCHANGED <<call, asks, charged, answered, expired, crashes>>

(* No answer: a timeout is indeterminate, any other error of the call is   *)
(* recorded as failed.  The transaction may still land.                    *)
SettleUnknown(r, timedOut) ==
    /\ at[r] = "waiting"
    /\ Transition({"settling"}, IF timedOut THEN "indeterminate" ELSE "failed")
    /\ Goto(r, "done")
    /\ UNCHANGED <<call, asks, charged, answered, expired, crashes>>

Deliver(r) ==
    /\ at[r] = "deliver"
    /\ answered' = answered \cup {r}
    /\ Goto(r, "sent")
    /\ UNCHANGED <<entry, call, asks, charged, expired, crashes>>

(* res "finish".                                                           *)
Finish(r) ==
    /\ at[r] = "sent"
    /\ Transition(Replayable, "delivered")
    /\ Goto(r, "done")
    /\ UNCHANGED <<call, asks, charged, answered, expired, crashes>>

-----------------------------------------------------------------------------
(* The facilitator and the chain, the clock, and crashes.                  *)

Land ==
    /\ call \in {"sent", "dropped"} /\ ~charged
    /\ charged' = TRUE
    /\ UNCHANGED <<entry, at, call, asks, answered, expired, crashes>>

Answer ==
    /\ call = "sent"
    /\ call' = "answered"
    /\ UNCHANGED <<entry, at, asks, charged, answered, expired, crashes>>

LoseAnswer ==
    /\ call = "sent"
    /\ call' = "dropped"
    /\ UNCHANGED <<entry, at, asks, charged, answered, expired, crashes>>

Expire ==
    /\ ~expired /\ expired' = TRUE
    /\ UNCHANGED <<entry, at, call, asks, charged, answered, crashes>>

(* The process dies with its requests; at startup reconcileStuck(0) marks  *)
(* what was in progress.                                                   *)
Restart ==
    /\ crashes < MaxCrashes /\ crashes' = crashes + 1
    /\ at' = [r \in Requests |-> IF at[r] = "idle" THEN "idle" ELSE "done"]
    /\ call' = IF call = "sent" THEN "dropped" ELSE call
    /\ entry' = IF entry \in Stuck THEN "indeterminate" ELSE entry
    /\ UNCHANGED <<asks, charged, answered, expired>>

-----------------------------------------------------------------------------
PayInit ==
    /\ entry = "none"
    /\ at = [r \in Requests |-> "idle"]
    /\ call = "no" /\ asks = 0 /\ charged = FALSE
    /\ answered = {} /\ expired = FALSE /\ crashes = 0

PayNext ==
    \/ \E r \in Requests :
          \/ Receive(r) \/ LoadFails(r) \/ Claim(r)
          \/ \E ok \in BOOLEAN : Verify(r, ok)
          \/ BeginSettle(r) \/ SendSettle(r)
          \/ SettleSucceeds(r) \/ SettleRefused(r)
          \/ \E timedOut \in BOOLEAN : SettleUnknown(r, timedOut)
          \/ Deliver(r) \/ Finish(r)
    \/ Land \/ Answer \/ LoseAnswer \/ Expire \/ Restart

PaySpec == PayInit /\ [][PayNext]_payVars

-----------------------------------------------------------------------------
P == INSTANCE Purchase WITH asked <- asks, taken <- charged, served <- answered

(* Whatever requests carry the payment at once, and wherever the process   *)
(* dies, a purchase behaves as one: the facilitator is asked at most once  *)
(* for it, and the content leaves the server only after the money moved.   *)
BehavesAsPurchase == P!PurchaseSpec
=============================================================================
