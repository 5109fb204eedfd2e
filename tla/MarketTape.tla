----------------------------- MODULE MarketTape -----------------------------
(***************************************************************************)
(* MarketCore with a history variable: the price each market showed at the *)
(* end of every past ledger.  The price accumulator and the price band are *)
(* claims about that history, which the contract does not store.           *)
(***************************************************************************)
EXTENDS MarketCore, Sequences

VARIABLE tape   \* tape[t + 1][id]: price of id held during [t, t + 1)

tapeVars == <<vars, tape>>

NoPrice == 0

(* The price trades left behind; settled pools no longer have one.         *)
HeldPrice(id) == IF Exists(id) THEN oracle[id].lastPrice ELSE NoPrice

TapeInit == Init /\ tape = << >>

TapeNext ==
    /\ Next
    /\ tape' = IF now' = now THEN tape
               ELSE Append(tape, [id \in MarketIds |-> HeldPrice(id)])

TapeSpec == TapeInit /\ [][TapeNext]_tapeVars

-----------------------------------------------------------------------------
(* The read-only entrypoints a wallet calls before it trades.  None writes *)
(* storage, so each is an operator on the present state; one that may fail *)
(* comes with the condition under which it answers.                        *)

GetPrice(id, o) == IF o = "yes" THEN Price(id) ELSE BPS - Price(id)

PriceCumulative(id) == ObserveAt(oracle[id], now)

(* now.saturating_sub(secs)                                                *)
Ago(secs) == IF secs > now THEN 0 ELSE now - secs

ObserveOk(id, secs) == ~TooOld(oracle[id], Ago(secs))
Observe(id, secs) == ObserveAt(oracle[id], Ago(secs))

TwapOk(id, window) == window > 0 /\ ObserveOk(id, window)
Twap(id, window) ==
    (PriceCumulative(id) - Observe(id, window)) \div window

(* What calc_buy and calc_sell make of the pool as it stands.              *)
BuyNow(id, o, amt) ==
    CalcBuy(market[id].reserve[o], market[id].reserve[Other(o)], amt,
            market[id].feeBps)
BuyNowOk(id, o, amt) ==
    BuyOk(market[id].reserve[o], market[id].reserve[Other(o)], amt,
          market[id].feeBps)
SellNow(id, o, out) ==
    CalcSell(market[id].reserve[o], market[id].reserve[Other(o)], out,
             market[id].feeBps)
SellNowOk(id, o, out) ==
    SellOk(market[id].reserve[o], market[id].reserve[Other(o)], out,
           market[id].feeBps)

QuoteBuy(id, o, amt) == BuyNow(id, o, amt).shares
QuoteSell(id, o, out) == SellNow(id, o, out).shares

(* The band reference of this ledger, if a trade has set one.              *)
BreakerState(id) ==
    IF band[id].ledger = now THEN {band[id].ref} ELSE {}

PriceAfterBuy(id, o, amt) ==
    LET q == BuyNow(id, o, amt)
    IN  PriceYesBps(ReservesWith(o, q.newBought, q.newOther))

(* Mutant: the reference of an earlier ledger is still used.               *)
WouldTripOnOldBand(id, o, amt) ==
    LET cfg  == terms[id].breaker
        post == PriceAfterBuy(id, o, amt)
        ref  == IF band[id].ledger >= 0 THEN band[id].ref ELSE Price(id)
    IN  \/ cfg.impact > 0 /\ AbsDiff(post, Price(id)) > cfg.impact
        \/ cfg.band > 0 /\ AbsDiff(post, ref) > cfg.band

(* would_trip() does its own reading of the band: it may not write one.    *)
WouldTrip(id, o, amt) ==
    LET cfg  == terms[id].breaker
        post == PriceAfterBuy(id, o, amt)
    IN  \/ cfg.impact > 0 /\ AbsDiff(post, Price(id)) > cfg.impact
        \/ /\ cfg.band > 0
           /\ \A ref \in IF BreakerState(id) = {} THEN {Price(id)}
                         ELSE BreakerState(id) :
                  AbsDiff(post, ref) > cfg.band

-----------------------------------------------------------------------------
(* The exact time integral up to time t of the prices of id on a tape.     *)
Integral(prices, id, t) == SumFunction([u \in 1 .. t |-> prices[u][id]])

(* Wherever the ring still reaches, observe() is the exact integral of the *)
(* price each past ledger ended with, and twap() its floored mean over the *)
(* window, across wrap-around of the ring, several trades in one ledger,   *)
(* ledgers without trades and windows that extend past the close.          *)
ObserveIsExact ==
    \A id \in MarketIds : Exists(id) =>
        LET Sum(t) == Integral(tape, id, t) IN
        \A s \in 0 .. now :
            /\ ObserveOk(id, s) => Observe(id, s) = Sum(now - s)
            /\ TwapOk(id, s) =>
                   Twap(id, s) = (Sum(now) - Sum(now - s)) \div s

(* With a band configured, the price never strays from the price the       *)
(* ledger opened with by more than the band, however many trades by        *)
(* however many traders land in the ledger (check_breakers, band_ref).     *)
BandHolds ==
    \A id \in MarketIds :
        LET b == terms[id].breaker.band IN
        /\ market[id].status = "open" /\ b > 0
        /\ now > 0 /\ tape[now][id] # NoPrice
        => AbsDiff(GetPrice(id, "yes"), tape[now][id]) <= b

(* Why it does: the accumulator holds the price trades left behind, a      *)
(* market was not priced before it existed, and in a ledger that has seen  *)
(* no trade of the market the price is the one the ledger opened with,     *)
(* which the first trade then keeps as the reference.                      *)
OracleType ==
    [cum : Nat, lastTs : Nat, lastPrice : Nat, index : 0 .. OracleRing - 1,
     count : 0 .. OracleRing,
     obs : [0 .. OracleRing - 1 -> [ts : Nat, cum : Nat]]]

BandType == [ledger : Int, ref : Nat]

TapeTypes ==
    /\ tape \in Seq([MarketIds -> Nat]) /\ Len(tape) = now
    /\ oracle \in [MarketIds -> OracleType]
    /\ band \in [MarketIds -> BandType]

BandFollows(id) ==
    LET open == tape[now][id] IN
    /\ band[id].ledger <= now
    /\ market[id].status = "none" /\ now > 0 => open = NoPrice
    /\ market[id].status = "open" =>
          /\ market[id].reserve["yes"] + market[id].reserve["no"] > 0
          /\ oracle[id].lastPrice = Price(id)
          /\ terms[id].breaker.band > 0 /\ now > 0 /\ open # NoPrice =>
                /\ BandRef(id) = open
                /\ AbsDiff(Price(id), open) <= terms[id].breaker.band

TapeInv == TapeTypes /\ \A id \in MarketIds : BandFollows(id)

(* The inductive invariant of ObserveIsExact.  The observation made j      *)
(* before the newest: the newest is the accumulator itself, each older one *)
(* is the integral at an earlier time, between two of them the price stood *)
(* still, and since the newest it is the last price.                       *)
Aged(st, j) == st.obs[(st.index + OracleRing - j) % OracleRing]

Recorded(st, prices, id) ==
    LET At(j) == Aged(st, j).ts IN
    /\ st.count > 0 /\ st.lastTs <= Len(prices)
    /\ Aged(st, 0) = [ts |-> st.lastTs, cum |-> st.cum]
    /\ \A u \in st.lastTs + 1 .. Len(prices) : prices[u][id] = st.lastPrice
    /\ \A j \in 0 .. st.count - 1 :
          Aged(st, j).cum = Integral(prices, id, At(j))
    /\ \A i, j \in 0 .. st.count - 1 : i < j => At(j) < At(i)
    /\ \A j \in 1 .. st.count - 1 : \A u \in At(j) + 1 .. At(j - 1) :
          prices[u][id] = prices[At(j - 1)][id]

(* A market has no observation and no price before it is created.          *)
Unrecorded(st, prices, id) ==
    st = NoOracle /\ \A u \in 1 .. Len(prices) : prices[u][id] = NoPrice

OracleInv ==
    \A id \in MarketIds : IF Exists(id) THEN Recorded(oracle[id], tape, id)
                          ELSE Unrecorded(oracle[id], tape, id)

(* The previews agree with the trades that follow them in the same ledger, *)
(* whatever trades came before: a buy that asks for what quote_buy said    *)
(* goes through exactly when would_trip said no, one share more is         *)
(* refused, and a sell that offers what quote_sell said is refused only by *)
(* the breakers or for want of shares.                                     *)
ViewsForetellTrades ==
    \A h \in Holders, id \in MarketIds, o \in Outcomes, a \in AmountChoices :
        Tradable(id) =>
            /\ BuyNowOk(id, o, a) /\ market[id].sets + a <= MaxSets =>
                   LET q == QuoteBuy(id, o, a) IN
                   /\ ENABLED Buy(h, id, o, a, q) <=> ~WouldTrip(id, o, a)
                   /\ ~ENABLED Buy(h, id, o, a, q + 1)
            /\ SellNowOk(id, o, a) =>
                   LET q == SellNow(id, o, a) IN
                   ENABLED Sell(h, id, o, a, QuoteSell(id, o, a)) <=>
                       /\ pos[id][h][o] >= QuoteSell(id, o, a)
                       /\ BreakersPass(id,
                             ReservesWith(o, q.newSold, q.newOther))
=============================================================================
