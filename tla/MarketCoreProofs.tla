-------------------------- MODULE MarketCoreProofs --------------------------
(* Proofs about MarketCore, for every number of holders and markets, every *)
(* fee, price and amount.                                                  *)
EXTENDS MarketTape, MathProofs

LEMMA OtherOutcome ==
    ASSUME NEW o \in Outcomes
    PROVE  /\ Other(o) \in Outcomes /\ Other(o) # o
           /\ \A x \in Outcomes : x = o \/ x = Other(o)
BY DEF Outcomes, Other

(* A comparison of products does not depend on which side is named first.  *)
LEMMA SameProduct ==
    ASSUME NEW a \in [Outcomes -> Nat], NEW b \in [Outcomes -> Nat],
           NEW o \in Outcomes, a[o] * a[Other(o)] >= b[o] * b[Other(o)]
    PROVE  a.yes * a.no >= b.yes * b.no
<1>1. PICK ay \in Nat, an \in Nat, by \in Nat, bn \in Nat :
          ay = a["yes"] /\ an = a["no"] /\ by = b["yes"] /\ bn = b["no"]
  BY DEF Outcomes
<1>2. CASE o = "yes"
  BY <1>1, <1>2 DEF Other
<1>3. CASE o = "no"
  <2>1. an * ay >= bn * by
    BY <1>1, <1>3 DEF Other
  <2> QED
    BY <1>1, <2>1
<1> QED
  BY <1>2, <1>3 DEF Outcomes

(* A settled pair of shares is worth a natural number.                     *)
LEMMA SettleValueNat ==
    ASSUME NEW kind \in {"yes", "no", "void"}, NEW p \in [Outcomes -> Nat]
    PROVE  SettleValue(kind, p) \in Nat
<1>1. p["yes"] \in Nat /\ p["no"] \in Nat
  BY DEF Outcomes
<1> QED
  BY <1>1 DEF SettleValue

(* The bound on outstanding shares is an integer.                          *)
LEMMA SettleUpperInt ==
    ASSUME NEW kind \in {"yes", "no", "void"}, NEW p \in [Outcomes -> Int]
    PROVE  SettleUpper(kind, p) \in Int
<1>1. p["yes"] \in Int /\ p["no"] \in Int
  BY DEF Outcomes
<1> QED
  BY <1>1 DEF SettleUpper

(* The deployed contract satisfies the inductive invariant.                *)
LEMMA InitIInv == Init => IInv
<1> SUFFICES ASSUME Init PROVE IInv
  OBVIOUS
<1>1. Zero \in [Outcomes -> Nat] /\ Zero \in [Outcomes -> Int]
  BY DEF Zero
<1>2. /\ NoMarket \in MarketType /\ NoSettle \in SettleType
      /\ NoTerms \in TermsType
  <2>1. 0 \in FeeRange /\ 0 \in 0 .. BPS
    BY DEF FeeRange, BPS
  <2>2. NoMarket \in MarketType
    BY <1>1, <2>1 DEF NoMarket, MarketType
  <2>3. NoSettle \in SettleType
    BY <1>1 DEF NoSettle, SettleType
  <2>4. NoTerms \in TermsType
    BY <2>1 DEF NoTerms, NoBreaker, TermsType
  <2> QED
    BY <2>2, <2>3, <2>4
<1>3. TypeOK
  <2>1. config \in ConfigType /\ pending \in PendingType
    BY DEF Init, ConfigType, PendingType
  <2>2. now \in 0 .. MaxTime /\ nextId \in 0 .. MaxMarkets
    BY MarketCoreAssumption DEF Init
  <2>3. /\ market \in [MarketIds -> MarketType]
        /\ terms \in [MarketIds -> TermsType]
        /\ settle \in [MarketIds -> SettleType]
    BY <1>2 DEF Init
  <2>4. pos \in [MarketIds -> [Holders -> [Outcomes -> Nat]]]
    BY <1>1 DEF Init
  <2>5. /\ lpFees \in [MarketIds -> Nat] /\ held \in [MarketIds -> Int]
        /\ feesPaid \in [MarketIds -> [Treasuries -> Nat]]
    BY DEF Init
  <2> QED
    BY <2>1, <2>2, <2>3, <2>4, <2>5 DEF TypeOK
<1>4. Safe
  BY DEF Init, Safe, OpenBacked, SweepsReachFrozenRecipient, Fresh,
         ClosedIsDone, NoMarket, NoSettle
<1> QED
  BY <1>3, <1>4 DEF IInv

-----------------------------------------------------------------------------
(* create_market: the seed backs the pool's reserves and the creator's     *)
(* shares.                                                                 *)
LEMMA CreateStep ==
    ASSUME IInv, NEW c \in Holders, NEW t \in CloseChoices,
           NEW s \in SeedChoices, NEW p \in ProbChoices,
           CreateMarket(c, t, s, p)
    PROVE  IInv'
<1> USE DEF IInv
<1>1. s \in Nat /\ p \in Nat /\ t \in Nat /\ SeedOk(s, p)
  BY MarketCoreAssumption DEF CreateMarket
<1>2. /\ SeedReserves(s, p) \in [Outcomes -> Nat]
      /\ CreatorShares(s, p) \in [Outcomes -> Nat]
      /\ \A o \in Outcomes :
             SeedReserves(s, p)[o] + CreatorShares(s, p)[o] = s
  BY <1>1, SeedFacts
<1>3. PICK r \in [Outcomes -> Nat], k \in [Outcomes -> Nat] :
          /\ r = SeedReserves(s, p) /\ k = CreatorShares(s, p)
          /\ \A o \in Outcomes : r[o] + k[o] = s
  BY <1>2
<1>4. nextId \in MarketIds /\ nextId' = nextId + 1 /\ nextId' \in 0 .. MaxMarkets
  <2>1. nextId < MaxMarkets /\ nextId' = nextId + 1
    BY DEF CreateMarket
  <2>2. nextId \in 0 .. MaxMarkets /\ MaxMarkets \in Nat
    BY MarketCoreAssumption DEF TypeOK
  <2> QED
    BY <2>1, <2>2 DEF MarketIds
<1>5. /\ config.feeBps \in FeeRange /\ config.share \in 0 .. BPS
      /\ config.breaker \in [impact : 0 .. BPS, band : 0 .. BPS]
      /\ config.horizon \in Nat /\ config.treasury \in Treasuries
  <2>1. NoBreaker \in [impact : 0 .. BPS, band : 0 .. BPS]
    BY DEF NoBreaker, BPS
  <2>2. /\ config.feeBps \in FeeChoices /\ config.share \in ShareChoices
        /\ config.breaker \in BreakerChoices \cup {NoBreaker}
        /\ config.horizon \in HorizonChoices
        /\ config.treasury \in Treasuries
    BY DEF TypeOK, ConfigType
  <2>3. /\ \A f \in FeeChoices : f \in FeeRange
        /\ \A f \in ShareChoices : f \in 0 .. BPS
        /\ \A d \in HorizonChoices : d \in Nat
    BY MarketCoreAssumption
  <2>4. \A b \in BreakerChoices : b \in [impact : 0 .. BPS, band : 0 .. BPS]
    BY MarketCoreAssumption
  <2>5. config.breaker \in [impact : 0 .. BPS, band : 0 .. BPS]
    BY <2>1, <2>2, <2>4
  <2> QED
    BY <2>2, <2>3, <2>5
<1>6. /\ market' = [market EXCEPT ![nextId] =
            [creator |-> c, close |-> t, feeBps |-> config.feeBps,
             status |-> "open", reserve |-> r, sets |-> s, fees |-> 0,
             lpClaimed |-> FALSE]]
      /\ settle' = [settle EXCEPT ![nextId] =
            [outstanding |-> k, finalizedAt |-> 0,
             horizon |-> config.horizon, paidOut |-> 0, closed |-> FALSE]]
      /\ pos' = [pos EXCEPT ![nextId][c] = k]
      /\ held' = [held EXCEPT ![nextId] = @ + s]
      /\ UNCHANGED <<now, config, pending, lpFees, feesPaid>>
  BY <1>3 DEF CreateMarket
<1>7. terms' = [terms EXCEPT ![nextId] =
            [recipient |-> config.treasury, share |-> config.share,
             breaker |-> config.breaker]]
  BY DEF CreateMarket
<1>8. k \in [Outcomes -> Int]
  OBVIOUS
<1>9. market' \in [MarketIds -> MarketType]
  BY <1>1, <1>3, <1>4, <1>5, <1>6 DEF TypeOK, MarketType
<1>10. settle' \in [MarketIds -> SettleType]
  BY <1>3, <1>4, <1>5, <1>6, <1>8 DEF TypeOK, SettleType
<1>11. terms' \in [MarketIds -> TermsType]
  BY <1>4, <1>5, <1>7 DEF TypeOK, TermsType
<1>12. /\ pos' \in [MarketIds -> [Holders -> [Outcomes -> Nat]]]
       /\ held' \in [MarketIds -> Int]
  BY <1>1, <1>3, <1>4, <1>6 DEF TypeOK
<1>13. TypeOK'
  BY <1>4, <1>6, <1>9, <1>10, <1>11, <1>12 DEF TypeOK
<1>14. OpenBacked'
  BY <1>1, <1>3, <1>4, <1>6 DEF TypeOK, Safe, OpenBacked, Fresh
<1>15. SweepsReachFrozenRecipient'
  BY <1>4, <1>6, <1>7
     DEF TypeOK, Safe, SweepsReachFrozenRecipient, Fresh
<1>16. Fresh' /\ ClosedIsDone'
  BY <1>4, <1>6 DEF TypeOK, Safe, Fresh, ClosedIsDone, Final, MarketIds
<1> QED
  BY <1>13, <1>14, <1>15, <1>16 DEF Safe

-----------------------------------------------------------------------------
(* The part of a trade that both directions share keeps the invariant when *)
(* its collateral, sets and shares balance.                                *)
LEMMA TradeStep ==
    ASSUME IInv, NEW h \in Holders, NEW id \in MarketIds, NEW o \in Outcomes,
           NEW r \in [Outcomes -> Nat], NEW fee \in Nat, NEW dSets \in Int,
           NEW dShares \in Int, NEW dHeld \in Int,
           dHeld = dSets + fee,
           r[o] + dShares = market[id].reserve[o] + dSets,
           r[Other(o)] = market[id].reserve[Other(o)] + dSets,
           pos[id][h][o] + dShares >= 0,
           market[id].status = "open",
           Trade(h, id, o, r, fee, dSets, dShares, dHeld)
    PROVE  IInv'
<1> USE DEF IInv
<1>1. terms[id].share \in 0 .. BPS
  BY DEF TypeOK, TermsType
<1>2. PICK pf \in Nat, lf \in Nat :
          /\ pf = ProtocolFee(fee, terms[id].share)
          /\ lf = LpFee(fee, terms[id].share)
          /\ pf + lf = fee
  BY <1>1, FeeSplit
<1>3. /\ market' = [market EXCEPT ![id].reserve = r,
                                  ![id].sets = @ + dSets,
                                  ![id].fees = @ + pf]
      /\ lpFees' = [lpFees EXCEPT ![id] = @ + lf]
      /\ pos' = [pos EXCEPT ![id][h][o] = @ + dShares]
      /\ settle' = [settle EXCEPT ![id].outstanding[o] = @ + dShares]
      /\ held' = [held EXCEPT ![id] = @ + dHeld]
      /\ UNCHANGED <<now, config, pending, nextId, terms, feesPaid>>
  BY <1>2 DEF Trade
<1>4. market' \in [MarketIds -> MarketType]
  <2>1. [market[id] EXCEPT !.reserve = r, !.sets = @ + dSets,
                           !.fees = @ + pf] \in MarketType
    <3>1. market[id] \in MarketType
      BY DEF TypeOK
    <3>2. market[id].sets + dSets \in Int /\ market[id].fees + pf \in Nat
      BY <3>1 DEF MarketType
    <3> QED
      BY <3>1, <3>2 DEF MarketType
  <2> QED
    BY <1>3, <2>1 DEF TypeOK
<1>5. settle' \in [MarketIds -> SettleType]
  <2>1. [settle[id] EXCEPT !.outstanding[o] = @ + dShares] \in SettleType
    <3>1. settle[id] \in SettleType
      BY DEF TypeOK
    <3>2. [settle[id].outstanding EXCEPT ![o] = @ + dShares]
              \in [Outcomes -> Int]
      BY <3>1 DEF SettleType
    <3> QED
      BY <3>1, <3>2 DEF SettleType
  <2> QED
    BY <1>3, <2>1 DEF TypeOK
<1>6. pos' \in [MarketIds -> [Holders -> [Outcomes -> Nat]]]
  BY <1>3 DEF TypeOK
<1>7. TypeOK'
  BY <1>2, <1>3, <1>4, <1>5, <1>6 DEF TypeOK
<1>8. OpenBacked'
  <2>1. SUFFICES ASSUME NEW i \in MarketIds, market'[i].status = "open"
                 PROVE  /\ held'[i] = market'[i].sets + market'[i].fees
                                          + lpFees'[i]
                        /\ \A x \in Outcomes :
                               market'[i].reserve[x]
                                   + settle'[i].outstanding[x]
                                   = market'[i].sets
    BY DEF OpenBacked
  <2>2. CASE i # id
    BY <1>3, <2>1, <2>2 DEF TypeOK, Safe, OpenBacked, MarketType, SettleType
  <2>3. CASE i = id
    <3>1. /\ held[id] = market[id].sets + market[id].fees + lpFees[id]
          /\ \A x \in Outcomes : market[id].reserve[x]
                 + settle[id].outstanding[x] = market[id].sets
      BY DEF Safe, OpenBacked
    <3>2. /\ market[id].sets \in Int /\ market[id].fees \in Nat
          /\ lpFees[id] \in Nat /\ held[id] \in Int
          /\ settle[id].outstanding \in [Outcomes -> Int]
          /\ market[id].reserve \in [Outcomes -> Nat]
      BY DEF TypeOK, MarketType, SettleType
    <3>3. /\ market'[id].sets = market[id].sets + dSets
          /\ market'[id].fees = market[id].fees + pf
          /\ market'[id].reserve = r
          /\ lpFees'[id] = lpFees[id] + lf
          /\ held'[id] = held[id] + dHeld
          /\ settle'[id].outstanding
                 = [settle[id].outstanding EXCEPT ![o] = @ + dShares]
      BY <1>3 DEF TypeOK, MarketType, SettleType
    <3>4. held'[id] = market'[id].sets + market'[id].fees + lpFees'[id]
      BY <1>2, <3>1, <3>2, <3>3
    <3>5. ASSUME NEW x \in Outcomes
          PROVE  market'[id].reserve[x] + settle'[id].outstanding[x]
                     = market'[id].sets
      BY <3>1, <3>2, <3>3, OtherOutcome
    <3> QED
      BY <2>3, <3>4, <3>5
  <2> QED
    BY <2>2, <2>3
<1>9. SweepsReachFrozenRecipient'
  BY <1>3 DEF TypeOK, Safe, SweepsReachFrozenRecipient, SettleType
<1>10. Fresh'
  BY <1>3 DEF TypeOK, Safe, Fresh, SettleType, MarketType
<1>11. ClosedIsDone'
  BY <1>3 DEF TypeOK, Safe, ClosedIsDone, Final, SettleType, MarketType
<1> QED
  BY <1>7, <1>8, <1>9, <1>10, <1>11 DEF Safe

(* do_buy and do_sell as trades: what they hand to Trade balances, and the *)
(* product of the reserves does not fall.                                  *)
(* A trade of market id whose collateral moves with its sets and its fee,  *)
(* which leaves a price and passes the breakers.                           *)
Traded(h, id, o) ==
    /\ market[id].status = "open"
    /\ \E r \in [Outcomes -> Nat], fee \in Nat, dSets \in Int, dShares \in Int,
          dHeld \in Int :
          /\ dHeld = dSets + fee
          /\ r[Other(o)] > 0 /\ BreakersPass(id, r)
          /\ Trade(h, id, o, r, fee, dSets, dShares, dHeld)

LEMMA BuyBalances ==
    ASSUME IInv, NEW h \in Holders, NEW id \in MarketIds, NEW o \in Outcomes,
           NEW a \in AmountChoices, NEW minOut, NEW limit,
           DoBuy(h, id, o, a, minOut, limit)
    PROVE  /\ IInv'
           /\ market'[id].reserve.yes * market'[id].reserve.no
                  >= market[id].reserve.yes * market[id].reserve.no
           /\ Traded(h, id, o)
<1>1. market[id].reserve \in [Outcomes -> Nat]
  BY DEF IInv, TypeOK, MarketType
<1>2. PICK amt \in Nat : amt = a
  BY MarketCoreAssumption
<1>3. PICK f \in FeeRange : f = market[id].feeBps
  BY DEF IInv, TypeOK, MarketType
<1>4. PICK rb \in Nat, ro \in Nat :
          rb = market[id].reserve[o] /\ ro = market[id].reserve[Other(o)]
  BY <1>1, OtherOutcome
<1>5. PICK q : q = CalcBuy(rb, ro, amt, f)
  OBVIOUS
<1>6. /\ BuyOk(rb, ro, amt, f) /\ market[id].status = "open"
      /\ BreakersPass(id, ReservesWith(o, q.newBought, q.newOther))
      /\ Trade(h, id, o, ReservesWith(o, q.newBought, q.newOther),
               q.fee, q.net, q.shares, amt)
  BY <1>2, <1>3, <1>4, <1>5 DEF DoBuy, Tradable
<1>7. /\ q.fee \in Nat /\ q.net \in Nat /\ q.shares \in Nat
      /\ q.newBought \in Nat /\ q.newOther \in Nat
      /\ q.fee + q.net = amt
      /\ q.newOther = ro + q.net /\ q.net > 0
      /\ q.newBought + q.shares = rb + q.net
      /\ q.newBought * q.newOther >= rb * ro
  <2>1. BuyOk(rb, ro, amt, f)
    BY <1>6
  <2>2. BuyPost(CalcBuy(rb, ro, amt, f), rb, ro, amt)
    BY <2>1, BuyFacts
  <2>3. BuyPost(q, rb, ro, amt)
    BY <1>5, <2>2
  <2> QED
    BY <2>3 DEF BuyPost
<1>8. PICK fee \in Nat, net \in Nat, shares \in Nat, nb \in Nat, no \in Nat :
          /\ fee = q.fee /\ net = q.net /\ shares = q.shares
          /\ nb = q.newBought /\ no = q.newOther
  BY <1>7
<1>9. PICK r \in [Outcomes -> Nat] :
          /\ r = ReservesWith(o, nb, no)
          /\ r[o] = nb /\ r[Other(o)] = no
  <2>1. ReservesWith(o, nb, no) \in [Outcomes -> Nat]
    BY DEF ReservesWith
  <2>2. /\ ReservesWith(o, nb, no)[o] = nb
        /\ ReservesWith(o, nb, no)[Other(o)] = no
    BY OtherOutcome DEF ReservesWith
  <2> QED
    BY <2>1, <2>2, Zenon
<1>10. Trade(h, id, o, r, fee, net, shares, amt)
  BY <1>6, <1>8, <1>9
<1>11. /\ amt = net + fee /\ no = ro + net /\ nb + shares = rb + net
       /\ nb * no >= rb * ro
  BY <1>7, <1>8
<1>12. pos[id][h][o] + shares >= 0
  BY DEF IInv, TypeOK
<1>13. IInv'
  <2>1. net \in Int /\ shares \in Int /\ amt \in Int
    OBVIOUS
  <2>2. /\ r[o] + shares = market[id].reserve[o] + net
        /\ r[Other(o)] = market[id].reserve[Other(o)] + net
        /\ amt = net + fee
    BY <1>4, <1>9, <1>11
  <2> QED
    BY <1>6, <1>10, <1>12, <2>1, <2>2, TradeStep
<1>14. market'[id].reserve = r
  BY <1>10 DEF Trade, IInv, TypeOK, MarketType
<1>15. r[o] * r[Other(o)]
           >= market[id].reserve[o] * market[id].reserve[Other(o)]
  BY <1>4, <1>9, <1>11
<1>16. Traded(h, id, o)
  <2>1. net \in Int /\ shares \in Int /\ amt \in Int
    OBVIOUS
  <2>2. BreakersPass(id, r)
    BY <1>6, <1>8, <1>9
  <2>3. r[Other(o)] > 0
    BY <1>7, <1>8, <1>9
  <2> QED
    BY <1>6, <1>10, <1>11, <2>1, <2>2, <2>3 DEF Traded
<1> QED
  BY <1>1, <1>13, <1>14, <1>15, <1>16, SameProduct

LEMMA SellBalances ==
    ASSUME IInv, NEW h \in Holders, NEW id \in MarketIds, NEW o \in Outcomes,
           NEW a \in AmountChoices, NEW maxIn, NEW limit,
           DoSell(h, id, o, a, maxIn, limit)
    PROVE  /\ IInv'
           /\ market'[id].reserve.yes * market'[id].reserve.no
                  >= market[id].reserve.yes * market[id].reserve.no
           /\ Traded(h, id, o)
<1>1. market[id].reserve \in [Outcomes -> Nat]
  BY DEF IInv, TypeOK, MarketType
<1>2. PICK out \in Nat : out = a
  BY MarketCoreAssumption
<1>3. PICK f \in FeeRange : f = market[id].feeBps
  BY DEF IInv, TypeOK, MarketType
<1>4. PICK rs \in Nat, ro \in Nat :
          rs = market[id].reserve[o] /\ ro = market[id].reserve[Other(o)]
  BY <1>1, OtherOutcome
<1>5. PICK q : q = CalcSell(rs, ro, out, f)
  OBVIOUS
<1>6. /\ SellOk(rs, ro, out, f) /\ market[id].status = "open"
      /\ BreakersPass(id, ReservesWith(o, q.newSold, q.newOther))
      /\ pos[id][h][o] >= q.shares
      /\ Trade(h, id, o, ReservesWith(o, q.newSold, q.newOther),
               q.fee, -q.gross, -q.shares, -out)
  BY <1>2, <1>3, <1>4, <1>5 DEF DoSell, Tradable
<1>7. /\ q.fee \in Nat /\ q.gross \in Nat /\ q.shares \in Nat
      /\ q.newSold \in Nat /\ q.newOther \in Nat
      /\ q.gross = out + q.fee
      /\ q.newOther = ro - q.gross /\ q.newOther > 0
      /\ q.newSold + q.gross = rs + q.shares
      /\ q.newSold * q.newOther >= rs * ro
  <2>1. SellOk(rs, ro, out, f)
    BY <1>6
  <2>2. SellPost(CalcSell(rs, ro, out, f), rs, ro, out)
    BY <2>1, SellFacts
  <2>3. SellPost(q, rs, ro, out)
    BY <1>5, <2>2
  <2> QED
    BY <2>3 DEF SellPost
<1>8. PICK fee \in Nat, gross \in Nat, shares \in Nat, ns \in Nat, no \in Nat :
          /\ fee = q.fee /\ gross = q.gross /\ shares = q.shares
          /\ ns = q.newSold /\ no = q.newOther
  BY <1>7
<1>9. PICK r \in [Outcomes -> Nat] :
          /\ r = ReservesWith(o, ns, no)
          /\ r[o] = ns /\ r[Other(o)] = no
  <2>1. ReservesWith(o, ns, no) \in [Outcomes -> Nat]
    BY DEF ReservesWith
  <2>2. /\ ReservesWith(o, ns, no)[o] = ns
        /\ ReservesWith(o, ns, no)[Other(o)] = no
    BY OtherOutcome DEF ReservesWith
  <2> QED
    BY <2>1, <2>2, Zenon
<1>10. PICK dSets \in Int, dShares \in Int, dHeld \in Int :
           dSets = -gross /\ dShares = -shares /\ dHeld = -out
  OBVIOUS
<1>11. Trade(h, id, o, r, fee, dSets, dShares, dHeld)
  BY <1>6, <1>8, <1>9, <1>10
<1>12. /\ gross = out + fee /\ no = ro - gross /\ ns + gross = rs + shares
       /\ ns * no >= rs * ro
  BY <1>7, <1>8
<1>13. /\ dHeld = dSets + fee /\ no = ro + dSets /\ ns + dShares = rs + dSets
  BY <1>10, <1>12
<1>14. pos[id][h][o] + dShares >= 0
  BY <1>6, <1>8, <1>10 DEF IInv, TypeOK
<1>15. IInv'
  BY <1>4, <1>6, <1>9, <1>11, <1>13, <1>14, TradeStep
<1>16. market'[id].reserve = r
  BY <1>11 DEF Trade, IInv, TypeOK, MarketType
<1>17. r[o] * r[Other(o)]
           >= market[id].reserve[o] * market[id].reserve[Other(o)]
  BY <1>4, <1>9, <1>12
<1>18. Traded(h, id, o)
  <2>1. BreakersPass(id, r)
    BY <1>6, <1>8, <1>9
  <2>2. r[Other(o)] > 0
    BY <1>7, <1>8, <1>9
  <2> QED
    BY <1>6, <1>11, <1>13, <2>1, <2>2 DEF Traded
<1> QED
  BY <1>1, <1>15, <1>16, <1>17, <1>18, SameProduct

-----------------------------------------------------------------------------
(* resolve and void_market change a status and a time.                     *)
LEMMA FinalizeStep ==
    ASSUME IInv, NEW id \in MarketIds, NEW kind \in {"yes", "no", "void"},
           market[id].status = "open", Finalize(id, kind)
    PROVE  IInv'
<1> USE DEF IInv
<1>1. [market[id] EXCEPT !.status = kind] \in MarketType
  <2>1. market[id] \in MarketType
    BY DEF TypeOK
  <2> QED
    BY <2>1 DEF MarketType
<1>2. [settle[id] EXCEPT !.finalizedAt = now] \in SettleType
  <2>1. settle[id] \in SettleType /\ now \in Nat
    BY MarketCoreAssumption DEF TypeOK
  <2> QED
    BY <2>1 DEF SettleType
<1> USE DEF Finalize
<1>3. TypeOK'
  BY <1>1, <1>2 DEF TypeOK
<1>4. OpenBacked'
  BY DEF TypeOK, MarketType, SettleType, Safe, OpenBacked
<1>5. SweepsReachFrozenRecipient' /\ Fresh' /\ ClosedIsDone'
  BY DEF TypeOK, MarketType, SettleType, Safe, SweepsReachFrozenRecipient,
         Fresh, ClosedIsDone, Final
<1> QED
  BY <1>3, <1>4, <1>5 DEF Safe

(* redeem and redeem_many touch only final markets.                        *)
LEMMA RedeemStep ==
    ASSUME IInv, NEW h \in Holders, NEW ids \in SUBSET MarketIds,
           \A id \in ids : Final(id), RedeemAll(h, ids)
    PROVE  IInv'
<1> USE DEF IInv
<1>1. ASSUME NEW id \in ids PROVE Payout(id, h) \in Nat
  <2>1. market[id].status \in {"yes", "no", "void"}
    BY DEF Final
  <2>2. pos[id][h] \in [Outcomes -> Nat]
    BY DEF TypeOK
  <2> QED
    BY <2>1, <2>2, SettleValueNat DEF Payout
<1>2. ASSUME NEW id \in ids
      PROVE  [settle[id] EXCEPT
                !.outstanding = [o \in Outcomes |-> @[o] - pos[id][h][o]],
                !.paidOut = @ + Payout(id, h)] \in SettleType
  <2>1. /\ settle[id] \in SettleType
        /\ settle[id].outstanding \in [Outcomes -> Int]
        /\ pos[id][h] \in [Outcomes -> Nat]
    BY DEF TypeOK, SettleType
  <2>2. [o \in Outcomes |-> settle[id].outstanding[o] - pos[id][h][o]]
            \in [Outcomes -> Int]
    BY <2>1
  <2>3. settle[id].paidOut + Payout(id, h) \in Int
    BY <1>1, <2>1 DEF SettleType
  <2> QED
    BY <2>1, <2>2, <2>3 DEF SettleType
<1>3. settle' \in [MarketIds -> SettleType]
  BY <1>2 DEF RedeemAll, TypeOK
<1>4. /\ pos' \in [MarketIds -> [Holders -> [Outcomes -> Nat]]]
      /\ held' \in [MarketIds -> Int]
  <2>1. Zero \in [Outcomes -> Nat]
    BY DEF Zero
  <2>2. pos' \in [MarketIds -> [Holders -> [Outcomes -> Nat]]]
    BY <2>1 DEF RedeemAll, TypeOK
  <2>3. \A id \in ids : held[id] - Payout(id, h) \in Int
    BY <1>1 DEF TypeOK
  <2> QED
    BY <2>2, <2>3 DEF RedeemAll, TypeOK
<1>5. TypeOK'
  BY <1>3, <1>4 DEF RedeemAll, TypeOK
<1>6. \A id \in MarketIds : settle'[id].closed = settle[id].closed
  BY DEF RedeemAll, TypeOK, SettleType
<1>7. \A id \in MarketIds :
          ~Final(id) => settle'[id] = settle[id] /\ held'[id] = held[id]
  BY DEF RedeemAll
<1>8. UNCHANGED <<market, terms, lpFees, feesPaid, nextId>>
  BY DEF RedeemAll
<1>9. OpenBacked'
  BY <1>7, <1>8 DEF Safe, OpenBacked, Final
<1>10. SweepsReachFrozenRecipient' /\ ClosedIsDone'
  BY <1>6, <1>8 DEF Safe, SweepsReachFrozenRecipient, ClosedIsDone, Final
<1>11. Fresh'
  BY <1>6, <1>7, <1>8 DEF Safe, Fresh, Final
<1> QED
  BY <1>5, <1>9, <1>10, <1>11 DEF Safe

(* What claim_pool_remainder pays is a number of collateral units.         *)
LEMMA PoolValueNat ==
    ASSUME TypeOK, NEW id \in MarketIds, Final(id)
    PROVE  PoolValue(id) \in Nat
<1>1. market[id].status \in {"yes", "no", "void"}
  BY DEF Final
<1>2. market[id].reserve \in [Outcomes -> Nat]
  BY DEF TypeOK, MarketType
<1> QED
  BY <1>1, <1>2, SettleValueNat DEF PoolValue

(* claim_pool_remainder and claim_pool_remainders touch only final markets.*)
LEMMA ClaimStep ==
    ASSUME IInv, NEW ids \in SUBSET MarketIds, \A id \in ids : Final(id),
           ClaimAll(ids)
    PROVE  IInv'
<1> USE DEF IInv
<1>1. ASSUME NEW id \in ids PROVE RemainderPayout(id) \in Nat
  <2>1. PoolValue(id) \in Nat /\ lpFees[id] \in Nat
    BY PoolValueNat DEF TypeOK
  <2> QED
    BY <2>1 DEF RemainderPayout
<1>2. Zero \in [Outcomes -> Nat]
  BY DEF Zero
<1>3. ASSUME NEW id \in ids
      PROVE  /\ [settle[id] EXCEPT !.paidOut = @ + RemainderPayout(id)]
                    \in SettleType
             /\ [market[id] EXCEPT !.reserve = Zero, !.lpClaimed = TRUE]
                    \in MarketType
  <2>1. settle[id] \in SettleType /\ market[id] \in MarketType
    BY DEF TypeOK
  <2>2. settle[id].paidOut + RemainderPayout(id) \in Int
    BY <1>1, <2>1 DEF SettleType
  <2>3. [settle[id] EXCEPT !.paidOut = @ + RemainderPayout(id)]
            \in SettleType
    BY <2>1, <2>2 DEF SettleType
  <2>4. [market[id] EXCEPT !.reserve = Zero, !.lpClaimed = TRUE]
            \in MarketType
    BY <1>2, <2>1 DEF MarketType
  <2> QED
    BY <2>3, <2>4
<1>4. /\ settle' \in [MarketIds -> SettleType]
      /\ market' \in [MarketIds -> MarketType]
  BY <1>3 DEF ClaimAll, TypeOK
<1>5. lpFees' \in [MarketIds -> Nat] /\ held' \in [MarketIds -> Int]
  <2>1. \A id \in ids : held[id] - RemainderPayout(id) \in Int
    BY <1>1 DEF TypeOK
  <2> QED
    BY <2>1 DEF ClaimAll, TypeOK
<1>6. TypeOK'
  BY <1>4, <1>5 DEF ClaimAll, TypeOK
<1>7. \A id \in MarketIds :
          /\ settle'[id].closed = settle[id].closed
          /\ market'[id].status = market[id].status
          /\ market'[id].fees = market[id].fees
          /\ lpFees'[id] = lpFees[id] \/ lpFees'[id] = 0
  <2>1. ASSUME NEW id \in MarketIds
        PROVE  /\ settle'[id].closed = settle[id].closed
               /\ market'[id].status = market[id].status
               /\ market'[id].fees = market[id].fees
               /\ lpFees'[id] = lpFees[id] \/ lpFees'[id] = 0
    <3>1. market[id] \in MarketType /\ settle[id] \in SettleType
      BY DEF TypeOK
    <3>2. CASE id \in ids
      BY <3>1, <3>2 DEF ClaimAll, SettleType, MarketType
    <3>3. CASE id \notin ids
      BY <3>3 DEF ClaimAll
    <3> QED
      BY <3>2, <3>3
  <2> QED
    BY <2>1
<1>8. \A id \in MarketIds : ~Final(id) =>
          /\ settle'[id] = settle[id] /\ market'[id] = market[id]
          /\ held'[id] = held[id] /\ lpFees'[id] = lpFees[id]
  BY DEF ClaimAll
<1>9. UNCHANGED <<terms, feesPaid, nextId>>
  BY DEF ClaimAll
<1>10. OpenBacked'
  BY <1>7, <1>8 DEF Safe, OpenBacked, Final
<1>11. SweepsReachFrozenRecipient' /\ ClosedIsDone'
  BY <1>7, <1>9 DEF Safe, SweepsReachFrozenRecipient, ClosedIsDone, Final
<1>12. Fresh'
  BY <1>7, <1>8, <1>9 DEF Safe, Fresh, Final
<1> QED
  BY <1>6, <1>10, <1>11, <1>12 DEF Safe

(* A payment to a treasury keeps the ledger of fees paid well formed.      *)
LEMMA PaidUpdate ==
    ASSUME NEW F \in [MarketIds -> [Treasuries -> Nat]], NEW id \in MarketIds,
           NEW t, NEW n \in Nat
    PROVE  [F EXCEPT ![id][t] = @ + n] \in [MarketIds -> [Treasuries -> Nat]]
<1>1. F[id] \in [Treasuries -> Nat]
  OBVIOUS
<1>2. \A x \in Treasuries : F[id][x] \in Nat /\ F[id][x] + n \in Nat
  BY <1>1
<1>3. [F[id] EXCEPT ![t] = @ + n] \in [Treasuries -> Nat]
  BY <1>1, <1>2
<1> QED
  BY <1>3

(* finalize_market empties a final market's entries.                       *)
LEMMA FinalizeMarketStep ==
    ASSUME IInv, NEW id \in MarketIds, FinalizeMarket(id)
    PROVE  IInv'
<1> USE DEF IInv
<1>1. Zero \in [Outcomes -> Nat] /\ Zero \in [Outcomes -> Int]
  BY DEF Zero
<1>2. market[id] \in MarketType /\ settle[id] \in SettleType
  BY DEF TypeOK
<1>3. [market[id] EXCEPT !.reserve = Zero, !.lpClaimed = TRUE, !.fees = 0]
          \in MarketType
  BY <1>1, <1>2 DEF MarketType
<1>4. [settle[id] EXCEPT !.outstanding = Zero, !.closed = TRUE] \in SettleType
  BY <1>1, <1>2 DEF SettleType
<1>5. Swept(id) \in Int
  <2>1. market[id].status \in {"yes", "no", "void"} /\ Final(id)
    BY DEF FinalizeMarket, Final
  <2>2. PoolValue(id) \in Nat
    BY <2>1, PoolValueNat
  <2>3. Unclaimed(id) \in Int
    BY <1>2, <2>1, SettleUpperInt DEF Unclaimed, SettleType
  <2>4. LpClaim(id) \in Int
    BY <2>2 DEF LpClaim
  <2>5. /\ market[id].sets \in Int /\ settle[id].paidOut \in Int
        /\ market[id].fees \in Int /\ lpFees[id] \in Int
    BY <1>2 DEF TypeOK, MarketType, SettleType
  <2> QED
    BY <2>3, <2>4, <2>5 DEF Swept, Dust
<1>6. /\ market' = [market EXCEPT ![id] =
             [@ EXCEPT !.reserve = Zero, !.lpClaimed = TRUE, !.fees = 0]]
      /\ settle' = [settle EXCEPT ![id] =
             [@ EXCEPT !.outstanding = Zero, !.closed = TRUE]]
      /\ lpFees' = [lpFees EXCEPT ![id] = 0]
      /\ held' = [held EXCEPT ![id] = @ - Swept(id)]
      /\ feesPaid' = [feesPaid EXCEPT ![id][config.treasury] =
                         @ + market[id].fees]
      /\ UNCHANGED <<now, config, pending, nextId, terms, pos>>
  BY DEF FinalizeMarket, TypeOK
<1>7. market[id].fees \in Nat
  BY <1>2 DEF MarketType
<1>8. feesPaid' \in [MarketIds -> [Treasuries -> Nat]]
  BY <1>6, <1>7, PaidUpdate DEF TypeOK
<1>9. TypeOK'
  BY <1>3, <1>4, <1>5, <1>6, <1>8 DEF TypeOK
<1>10. Final(id) /\ id < nextId
  BY DEF FinalizeMarket, Final, Safe, Fresh, TypeOK, MarketIds
<1>11. /\ market'[id].status = market[id].status
       /\ market'[id].fees = 0 /\ settle'[id].closed
  BY <1>2, <1>6 DEF TypeOK, MarketType, SettleType
<1>12. \A i \in MarketIds \ {id} :
           /\ market'[i] = market[i] /\ settle'[i] = settle[i]
           /\ lpFees'[i] = lpFees[i] /\ held'[i] = held[i]
           /\ feesPaid'[i] = feesPaid[i]
  BY <1>6 DEF TypeOK
<1>13. OpenBacked'
  BY <1>10, <1>11, <1>12 DEF Safe, OpenBacked, Final
<1>14. SweepsReachFrozenRecipient'
  BY <1>6, <1>11, <1>12 DEF Safe, SweepsReachFrozenRecipient
<1>15. Fresh'
  BY <1>6, <1>10, <1>12 DEF Safe, Fresh, TypeOK, MarketIds
<1>16. ClosedIsDone'
  BY <1>6, <1>10, <1>11, <1>12 DEF Safe, ClosedIsDone, Final, TypeOK
<1> QED
  BY <1>9, <1>13, <1>14, <1>15, <1>16 DEF Safe

(* claim_lp_fees and sweep_fees pay out what they clear.                   *)
LEMMA LpFeeStep ==
    ASSUME IInv, NEW id \in MarketIds, NEW c \in Holders, ClaimLpFees(c, id)
    PROVE  IInv'
<1> USE DEF IInv
<1>1. lpFees[id] \in Nat /\ held[id] \in Int
  BY DEF TypeOK
<1>2. TypeOK'
  BY <1>1 DEF ClaimLpFees, TypeOK
<1>3. OpenBacked'
  BY DEF ClaimLpFees, TypeOK, MarketType, Safe, OpenBacked
<1>4. SweepsReachFrozenRecipient' /\ Fresh' /\ ClosedIsDone'
  BY <1>1 DEF ClaimLpFees, TypeOK, Safe, SweepsReachFrozenRecipient, Fresh,
              ClosedIsDone, Final
<1> QED
  BY <1>2, <1>3, <1>4 DEF Safe

LEMMA SweepStep ==
    ASSUME IInv, NEW id \in MarketIds, SweepFees(id)
    PROVE  IInv'
<1> USE DEF IInv
<1>1. market[id] \in MarketType /\ held[id] \in Int
  BY DEF TypeOK
<1>2. market[id].fees \in Nat
  BY <1>1 DEF MarketType
<1>3. [market[id] EXCEPT !.fees = 0] \in MarketType
  BY <1>1 DEF MarketType
<1>4. feesPaid' \in [MarketIds -> [Treasuries -> Nat]]
  BY <1>2, PaidUpdate DEF SweepFees, TypeOK
<1>5. TypeOK'
  BY <1>1, <1>2, <1>3, <1>4 DEF SweepFees, TypeOK
<1>6. OpenBacked'
  BY DEF SweepFees, TypeOK, MarketType, Safe, OpenBacked
<1>7. SweepsReachFrozenRecipient'
  BY DEF SweepFees, TypeOK, Safe, SweepsReachFrozenRecipient
<1>8. market[id].fees > 0
  BY DEF SweepFees
<1>9. id < nextId /\ ~settle[id].closed
  BY <1>2, <1>8 DEF Safe, Fresh, ClosedIsDone, TypeOK, MarketIds
<1>10. Fresh'
  BY <1>9 DEF SweepFees, TypeOK, MarketType, Safe, Fresh
<1>11. ClosedIsDone'
  BY <1>9 DEF SweepFees, TypeOK, MarketType, Safe, ClosedIsDone, Final
<1> QED
  BY <1>5, <1>6, <1>7, <1>10, <1>11 DEF Safe

(* transfer_position moves shares between holders.                         *)
LEMMA TransferStep ==
    ASSUME IInv, NEW from \in Holders, NEW to \in Holders,
           NEW id \in MarketIds, NEW o \in Outcomes, NEW a \in AmountChoices,
           TransferPosition(from, to, id, o, a)
    PROVE  IInv'
<1> USE DEF IInv
<1>1. a \in Nat
  BY MarketCoreAssumption
<1>2. /\ pos[id][from][o] \in Nat /\ pos[id][to][o] \in Nat
      /\ pos[id][from][o] - a \in Nat /\ pos[id][to][o] + a \in Nat
  BY <1>1 DEF TransferPosition, TypeOK
<1>3. PICK x \in Nat, y \in Nat :
          x = pos[id][from][o] - a /\ y = pos[id][to][o] + a
  BY <1>2
<1>4. pos' \in [MarketIds -> [Holders -> [Outcomes -> Nat]]]
  <2>1. pos' = [pos EXCEPT ![id][from][o] = x, ![id][to][o] = y]
    <3>1. pos' = [pos EXCEPT ![id][from][o] = @ - a, ![id][to][o] = @ + a]
      BY DEF TransferPosition
    <3>2. from # to
      BY DEF TransferPosition
    <3> QED
      BY <1>3, <3>1, <3>2 DEF TypeOK
  <2>2. pos \in [MarketIds -> [Holders -> [Outcomes -> Nat]]]
    BY DEF TypeOK
  <2> QED
    BY <2>1, <2>2
<1>5. TypeOK'
  BY <1>4 DEF TransferPosition, TypeOK
<1>6. Safe'
  BY DEF TransferPosition, Safe, OpenBacked, SweepsReachFrozenRecipient,
         Fresh, ClosedIsDone, Final
<1> QED
  BY <1>5, <1>6

(* transfer_lp changes the creator only.                                   *)
LEMMA TransferLpStep ==
    ASSUME IInv, NEW id \in MarketIds, NEW to \in Holders, TransferLp(id, to)
    PROVE  IInv'
<1> USE DEF IInv
<1>1. [market[id] EXCEPT !.creator = to] \in MarketType
  <2>1. market[id] \in MarketType
    BY DEF TypeOK
  <2> QED
    BY <2>1 DEF MarketType
<1>2. TypeOK'
  BY <1>1 DEF TransferLp, TypeOK
<1>3. \A i \in MarketIds :
          /\ market'[i].status = market[i].status
          /\ market'[i].fees = market[i].fees
          /\ market'[i].sets = market[i].sets
          /\ market'[i].reserve = market[i].reserve
  BY DEF TransferLp, TypeOK, MarketType
<1>4. Safe'
  BY <1>3 DEF TransferLp, Safe, OpenBacked, SweepsReachFrozenRecipient,
              Fresh, ClosedIsDone, Final
<1> QED
  BY <1>2, <1>4

(* The entries of the markets, which administration and time do not touch. *)
LEMMA OtherStep ==
    ASSUME IInv, TypeOK',
           UNCHANGED <<nextId, market, terms, settle, lpFees, held, feesPaid>>
    PROVE  IInv'
BY DEF IInv, Safe, OpenBacked, SweepsReachFrozenRecipient, Fresh,
       ClosedIsDone, Final

(* Administration: set_paused, the set_default_* calls, the proposals and   *)
(* the acceptances.                                                        *)
Admin ==
    \/ \E x \in PauseChoices : SetPaused(x)
    \/ \E f \in FeeChoices : SetDefaultFeeBps(f)
    \/ \E x \in ShareChoices : SetProtocolFeeShareBps(x)
    \/ \E x \in HorizonChoices : SetDefaultRedeemHorizon(x)
    \/ \E x \in BreakerChoices : SetDefaultBreaker(x)
    \/ \E a \in NewTreasuries : ProposeTreasury(a)
    \/ \E a \in NewResolvers : ProposeResolver(a)
    \/ AcceptTreasury \/ AcceptResolver

LEMMA AdminStep == ASSUME IInv, Admin PROVE IInv'
<1>1. /\ config \in ConfigType /\ pending \in PendingType /\ TypeOK
  BY DEF IInv, TypeOK
<1>2. UNCHANGED <<now, nextId, market, terms, settle, lpFees, pos, oracle,
                  band, held, feesPaid>>
  BY DEF Admin, SetPaused, SetDefaultFeeBps, SetProtocolFeeShareBps,
         SetDefaultRedeemHorizon, SetDefaultBreaker, Configure,
         ProposeTreasury, ProposeResolver, Propose, AcceptTreasury,
         AcceptResolver, Accept
<1>3. config' \in ConfigType /\ pending' \in PendingType
  <2>1. ASSUME NEW x \in PauseChoices, SetPaused(x)
        PROVE  config' \in ConfigType /\ pending' \in PendingType
    <3>1. x \in BOOLEAN
      BY MarketCoreAssumption
    <3> QED
      BY <1>1, <2>1, <3>1 DEF SetPaused, Configure, ConfigType
  <2>2. ASSUME NEW x \in FeeChoices, SetDefaultFeeBps(x)
        PROVE  config' \in ConfigType /\ pending' \in PendingType
    BY <1>1, <2>2 DEF SetDefaultFeeBps, Configure, ConfigType
  <2>3. ASSUME NEW x \in ShareChoices, SetProtocolFeeShareBps(x)
        PROVE  config' \in ConfigType /\ pending' \in PendingType
    BY <1>1, <2>3 DEF SetProtocolFeeShareBps, Configure, ConfigType
  <2>4. ASSUME NEW x \in HorizonChoices, SetDefaultRedeemHorizon(x)
        PROVE  config' \in ConfigType /\ pending' \in PendingType
    BY <1>1, <2>4 DEF SetDefaultRedeemHorizon, Configure, ConfigType
  <2>5. ASSUME NEW x \in BreakerChoices, SetDefaultBreaker(x)
        PROVE  config' \in ConfigType /\ pending' \in PendingType
    BY <1>1, <2>5 DEF SetDefaultBreaker, Configure, ConfigType
  <2>6. ASSUME NEW a \in NewTreasuries, ProposeTreasury(a)
        PROVE  config' \in ConfigType /\ pending' \in PendingType
    BY <1>1, <2>6, MarketCoreAssumption
       DEF ProposeTreasury, Propose, PendingType
  <2>7. ASSUME NEW a \in NewResolvers, ProposeResolver(a)
        PROVE  config' \in ConfigType /\ pending' \in PendingType
    BY <1>1, <2>7, MarketCoreAssumption
       DEF ProposeResolver, Propose, PendingType
  <2>8. CASE AcceptTreasury
    BY <1>1, <2>8 DEF AcceptTreasury, Accept, PendingType, ConfigType
  <2>9. CASE AcceptResolver
    BY <1>1, <2>9 DEF AcceptResolver, Accept, PendingType, ConfigType
  <2> QED
    BY <2>1, <2>2, <2>3, <2>4, <2>5, <2>6, <2>7, <2>8, <2>9 DEF Admin
<1>4. TypeOK'
  BY <1>1, <1>2, <1>3 DEF TypeOK
<1> QED
  BY <1>2, <1>4, OtherStep

-----------------------------------------------------------------------------
(* The buys and sells, and the redemptions, as Next groups them.           *)
Trading ==
    \E h \in Holders, id \in MarketIds, o \in Outcomes, a \in AmountChoices,
       l \in LimitChoices, d \in DeadlineChoices :
       \/ Buy(h, id, o, a, 0)
       \/ BuyV2(h, id, o, a, 0, l, d)
       \/ Sell(h, id, o, a, MaxSets)
       \/ SellV2(h, id, o, a, MaxSets, l, d)

(* Every operation keeps the inductive invariant.                          *)
LEMMA NextIInv == IInv /\ [Next]_vars => IInv'
<1> SUFFICES ASSUME IInv, [Next]_vars PROVE IInv'
  OBVIOUS
<1>1. CASE \E h \in Holders, t \in CloseChoices, s \in SeedChoices,
              p \in ProbChoices : CreateMarket(h, t, s, p)
  BY <1>1, CreateStep
<1>2. CASE Trading
  BY <1>2, BuyBalances, SellBalances DEF Trading, Buy, BuyV2, Sell, SellV2
<1>3. ASSUME NEW r \in Resolvers, NEW id \in MarketIds,
             (\E o \in Outcomes : Resolve(r, id, o)) \/ VoidMarket(r, id)
      PROVE  IInv'
  BY <1>3, FinalizeStep DEF Resolve, VoidMarket, Outcomes
<1>4. ASSUME NEW h \in Holders, NEW id \in MarketIds,
             Redeem(h, id) \/ ClaimPoolRemainder(h, id)
      PROVE  IInv'
  <2>1. {id} \in SUBSET MarketIds
    OBVIOUS
  <2>2. CASE Redeem(h, id)
    BY <2>1, <2>2, RedeemStep DEF Redeem, Redeemable
  <2>3. CASE ClaimPoolRemainder(h, id)
    BY <2>1, <2>3, ClaimStep DEF ClaimPoolRemainder, Claimable
  <2> QED
    BY <1>4, <2>2, <2>3
<1>5. ASSUME NEW h \in Holders, NEW ids \in SUBSET MarketIds,
             RedeemMany(h, ids) \/ ClaimPoolRemainders(h, ids)
      PROVE  IInv'
  <2>1. CASE RedeemMany(h, ids)
    <3>1. PICK paid \in SUBSET MarketIds :
              paid = {id \in ids : Redeemable(h, id)}
      OBVIOUS
    <3>2. RedeemAll(h, paid) /\ \A id \in paid : Final(id)
      BY <2>1, <3>1 DEF RedeemMany, Redeemable
    <3> QED
      BY <3>2, RedeemStep
  <2>2. CASE ClaimPoolRemainders(h, ids)
    <3>1. PICK paid \in SUBSET MarketIds :
              paid = {id \in ids : Claimable(h, id)}
      OBVIOUS
    <3>2. ClaimAll(paid) /\ \A id \in paid : Final(id)
      BY <2>2, <3>1 DEF ClaimPoolRemainders, Claimable
    <3> QED
      BY <3>2, ClaimStep
  <2> QED
    BY <1>5, <2>1, <2>2
<1>6. ASSUME NEW h \in Holders, NEW id \in MarketIds,
             ClaimLpFees(h, id) \/ TransferLp(id, h)
      PROVE  IInv'
  BY <1>6, LpFeeStep, TransferLpStep
<1>7. ASSUME NEW id \in MarketIds, FinalizeMarket(id) PROVE IInv'
  BY <1>7, FinalizeMarketStep
<1>8. ASSUME NEW id \in MarketIds, SweepFees(id) PROVE IInv'
  BY <1>8, SweepStep
<1>9. ASSUME NEW from \in Holders, NEW to \in Holders, NEW id \in MarketIds,
             NEW o \in Outcomes, NEW a \in AmountChoices,
             TransferPosition(from, to, id, o, a)
      PROVE  IInv'
  BY <1>9, TransferStep
<1>10. CASE Admin
  BY <1>10, AdminStep
<1>11. CASE Tick
  <2>1. TypeOK'
    BY <1>11, MarketCoreAssumption DEF Tick, IInv, TypeOK
  <2> QED
    BY <1>11, <2>1, OtherStep DEF Tick
<1>12. CASE UNCHANGED vars
  <2>1. TypeOK'
    BY <1>12 DEF vars, IInv, TypeOK
  <2> QED
    BY <1>12, <2>1, OtherStep DEF vars
<1> QED
  BY <1>1, <1>2, <1>3, <1>4, <1>5, <1>6, <1>7, <1>8, <1>9, <1>10, <1>11,
     <1>12 DEF Next, Trading, Admin

(* The inductive invariant holds in every reachable state.                 *)
THEOREM Invariance == Spec => []IInv
<1>1. Init => IInv
  BY InitIInv
<1>2. IInv /\ [Next]_vars => IInv'
  BY NextIInv
<1> QED
  BY <1>1, <1>2, PTL DEF Spec

(* The storage entries keep their shape: no reserve, position or fee of    *)
(* any market ever goes negative.                                          *)
THEOREM TypeCorrect == Spec => []TypeOK
<1>1. IInv => TypeOK
  BY DEF IInv
<1> QED
  BY <1>1, Invariance, PTL

(* debug_assert_share_invariant, and the backing of the sets by collateral,*)
(* for every open market.                                                  *)
THEOREM EverySetIsBacked == Spec => []OpenBacked
<1>1. IInv => OpenBacked
  BY DEF IInv, Safe
<1> QED
  BY <1>1, Invariance, PTL

(* sweep_fees never pays a treasury other than the one frozen in FeeTerms. *)
THEOREM SweepsAreFrozen == Spec => []SweepsReachFrozenRecipient
<1>1. IInv => SweepsReachFrozenRecipient
  BY DEF IInv, Safe
<1> QED
  BY <1>1, Invariance, PTL

-----------------------------------------------------------------------------
(* What one step does to a closed market: nothing.                         *)
ClosedStays ==
    \A id \in MarketIds :
        settle[id].closed => held'[id] = held[id] /\ settle'[id].closed

(* No operation pays out of a closed market or opens it again: trades need *)
(* an open market, redemptions and claims look at the flag, and the two    *)
(* fee payments, which do not, find nothing left to pay.                   *)
LEMMA ClosedStep == IInv /\ Next => ClosedStays
<1> SUFFICES ASSUME IInv, Next PROVE ClosedStays
  OBVIOUS
<1>0. /\ settle \in [MarketIds -> SettleType] /\ held \in [MarketIds -> Int]
      /\ \A id \in MarketIds :
             settle[id].closed => /\ market[id].status # "open"
                                  /\ ~(market[id].fees > 0)
                                  /\ ~(lpFees[id] > 0)
  <2>1. \A id \in MarketIds : settle[id].closed =>
            Final(id) /\ market[id].fees = 0 /\ lpFees[id] = 0
    BY DEF IInv, Safe, ClosedIsDone
  <2>2. ASSUME NEW id \in MarketIds, settle[id].closed
        PROVE  /\ market[id].status # "open"
               /\ ~(market[id].fees > 0) /\ ~(lpFees[id] > 0)
    <3>1. Final(id) /\ market[id].fees = 0 /\ lpFees[id] = 0
      BY <2>1, <2>2
    <3>2. market[id].status # "open"
      BY <3>1 DEF Final
    <3>3. ~(market[id].fees > 0) /\ ~(lpFees[id] > 0)
      BY <3>1
    <3> QED
      BY <3>2, <3>3
  <2> QED
    BY <2>2 DEF IInv, TypeOK
<1>1. ASSUME NEW h \in Holders, NEW t \in CloseChoices, NEW s \in SeedChoices,
             NEW p \in ProbChoices, CreateMarket(h, t, s, p)
      PROVE  ClosedStays
  <2>1. nextId \in MarketIds /\ ~settle[nextId].closed
    BY <1>1, MarketCoreAssumption
       DEF CreateMarket, IInv, TypeOK, Safe, Fresh, MarketIds
  <2> QED
    BY <1>0, <1>1, <2>1 DEF CreateMarket, ClosedStays
<1>2. CASE Trading
  <2>1. PICK h \in Holders, id \in MarketIds, o \in Outcomes :
            /\ market[id].status = "open"
            /\ \E r, f, ds, dx, dh : Trade(h, id, o, r, f, ds, dx, dh)
    <3>1. PICK h \in Holders, id \in MarketIds, o \in Outcomes,
               a \in AmountChoices, l \in LimitChoices,
               d \in DeadlineChoices :
              \/ Buy(h, id, o, a, 0) \/ BuyV2(h, id, o, a, 0, l, d)
              \/ Sell(h, id, o, a, MaxSets)
              \/ SellV2(h, id, o, a, MaxSets, l, d)
      BY <1>2 DEF Trading
    <3>2. \/ \E m, k : DoBuy(h, id, o, a, m, k)
          \/ \E m, k : DoSell(h, id, o, a, m, k)
      BY <3>1 DEF Buy, BuyV2, Sell, SellV2
    <3>3. CASE \E m, k : DoBuy(h, id, o, a, m, k)
      BY <3>3 DEF DoBuy, Tradable
    <3>4. CASE \E m, k : DoSell(h, id, o, a, m, k)
      BY <3>4 DEF DoSell, Tradable
    <3> QED
      BY <3>2, <3>3, <3>4
  <2> QED
    BY <1>0, <2>1 DEF Trade, ClosedStays
<1>3. ASSUME NEW r \in Resolvers, NEW id \in MarketIds,
             (\E o \in Outcomes : Resolve(r, id, o)) \/ VoidMarket(r, id)
      PROVE  ClosedStays
  BY <1>0, <1>3 DEF Resolve, VoidMarket, Finalize, ClosedStays
<1>4. ASSUME NEW h \in Holders, NEW ids \in SUBSET MarketIds,
             \A id \in ids : ~settle[id].closed,
             RedeemAll(h, ids) \/ ClaimAll(ids)
      PROVE  ClosedStays
  BY <1>0, <1>4 DEF RedeemAll, ClaimAll, ClosedStays
<1>5. ASSUME NEW h \in Holders, NEW id \in MarketIds,
             Redeem(h, id) \/ ClaimPoolRemainder(h, id)
      PROVE  ClosedStays
  <2>1. {id} \in SUBSET MarketIds
    OBVIOUS
  <2> QED
    BY <1>4, <1>5, <2>1
       DEF Redeem, Redeemable, ClaimPoolRemainder, Claimable
<1>6. ASSUME NEW h \in Holders, NEW ids \in SUBSET MarketIds,
             RedeemMany(h, ids) \/ ClaimPoolRemainders(h, ids)
      PROVE  ClosedStays
  <2>1. PICK r \in SUBSET MarketIds, c \in SUBSET MarketIds :
            /\ r = {id \in ids : Redeemable(h, id)}
            /\ c = {id \in ids : Claimable(h, id)}
    OBVIOUS
  <2>2. \A id \in r \cup c : ~settle[id].closed
    BY <2>1 DEF Redeemable, Claimable
  <2>3. RedeemAll(h, r) \/ ClaimAll(c)
    BY <1>6, <2>1 DEF RedeemMany, ClaimPoolRemainders
  <2> QED
    BY <1>4, <2>2, <2>3
<1>7. ASSUME NEW id \in MarketIds, NEW h \in Holders,
             ClaimLpFees(h, id) \/ TransferLp(id, h)
      PROVE  ClosedStays
  BY <1>0, <1>7 DEF ClaimLpFees, TransferLp, ClosedStays
<1>8. ASSUME NEW id \in MarketIds, FinalizeMarket(id) \/ SweepFees(id)
      PROVE  ClosedStays
  BY <1>0, <1>8 DEF FinalizeMarket, SweepFees, ClosedStays
<1>9. ASSUME NEW from \in Holders, NEW to \in Holders, NEW id \in MarketIds,
             NEW o \in Outcomes, NEW a \in AmountChoices,
             TransferPosition(from, to, id, o, a)
      PROVE  ClosedStays
  BY <1>9 DEF TransferPosition, ClosedStays
<1>10. CASE Admin
  BY <1>10 DEF Admin, SetPaused, SetDefaultFeeBps, SetProtocolFeeShareBps,
     SetDefaultRedeemHorizon, SetDefaultBreaker, Configure, ProposeTreasury,
     ProposeResolver, Propose, AcceptTreasury, AcceptResolver, Accept,
     ClosedStays
<1>11. CASE Tick
  BY <1>11 DEF Tick, ClosedStays
<1> QED
  BY <1>1, <1>2, <1>3, <1>5, <1>6, <1>7, <1>8, <1>9, <1>10, <1>11
     DEF Next, Trading, Admin

(* finalize_market: "marks the market closed so nothing can ever pay out   *)
(* again".                                                                 *)
THEOREM ClosedForGood == Spec => ClosedPaysNothing
<1>1. IInv /\ [Next]_vars => [ClosedStays]_vars
  BY ClosedStep
<1> QED
  BY <1>1, Invariance, PTL DEF Spec, ClosedPaysNothing, ClosedStays

(* What one step does to an open pool's product.                           *)
ProductKept ==
    \A id \in MarketIds :
        market[id].status = "open" /\ market'[id].status = "open" =>
            market'[id].reserve.yes * market'[id].reserve.no
                >= market[id].reserve.yes * market[id].reserve.no

LEMMA SelfProduct ==
    ASSUME IInv, NEW id \in MarketIds
    PROVE  market[id].reserve.yes * market[id].reserve.no
               >= market[id].reserve.yes * market[id].reserve.no
<1>1. PICK y \in Nat, n \in Nat :
          y = market[id].reserve["yes"] /\ n = market[id].reserve["no"]
  BY DEF IInv, TypeOK, MarketType, Outcomes
<1>2. y * n >= y * n
  OBVIOUS
<1> QED
  BY <1>1, <1>2

(* A step that leaves the reserves of every open market alone.             *)
LEMMA SameReserves ==
    ASSUME IInv,
           \A id \in MarketIds : market[id].status = "open" =>
               market'[id].reserve = market[id].reserve
    PROVE  ProductKept
BY SelfProduct DEF ProductKept

(* Buying and selling are the only operations that touch an open market's  *)
(* reserves, and their rounding favours the pool.                          *)
LEMMA ProductStep == IInv /\ Next => ProductKept
<1> SUFFICES ASSUME IInv, Next PROVE ProductKept
  OBVIOUS
<1>0. market \in [MarketIds -> MarketType]
  BY DEF IInv, TypeOK
<1>1. ASSUME NEW h \in Holders, NEW t \in CloseChoices, NEW s \in SeedChoices,
             NEW p \in ProbChoices, CreateMarket(h, t, s, p)
      PROVE  ProductKept
  <2>1. nextId \in MarketIds /\ market[nextId].status = "none"
    BY <1>1, MarketCoreAssumption
       DEF CreateMarket, IInv, TypeOK, Safe, Fresh, MarketIds
  <2>2. \A id \in MarketIds \ {nextId} : market'[id] = market[id]
    BY <1>0, <1>1, <2>1 DEF CreateMarket
  <2> QED
    BY <2>1, <2>2, SameReserves
<1>2. ASSUME NEW h \in Holders, NEW id \in MarketIds, NEW o \in Outcomes,
             NEW a \in AmountChoices, NEW x, NEW l,
             DoBuy(h, id, o, a, x, l) \/ DoSell(h, id, o, a, x, l)
      PROVE  ProductKept
  <2>1. market'[id].reserve.yes * market'[id].reserve.no
            >= market[id].reserve.yes * market[id].reserve.no
    BY <1>2, BuyBalances, SellBalances
  <2>2. \A i \in MarketIds \ {id} : market'[i] = market[i]
    BY <1>0, <1>2 DEF DoBuy, DoSell, Trade
  <2>3. ASSUME NEW i \in MarketIds \ {id}
        PROVE  market'[i].reserve.yes * market'[i].reserve.no
                   >= market[i].reserve.yes * market[i].reserve.no
    BY <2>2, SelfProduct
  <2> QED
    BY <2>1, <2>3 DEF ProductKept
<1>3. ASSUME NEW r \in Resolvers, NEW id \in MarketIds,
             (\E o \in Outcomes : Resolve(r, id, o)) \/ VoidMarket(r, id)
      PROVE  ProductKept
  <2>1. PICK kind : market' = [market EXCEPT ![id].status = kind]
    BY <1>3 DEF Resolve, VoidMarket, Finalize
  <2>2. \A i \in MarketIds : market'[i].reserve = market[i].reserve
    BY <1>0, <2>1 DEF MarketType
  <2> QED
    BY <2>2, SameReserves
<1>4. ASSUME NEW ids \in SUBSET MarketIds, \A id \in ids : Final(id),
             ClaimAll(ids)
      PROVE  ProductKept
  BY <1>4, SameReserves DEF ClaimAll, Final
<1>5. ASSUME NEW h \in Holders, NEW id \in MarketIds,
             ClaimPoolRemainder(h, id)
      PROVE  ProductKept
  <2>1. {id} \in SUBSET MarketIds
    OBVIOUS
  <2> QED
    BY <1>4, <1>5, <2>1 DEF ClaimPoolRemainder, Claimable
<1>6. ASSUME NEW h \in Holders, NEW ids \in SUBSET MarketIds,
             ClaimPoolRemainders(h, ids)
      PROVE  ProductKept
  <2>1. PICK c \in SUBSET MarketIds : c = {id \in ids : Claimable(h, id)}
    OBVIOUS
  <2>2. ClaimAll(c) /\ \A id \in c : Final(id)
    BY <1>6, <2>1 DEF ClaimPoolRemainders, Claimable
  <2> QED
    BY <1>4, <2>2
<1>7. ASSUME NEW id \in MarketIds, FinalizeMarket(id) PROVE ProductKept
  <2>1. market[id].status # "open"
    BY <1>7 DEF FinalizeMarket, Final
  <2>2. \A i \in MarketIds \ {id} : market'[i] = market[i]
    BY <1>0, <1>7 DEF FinalizeMarket
  <2> QED
    BY <2>1, <2>2, SameReserves
<1>8. ASSUME NEW id \in MarketIds, NEW h \in Holders, TransferLp(id, h)
      PROVE  ProductKept
  BY <1>0, <1>8, SameReserves DEF TransferLp, MarketType
<1>9. CASE UNCHANGED market
  BY <1>9, SameReserves
<1>10. ASSUME NEW h \in Holders, NEW ids \in SUBSET MarketIds,
              RedeemMany(h, ids)
       PROVE  UNCHANGED market
  BY <1>10 DEF RedeemMany, RedeemAll
<1>11. ASSUME NEW h \in Holders, NEW id \in MarketIds,
              Redeem(h, id) \/ ClaimLpFees(h, id)
       PROVE  UNCHANGED market
  BY <1>11 DEF Redeem, RedeemAll, ClaimLpFees
<1>12. ASSUME NEW from \in Holders, NEW to \in Holders, NEW id \in MarketIds,
              NEW o \in Outcomes, NEW a \in AmountChoices,
              TransferPosition(from, to, id, o, a)
       PROVE  UNCHANGED market
  BY <1>12 DEF TransferPosition
<1>13. ASSUME Admin \/ Tick PROVE UNCHANGED market
  BY <1>13 DEF Admin, SetPaused, SetDefaultFeeBps, SetProtocolFeeShareBps,
     SetDefaultRedeemHorizon, SetDefaultBreaker, Configure, ProposeTreasury,
     ProposeResolver, Propose, AcceptTreasury, AcceptResolver, Accept, Tick
<1>14. CASE Trading
  BY <1>2, <1>14 DEF Trading, Buy, BuyV2, Sell, SellV2
<1>15. CASE \E id \in MarketIds : SweepFees(id)
  <2>1. PICK id \in MarketIds : SweepFees(id)
    BY <1>15
  <2> QED
    BY <1>0, <2>1, SameReserves DEF SweepFees, MarketType
<1> QED
  BY <1>1, <1>3, <1>5, <1>6, <1>7, <1>8, <1>9, <1>10, <1>11, <1>12, <1>13,
     <1>14, <1>15 DEF Next, Trading, Admin

(* No sequence of trades drains a pool: the product of its reserves never  *)
(* falls while the market is open, for every pool, fee and amount.         *)
THEOREM PoolNeverDrained == Spec => ProductNeverFalls
<1>1. IInv /\ [Next]_vars => [ProductKept]_vars
  BY ProductStep
<1> QED
  BY <1>1, Invariance, PTL DEF Spec, ProductNeverFalls, ProductKept

-----------------------------------------------------------------------------
(* The shares in a market's positions.                                     *)

Positions == [Holders -> [Outcomes -> Nat]]

LEMMA SharesSum ==
    ASSUME NEW p \in Positions, NEW o \in Outcomes
    PROVE  /\ SharesIn(p, o)
                  = SumFunctionOnSet([h \in Holders |-> p[h][o]], Holders)
           /\ SharesIn(p, o) \in Nat
<1>1. PICK f : f = [h \in Holders |-> p[h][o]]
  OBVIOUS
<1>2. DOMAIN f = Holders /\ \A h \in Holders : f[h] \in Nat
  BY <1>1 DEF Positions
<1>3. SumFunction(f) = SumFunctionOnSet(f, Holders)
  BY <1>2, SumDomain
<1>4. SumFunctionOnSet(f, Holders) \in Nat
  BY <1>2, SumNat, MarketCoreAssumption
<1> QED
  BY <1>1, <1>3, <1>4 DEF SharesIn

LEMMA SharesMoved ==
    ASSUME NEW p \in Positions, NEW q \in Positions, NEW o \in Outcomes,
           NEW h \in Holders, \A g \in Holders : g # h => p[g][o] = q[g][o]
    PROVE  SharesIn(q, o) = SharesIn(p, o) - p[h][o] + q[h][o]
<1>1. PICK f : f = [g \in Holders |-> p[g][o]]
  OBVIOUS
<1>2. PICK k : k = [g \in Holders |-> q[g][o]]
  OBVIOUS
<1>3. \A g \in Holders : f[g] \in Int /\ k[g] \in Int
  BY <1>1, <1>2 DEF Positions
<1>4. \A g \in Holders : g # h => f[g] = k[g]
  BY <1>1, <1>2
<1>5. SumFunctionOnSet(k, Holders) = SumFunctionOnSet(f, Holders) - f[h] + k[h]
  BY <1>3, <1>4, SumChange, MarketCoreAssumption
<1> QED
  BY <1>1, <1>2, <1>5, SharesSum

LEMMA SharesNone ==
    ASSUME NEW p \in Positions, NEW o \in Outcomes,
           \A h \in Holders : p[h][o] = 0
    PROVE  SharesIn(p, o) = 0
<1>1. PICK f : f = [h \in Holders |-> p[h][o]]
  OBVIOUS
<1>2. SumFunctionOnSet(f, Holders) = 0
  BY <1>1, SumZero, MarketCoreAssumption
<1> QED
  BY <1>1, <1>2, SharesSum

-----------------------------------------------------------------------------
(* The ledger, market by market.                                           *)

CountsAt(id) ==
    ~settle[id].closed =>
        \A o \in Outcomes : settle[id].outstanding[o] = Shares(id, o)

FinalAt(id) ==
    Final(id) /\ ~settle[id].closed =>
        /\ \A o \in Outcomes : market[id].status = o =>
               Backing(id) = Presentable(id, o)
        /\ market[id].status = "void" =>
               2 * Backing(id) >= Presentable(id, "yes") + Presentable(id, "no")

SweepAt(id) ==
    /\ ~settle[id].closed => Backing(id) >= market[id].sets - settle[id].paidOut
    /\ settle[id].closed => held[id] >= 0 /\ now >= RedeemDeadline(id)

WholeAt(id) ==
    /\ id >= nextId <=> market[id].status = "none"
    /\ market[id].status = "none" =>
          /\ market[id].sets = 0 /\ settle[id].outstanding = Zero
          /\ \A h \in Holders : pos[id][h] = Zero
    /\ ~Final(id) => settle[id].paidOut = 0 /\ ~market[id].lpClaimed

LedgerAt(id) == CountsAt(id) /\ FinalAt(id) /\ SweepAt(id) /\ WholeAt(id)

LEMMA LedgerByMarket == Ledger <=> \A id \in MarketIds : LedgerAt(id)
BY DEF Ledger, LedgerAt, CountsAt, FinalAt, SweepAt, WholeAt,
       OutstandingCountsShares, FinalBacked, SweepCovered, StartsWhole

LEMMA LedgerAfter == Ledger' <=> \A id \in MarketIds : LedgerAt(id)'
BY DEF Ledger, LedgerAt, CountsAt, FinalAt, SweepAt, WholeAt,
       OutstandingCountsShares, FinalBacked, SweepCovered, StartsWhole

(* A market none of whose entries a step touches.                          *)
LEMMA LedgerFrame ==
    ASSUME IInv, IInv', NEW id \in MarketIds, LedgerAt(id),
           market'[id] = market[id], settle'[id] = settle[id],
           lpFees'[id] = lpFees[id], pos'[id] = pos[id], held'[id] = held[id],
           id >= nextId' <=> id >= nextId, now' >= now
    PROVE  LedgerAt(id)'
<1>1. CountsAt(id)'
  BY DEF LedgerAt, CountsAt, Shares
<1>2. FinalAt(id)'
  BY DEF LedgerAt, FinalAt, Final, Backing, Presentable
<1>3. SweepAt(id)'
  <2>1. RedeemDeadline(id)' = RedeemDeadline(id) /\ RedeemDeadline(id) \in Nat
    BY DEF RedeemDeadline, IInv, TypeOK, SettleType
  <2>2. now \in Nat /\ now' \in Nat
    BY MarketCoreAssumption DEF IInv, TypeOK
  <2> QED
    BY <2>1, <2>2 DEF LedgerAt, SweepAt, Backing
<1>4. WholeAt(id)'
  BY DEF LedgerAt, WholeAt, Final
<1> QED
  BY <1>1, <1>2, <1>3, <1>4 DEF LedgerAt

LEMMA EntryTypes ==
    ASSUME IInv, NEW id \in MarketIds
    PROVE  /\ market[id].status \in {"none", "open", "yes", "no", "void"}
           /\ market[id].reserve \in [Outcomes -> Nat]
           /\ market[id].sets \in Int /\ market[id].fees \in Nat
           /\ market[id].lpClaimed \in BOOLEAN
           /\ settle[id].outstanding \in [Outcomes -> Int]
           /\ settle[id].paidOut \in Int /\ settle[id].closed \in BOOLEAN
           /\ RedeemDeadline(id) \in Nat
           /\ lpFees[id] \in Nat /\ held[id] \in Int /\ pos[id] \in Positions
BY DEF IInv, TypeOK, MarketType, SettleType, RedeemDeadline, Positions

(* A trade moves as many shares in the counters as in the positions, and   *)
(* as much collateral as sets and fees.                                    *)
LEMMA LedgerTrade ==
    ASSUME IInv, IInv', Ledger, NEW h \in Holders, NEW id \in MarketIds,
           NEW o \in Outcomes, NEW r \in [Outcomes -> Nat], NEW fee \in Nat,
           NEW dSets \in Int, NEW dShares \in Int, NEW dHeld \in Int,
           market[id].status = "open", dHeld = dSets + fee,
           Trade(h, id, o, r, fee, dSets, dShares, dHeld)
    PROVE  Ledger'
<1>1. /\ ProtocolFee(fee, terms[id].share) \in Nat
      /\ LpFee(fee, terms[id].share) \in Nat
      /\ ProtocolFee(fee, terms[id].share) + LpFee(fee, terms[id].share) = fee
  BY FeeSplit DEF IInv, TypeOK, TermsType
<1>2. PICK pf \in Nat, lf \in Nat :
          /\ pf = ProtocolFee(fee, terms[id].share)
          /\ lf = LpFee(fee, terms[id].share) /\ pf + lf = fee
  BY <1>1
<1>3. /\ market' = [market EXCEPT ![id].reserve = r, ![id].sets = @ + dSets,
                                  ![id].fees = @ + pf]
      /\ lpFees' = [lpFees EXCEPT ![id] = @ + lf]
      /\ pos' = [pos EXCEPT ![id][h][o] = @ + dShares]
      /\ settle' = [settle EXCEPT ![id].outstanding[o] = @ + dShares]
      /\ held' = [held EXCEPT ![id] = @ + dHeld]
      /\ UNCHANGED <<now, nextId>>
  BY <1>2 DEF Trade
<1>4. ASSUME NEW i \in MarketIds, i # id PROVE LedgerAt(i)'
  <2>1. /\ market'[i] = market[i] /\ settle'[i] = settle[i]
        /\ lpFees'[i] = lpFees[i] /\ pos'[i] = pos[i] /\ held'[i] = held[i]
    BY <1>3, <1>4 DEF IInv, TypeOK
  <2>2. now' >= now /\ nextId' = nextId
    BY <1>3, MarketCoreAssumption DEF IInv, TypeOK
  <2> QED
    BY <2>1, <2>2, LedgerFrame, LedgerByMarket
<1>5. LedgerAt(id)
  BY LedgerByMarket
<1>6. /\ market'[id].status = "open"
      /\ market'[id].sets = market[id].sets + dSets
      /\ market'[id].fees = market[id].fees + pf
      /\ market'[id].lpClaimed = market[id].lpClaimed
      /\ lpFees'[id] = lpFees[id] + lf /\ held'[id] = held[id] + dHeld
  BY <1>3 DEF IInv, TypeOK, MarketType
<1>7. /\ settle'[id].paidOut = settle[id].paidOut
      /\ settle'[id].closed = settle[id].closed
      /\ \A x \in Outcomes : settle'[id].outstanding[x]
             = IF x = o THEN settle[id].outstanding[x] + dShares
               ELSE settle[id].outstanding[x]
  BY <1>3 DEF IInv, TypeOK, SettleType
<1>8. ~settle[id].closed
  BY DEF IInv, Safe, ClosedIsDone, Final
<1>9. CountsAt(id)'
  <2>1. pos[id] \in Positions /\ pos'[id] \in Positions
    BY DEF IInv, TypeOK, Positions
  <2>2. \A g \in Holders, x \in Outcomes :
            pos'[id][g][x] = IF g = h /\ x = o THEN pos[id][g][x] + dShares
                             ELSE pos[id][g][x]
    BY <1>3 DEF IInv, TypeOK
  <2>3. ASSUME NEW x \in Outcomes
        PROVE  SharesIn(pos'[id], x)
                   = SharesIn(pos[id], x) - pos[id][h][x] + pos'[id][h][x]
    BY <2>1, <2>2, SharesMoved
  <2>4. ASSUME NEW x \in Outcomes
        PROVE  settle'[id].outstanding[x] = SharesIn(pos'[id], x)
    <3>1. settle[id].outstanding[x] = SharesIn(pos[id], x)
      BY <1>5, <1>8 DEF LedgerAt, CountsAt, Shares
    <3>2. SharesIn(pos[id], x) \in Nat /\ pos[id][h][x] \in Nat
      BY <2>1, SharesSum DEF Positions
    <3> QED
      BY <1>7, <2>2, <2>3, <3>1, <3>2
  <2> QED
    BY <2>4 DEF CountsAt, Shares
<1>10. FinalAt(id)'
  BY <1>6 DEF FinalAt, Final
<1>11. SweepAt(id)'
  <2>1. Backing(id) >= market[id].sets - settle[id].paidOut
    BY <1>5, <1>8 DEF LedgerAt, SweepAt
  <2>2. Backing(id)' = Backing(id) + dSets
    BY <1>2, <1>6, EntryTypes DEF Backing
  <2>3. Backing(id) \in Int
    BY EntryTypes DEF Backing
  <2>4. Backing(id)' >= market'[id].sets - settle'[id].paidOut
    BY <1>6, <1>7, <2>1, <2>2, <2>3, EntryTypes
  <2> QED
    BY <1>7, <1>8, <2>4 DEF SweepAt
<1>12. WholeAt(id)'
  BY <1>3, <1>5, <1>6, <1>7 DEF LedgerAt, WholeAt, Final
<1>13. \A i \in MarketIds : LedgerAt(i)'
  BY <1>4, <1>9, <1>10, <1>11, <1>12 DEF LedgerAt
<1> QED
  BY <1>13, LedgerAfter

(* create_market: the creator's shares are the first.                      *)
LEMMA LedgerCreate ==
    ASSUME IInv, IInv', Ledger, NEW c \in Holders, NEW t \in CloseChoices,
           NEW s \in SeedChoices, NEW p \in ProbChoices,
           CreateMarket(c, t, s, p)
    PROVE  Ledger'
<1>1. s \in Nat /\ p \in Nat /\ SeedOk(s, p)
  BY MarketCoreAssumption DEF CreateMarket
<1>2. PICK k \in [Outcomes -> Nat] : k = CreatorShares(s, p)
  BY <1>1, SeedFacts
<1>3. PICK id \in MarketIds : id = nextId /\ nextId' = id + 1 /\ id \in Nat
  <2>1. nextId < MaxMarkets /\ nextId' = nextId + 1
    BY DEF CreateMarket
  <2>2. nextId \in 0 .. MaxMarkets /\ MaxMarkets \in Nat
    BY MarketCoreAssumption DEF IInv, TypeOK
  <2> QED
    BY <2>1, <2>2 DEF MarketIds
<1>4. PICK m : m = [creator |-> c, close |-> t, feeBps |-> config.feeBps,
                    status |-> "open", reserve |-> SeedReserves(s, p),
                    sets |-> s, fees |-> 0, lpClaimed |-> FALSE]
  OBVIOUS
<1>5. PICK e : e = [outstanding |-> k, finalizedAt |-> 0,
                    horizon |-> config.horizon, paidOut |-> 0,
                    closed |-> FALSE]
  OBVIOUS
<1>6. /\ market' = [market EXCEPT ![id] = m]
      /\ settle' = [settle EXCEPT ![id] = e]
      /\ pos' = [pos EXCEPT ![id][c] = k]
      /\ held' = [held EXCEPT ![id] = @ + s]
      /\ UNCHANGED <<now, lpFees>>
  BY <1>2, <1>3, <1>4, <1>5 DEF CreateMarket
<1>7. ASSUME NEW i \in MarketIds, i # id PROVE LedgerAt(i)'
  <2>1. /\ market'[i] = market[i] /\ settle'[i] = settle[i]
        /\ lpFees'[i] = lpFees[i] /\ pos'[i] = pos[i] /\ held'[i] = held[i]
    BY <1>6, <1>7 DEF IInv, TypeOK
  <2>2. now' >= now
    BY <1>6, MarketCoreAssumption DEF IInv, TypeOK
  <2>3. i >= nextId' <=> i >= nextId
    BY <1>3, <1>7 DEF MarketIds
  <2> QED
    BY <2>1, <2>2, <2>3, LedgerFrame, LedgerByMarket
<1>8. LedgerAt(id)
  BY LedgerByMarket
<1>9. /\ market'[id] = m /\ settle'[id] = e
      /\ held'[id] = held[id] + s /\ lpFees'[id] = lpFees[id]
      /\ pos'[id] = [pos[id] EXCEPT ![c] = k]
  BY <1>6 DEF IInv, TypeOK
<1>10. /\ held[id] = 0 /\ lpFees[id] = 0
       /\ \A h \in Holders : pos[id][h] = Zero
  <2>1. market[id].status = "none"
    BY <1>3, <1>8 DEF LedgerAt, WholeAt
  <2>2. \A h \in Holders : pos[id][h] = Zero
    BY <1>8, <2>1 DEF LedgerAt, WholeAt
  <2>3. held[id] = 0 /\ lpFees[id] = 0
    BY <1>3 DEF IInv, Safe, Fresh
  <2> QED
    BY <2>2, <2>3
<1>11. CountsAt(id)'
  <2>1. pos[id] \in Positions /\ pos'[id] \in Positions
    BY DEF IInv, TypeOK, Positions
  <2>2. ASSUME NEW x \in Outcomes
        PROVE  k[x] = SharesIn(pos'[id], x)
    <3>1. \A h \in Holders : pos[id][h][x] = 0
      BY <1>10 DEF Zero
    <3>2. SharesIn(pos[id], x) = 0
      BY <2>1, <3>1, SharesNone
    <3>3. pos'[id][c][x] = k[x] /\ k[x] \in Nat
      BY <1>9, <2>1 DEF Positions
    <3>4. \A h \in Holders : h # c => pos[id][h][x] = pos'[id][h][x]
      BY <1>9, <2>1 DEF Positions
    <3>5. SharesIn(pos'[id], x)
              = SharesIn(pos[id], x) - pos[id][c][x] + pos'[id][c][x]
      BY <2>1, <3>4, SharesMoved
    <3> QED
      BY <3>1, <3>2, <3>3, <3>5
  <2>3. settle'[id].outstanding = k
    BY <1>5, <1>9
  <2> QED
    BY <2>2, <2>3 DEF CountsAt, Shares
<1>12. FinalAt(id)'
  BY <1>4, <1>9 DEF FinalAt, Final
<1>13. SweepAt(id)'
  BY <1>1, <1>4, <1>5, <1>9, <1>10 DEF SweepAt, Backing
<1>14. WholeAt(id)'
  BY <1>3, <1>4, <1>5, <1>9 DEF WholeAt, Final
<1>15. \A i \in MarketIds : LedgerAt(i)'
  BY <1>7, <1>11, <1>12, <1>13, <1>14 DEF LedgerAt
<1> QED
  BY <1>15, LedgerAfter

(* resolve and void_market: the pool's sets become the winners' collateral.*)
LEMMA LedgerFinalize ==
    ASSUME IInv, IInv', Ledger, NEW id \in MarketIds,
           NEW kind \in {"yes", "no", "void"},
           market[id].status = "open", Finalize(id, kind)
    PROVE  Ledger'
<1>1. /\ market' = [market EXCEPT ![id].status = kind]
      /\ settle' = [settle EXCEPT ![id].finalizedAt = now]
      /\ UNCHANGED <<now, nextId, lpFees, pos, held>>
  BY DEF Finalize
<1>2. ASSUME NEW i \in MarketIds, i # id PROVE LedgerAt(i)'
  <2>1. /\ market'[i] = market[i] /\ settle'[i] = settle[i]
        /\ lpFees'[i] = lpFees[i] /\ pos'[i] = pos[i] /\ held'[i] = held[i]
    BY <1>1, <1>2 DEF IInv, TypeOK
  <2>2. now' >= now /\ nextId' = nextId
    BY <1>1, MarketCoreAssumption DEF IInv, TypeOK
  <2> QED
    BY <2>1, <2>2, LedgerFrame, LedgerByMarket
<1>3. LedgerAt(id)
  BY LedgerByMarket
<1>4. /\ market'[id].status = kind /\ market'[id].sets = market[id].sets
      /\ market'[id].reserve = market[id].reserve
      /\ market'[id].fees = market[id].fees
      /\ market'[id].lpClaimed = market[id].lpClaimed
  BY <1>1 DEF IInv, TypeOK, MarketType
<1>5. /\ settle'[id].outstanding = settle[id].outstanding
      /\ settle'[id].paidOut = settle[id].paidOut
      /\ settle'[id].closed = settle[id].closed
  BY <1>1 DEF IInv, TypeOK, SettleType
<1>6. ~settle[id].closed /\ ~market[id].lpClaimed
  BY <1>3 DEF IInv, Safe, ClosedIsDone, Final, LedgerAt, WholeAt
<1>7. /\ held[id] = market[id].sets + market[id].fees + lpFees[id]
      /\ \A o \in Outcomes :
             market[id].reserve[o] + settle[id].outstanding[o] = market[id].sets
  BY DEF IInv, Safe, OpenBacked
<1>8. CountsAt(id)'
  BY <1>1, <1>3, <1>5 DEF LedgerAt, CountsAt, Shares
<1>9. FinalAt(id)'
  <2>1. Backing(id)' = market[id].sets
    BY <1>1, <1>4, <1>7, EntryTypes DEF Backing
  <2>2. ASSUME NEW o \in Outcomes PROVE Presentable(id, o)' = market[id].sets
    BY <1>4, <1>5, <1>6, <1>7, EntryTypes DEF Presentable
  <2>3. Presentable(id, "yes")' = market[id].sets
        /\ Presentable(id, "no")' = market[id].sets
    BY <2>2 DEF Outcomes
  <2>4. 2 * Backing(id)' >= Presentable(id, "yes")' + Presentable(id, "no")'
    BY <2>1, <2>3, EntryTypes
  <2> QED
    BY <2>1, <2>2, <2>4 DEF FinalAt
<1>10. SweepAt(id)'
  BY <1>1, <1>3, <1>4, <1>5, <1>6 DEF LedgerAt, SweepAt, Backing
<1>11. WholeAt(id)'
  BY <1>1, <1>3, <1>4 DEF LedgerAt, WholeAt, Final
<1>12. \A i \in MarketIds : LedgerAt(i)'
  BY <1>2, <1>8, <1>9, <1>10, <1>11 DEF LedgerAt
<1> QED
  BY <1>12, LedgerAfter

LEMMA NowNat == ASSUME IInv PROVE now \in Nat
BY MarketCoreAssumption DEF IInv, TypeOK

(* A settled holding is worth its winning shares, or at most half of all.  *)
LEMMA SettleValueBound ==
    ASSUME NEW kind \in {"yes", "no", "void"}, NEW p \in [Outcomes -> Nat]
    PROVE  /\ \A o \in Outcomes : kind = o => SettleValue(kind, p) = p[o]
           /\ kind = "void" => 2 * SettleValue(kind, p) <= p["yes"] + p["no"]
<1>1. p["yes"] \in Nat /\ p["no"] \in Nat
  BY DEF Outcomes
<1>2. \A o \in Outcomes : kind = o => SettleValue(kind, p) = p[o]
  BY DEF SettleValue, Outcomes
<1>3. kind = "void" => 2 * SettleValue(kind, p) <= p["yes"] + p["no"]
  BY <1>1 DEF SettleValue
<1> QED
  BY <1>2, <1>3

(* A payment of v out of a final market that retires shares worth at least *)
(* v keeps the rest backed.                                                *)
LEMMA FinalPaid ==
    ASSUME IInv, IInv', NEW id \in MarketIds, FinalAt(id),
           NEW v \in Nat, NEW p \in [Outcomes -> Nat],
           Final(id), ~settle[id].closed,
           v = SettleValue(market[id].status, p),
           market'[id].status = market[id].status,
           Backing(id)' = Backing(id) - v,
           \A o \in Outcomes : Presentable(id, o)' = Presentable(id, o) - p[o]
    PROVE  FinalAt(id)'
<1>1. /\ Backing(id) \in Int
      /\ \A o \in Outcomes : Presentable(id, o) \in Int
  BY EntryTypes DEF Backing, Presentable
<1>2. market[id].status \in {"yes", "no", "void"}
  BY DEF Final
<1>3. ASSUME NEW o \in Outcomes, market[id].status = o
      PROVE  Backing(id)' = Presentable(id, o)'
  <2>1. v = p[o] /\ Backing(id) = Presentable(id, o)
    BY <1>2, <1>3, SettleValueBound DEF FinalAt
  <2> QED
    BY <1>1, <2>1
<1>4. ASSUME market[id].status = "void"
      PROVE  2 * Backing(id)'
                 >= Presentable(id, "yes")' + Presentable(id, "no")'
  <2>1. "yes" \in Outcomes /\ "no" \in Outcomes
    BY DEF Outcomes
  <2>2. 2 * v <= p["yes"] + p["no"]
    BY <1>2, <1>4, SettleValueBound
  <2>3. 2 * Backing(id) >= Presentable(id, "yes") + Presentable(id, "no")
    BY <1>4 DEF FinalAt
  <2>4. p["yes"] \in Nat /\ p["no"] \in Nat
    BY <2>1
  <2>5. /\ Presentable(id, "yes")' = Presentable(id, "yes") - p["yes"]
        /\ Presentable(id, "no")' = Presentable(id, "no") - p["no"]
    BY <2>1
  <2> QED
    BY <1>1, <2>1, <2>2, <2>3, <2>4, <2>5
<1> QED
  BY <1>3, <1>4 DEF FinalAt

(* redeem and redeem_many: the shares leave the counters as they leave the *)
(* positions, and the payout is what they were worth.                      *)
LEMMA LedgerRedeem ==
    ASSUME IInv, IInv', Ledger, NEW h \in Holders,
           NEW ids \in SUBSET MarketIds, \A id \in ids : Redeemable(h, id),
           RedeemAll(h, ids)
    PROVE  Ledger'
<1>1. now' >= now /\ nextId' = nextId
  <2>1. UNCHANGED <<now, nextId>>
    BY DEF RedeemAll
  <2> QED
    BY <2>1, NowNat
<1>2. ASSUME NEW i \in MarketIds, i \notin ids PROVE LedgerAt(i)'
  <2>1. /\ market'[i] = market[i] /\ settle'[i] = settle[i]
        /\ lpFees'[i] = lpFees[i] /\ pos'[i] = pos[i] /\ held'[i] = held[i]
    BY <1>2 DEF RedeemAll
  <2> QED
    BY <1>1, <2>1, LedgerFrame, LedgerByMarket
<1>3. ASSUME NEW id \in ids PROVE LedgerAt(id)'
  <2>1. LedgerAt(id) /\ Final(id) /\ ~settle[id].closed
    BY <1>3, LedgerByMarket DEF Redeemable
  <2>2. PICK p \in [Outcomes -> Nat] : p = pos[id][h]
    BY DEF IInv, TypeOK
  <2>3. PICK v \in Nat : v = SettleValue(market[id].status, p)
    BY <2>1, SettleValueNat DEF Final
  <2>4. /\ market'[id] = market[id] /\ lpFees'[id] = lpFees[id]
        /\ pos'[id] = [pos[id] EXCEPT ![h] = Zero]
        /\ held'[id] = held[id] - v
        /\ settle'[id] = [settle[id] EXCEPT
              !.outstanding = [o \in Outcomes |-> @[o] - p[o]],
              !.paidOut = @ + v]
    BY <1>3, <2>2, <2>3 DEF RedeemAll, Payout
  <2>5. /\ settle'[id].closed = settle[id].closed
        /\ settle'[id].paidOut = settle[id].paidOut + v
        /\ \A o \in Outcomes : settle'[id].outstanding[o]
                                   = settle[id].outstanding[o] - p[o]
    BY <2>4 DEF IInv, TypeOK, SettleType
  <2>6. CountsAt(id)'
    <3>1. pos[id] \in Positions /\ pos'[id] \in Positions
      BY DEF IInv, TypeOK, Positions
    <3>2. ASSUME NEW o \in Outcomes
          PROVE  settle'[id].outstanding[o] = SharesIn(pos'[id], o)
      <4>1. /\ pos'[id][h][o] = 0
            /\ \A g \in Holders : g # h => pos[id][g][o] = pos'[id][g][o]
        BY <2>4, <3>1 DEF Positions, Zero
      <4>2. SharesIn(pos'[id], o)
                = SharesIn(pos[id], o) - pos[id][h][o] + pos'[id][h][o]
        BY <3>1, <4>1, SharesMoved
      <4>3. settle[id].outstanding[o] = SharesIn(pos[id], o)
        BY <2>1 DEF LedgerAt, CountsAt, Shares
      <4>4. SharesIn(pos[id], o) \in Nat /\ p[o] \in Nat
        BY <3>1, SharesSum
      <4> QED
        BY <2>2, <2>5, <4>1, <4>2, <4>3, <4>4
    <3> QED
      BY <3>2 DEF CountsAt, Shares
  <2>7. Backing(id)' = Backing(id) - v /\ Backing(id) \in Int
    BY <2>4, EntryTypes DEF Backing
  <2>8. FinalAt(id)'
    <3>1. \A o \in Outcomes : Presentable(id, o)' = Presentable(id, o) - p[o]
      BY <2>4, <2>5, EntryTypes DEF Presentable
    <3>2. market'[id].status = market[id].status /\ FinalAt(id)
      BY <2>1, <2>4 DEF LedgerAt
    <3> QED
      BY <2>1, <2>3, <2>7, <3>1, <3>2, FinalPaid
  <2>9. SweepAt(id)'
    <3>1. Backing(id) >= market[id].sets - settle[id].paidOut
      BY <2>1 DEF LedgerAt, SweepAt
    <3>2. Backing(id)' >= market'[id].sets - settle'[id].paidOut
      BY <2>4, <2>5, <2>7, <3>1, EntryTypes
    <3> QED
      BY <2>1, <2>5, <3>2 DEF SweepAt
  <2>10. WholeAt(id)'
    BY <1>1, <2>1, <2>4 DEF LedgerAt, WholeAt, Final
  <2> QED
    BY <2>6, <2>8, <2>9, <2>10 DEF LedgerAt
<1>4. \A i \in MarketIds : LedgerAt(i)'
  BY <1>2, <1>3
<1> QED
  BY <1>4, LedgerAfter

(* claim_pool_remainder and claim_pool_remainders pay the pool's shares.   *)
LEMMA LedgerClaim ==
    ASSUME IInv, IInv', Ledger, NEW ids \in SUBSET MarketIds,
           \A id \in ids : /\ Final(id) /\ ~settle[id].closed
                           /\ ~market[id].lpClaimed,
           ClaimAll(ids)
    PROVE  Ledger'
<1>1. now' >= now /\ nextId' = nextId
  <2>1. UNCHANGED <<now, nextId>>
    BY DEF ClaimAll
  <2> QED
    BY <2>1, NowNat
<1>2. ASSUME NEW i \in MarketIds, i \notin ids PROVE LedgerAt(i)'
  <2>1. /\ market'[i] = market[i] /\ settle'[i] = settle[i]
        /\ lpFees'[i] = lpFees[i] /\ pos'[i] = pos[i] /\ held'[i] = held[i]
    BY <1>2 DEF ClaimAll
  <2> QED
    BY <1>1, <2>1, LedgerFrame, LedgerByMarket
<1>3. ASSUME NEW id \in ids PROVE LedgerAt(id)'
  <2>1. LedgerAt(id) /\ Final(id) /\ ~settle[id].closed /\ ~market[id].lpClaimed
    BY <1>3, LedgerByMarket
  <2>2. PICK p \in [Outcomes -> Nat] : p = market[id].reserve
    BY EntryTypes
  <2>3. PICK v \in Nat : v = SettleValue(market[id].status, p)
    BY <2>1, SettleValueNat DEF Final
  <2>4. /\ market'[id] = [market[id] EXCEPT !.reserve = Zero,
                                            !.lpClaimed = TRUE]
        /\ lpFees'[id] = 0 /\ pos'[id] = pos[id]
        /\ held'[id] = held[id] - (v + lpFees[id])
        /\ settle'[id] = [settle[id] EXCEPT !.paidOut = @ + (v + lpFees[id])]
    BY <1>3, <2>2, <2>3 DEF ClaimAll, RemainderPayout, PoolValue
  <2>5. /\ settle'[id].closed = settle[id].closed
        /\ settle'[id].paidOut = settle[id].paidOut + (v + lpFees[id])
        /\ settle'[id].outstanding = settle[id].outstanding
    BY <2>4 DEF IInv, TypeOK, SettleType
  <2>6. /\ market'[id].status = market[id].status
        /\ market'[id].sets = market[id].sets
        /\ market'[id].fees = market[id].fees /\ market'[id].lpClaimed
    BY <2>4 DEF IInv, TypeOK, MarketType
  <2>7. CountsAt(id)'
    BY <2>1, <2>4, <2>5 DEF LedgerAt, CountsAt, Shares
  <2>8. Backing(id)' = Backing(id) - v /\ Backing(id) \in Int
    BY <2>4, <2>6, EntryTypes DEF Backing
  <2>9. FinalAt(id)'
    <3>1. \A o \in Outcomes : Presentable(id, o)' = Presentable(id, o) - p[o]
      BY <2>1, <2>2, <2>5, <2>6, EntryTypes DEF Presentable
    <3>2. FinalAt(id)
      BY <2>1 DEF LedgerAt
    <3> QED
      BY <2>1, <2>3, <2>6, <2>8, <3>1, <3>2, FinalPaid
  <2>10. SweepAt(id)'
    <3>1. Backing(id) >= market[id].sets - settle[id].paidOut
      BY <2>1 DEF LedgerAt, SweepAt
    <3>2. Backing(id)' >= market'[id].sets - settle'[id].paidOut
      BY <2>5, <2>6, <2>8, <3>1, EntryTypes
    <3> QED
      BY <2>1, <2>5, <3>2 DEF SweepAt
  <2>11. WholeAt(id)'
    BY <1>1, <2>1, <2>6 DEF LedgerAt, WholeAt, Final
  <2> QED
    BY <2>7, <2>9, <2>10, <2>11 DEF LedgerAt
<1>4. \A i \in MarketIds : LedgerAt(i)'
  BY <1>2, <1>3
<1> QED
  BY <1>4, LedgerAfter

(* finalize_market takes what SweepCovered says is there.                  *)
LEMMA LedgerCloseOut ==
    ASSUME IInv, IInv', Ledger, NEW id \in MarketIds, FinalizeMarket(id)
    PROVE  Ledger'
<1>1. now' >= now /\ nextId' = nextId
  <2>1. UNCHANGED <<now, nextId>>
    BY DEF FinalizeMarket
  <2> QED
    BY <2>1, NowNat
<1>2. ASSUME NEW i \in MarketIds, i # id PROVE LedgerAt(i)'
  <2>1. /\ market'[i] = market[i] /\ settle'[i] = settle[i]
        /\ lpFees'[i] = lpFees[i] /\ pos'[i] = pos[i] /\ held'[i] = held[i]
    BY <1>2 DEF FinalizeMarket, IInv, TypeOK
  <2> QED
    BY <1>1, <2>1, LedgerFrame, LedgerByMarket
<1>3. /\ LedgerAt(id) /\ Final(id) /\ ~settle[id].closed
      /\ now >= RedeemDeadline(id)
  BY LedgerByMarket DEF FinalizeMarket
<1>4. /\ settle'[id].closed /\ RedeemDeadline(id)' = RedeemDeadline(id)
      /\ market'[id].status = market[id].status
      /\ held'[id] = held[id] - Swept(id)
  BY DEF FinalizeMarket, IInv, TypeOK, MarketType, SettleType, RedeemDeadline
<1>5. Swept(id) = market[id].sets - settle[id].paidOut + market[id].fees
                      + lpFees[id]
  <2>1. PICK u \in Int : u = Unclaimed(id)
    BY <1>3, EntryTypes, SettleUpperInt DEF Unclaimed, Final
  <2>2. PICK v \in Nat : v = PoolValue(id)
    BY <1>3, PoolValueNat DEF IInv
  <2>3. PICK w \in Nat : w = LpClaim(id)
    BY <2>2 DEF LpClaim
  <2> QED
    BY <2>1, <2>3, EntryTypes DEF Swept, Dust
<1>6. held'[id] >= 0
  <2>1. Backing(id) >= market[id].sets - settle[id].paidOut
    BY <1>3 DEF LedgerAt, SweepAt
  <2> QED
    BY <1>4, <1>5, <2>1, EntryTypes DEF Backing
<1>7. CountsAt(id)' /\ FinalAt(id)'
  BY <1>4 DEF CountsAt, FinalAt
<1>8. SweepAt(id)'
  <2>1. now' >= RedeemDeadline(id)'
    BY <1>1, <1>3, <1>4, NowNat, EntryTypes DEF FinalizeMarket
  <2> QED
    BY <1>4, <1>6, <2>1 DEF SweepAt
<1>9. WholeAt(id)'
  BY <1>1, <1>3, <1>4 DEF LedgerAt, WholeAt, Final
<1>10. \A i \in MarketIds : LedgerAt(i)'
  BY <1>2, <1>7, <1>8, <1>9 DEF LedgerAt
<1> QED
  BY <1>10, LedgerAfter

(* A step that leaves the backing of an existing market as it is.          *)
LEMMA LedgerQuiet ==
    ASSUME IInv, IInv', NEW id \in MarketIds, LedgerAt(id),
           market[id].status # "none",
           market'[id].status = market[id].status,
           market'[id].sets = market[id].sets,
           market'[id].reserve = market[id].reserve,
           market'[id].lpClaimed = market[id].lpClaimed,
           settle'[id] = settle[id], Backing(id)' = Backing(id),
           settle[id].closed => held'[id] = held[id],
           now' = now, nextId' = nextId
    PROVE  FinalAt(id)' /\ SweepAt(id)' /\ WholeAt(id)'
<1>1. FinalAt(id)'
  BY DEF LedgerAt, FinalAt, Final, Presentable
<1>2. SweepAt(id)'
  BY DEF LedgerAt, SweepAt, RedeemDeadline
<1>3. WholeAt(id)'
  BY DEF LedgerAt, WholeAt, Final
<1> QED
  BY <1>1, <1>2, <1>3

(* claim_lp_fees and sweep_fees pay fees, not backing.                     *)
LEMMA LedgerFees ==
    ASSUME IInv, IInv', Ledger, NEW id \in MarketIds,
           SweepFees(id) \/ \E c : ClaimLpFees(c, id)
    PROVE  Ledger'
<1>1. /\ now' = now /\ nextId' = nextId /\ settle' = settle /\ pos' = pos
      /\ now' >= now
  <2>1. UNCHANGED <<now, nextId, settle, pos>>
    BY DEF SweepFees, ClaimLpFees
  <2> QED
    BY <2>1, NowNat
<1>2. ASSUME NEW i \in MarketIds, i # id PROVE LedgerAt(i)'
  <2>1. /\ market'[i] = market[i]
        /\ lpFees'[i] = lpFees[i] /\ held'[i] = held[i]
    BY <1>2 DEF SweepFees, ClaimLpFees, IInv, TypeOK
  <2> QED
    BY <1>1, <2>1, LedgerFrame, LedgerByMarket
<1>3. LedgerAt(id)
  BY LedgerByMarket
<1>4. market[id].fees # 0 \/ lpFees[id] # 0
  BY DEF SweepFees, ClaimLpFees
<1>5. market[id].status # "none" /\ ~settle[id].closed
  <2>1. ~settle[id].closed
    BY <1>4 DEF IInv, Safe, ClosedIsDone
  <2>2. ~(id >= nextId)
    BY <1>4 DEF IInv, Safe, Fresh
  <2> QED
    BY <1>3, <2>1, <2>2 DEF LedgerAt, WholeAt
<1>6. /\ market'[id].status = market[id].status
      /\ market'[id].sets = market[id].sets
      /\ market'[id].reserve = market[id].reserve
      /\ market'[id].lpClaimed = market[id].lpClaimed
  BY DEF SweepFees, ClaimLpFees, IInv, TypeOK, MarketType
<1>7. Backing(id)' = Backing(id)
  <2>1. CASE SweepFees(id)
    <3>1. /\ market'[id].fees = 0 /\ held'[id] = held[id] - market[id].fees
          /\ lpFees'[id] = lpFees[id]
      BY <2>1 DEF SweepFees, IInv, TypeOK, MarketType
    <3> QED
      BY <3>1, EntryTypes DEF Backing
  <2>2. CASE \E c : ClaimLpFees(c, id)
    <3>1. /\ lpFees'[id] = 0 /\ held'[id] = held[id] - lpFees[id]
          /\ market'[id] = market[id]
      BY <2>2 DEF ClaimLpFees, IInv, TypeOK
    <3> QED
      BY <3>1, EntryTypes DEF Backing
  <2> QED
    BY <2>1, <2>2
<1>8. CountsAt(id)'
  BY <1>1, <1>3 DEF LedgerAt, CountsAt, Shares
<1>9. FinalAt(id)' /\ SweepAt(id)' /\ WholeAt(id)'
  BY <1>1, <1>3, <1>5, <1>6, <1>7, LedgerQuiet
<1>10. \A i \in MarketIds : LedgerAt(i)'
  BY <1>2, <1>8, <1>9 DEF LedgerAt
<1> QED
  BY <1>10, LedgerAfter

(* transfer_lp changes nothing the ledger looks at.                        *)
LEMMA LedgerTransferLp ==
    ASSUME IInv, IInv', Ledger, NEW id \in MarketIds, NEW to,
           TransferLp(id, to)
    PROVE  Ledger'
<1>1. /\ now' = now /\ nextId' = nextId /\ settle' = settle /\ pos' = pos
      /\ lpFees' = lpFees /\ held' = held /\ now' >= now
  <2>1. UNCHANGED <<now, nextId, settle, pos, lpFees, held>>
    BY DEF TransferLp
  <2> QED
    BY <2>1, NowNat
<1>2. ASSUME NEW i \in MarketIds, i # id PROVE LedgerAt(i)'
  <2>1. market'[i] = market[i]
    BY <1>2 DEF TransferLp, IInv, TypeOK
  <2> QED
    BY <1>1, <2>1, LedgerFrame, LedgerByMarket
<1>3. LedgerAt(id) /\ market[id].status # "none"
  BY LedgerByMarket DEF TransferLp, Exists
<1>4. /\ market'[id].status = market[id].status
      /\ market'[id].sets = market[id].sets
      /\ market'[id].reserve = market[id].reserve
      /\ market'[id].fees = market[id].fees
      /\ market'[id].lpClaimed = market[id].lpClaimed
  BY DEF TransferLp, IInv, TypeOK, MarketType
<1>5. CountsAt(id)'
  BY <1>1, <1>3 DEF LedgerAt, CountsAt, Shares
<1>6. Backing(id)' = Backing(id)
  BY <1>1, <1>4 DEF Backing
<1>7. FinalAt(id)' /\ SweepAt(id)' /\ WholeAt(id)'
  BY <1>1, <1>3, <1>4, <1>6, LedgerQuiet
<1>8. \A i \in MarketIds : LedgerAt(i)'
  BY <1>2, <1>5, <1>7 DEF LedgerAt
<1> QED
  BY <1>8, LedgerAfter

(* transfer_position: what one holder loses the other gains.               *)
LEMMA LedgerTransfer ==
    ASSUME IInv, IInv', Ledger, NEW from \in Holders, NEW to \in Holders,
           NEW id \in MarketIds, NEW o \in Outcomes, NEW a \in AmountChoices,
           TransferPosition(from, to, id, o, a)
    PROVE  Ledger'
<1>1. /\ now' = now /\ nextId' = nextId /\ settle' = settle
      /\ market' = market /\ lpFees' = lpFees /\ held' = held /\ now' >= now
  <2>1. UNCHANGED <<now, nextId, settle, market, lpFees, held>>
    BY DEF TransferPosition
  <2> QED
    BY <2>1, NowNat
<1>2. ASSUME NEW i \in MarketIds, i # id PROVE LedgerAt(i)'
  <2>1. pos'[i] = pos[i]
    BY <1>2 DEF TransferPosition, IInv, TypeOK
  <2> QED
    BY <1>1, <2>1, LedgerFrame, LedgerByMarket
<1>3. LedgerAt(id) /\ market[id].status # "none"
  BY LedgerByMarket DEF TransferPosition, Exists
<1>4. PICK p \in Positions, q \in Positions :
          p = pos[id] /\ q = pos'[id]
  BY DEF IInv, TypeOK, Positions
<1>5. PICK n \in Nat : n = a
  BY MarketCoreAssumption
<1>6. /\ from # to /\ p[from][o] >= n
      /\ \A g \in Holders, x \in Outcomes :
             q[g][x] = IF x = o /\ g = from THEN p[g][x] - n
                       ELSE IF x = o /\ g = to THEN p[g][x] + n
                       ELSE p[g][x]
  BY <1>4, <1>5 DEF TransferPosition, IInv, TypeOK
<1>7. ASSUME NEW x \in Outcomes PROVE SharesIn(q, x) = SharesIn(p, x)
  <2>1. PICK m : m = [p EXCEPT ![from] = q[from]]
    OBVIOUS
  <2>2. /\ m \in Positions /\ m[from] = q[from]
        /\ \A g \in Holders : g # from => m[g] = p[g]
    BY <2>1 DEF Positions
  <2>3. SharesIn(m, x) = SharesIn(p, x) - p[from][x] + m[from][x]
    BY <2>2, SharesMoved
  <2>4. \A g \in Holders : g # to => m[g][x] = q[g][x]
    <3>1. ASSUME NEW g \in Holders, g # to PROVE m[g][x] = q[g][x]
      <4>1. CASE g = from
        BY <2>2, <4>1
      <4>2. CASE g # from
        BY <1>6, <2>2, <3>1, <4>2
      <4> QED
        BY <4>1, <4>2
    <3> QED
      BY <3>1
  <2>5. SharesIn(q, x) = SharesIn(m, x) - m[to][x] + q[to][x]
    BY <2>2, <2>4, SharesMoved
  <2>6. m[from][x] = q[from][x] /\ m[to][x] = p[to][x]
    BY <1>6, <2>2
  <2>7. /\ SharesIn(p, x) \in Nat /\ p[from][x] \in Nat /\ p[to][x] \in Nat
        /\ q[from][x] \in Nat /\ q[to][x] \in Nat
    BY SharesSum DEF Positions
  <2>8. q[from][x] - p[from][x] + q[to][x] - p[to][x] = 0
    BY <1>6, <2>7
  <2> QED
    BY <2>3, <2>5, <2>6, <2>7, <2>8
<1>8. CountsAt(id)'
  BY <1>1, <1>3, <1>4, <1>7 DEF LedgerAt, CountsAt, Shares
<1>9. FinalAt(id)' /\ SweepAt(id)' /\ WholeAt(id)'
  <2>1. Backing(id)' = Backing(id)
    BY <1>1 DEF Backing
  <2> QED
    BY <1>1, <1>3, <2>1, LedgerQuiet
<1>10. \A i \in MarketIds : LedgerAt(i)'
  BY <1>2, <1>8, <1>9 DEF LedgerAt
<1> QED
  BY <1>10, LedgerAfter

LEMMA InitLedger == ASSUME Init PROVE Ledger
<1>1. IInv
  BY InitIInv
<1>2. ASSUME NEW id \in MarketIds PROVE LedgerAt(id)
  <2>1. /\ market[id] = NoMarket /\ settle[id] = NoSettle /\ lpFees[id] = 0
        /\ held[id] = 0 /\ nextId = 0 /\ pos[id] = [h \in Holders |-> Zero]
    BY DEF Init
  <2>2. CountsAt(id)
    <3>1. pos[id] \in Positions
      BY <1>1, EntryTypes
    <3>2. ASSUME NEW o \in Outcomes PROVE Shares(id, o) = 0
      BY <2>1, <3>1, SharesNone DEF Shares, Zero
    <3>3. \A o \in Outcomes : settle[id].outstanding[o] = 0
      BY <2>1 DEF NoSettle, Zero
    <3> QED
      BY <3>2, <3>3 DEF CountsAt
  <2>3. FinalAt(id)
    BY <2>1 DEF FinalAt, Final, NoMarket
  <2>4. SweepAt(id)
    BY <2>1 DEF SweepAt, Backing, NoMarket, NoSettle
  <2>5. WholeAt(id)
    <3>1. id >= nextId
      BY <2>1 DEF MarketIds
    <3> QED
      BY <2>1, <3>1 DEF WholeAt, Final, NoMarket, NoSettle
  <2> QED
    BY <2>2, <2>3, <2>4, <2>5 DEF LedgerAt
<1> QED
  BY <1>2, LedgerByMarket

(* Steps that touch no market's entries.                                   *)
LEMMA LedgerIdle ==
    ASSUME IInv, IInv', Ledger, now' >= now,
           UNCHANGED <<nextId, market, settle, lpFees, pos, held>>
    PROVE  Ledger'
<1>1. ASSUME NEW id \in MarketIds PROVE LedgerAt(id)'
  BY LedgerFrame, LedgerByMarket
<1> QED
  BY <1>1, LedgerAfter

(* Every operation keeps the ledger.                                       *)
LEMMA NextLedger == IInv /\ IInv' /\ Ledger /\ [Next]_vars => Ledger'
<1> SUFFICES ASSUME IInv, IInv', Ledger, [Next]_vars PROVE Ledger'
  OBVIOUS
<1>1. CASE \E h \in Holders, t \in CloseChoices, s \in SeedChoices,
              p \in ProbChoices : CreateMarket(h, t, s, p)
  BY <1>1, LedgerCreate
<1>2. CASE Trading
  <2>1. PICK h \in Holders, id \in MarketIds, o \in Outcomes : Traded(h, id, o)
    BY <1>2, BuyBalances, SellBalances DEF Trading, Buy, BuyV2, Sell, SellV2
  <2> QED
    BY <2>1, LedgerTrade DEF Traded
<1>3. ASSUME NEW r \in Resolvers, NEW id \in MarketIds,
             (\E o \in Outcomes : Resolve(r, id, o)) \/ VoidMarket(r, id)
      PROVE  Ledger'
  BY <1>3, LedgerFinalize DEF Resolve, VoidMarket, Outcomes
<1>4. ASSUME NEW h \in Holders, NEW id \in MarketIds,
             Redeem(h, id) \/ ClaimPoolRemainder(h, id)
      PROVE  Ledger'
  <2>1. {id} \in SUBSET MarketIds
    OBVIOUS
  <2>2. CASE Redeem(h, id)
    BY <2>1, <2>2, LedgerRedeem DEF Redeem
  <2>3. CASE ClaimPoolRemainder(h, id)
    BY <2>1, <2>3, LedgerClaim DEF ClaimPoolRemainder, Claimable
  <2> QED
    BY <1>4, <2>2, <2>3
<1>5. ASSUME NEW h \in Holders, NEW ids \in SUBSET MarketIds,
             RedeemMany(h, ids) \/ ClaimPoolRemainders(h, ids)
      PROVE  Ledger'
  <2>1. CASE RedeemMany(h, ids)
    <3>1. PICK paid \in SUBSET MarketIds :
              paid = {id \in ids : Redeemable(h, id)}
      OBVIOUS
    <3>2. RedeemAll(h, paid) /\ \A id \in paid : Redeemable(h, id)
      BY <2>1, <3>1 DEF RedeemMany
    <3> QED
      BY <3>2, LedgerRedeem
  <2>2. CASE ClaimPoolRemainders(h, ids)
    <3>1. PICK paid \in SUBSET MarketIds :
              paid = {id \in ids : Claimable(h, id)}
      OBVIOUS
    <3>2. /\ ClaimAll(paid)
          /\ \A id \in paid : /\ Final(id) /\ ~settle[id].closed
                              /\ ~market[id].lpClaimed
      BY <2>2, <3>1 DEF ClaimPoolRemainders, Claimable
    <3> QED
      BY <3>2, LedgerClaim
  <2> QED
    BY <1>5, <2>1, <2>2
<1>6. ASSUME NEW h \in Holders, NEW id \in MarketIds,
             ClaimLpFees(h, id) \/ TransferLp(id, h)
      PROVE  Ledger'
  BY <1>6, LedgerFees, LedgerTransferLp
<1>7. ASSUME NEW id \in MarketIds, FinalizeMarket(id) PROVE Ledger'
  BY <1>7, LedgerCloseOut
<1>8. ASSUME NEW id \in MarketIds, SweepFees(id) PROVE Ledger'
  BY <1>8, LedgerFees
<1>9. ASSUME NEW from \in Holders, NEW to \in Holders, NEW id \in MarketIds,
             NEW o \in Outcomes, NEW a \in AmountChoices,
             TransferPosition(from, to, id, o, a)
      PROVE  Ledger'
  BY <1>9, LedgerTransfer
<1>10. CASE Admin
  <2>1. UNCHANGED <<now, nextId, market, settle, lpFees, pos, held>>
    BY <1>10 DEF Admin, SetPaused, SetDefaultFeeBps, SetProtocolFeeShareBps,
       SetDefaultRedeemHorizon, SetDefaultBreaker, Configure,
       ProposeTreasury, ProposeResolver, Propose, AcceptTreasury,
       AcceptResolver, Accept
  <2> QED
    BY <2>1, NowNat, LedgerIdle
<1>11. CASE Tick
  <2>1. /\ now' = now + 1
        /\ UNCHANGED <<nextId, market, settle, lpFees, pos, held>>
    BY <1>11 DEF Tick
  <2> QED
    BY <2>1, NowNat, LedgerIdle
<1>12. CASE UNCHANGED vars
  <2>1. UNCHANGED <<now, nextId, market, settle, lpFees, pos, held>>
    BY <1>12 DEF vars
  <2> QED
    BY <2>1, NowNat, LedgerIdle
<1> QED
  BY <1>1, <1>2, <1>3, <1>4, <1>5, <1>6, <1>7, <1>8, <1>9, <1>10, <1>11,
     <1>12 DEF Next, Trading, Admin

(* The ledger holds in every reachable state: the Settle counters are the  *)
(* sums of the positions, and the collateral covers what the shares may    *)
(* still be presented for.                                                 *)
THEOREM LedgerInvariance == Spec => []Ledger
<1>1. Init => Ledger
  BY InitLedger
<1>2. IInv /\ IInv' /\ Ledger /\ [Next]_vars => Ledger'
  BY NextLedger
<1> QED
  BY <1>1, <1>2, Invariance, PTL DEF Spec

(* The outstanding counters finalize_market relies on agree with the       *)
(* positions, whoever traded, transferred or redeemed.                     *)
THEOREM CountersAreSums == Spec => []OutstandingCountsShares
<1>1. Ledger => OutstandingCountsShares
  BY DEF Ledger
<1> QED
  BY <1>1, LedgerInvariance, PTL

-----------------------------------------------------------------------------
(* What the holders of a final market are owed, as a sum of shares.        *)

LEMMA OwedSum ==
    ASSUME NEW kind \in {"yes", "no", "void"}, NEW p \in Positions, NEW w,
           w = [h \in Holders |-> SettleValue(kind, p[h])]
    PROVE  /\ SumFunction(w) \in Nat
           /\ \A o \in Outcomes : kind = o => SumFunction(w) = SharesIn(p, o)
           /\ kind = "void" =>
                 2 * SumFunction(w) <= SharesIn(p, "yes") + SharesIn(p, "no")
<1>1. DOMAIN w = Holders /\ \A h \in Holders : w[h] \in Nat
  BY SettleValueNat DEF Positions
<1>2. SumFunction(w) = SumFunctionOnSet(w, Holders)
  BY <1>1, SumDomain
<1>3. SumFunction(w) \in Nat
  BY <1>1, <1>2, SumNat, MarketCoreAssumption
<1>4. ASSUME NEW o \in Outcomes, kind = o
      PROVE  SumFunction(w) = SharesIn(p, o)
  <2>1. ASSUME NEW h \in Holders PROVE SettleValue(kind, p[h]) = p[h][o]
    <3>1. p[h] \in [Outcomes -> Nat]
      BY DEF Positions
    <3> QED
      BY <1>4, <3>1, SettleValueBound
  <2>2. w = [h \in Holders |-> p[h][o]]
    BY <2>1
  <2> QED
    BY <2>2 DEF SharesIn
<1>5. ASSUME kind = "void"
      PROVE  2 * SumFunction(w) <= SharesIn(p, "yes") + SharesIn(p, "no")
  <2>1. PICK y : y = [h \in Holders |-> p[h]["yes"]]
    OBVIOUS
  <2>2. PICK n : n = [h \in Holders |-> p[h]["no"]]
    OBVIOUS
  <2>3. "yes" \in Outcomes /\ "no" \in Outcomes
    BY DEF Outcomes
  <2>4. ASSUME NEW h \in Holders
        PROVE  /\ w[h] \in Int /\ y[h] \in Int /\ n[h] \in Int
               /\ 2 * w[h] <= y[h] + n[h]
    <3>1. p[h] \in [Outcomes -> Nat]
      BY DEF Positions
    <3>2. 2 * SettleValue(kind, p[h]) <= p[h]["yes"] + p[h]["no"]
      BY <1>5, <3>1, SettleValueBound
    <3>3. y[h] \in Int /\ n[h] \in Int
      BY <2>1, <2>2, <2>3, <3>1
    <3> QED
      BY <1>1, <2>1, <2>2, <3>2, <3>3
  <2>5. 2 * SumFunctionOnSet(w, Holders)
            <= SumFunctionOnSet(y, Holders) + SumFunctionOnSet(n, Holders)
    BY <2>4, SumHalves, MarketCoreAssumption
  <2>6. /\ SharesIn(p, "yes") = SumFunctionOnSet(y, Holders)
        /\ SharesIn(p, "no") = SumFunctionOnSet(n, Holders)
    BY <2>1, <2>2, <2>3, SharesSum
  <2> QED
    BY <1>2, <2>5, <2>6
<1> QED
  BY <1>3, <1>4, <1>5

(* A market that is final and not closed out holds what it owes: exactly,  *)
(* if it was resolved, and at least, if it was voided.                     *)
ClaimsMet ==
    \A id \in MarketIds : Final(id) /\ ~settle[id].closed =>
        /\ Claims(id) \in Nat /\ Claims(id) <= held[id]
        /\ market[id].status \in Outcomes => Claims(id) = held[id]

LEMMA LedgerMeetsClaims == IInv /\ Ledger => ClaimsMet
<1> SUFFICES ASSUME IInv, Ledger, NEW id \in MarketIds,
                    Final(id), ~settle[id].closed
             PROVE  /\ Claims(id) \in Nat /\ Claims(id) <= held[id]
                    /\ market[id].status \in Outcomes => Claims(id) = held[id]
  BY DEF ClaimsMet
<1>1. PICK kind \in {"yes", "no", "void"} : kind = market[id].status
  BY DEF Final
<1>2. PICK p \in Positions : p = pos[id]
  BY EntryTypes
<1>3. PICK w : w = [h \in Holders |-> SettleValue(kind, p[h])]
  OBVIOUS
<1>4. PICK owed \in Nat :
          /\ owed = SumFunction(w)
          /\ \A o \in Outcomes : kind = o => owed = SharesIn(p, o)
          /\ kind = "void" =>
                2 * owed <= SharesIn(p, "yes") + SharesIn(p, "no")
  BY <1>3, OwedSum
<1>5. PICK lp \in Nat : lp = LpClaim(id)
  BY PoolValueNat DEF LpClaim, IInv
<1>6. PICK fees \in Nat, lpf \in Nat, hd \in Int :
          fees = market[id].fees /\ lpf = lpFees[id] /\ hd = held[id]
  BY EntryTypes
<1>7. Claims(id) = owed + lp + fees + lpf
  <2>1. w = [h \in Holders |-> Payout(id, h)]
    BY <1>1, <1>2, <1>3 DEF Payout
  <2> QED
    BY <1>4, <1>5, <1>6, <2>1 DEF Claims
<1>8. LedgerAt(id) /\ Backing(id) = hd - fees - lpf
  BY <1>6, LedgerByMarket DEF Backing
<1>9. PICK r \in [Outcomes -> Nat] : r = market[id].reserve
  BY EntryTypes
<1>10. ASSUME NEW o \in Outcomes
       PROVE  Presentable(id, o) = SharesIn(p, o)
                  + (IF market[id].lpClaimed THEN 0 ELSE r[o])
  BY <1>2, <1>8, <1>9 DEF LedgerAt, CountsAt, Shares, Presentable
<1>11. CASE kind \in Outcomes
  <2>1. hd - fees - lpf = Presentable(id, kind)
    BY <1>1, <1>8, <1>11 DEF LedgerAt, FinalAt
  <2>2. lp = IF market[id].lpClaimed THEN 0 ELSE r[kind]
    BY <1>1, <1>5, <1>9, <1>11, SettleValueBound DEF LpClaim, PoolValue
  <2>3. owed = SharesIn(p, kind)
    BY <1>4, <1>11
  <2>4. hd - fees - lpf = owed + lp
    BY <1>10, <1>11, <2>1, <2>2, <2>3
  <2> QED
    BY <1>6, <1>7, <2>4
<1>12. CASE kind = "void"
  <2>1. "yes" \in Outcomes /\ "no" \in Outcomes /\ "void" \notin Outcomes
    BY DEF Outcomes
  <2>2. PICK y \in Nat, n \in Nat, ry \in Nat, rn \in Nat :
            /\ y = SharesIn(p, "yes") /\ n = SharesIn(p, "no")
            /\ ry = (IF market[id].lpClaimed THEN 0 ELSE r["yes"])
            /\ rn = (IF market[id].lpClaimed THEN 0 ELSE r["no"])
    BY <2>1, SharesSum
  <2>3. 2 * (hd - fees - lpf) >= (y + ry) + (n + rn)
    BY <1>1, <1>8, <1>10, <1>12, <2>1, <2>2 DEF LedgerAt, FinalAt
  <2>4. 2 * lp <= ry + rn
    <3>1. CASE market[id].lpClaimed
      BY <1>5, <2>2, <3>1 DEF LpClaim
    <3>2. CASE ~market[id].lpClaimed
      BY <1>1, <1>5, <1>9, <1>12, <2>2, <3>2, SettleValueBound
         DEF LpClaim, PoolValue
    <3> QED
      BY <3>1, <3>2
  <2>5. 2 * owed <= y + n
    BY <1>4, <1>12, <2>2
  <2>6. owed + lp + fees + lpf <= hd
    BY <2>3, <2>4, <2>5
  <2> QED
    BY <1>1, <1>6, <1>7, <1>12, <2>1, <2>6
<1> QED
  BY <1>11, <1>12 DEF Outcomes

LEMMA LedgerSolvent == IInv /\ Ledger => Solvent
<1> SUFFICES ASSUME IInv, Ledger, NEW id \in MarketIds
             PROVE  /\ held[id] >= 0
                    /\ Final(id) /\ ~settle[id].closed => held[id] >= Claims(id)
  BY DEF Solvent
<1>1. ClaimsMet
  BY LedgerMeetsClaims
<1>2. Final(id) /\ ~settle[id].closed => held[id] >= Claims(id)
  BY <1>1, EntryTypes DEF ClaimsMet
<1>3. LedgerAt(id)
  BY LedgerByMarket
<1>4. CASE settle[id].closed
  BY <1>2, <1>3, <1>4 DEF LedgerAt, SweepAt
<1>5. CASE Final(id) /\ ~settle[id].closed
  BY <1>1, <1>5, EntryTypes DEF ClaimsMet
<1>6. CASE market[id].status = "open"
  <2>1. PICK r \in Nat, s \in Nat, b \in Int :
            /\ r = market[id].reserve["yes"] /\ s = SharesIn(pos[id], "yes")
            /\ b = settle[id].outstanding["yes"]
    BY EntryTypes, SharesSum DEF Outcomes
  <2>2. ~settle[id].closed /\ "yes" \in Outcomes
    BY <1>6 DEF IInv, Safe, ClosedIsDone, Final, Outcomes
  <2>3. b = s
    BY <1>3, <2>1, <2>2 DEF LedgerAt, CountsAt, Shares
  <2>4. r + b = market[id].sets
    BY <1>6, <2>1, <2>2 DEF IInv, Safe, OpenBacked
  <2>5. held[id] = market[id].sets + market[id].fees + lpFees[id]
    BY <1>6 DEF IInv, Safe, OpenBacked
  <2>6. held[id] >= 0
    BY <2>3, <2>4, <2>5, EntryTypes
  <2> QED
    BY <1>2, <2>6
<1>7. CASE market[id].status = "none"
  BY <1>2, <1>3, <1>7 DEF LedgerAt, WholeAt, IInv, Safe, Fresh
<1> QED
  BY <1>4, <1>5, <1>6, <1>7, EntryTypes DEF Final

(* Solvency: no market ever pays out of another's collateral, and until it *)
(* is closed out a final one holds enough for every holder, the LP and     *)
(* both fees, in whatever order they come.                                 *)
THEOREM EveryMarketIsSolvent == Spec => []Solvent
<1>1. IInv /\ Ledger => Solvent
  BY LedgerSolvent
<1> QED
  BY <1>1, Invariance, LedgerInvariance, PTL

(* Before its deadline no step reopens, re-decides or closes out a         *)
(* resolved market.                                                        *)
ResolvedStays ==
    \A id \in MarketIds :
        market[id].status \in Outcomes /\ now < RedeemDeadline(id) =>
            market'[id].status = market[id].status /\ ~settle'[id].closed

LEMMA ResolvedStep == IInv /\ Ledger /\ [Next]_vars => ResolvedStays
<1> SUFFICES ASSUME IInv, Ledger, [Next]_vars, NEW id \in MarketIds,
                    market[id].status \in Outcomes, now < RedeemDeadline(id)
             PROVE  market'[id].status = market[id].status /\ ~settle'[id].closed
  BY DEF ResolvedStays
<1> DEFINE Stays == /\ market'[id].status = market[id].status
                    /\ settle'[id].closed = settle[id].closed
<1>1. market \in [MarketIds -> MarketType] /\ settle \in [MarketIds -> SettleType]
  BY DEF IInv, TypeOK
<1>2. ~settle[id].closed
  BY NowNat, EntryTypes, LedgerByMarket DEF LedgerAt, SweepAt
<1>3. market[id].status # "open" /\ id # nextId
  BY LedgerByMarket DEF LedgerAt, WholeAt, Outcomes, MarketIds
<1>4. ASSUME NEW h \in Holders, NEW t \in CloseChoices, NEW s \in SeedChoices,
             NEW p \in ProbChoices, CreateMarket(h, t, s, p)
      PROVE  Stays
  BY <1>1, <1>3, <1>4 DEF CreateMarket
<1>5. ASSUME Trading PROVE Stays
  <2>1. PICK h \in Holders, i \in MarketIds, o \in Outcomes : Traded(h, i, o)
    BY <1>5, BuyBalances, SellBalances DEF Trading, Buy, BuyV2, Sell, SellV2
  <2>2. market'[id] = market[id] /\ settle'[id] = settle[id]
    BY <1>1, <1>3, <2>1 DEF Traded, Trade
  <2> QED
    BY <2>2
<1>6. ASSUME NEW r \in Resolvers, NEW i \in MarketIds,
             (\E o \in Outcomes : Resolve(r, i, o)) \/ VoidMarket(r, i)
      PROVE  Stays
  BY <1>1, <1>3, <1>6 DEF Resolve, VoidMarket, Finalize
<1>7. ASSUME NEW h, NEW ids, RedeemAll(h, ids) PROVE Stays
  BY <1>1, <1>7 DEF RedeemAll, SettleType
<1>8. ASSUME NEW ids, ClaimAll(ids) PROVE Stays
  <2>1. market[id] \in MarketType /\ settle[id] \in SettleType
    BY <1>1
  <2>2. CASE id \in ids
    BY <1>8, <2>1, <2>2 DEF ClaimAll, SettleType, MarketType
  <2>3. CASE id \notin ids
    BY <1>8, <2>3 DEF ClaimAll
  <2> QED
    BY <2>2, <2>3
<1>9. ASSUME NEW h \in Holders, NEW i \in MarketIds,
             \/ Redeem(h, i) \/ ClaimPoolRemainder(h, i)
             \/ ClaimLpFees(h, i) \/ TransferLp(i, h)
      PROVE  Stays
  <2>1. CASE ClaimLpFees(h, i) \/ TransferLp(i, h)
    BY <1>1, <2>1 DEF ClaimLpFees, TransferLp, MarketType
  <2> QED
    BY <1>7, <1>8, <1>9, <2>1 DEF Redeem, ClaimPoolRemainder
<1>10. ASSUME NEW h \in Holders, NEW ids \in SUBSET MarketIds,
              RedeemMany(h, ids) \/ ClaimPoolRemainders(h, ids)
       PROVE  Stays
  BY <1>7, <1>8, <1>10 DEF RedeemMany, ClaimPoolRemainders
<1>11. ASSUME NEW i \in MarketIds, FinalizeMarket(i) PROVE Stays
  <2>1. i # id
    BY <1>11, NowNat, EntryTypes DEF FinalizeMarket
  <2> QED
    BY <1>1, <1>11, <2>1 DEF FinalizeMarket
<1>12. ASSUME NEW i \in MarketIds, SweepFees(i) PROVE Stays
  BY <1>1, <1>12 DEF SweepFees, MarketType
<1>13. ASSUME NEW from \in Holders, NEW to \in Holders, NEW i \in MarketIds,
              NEW o \in Outcomes, NEW a \in AmountChoices,
              TransferPosition(from, to, i, o, a)
       PROVE  Stays
  BY <1>13 DEF TransferPosition
<1>14. ASSUME Admin PROVE Stays
  BY <1>14 DEF Admin, SetPaused, SetDefaultFeeBps, SetProtocolFeeShareBps,
     SetDefaultRedeemHorizon, SetDefaultBreaker, Configure, ProposeTreasury,
     ProposeResolver, Propose, AcceptTreasury, AcceptResolver, Accept
<1>15. ASSUME Tick \/ UNCHANGED vars PROVE Stays
  BY <1>15 DEF Tick, vars
<1>16. Stays
  <2> HIDE DEF Stays
  <2> QED
    BY <1>4, <1>5, <1>6, <1>9, <1>10, <1>11, <1>12, <1>13, <1>14, <1>15
       DEF Next, Trading, Admin
<1> QED
  BY <1>2, <1>16

(* What one step pays out of a resolved market.                            *)
PaysClaims ==
    \A id \in MarketIds :
        market[id].status \in Outcomes /\ now < RedeemDeadline(id) =>
            held[id] - held'[id] = Claims(id) - Claims(id)'

LEMMA PaysStep ==
    IInv /\ Ledger /\ ClaimsMet /\ ClaimsMet' /\ [Next]_vars => PaysClaims
<1> SUFFICES ASSUME IInv, Ledger, ClaimsMet, ClaimsMet', [Next]_vars,
                    NEW id \in MarketIds,
                    market[id].status \in Outcomes, now < RedeemDeadline(id)
             PROVE  held[id] - held'[id] = Claims(id) - Claims(id)'
  BY DEF PaysClaims
<1>1. market'[id].status = market[id].status /\ ~settle'[id].closed
  BY ResolvedStep DEF ResolvedStays
<1>2. ~settle[id].closed
  BY NowNat, EntryTypes, LedgerByMarket DEF LedgerAt, SweepAt
<1>3. Final(id) /\ Final(id)'
  BY <1>1 DEF Final, Outcomes
<1>4. Claims(id) = held[id]
  BY <1>2, <1>3 DEF ClaimsMet
<1>5. Claims(id)' = held'[id]
  BY <1>1, <1>3 DEF ClaimsMet
<1> QED
  BY <1>4, <1>5

(* Once a market has resolved, and until its redemption deadline, no       *)
(* operation forfeits or overpays: what leaves the contract is what is no  *)
(* longer owed.                                                            *)
THEOREM EveryPaymentIsOwed == Spec => PaysWhatItClears
<1>1. IInv /\ Ledger => ClaimsMet
  BY LedgerMeetsClaims
<1>2. IInv /\ Ledger /\ ClaimsMet /\ ClaimsMet' /\ [Next]_vars
          => [PaysClaims]_vars
  BY PaysStep
<1> QED
  BY <1>1, <1>2, Invariance, LedgerInvariance, PTL
     DEF Spec, PaysWhatItClears, PaysClaims
-----------------------------------------------------------------------------
(* The price band, over the tape of past prices.                           *)

(* A pool with something in it has a price.                                *)
LEMMA PriceNat ==
    ASSUME NEW r \in [Outcomes -> Nat], r["yes"] + r["no"] > 0
    PROVE  PriceYesBps(r) \in Nat
<1>1. PICK y \in Nat, n \in Nat : y = r["yes"] /\ n = r["no"] /\ y + n > 0
  BY DEF Outcomes
<1>2. y + n \in Nat /\ BPS \in Nat
  BY DEF BPS
<1>3. MulDivFloor(n, BPS, y + n) \in Nat
  BY <1>1, <1>2, FloorBound
<1> QED
  BY <1>1, <1>3 DEF PriceYesBps

(* accumulate keeps the accumulator's shape and its last price.            *)
LEMMA AccumulateType ==
    ASSUME NEW st \in OracleType, now \in Nat, NEW price \in Nat
    PROVE  /\ AfterTrade(st, price) \in OracleType
           /\ AfterTrade(st, price).lastPrice = price
<1>1. Accumulate(st) \in OracleType
  <2>1. CASE now <= st.lastTs
    BY <2>1 DEF Accumulate
  <2>2. CASE ~(now <= st.lastTs)
    <3>1. PICK d \in Nat : d = now - st.lastTs
      BY <2>2 DEF OracleType
    <3>2. st.lastPrice * d \in Nat
      BY Product DEF OracleType
    <3>3. PICK cum \in Nat : cum = st.cum + st.lastPrice * (now - st.lastTs)
      BY <3>1, <3>2 DEF OracleType
    <3>4. PICK slot \in 0 .. OracleRing - 1 :
              slot = (st.index + 1) % OracleRing
      <4>1. st.index + 1 \in Nat /\ OracleRing \in Nat /\ OracleRing > 0
        BY MarketCoreAssumption DEF OracleType
      <4>2. PICK x \in Nat : x = st.index + 1
        BY <4>1
      <4>3. x % OracleRing \in Nat /\ x % OracleRing < OracleRing
        BY <4>1, Division
      <4>4. (st.index + 1) % OracleRing \in 0 .. OracleRing - 1
        BY <4>1, <4>2, <4>3
      <4> QED
        BY <4>4
    <3>5. PICK n \in 0 .. OracleRing : n = MinOf(st.count + 1, OracleRing)
      <4>1. MinOf(st.count + 1, OracleRing) \in 0 .. OracleRing
        BY MarketCoreAssumption DEF MinOf, OracleType
      <4> QED
        BY <4>1
    <3>6. Accumulate(st) =
              [st EXCEPT !.cum = cum, !.lastTs = now, !.index = slot,
                         !.count = n, !.obs[slot] = [ts |-> now, cum |-> cum]]
      BY <2>2, <3>3, <3>4, <3>5 DEF Accumulate, OracleType
    <3>7. [st.obs EXCEPT ![slot] = [ts |-> now, cum |-> cum]]
              \in [0 .. OracleRing - 1 -> [ts : Nat, cum : Nat]]
      BY DEF OracleType
    <3> QED
      BY <3>6, <3>7 DEF OracleType
  <2> QED
    BY <2>1, <2>2
<1> QED
  BY <1>1 DEF AfterTrade, OracleType

(* What a step must leave alone so that a market's band need not be looked *)
(* at: the price, unless the market becomes final.                         *)
BandKept(id) ==
    /\ market'[id].status = "none" => market[id].status = "none"
    /\ market'[id].status = "open" =>
           market[id].status = "open" /\ market'[id].reserve = market[id].reserve
    /\ UNCHANGED <<now, tape>>
    /\ terms'[id] = terms[id] /\ oracle'[id] = oracle[id]
    /\ band'[id] = band[id]

LEMMA BandFrame ==
    ASSUME NEW id, BandFollows(id), BandKept(id)
    PROVE  BandFollows(id)'
BY DEF BandFollows, BandKept, Price, BandRef
(* A buy or a sell: the first one of a ledger keeps the opening price as   *)
(* the reference, the later ones find it there, and none strays from it.   *)
LEMMA TapeTrade ==
    ASSUME IInv, IInv', TapeInv, tape' = tape,
           NEW h \in Holders, NEW id \in MarketIds, NEW o \in Outcomes,
           Traded(h, id, o)
    PROVE  TapeInv'
<1>1. PICK r \in [Outcomes -> Nat], fee \in Nat, dSets \in Int,
           dShares \in Int, dHeld \in Int :
          /\ r[Other(o)] > 0 /\ BreakersPass(id, r)
          /\ Trade(h, id, o, r, fee, dSets, dShares, dHeld)
  BY DEF Traded
<1>2. /\ TypeOK /\ TapeTypes /\ BandFollows(id) /\ now \in Nat
      /\ market[id].status = "open"
  BY NowNat DEF IInv, TapeInv, Traded
<1>3. r["yes"] + r["no"] > 0
  BY <1>1 DEF Other, Outcomes
<1>4. PICK post \in Nat : post = PriceYesBps(r)
  BY <1>3, PriceNat
<1>5. /\ market'[id].reserve = r /\ market'[id].status = "open"
      /\ oracle' = [oracle EXCEPT ![id] = AfterTrade(oracle[id], post)]
      /\ band' = [band EXCEPT ![id] = BandAfter(id)]
      /\ UNCHANGED <<now, terms>>
  BY <1>1, <1>2, <1>4 DEF Trade, TypeOK, MarketType
<1>6. Price(id) \in Nat
  <2>1. market[id].reserve \in [Outcomes -> Nat]
    BY <1>2 DEF TypeOK, MarketType
  <2> QED
    BY <1>2, <2>1, PriceNat DEF BandFollows, Price
<1>7. BandRef(id) \in Nat
  BY <1>2, <1>6 DEF BandRef, TapeTypes, BandType
<1>8. TapeTypes'
  <2>1. AfterTrade(oracle[id], post) \in OracleType
    BY <1>2, AccumulateType DEF TapeTypes
  <2>2. BandAfter(id) \in BandType
    BY <1>2, <1>7 DEF BandAfter, BandType, TapeTypes
  <2> QED
    BY <1>2, <1>5, <2>1, <2>2 DEF TapeTypes
<1>9. BandFollows(id)'
  <2>1. band'[id] = BandAfter(id) /\ band'[id].ledger <= now'
    BY <1>2, <1>5 DEF TapeTypes, BandAfter, BandFollows
  <2>2. oracle'[id].lastPrice = post /\ Price(id)' = post
    BY <1>2, <1>4, <1>5, AccumulateType DEF TapeTypes, Price
  <2>3. ASSUME terms[id].breaker.band > 0, now > 0, tape[now][id] # NoPrice
        PROVE  /\ BandRef(id)' = tape[now][id]
               /\ AbsDiff(post, tape[now][id]) <= terms[id].breaker.band
    <3>1. BandRef(id) = tape[now][id]
      BY <1>2, <2>3 DEF BandFollows
    <3>2. band'[id].ledger = now /\ band'[id].ref = BandRef(id)
      BY <2>1, <2>3 DEF BandAfter
    <3>3. AbsDiff(post, BandRef(id)) <= terms[id].breaker.band
      BY <1>1, <1>4, <2>3 DEF BreakersPass
    <3>4. BandRef(id)' = BandRef(id)
      BY <1>5, <3>2 DEF BandRef
    <3> QED
      BY <3>1, <3>3, <3>4
  <2> QED
    BY <1>3, <1>5, <2>1, <2>2, <2>3 DEF BandFollows
<1>10. ASSUME NEW i \in MarketIds, i # id PROVE BandFollows(i)'
  <2>1. market'[i] = market[i]
    BY <1>1, <1>2, <1>10 DEF Trade, TypeOK
  <2>2. oracle'[i] = oracle[i] /\ band'[i] = band[i]
    BY <1>2, <1>5, <1>10 DEF TapeTypes
  <2>3. BandKept(i)
    BY <1>5, <2>1, <2>2 DEF BandKept
  <2> QED
    BY <2>3, BandFrame DEF TapeInv
<1> QED
  BY <1>8, <1>9, <1>10 DEF TapeInv

(* create_market opens a market with a price and without a past.           *)
LEMMA TapeCreate ==
    ASSUME IInv, IInv', TapeInv, tape' = tape,
           NEW c \in Holders, NEW t \in CloseChoices, NEW s \in SeedChoices,
           NEW p \in ProbChoices, CreateMarket(c, t, s, p)
    PROVE  TapeInv'
<1>1. PICK r \in [Outcomes -> Nat] :
          r = SeedReserves(s, p) /\ r["yes"] + r["no"] > 0
  <2>1. s \in Nat /\ p \in Nat /\ SeedOk(s, p)
    BY MarketCoreAssumption DEF CreateMarket
  <2>2. SeedReserves(s, p) \in [Outcomes -> Nat]
    BY <2>1, SeedFacts
  <2>3. SeedReserves(s, p)["yes"] > 0 /\ SeedReserves(s, p)["no"] > 0
    BY <2>1 DEF SeedOk, Outcomes
  <2>4. PICK q \in [Outcomes -> Nat] : q = SeedReserves(s, p)
    BY <2>2
  <2>5. q["yes"] \in Nat /\ q["no"] \in Nat
    BY DEF Outcomes
  <2> QED
    BY <2>3, <2>4, <2>5
<1>2. PICK id \in MarketIds : id = nextId /\ market[id].status = "none"
  <2>1. nextId < MaxMarkets
    BY DEF CreateMarket
  <2>2. nextId \in 0 .. MaxMarkets /\ MaxMarkets \in Nat
    BY MarketCoreAssumption DEF IInv, TypeOK
  <2>3. nextId \in MarketIds
    BY <2>1, <2>2 DEF MarketIds
  <2>4. market[nextId].status = "none"
    BY <2>2, <2>3 DEF IInv, Safe, Fresh
  <2> QED
    BY <2>3, <2>4
<1>3. PICK price \in Nat : price = PriceYesBps(r)
  BY <1>1, PriceNat
<1>4. /\ TypeOK /\ TapeTypes /\ BandFollows(id) /\ now \in Nat
      /\ OracleRing \in Nat /\ OracleRing > 0
  BY NowNat, MarketCoreAssumption DEF IInv, TapeInv
<1>5. /\ \E cr, cl, fb :
             market' = [market EXCEPT ![id] =
                 [creator |-> cr, close |-> cl, feeBps |-> fb,
                  status |-> "open", reserve |-> r, sets |-> s, fees |-> 0,
                  lpClaimed |-> FALSE]]
      /\ \A i \in MarketIds : i # id => terms'[i] = terms[i]
      /\ oracle' = [oracle EXCEPT ![id] =
             [oracle[id] EXCEPT !.lastTs = now, !.lastPrice = price,
                 !.count = 1, !.obs[0] = [ts |-> now, cum |-> 0]]]
      /\ UNCHANGED <<now, band>>
  BY <1>1, <1>2, <1>3, <1>4 DEF CreateMarket, TypeOK
<1>6. /\ market'[id].status = "open" /\ market'[id].reserve = r
      /\ \A i \in MarketIds : i # id => market'[i] = market[i]
  BY <1>4, <1>5 DEF TypeOK
<1>7. TapeTypes'
  <2>1. [oracle[id].obs EXCEPT ![0] = [ts |-> now, cum |-> 0]]
            \in [0 .. OracleRing - 1 -> [ts : Nat, cum : Nat]]
    BY <1>4 DEF TapeTypes, OracleType
  <2>2. [oracle[id] EXCEPT !.lastTs = now, !.lastPrice = price,
             !.count = 1, !.obs[0] = [ts |-> now, cum |-> 0]] \in OracleType
    <3>1. PICK st \in OracleType : st = oracle[id]
      BY <1>4 DEF TapeTypes
    <3>2. PICK obs \in [0 .. OracleRing - 1 -> [ts : Nat, cum : Nat]] :
              obs = [st.obs EXCEPT ![0] = [ts |-> now, cum |-> 0]]
      BY <2>1, <3>1
    <3>3. 1 \in 0 .. OracleRing
      BY <1>4
    <3>4. [st EXCEPT !.lastTs = now, !.lastPrice = price, !.count = 1,
               !.obs = obs] \in OracleType
      BY <1>4, <3>3 DEF OracleType
    <3> QED
      BY <3>1, <3>2, <3>4
  <2> QED
    BY <1>4, <1>5, <2>2 DEF TapeTypes
<1>8. oracle'[id].lastPrice = price /\ Price(id)' = price
  BY <1>3, <1>4, <1>5, <1>6 DEF TapeTypes, OracleType, Price
<1>9. BandFollows(id)'
  <2>1. now > 0 => tape[now][id] = NoPrice
    BY <1>2, <1>4 DEF BandFollows
  <2>2. band[id].ledger <= now
    BY <1>4 DEF BandFollows
  <2> QED
    BY <1>1, <1>5, <1>6, <1>8, <2>1, <2>2 DEF BandFollows
<1>10. ASSUME NEW i \in MarketIds, i # id PROVE BandFollows(i)'
  <2>1. oracle'[i] = oracle[i] /\ band'[i] = band[i]
    BY <1>4, <1>5, <1>10 DEF TapeTypes
  <2>2. BandKept(i)
    BY <1>5, <1>6, <1>10, <2>1 DEF BandKept
  <2> QED
    BY <2>2, BandFrame DEF TapeInv
<1> QED
  BY <1>7, <1>9, <1>10 DEF TapeInv

(* A new ledger opens with the price the last one ended with.              *)
TapeGrows == tape' = Append(tape, [id \in MarketIds |-> HeldPrice(id)])

LEMMA TapeTick ==
    ASSUME IInv, IInv', TapeInv, Tick, TapeGrows
    PROVE  TapeInv'
<1>1. /\ now' = now + 1 /\ now \in Nat
      /\ UNCHANGED <<market, terms, oracle, band>>
  BY NowNat DEF Tick
<1>2. TypeOK /\ TapeTypes
  BY DEF IInv, TapeInv
<1>3. PICK closing \in [MarketIds -> Nat] :
          closing = [id \in MarketIds |-> HeldPrice(id)]
  <2>1. ASSUME NEW id \in MarketIds PROVE HeldPrice(id) \in Nat
    BY <1>2 DEF HeldPrice, NoPrice, TapeTypes, OracleType
  <2>2. [id \in MarketIds |-> HeldPrice(id)] \in [MarketIds -> Nat]
    BY <2>1
  <2> QED
    BY <2>2
<1>4. /\ tape' \in Seq([MarketIds -> Nat]) /\ Len(tape') = now'
      /\ tape'[now'] = closing
  BY <1>1, <1>2, <1>3 DEF TapeTypes, TapeGrows
<1>5. TapeTypes'
  BY <1>1, <1>2, <1>4 DEF TapeTypes
<1>6. ASSUME NEW id \in MarketIds PROVE BandFollows(id)'
  <2>1. BandFollows(id)
    BY DEF TapeInv
  <2>2. tape'[now'][id] = HeldPrice(id)
    BY <1>3, <1>4
  <2>3. band'[id].ledger <= now' /\ band[id].ledger # now + 1
    BY <1>1, <1>2, <2>1 DEF BandFollows, TapeTypes, BandType
  <2>4. CASE market[id].status = "none"
    BY <1>1, <2>2, <2>3, <2>4 DEF BandFollows, HeldPrice, Exists
  <2>5. CASE market[id].status = "open"
    <3>1. /\ market[id].reserve["yes"] + market[id].reserve["no"] > 0
          /\ oracle[id].lastPrice = Price(id)
      BY <2>1, <2>5 DEF BandFollows
    <3>2. tape'[now'][id] = Price(id)
      BY <2>2, <2>5, <3>1 DEF HeldPrice, Exists
    <3>3. Price(id)' = Price(id) /\ BandRef(id)' = Price(id)
      BY <1>1, <2>3 DEF Price, BandRef
    <3>4. Price(id) \in Nat
      BY <1>2, <3>1 DEF TapeTypes, OracleType
    <3>5. AbsDiff(Price(id), Price(id)) = 0
      BY <3>4 DEF AbsDiff
    <3>6. BandRef(id)' = tape'[now'][id]
      BY <3>2, <3>3
    <3>7. terms'[id].breaker.band > 0
            => AbsDiff(Price(id)', tape'[now'][id]) <= terms'[id].breaker.band
      <4>1. terms[id] \in TermsType
        BY <1>2 DEF TypeOK
      <4>2. terms[id].breaker.band \in 0 .. BPS
        BY <4>1 DEF TermsType
      <4>3. AbsDiff(Price(id)', tape'[now'][id]) = 0
        BY <3>2, <3>3, <3>5
      <4>4. \A b \in 0 .. BPS : 0 <= b
        BY DEF BPS
      <4>5. 0 <= terms[id].breaker.band
        BY <4>2, <4>4
      <4> QED
        BY <1>1, <4>3, <4>5
    <3>8. /\ market'[id].reserve["yes"] + market'[id].reserve["no"] > 0
          /\ oracle'[id].lastPrice = Price(id)'
          /\ market'[id].status = "open"
      BY <1>1, <2>5, <3>1, <3>3
    <3> QED
      BY <2>3, <3>6, <3>7, <3>8 DEF BandFollows
  <2>6. CASE market[id].status \notin {"none", "open"}
    BY <1>1, <2>3, <2>6 DEF BandFollows
  <2> QED
    BY <2>4, <2>5, <2>6
<1> QED
  BY <1>5, <1>6 DEF TapeInv
(* The other operations move no price of an open market.                   *)
QuietMarket(id) ==
    \/ /\ market[id].status # "none"
       /\ market'[id].status \notin {"none", "open"}
    \/ /\ market'[id].status = market[id].status
       /\ market'[id].reserve = market[id].reserve

Quiet ==
    /\ UNCHANGED <<now, terms, oracle, band, tape>>
    /\ \A id \in MarketIds : QuietMarket(id)

Creation ==
    \E h \in Holders, t \in CloseChoices, s \in SeedChoices,
       p \in ProbChoices : CreateMarket(h, t, s, p)

LEMMA TapeQuiet == ASSUME TapeInv, Quiet PROVE TapeInv'
<1>1. ASSUME NEW id \in MarketIds PROVE BandFollows(id)'
  <2>1. BandKept(id)
    BY DEF BandKept, Quiet, QuietMarket
  <2> QED
    BY <2>1, BandFrame DEF TapeInv
<1>2. TapeTypes'
  BY DEF TapeInv, TapeTypes, Quiet
<1> QED
  BY <1>1, <1>2 DEF TapeInv

(* What a step does to the tape and to the prices on it.                   *)
LEMMA TapeMoves ==
    ASSUME IInv, [TapeNext]_tapeVars
    PROVE  \/ Tick /\ TapeGrows
           \/ tape' = tape /\ Creation
           \/ /\ tape' = tape
              /\ \E h \in Holders, id \in MarketIds, o \in Outcomes :
                     Traded(h, id, o)
           \/ Quiet
<1>1. /\ TypeOK /\ now \in Nat
      /\ market \in [MarketIds -> MarketType]
  BY NowNat DEF IInv, TypeOK
<1>2. CASE UNCHANGED tapeVars
  BY <1>2 DEF tapeVars, vars, Quiet, QuietMarket
<1>3. ASSUME Next, now' = now, tape' = tape, UNCHANGED <<terms, oracle, band>>,
             UNCHANGED market
      PROVE  Quiet
  BY <1>3 DEF Quiet, QuietMarket
<1>4. CASE Tick /\ TapeNext
  <2>1. TapeGrows
    <3>1. now' # now
      BY <1>1, <1>4 DEF Tick
    <3> QED
      BY <1>4, <3>1 DEF TapeNext, TapeGrows
  <2> QED
    BY <1>4, <2>1
<1>5. ASSUME Next, now' = now, tape' = tape
      PROVE  \/ Creation \/ Quiet
             \/ \E h \in Holders, id \in MarketIds, o \in Outcomes :
                    Traded(h, id, o)
  <2>1. CASE Creation
    BY <2>1
  <2>2. CASE Trading
    BY <2>2, BuyBalances, SellBalances DEF Trading, Buy, BuyV2, Sell, SellV2
  <2>3. ASSUME NEW r \in Resolvers, NEW id \in MarketIds,
               (\E o \in Outcomes : Resolve(r, id, o)) \/ VoidMarket(r, id)
        PROVE  Quiet
    <3>1. PICK kind \in {"yes", "no", "void"} : Finalize(id, kind)
      BY <2>3 DEF Resolve, VoidMarket, Outcomes
    <3>2. /\ market'[id].status = kind
          /\ \A i \in MarketIds : i # id => market'[i] = market[i]
          /\ UNCHANGED <<terms, oracle, band>>
      BY <1>1, <3>1 DEF Finalize, MarketType
    <3>3. market[id].status # "none"
      BY <2>3 DEF Resolve, VoidMarket
    <3>4. kind \notin {"none", "open"}
      OBVIOUS
    <3> QED
      BY <1>5, <3>2, <3>3, <3>4, Zenon DEF Quiet, QuietMarket
  <2>4. ASSUME NEW h \in Holders, NEW ids \in SUBSET MarketIds,
               RedeemAll(h, ids)
        PROVE  Quiet
    BY <1>3, <1>5, <2>4 DEF RedeemAll
  <2>5. ASSUME NEW ids \in SUBSET MarketIds, ClaimAll(ids),
               \A id \in ids : Final(id)
        PROVE  Quiet
    <3>1. ASSUME NEW i \in MarketIds
          PROVE  \/ /\ market[i].status # "none"
                    /\ market'[i].status \notin {"none", "open"}
                 \/ market'[i] = market[i]
      <4>1. CASE i \in ids
        BY <1>1, <2>5, <4>1 DEF ClaimAll, Final, MarketType
      <4>2. CASE i \notin ids
        BY <2>5, <4>2 DEF ClaimAll
      <4> QED
        BY <4>1, <4>2
    <3>2. UNCHANGED <<terms, oracle, band>>
      BY <2>5 DEF ClaimAll
    <3> QED
      BY <1>5, <3>1, <3>2 DEF Quiet, QuietMarket
  <2>6. ASSUME NEW h \in Holders, NEW id \in MarketIds,
               Redeem(h, id) \/ ClaimPoolRemainder(h, id)
        PROVE  Quiet
    <3>1. {id} \in SUBSET MarketIds
      OBVIOUS
    <3> QED
      BY <2>4, <2>5, <2>6, <3>1
         DEF Redeem, ClaimPoolRemainder, Claimable
  <2>7. ASSUME NEW h \in Holders, NEW ids \in SUBSET MarketIds,
               RedeemMany(h, ids) \/ ClaimPoolRemainders(h, ids)
        PROVE  Quiet
    <3>1. CASE RedeemMany(h, ids)
      BY <2>4, <3>1 DEF RedeemMany
    <3>2. CASE ClaimPoolRemainders(h, ids)
      <4>1. PICK paid \in SUBSET MarketIds :
                paid = {id \in ids : Claimable(h, id)}
        OBVIOUS
      <4>2. ClaimAll(paid) /\ \A id \in paid : Final(id)
        BY <3>2, <4>1 DEF ClaimPoolRemainders, Claimable
      <4> QED
        BY <2>5, <4>2
    <3> QED
      BY <2>7, <3>1, <3>2
  <2>8. ASSUME NEW h \in Holders, NEW id \in MarketIds, ClaimLpFees(h, id)
        PROVE  Quiet
    BY <1>3, <1>5, <2>8 DEF ClaimLpFees
  <2>9. ASSUME NEW h \in Holders, NEW id \in MarketIds, TransferLp(id, h)
        PROVE  Quiet
    <3>1. /\ \A i \in MarketIds : /\ market'[i].status = market[i].status
                                  /\ market'[i].reserve = market[i].reserve
          /\ UNCHANGED <<terms, oracle, band>>
      BY <1>1, <2>9 DEF TransferLp, MarketType
    <3> QED
      BY <1>5, <3>1 DEF Quiet, QuietMarket
  <2>10. ASSUME NEW id \in MarketIds, FinalizeMarket(id) PROVE Quiet
    <3>1. /\ market[id].status # "none"
          /\ market'[id].status \notin {"none", "open"}
          /\ \A i \in MarketIds : i # id => market'[i] = market[i]
          /\ UNCHANGED <<terms, oracle, band>>
      BY <1>1, <2>10 DEF FinalizeMarket, Final, MarketType
    <3> QED
      BY <1>5, <3>1 DEF Quiet, QuietMarket
  <2>11. ASSUME NEW id \in MarketIds, SweepFees(id) PROVE Quiet
    <3>1. /\ \A i \in MarketIds : /\ market'[i].status = market[i].status
                                  /\ market'[i].reserve = market[i].reserve
          /\ UNCHANGED <<terms, oracle, band>>
      BY <1>1, <2>11 DEF SweepFees, MarketType
    <3> QED
      BY <1>5, <3>1 DEF Quiet, QuietMarket
  <2>12. ASSUME NEW from \in Holders, NEW to \in Holders,
                NEW id \in MarketIds, NEW o \in Outcomes,
                NEW a \in AmountChoices, TransferPosition(from, to, id, o, a)
         PROVE  Quiet
    BY <1>3, <1>5, <2>12 DEF TransferPosition
  <2>13. CASE Admin
    <3>1. UNCHANGED <<market, terms, oracle, band>>
      BY <2>13 DEF Admin, SetPaused, SetDefaultFeeBps, SetProtocolFeeShareBps,
         SetDefaultRedeemHorizon, SetDefaultBreaker, Configure,
         ProposeTreasury, ProposeResolver, Propose, AcceptTreasury,
         AcceptResolver, Accept
    <3> QED
      BY <1>3, <1>5, <3>1
  <2>14. ~Tick
    BY <1>1, <1>5 DEF Tick
  <2> QED
    BY <1>5, <2>1, <2>2, <2>3, <2>6, <2>7, <2>8, <2>9, <2>10, <2>11, <2>12,
       <2>13, <2>14 DEF Next, Trading, Admin, Creation
<1>6. ASSUME Next, ~Tick PROVE now' = now
  <2>1. CASE Trading
    <3>1. PICK h \in Holders, id \in MarketIds, o \in Outcomes :
              Traded(h, id, o)
      BY <2>1, BuyBalances, SellBalances DEF Trading, Buy, BuyV2, Sell, SellV2
    <3> QED
      BY <3>1 DEF Traded, Trade
  <2>2. CASE Admin
    BY <2>2 DEF Admin, SetPaused, SetDefaultFeeBps, SetProtocolFeeShareBps,
       SetDefaultRedeemHorizon, SetDefaultBreaker, Configure,
       ProposeTreasury, ProposeResolver, Propose, AcceptTreasury,
       AcceptResolver, Accept
  <2>3. ASSUME NEW h \in Holders, NEW t \in CloseChoices,
               NEW s \in SeedChoices, NEW p \in ProbChoices,
               CreateMarket(h, t, s, p)
        PROVE  now' = now
    BY <2>3 DEF CreateMarket
  <2>4. ASSUME NEW r \in Resolvers, NEW id \in MarketIds,
               (\E o \in Outcomes : Resolve(r, id, o)) \/ VoidMarket(r, id)
        PROVE  now' = now
    BY <2>4 DEF Resolve, VoidMarket, Finalize
  <2>5. ASSUME NEW h \in Holders, NEW id \in MarketIds,
               \/ Redeem(h, id) \/ ClaimPoolRemainder(h, id)
               \/ ClaimLpFees(h, id) \/ TransferLp(id, h)
        PROVE  now' = now
    BY <2>5 DEF Redeem, RedeemAll, ClaimPoolRemainder, ClaimAll, ClaimLpFees,
                TransferLp
  <2>6. ASSUME NEW h \in Holders, NEW ids \in SUBSET MarketIds,
               RedeemMany(h, ids) \/ ClaimPoolRemainders(h, ids)
        PROVE  now' = now
    BY <2>6 DEF RedeemMany, RedeemAll, ClaimPoolRemainders, ClaimAll
  <2>7. ASSUME NEW id \in MarketIds, FinalizeMarket(id) \/ SweepFees(id)
        PROVE  now' = now
    BY <2>7 DEF FinalizeMarket, SweepFees
  <2>8. ASSUME NEW from \in Holders, NEW to \in Holders,
               NEW id \in MarketIds, NEW o \in Outcomes,
               NEW a \in AmountChoices, TransferPosition(from, to, id, o, a)
        PROVE  now' = now
    BY <2>8 DEF TransferPosition
  <2> QED
    BY <1>6, <2>1, <2>2, <2>3, <2>4, <2>5, <2>6, <2>7, <2>8
       DEF Next, Trading, Admin
<1> QED
  BY <1>2, <1>4, <1>5, <1>6 DEF TapeNext

(* Every operation keeps the tape and the bands together.                  *)
LEMMA TapeStep ==
    IInv /\ IInv' /\ TapeInv /\ [TapeNext]_tapeVars => TapeInv'
BY TapeMoves, TapeTick, TapeCreate, TapeTrade, TapeQuiet DEF Creation

LEMMA TapeKeepsLedger == TapeSpec => []IInv
<1>1. Init => IInv
  BY InitIInv
<1>2. IInv /\ [TapeNext]_tapeVars => IInv'
  <2>1. [TapeNext]_tapeVars => [Next]_vars
    BY DEF TapeNext, tapeVars
  <2> QED
    BY <2>1, NextIInv
<1> QED
  BY <1>1, <1>2, PTL DEF TapeSpec, TapeInit

(* The tape follows the ledgers and every open market's band follows the   *)
(* tape.                                                                   *)
THEOREM TapeInvariance == TapeSpec => []TapeInv
<1>1. TapeSpec => []IInv
  BY TapeKeepsLedger
<1>2. TapeInit => TapeInv
  <2> SUFFICES ASSUME TapeInit PROVE TapeInv
    OBVIOUS
  <2>1. NoOracle \in OracleType
    BY MarketCoreAssumption DEF NoOracle, OracleType
  <2>2. TapeTypes
    BY <2>1 DEF TapeInit, Init, TapeTypes, BandType
  <2>3. ASSUME NEW id \in MarketIds PROVE BandFollows(id)
    BY DEF TapeInit, Init, NoMarket, BandFollows
  <2> QED
    BY <2>2, <2>3 DEF TapeInv
<1>3. IInv /\ IInv' /\ TapeInv /\ [TapeNext]_tapeVars => TapeInv'
  BY TapeStep
<1> QED
  BY <1>1, <1>2, <1>3, PTL DEF TapeSpec

(* check_breakers and band_ref: with a band configured, no number of       *)
(* trades within a ledger takes the price further from where the ledger    *)
(* opened than the band allows.                                            *)
THEOREM PriceStaysInBand == TapeSpec => []BandHolds
<1>1. TapeInv => BandHolds
  BY DEF TapeInv, BandFollows, BandHolds, GetPrice
<1> QED
  BY <1>1, TapeInvariance, PTL
-----------------------------------------------------------------------------
(* The price accumulator, over the same tape.                              *)

Prices == Seq([MarketIds -> Nat])

(* The sum over a stretch of ledgers in which the price stood still.       *)
Still(ps, id, s, t, p) == \A u \in s + 1 .. t : ps[u][id] = p

LEMMA IntegralSpan ==
    ASSUME NEW ps \in Prices, NEW id \in MarketIds,
           NEW s \in Nat, NEW t \in Nat, s <= t, t <= Len(ps), NEW p \in Nat,
           Still(ps, id, s, t, p)
    PROVE  /\ Integral(ps, id, s) \in Int
           /\ Integral(ps, id, t) = Integral(ps, id, s) + p * (t - s)
<1> DEFINE f == [u \in 1 .. t |-> ps[u][id]]
           g == [u \in 1 .. s |-> ps[u][id]]
<1>1. \A u \in 1 .. Len(ps) : ps[u][id] \in Nat
  BY DEF Prices
<1>2. /\ 1 .. t = (1 .. s) \cup (s + 1 .. t)
      /\ (1 .. s) \cap (s + 1 .. t) = {}
  OBVIOUS
<1>3. /\ \A u \in 1 .. t : f[u] \in Int
      /\ \A u \in 1 .. s : g[u] \in Int /\ f[u] = g[u] /\ f[u] \in Int
      /\ \A u \in s + 1 .. t : f[u] = p
      /\ DOMAIN f = 1 .. t /\ DOMAIN g = 1 .. s
  BY <1>1 DEF Prices, Still
<1>4. /\ IsFiniteSet(1 .. s) /\ IsFiniteSet(s + 1 .. t)
      /\ Cardinality(s + 1 .. t) = t - s
  <2>1. s + 1 \in Int /\ t \in Int /\ 1 \in Int /\ s \in Int
    OBVIOUS
  <2>2. IsFiniteSet(1 .. s) /\ IsFiniteSet(s + 1 .. t)
        /\ Cardinality(s + 1 .. t) = IF s + 1 > t THEN 0 ELSE t - (s + 1) + 1
    BY <2>1, FS_Interval
  <2> QED
    BY <2>2
<1>5. Integral(ps, id, s) = SumFunctionOnSet(g, 1 .. s)
  BY <1>3, SumDomain DEF Integral
<1>6. Integral(ps, id, t) = SumFunctionOnSet(f, 1 .. t)
  BY <1>3, SumDomain DEF Integral
<1> HIDE DEF f, g
<1>7. SumFunctionOnSet(f, 1 .. s) = SumFunctionOnSet(g, 1 .. s)
  BY <1>3, <1>4, SumSame
<1>8. SumFunctionOnSet(f, s + 1 .. t) = p * Cardinality(s + 1 .. t)
  BY <1>3, <1>4, SumConstant
<1>9. SumFunctionOnSet(f, (1 .. s) \cup (s + 1 .. t))
          = SumFunctionOnSet(f, 1 .. s) + SumFunctionOnSet(f, s + 1 .. t)
  BY <1>2, <1>3, <1>4, SumUnion
<1>10. SumFunctionOnSet(g, 1 .. s) \in Int
  BY <1>3, <1>4, SumInt
<1>11. SumFunctionOnSet(f, 1 .. t)
          = SumFunctionOnSet(f, 1 .. s) + SumFunctionOnSet(f, s + 1 .. t)
  BY <1>2, <1>9, Zenon
<1> QED
  BY <1>4, <1>5, <1>6, <1>7, <1>8, <1>10, <1>11

LEMMA IntegralInt ==
    ASSUME NEW ps \in Prices, NEW id \in MarketIds,
           NEW t \in Nat, t <= Len(ps)
    PROVE  Integral(ps, id, t) \in Int
<1>1. Still(ps, id, t, t, 0)
  BY DEF Still
<1> QED
  BY <1>1, IntegralSpan

LEMMA IntegralZero ==
    ASSUME NEW ps, NEW id, NEW t \in Nat, \A u \in 1 .. t : ps[u][id] = 0
    PROVE  Integral(ps, id, t) = 0
<1> DEFINE f == [u \in 1 .. t |-> ps[u][id]]
<1>1. (\A u \in 1 .. t : f[u] = 0) /\ DOMAIN f = 1 .. t
  OBVIOUS
<1>2. Integral(ps, id, t) = SumFunctionOnSet(f, 1 .. t)
  BY <1>1, SumDomain DEF Integral
<1>3. IsFiniteSet(1 .. t)
  BY FS_Interval
<1> HIDE DEF f
<1>4. SumFunctionOnSet(f, 1 .. t) = 0
  BY <1>1, <1>3, SumZero
<1> QED
  BY <1>2, <1>4

(* Tapes that agree up to t have the same integral up to t.                *)
LEMMA IntegralKept ==
    ASSUME NEW ps, NEW qs, NEW id, NEW t \in Nat,
           \A u \in 1 .. t : ps[u][id] = qs[u][id]
    PROVE  Integral(ps, id, t) = Integral(qs, id, t)
<1>1. [u \in 1 .. t |-> ps[u][id]] = [u \in 1 .. t |-> qs[u][id]]
  OBVIOUS
<1> QED
  BY <1>1, Zenon DEF Integral

(* The ring by age.                                                        *)
LEMMA RingParts ==
    ASSUME NEW st \in OracleType
    PROVE  /\ OracleRing \in Nat \ {0} /\ st.index \in 0 .. OracleRing - 1
           /\ st.count \in 0 .. OracleRing
           /\ st.cum \in Nat /\ st.lastTs \in Nat /\ st.lastPrice \in Nat
           /\ st.obs \in [0 .. OracleRing - 1 -> [ts : Nat, cum : Nat]]
BY MarketCoreAssumption DEF OracleType

(* The slot of the observation made j before the newest.                   *)
LEMMA AgeSlot ==
    ASSUME NEW R \in Nat \ {0}, NEW i \in 0 .. R - 1, NEW j \in 0 .. R
    PROVE  (i + R - j) % R = IF i < j THEN i + R - j ELSE i - j
<1>1. PICK k \in 0 .. R : k = R - j
  OBVIOUS
<1>2. (i + k) % R = IF i + k < R THEN i + k ELSE i + k - R
  BY ShortStep
<1>3. i + R - j = i + k
  BY <1>1
<1> QED
  BY <1>1, <1>2, <1>3

LEMMA AgedType ==
    ASSUME NEW st \in OracleType, NEW j \in 0 .. OracleRing
    PROVE  Aged(st, j) \in [ts : Nat, cum : Nat]
<1> DEFINE R == OracleRing
           i == st.index
<1>1. R \in Nat \ {0} /\ i \in 0 .. R - 1
  BY RingParts
<1>2. (i + R - j) % R = IF i < j THEN i + R - j ELSE i - j
  BY <1>1, AgeSlot
<1>3. (i + R - j) % R \in 0 .. R - 1
  BY <1>1, <1>2
<1> QED
  BY <1>1, <1>3, RingParts DEF Aged

(* The slots the code scans hold the count newest observations.            *)
LEMMA PointsByAge ==
    ASSUME NEW st \in OracleType, st.count > 0
    PROVE  Points(st) = {Aged(st, j) : j \in 0 .. st.count - 1}
<1> DEFINE R == OracleRing
           i == st.index
           c == st.count
<1>1. R \in Nat \ {0} /\ i \in 0 .. R - 1 /\ c \in 1 .. R
  BY RingParts
<1> HIDE DEF R, i, c
<1>2. PICK first \in 0 .. R - 1 :
          /\ first = (i + R + 1 - c) % R
          /\ first = IF i + 1 < c THEN i + R + 1 - c ELSE i + 1 - c
  <2>1. c - 1 \in 0 .. R /\ i + R + 1 - c = i + R - (c - 1)
    BY <1>1
  <2>2. (i + R - (c - 1)) % R
            = IF i < c - 1 THEN i + R - (c - 1) ELSE i - (c - 1)
    BY <1>1, <2>1, AgeSlot
  <2> QED
    BY <1>1, <2>1, <2>2
<1>3. ASSUME NEW j \in 0 .. c - 1
      PROVE  (first + (c - 1 - j)) % R = (i + R - j) % R
  <2>1. (first + (c - 1 - j)) % R
            = IF first + (c - 1 - j) < R THEN first + (c - 1 - j)
              ELSE first + (c - 1 - j) - R
    <3>1. c - 1 - j \in 0 .. R
      BY <1>1
    <3> QED
      BY <1>1, <3>1, ShortStep
  <2>2. (i + R - j) % R = IF i < j THEN i + R - j ELSE i - j
    <3>1. j \in 0 .. R
      BY <1>1
    <3> QED
      BY <1>1, <3>1, AgeSlot
  <2>3. IF first + (c - 1 - j) < R
        THEN first + (c - 1 - j) = IF i < j THEN i + R - j ELSE i - j
        ELSE first + (c - 1 - j) - R = IF i < j THEN i + R - j ELSE i - j
    <3>1. first = IF i + 1 < c THEN i + R + 1 - c ELSE i + 1 - c
      BY <1>2
    <3> QED
      BY <1>1, <3>1
  <2> QED
    BY <2>1, <2>2, <2>3
<1>4. WrittenSlots(st) = {(i + R - j) % R : j \in 0 .. c - 1}
  <2>1. WrittenSlots(st) = {(first + k) % R : k \in 0 .. c - 1}
    BY <1>2 DEF WrittenSlots, R, i, c
  <2>2. ASSUME NEW k \in 0 .. c - 1
        PROVE  \E j \in 0 .. c - 1 : (first + k) % R = (i + R - j) % R
    <3>1. c - 1 - k \in 0 .. c - 1 /\ k = c - 1 - (c - 1 - k)
      BY <1>1
    <3> QED
      BY <1>3, <3>1
  <2>3. ASSUME NEW j \in 0 .. c - 1
        PROVE  \E k \in 0 .. c - 1 : (first + k) % R = (i + R - j) % R
    <3>1. c - 1 - j \in 0 .. c - 1
      BY <1>1
    <3> QED
      BY <1>3, <3>1
  <2> QED
    BY <2>1, <2>2, <2>3
<1> QED
  BY <1>4 DEF Points, Aged, R, i, c

(* accumulate in a later ledger: the accumulator's new value is the newest *)
(* observation, the others are one older, and at most the oldest is gone.  *)
LEMMA AgedAfter ==
    ASSUME NEW st \in OracleType, now \in Nat, st.lastTs < now,
           NEW price \in Nat, st.count > 0,
           NEW new, new = AfterTrade(st, price)
    PROVE  /\ new.lastTs = now /\ new.lastPrice = price
           /\ new.cum = st.cum + st.lastPrice * (now - st.lastTs)
           /\ new.count \in 1 .. st.count + 1
           /\ Aged(new, 0) = [ts |-> now, cum |-> new.cum]
           /\ \A j \in 1 .. new.count - 1 : Aged(new, j) = Aged(st, j - 1)
<1> DEFINE R == OracleRing
           i == st.index
<1>1. R \in Nat \ {0} /\ i \in 0 .. R - 1 /\ st.count \in 1 .. R
  BY RingParts
<1>2. PICK cum \in Nat : cum = st.cum + st.lastPrice * (now - st.lastTs)
  <2>1. PICK d \in Nat : d = now - st.lastTs
    BY RingParts
  <2>2. st.lastPrice * d \in Nat
    BY RingParts, Product
  <2> QED
    BY <2>1, <2>2, RingParts
<1>3. PICK slot \in 0 .. R - 1 :
          /\ slot = (i + 1) % R
          /\ slot = IF i + 1 < R THEN i + 1 ELSE 0
  <2>1. 1 \in 0 .. R
    BY <1>1
  <2>2. (i + 1) % R = IF i + 1 < R THEN i + 1 ELSE i + 1 - R
    BY <1>1, <2>1, ShortStep
  <2> QED
    BY <1>1, <2>2
<1>4. PICK n \in 1 .. st.count + 1 : n = MinOf(st.count + 1, R) /\ n <= R
  BY <1>1 DEF MinOf
<1>5. PICK obs : obs = [st.obs EXCEPT ![slot] = [ts |-> now, cum |-> cum]]
  OBVIOUS
<1>6. Accumulate(st) =
          [st EXCEPT !.cum = cum, !.lastTs = now, !.index = slot,
                     !.count = n, !.obs = obs]
  <2>1. ~(now <= st.lastTs)
    BY RingParts
  <2>2. Accumulate(st) =
            [st EXCEPT !.cum = cum, !.lastTs = now, !.index = slot,
                       !.count = n,
                       !.obs[slot] = [ts |-> now, cum |-> cum]]
    BY <1>2, <1>3, <1>4, <2>1, Zenon DEF Accumulate
  <2> QED
    BY <1>5, <2>2, Zenon
<1>7. /\ new.cum = cum /\ new.lastTs = now /\ new.index = slot
      /\ new.count = n /\ new.obs = obs /\ new.lastPrice = price
  BY <1>6 DEF AfterTrade, OracleType
<1> HIDE DEF R, i
<1>8. /\ obs[slot] = [ts |-> now, cum |-> cum]
      /\ \A s \in 0 .. R - 1 : s # slot => obs[s] = st.obs[s]
  BY <1>3, <1>5, RingParts DEF R
<1>9. (slot + R - 0) % R = slot
  <2>1. 0 \in 0 .. R
    BY <1>1
  <2>2. (slot + R - 0) % R = IF slot < 0 THEN slot + R - 0 ELSE slot - 0
    BY <1>1, <2>1, AgeSlot
  <2> QED
    BY <1>1, <2>2
<1>10. Aged(new, 0) = [ts |-> now, cum |-> new.cum]
  BY <1>7, <1>8, <1>9 DEF Aged, R
<1>11. ASSUME NEW j \in 1 .. n - 1 PROVE Aged(new, j) = Aged(st, j - 1)
  <2>1. j \in 0 .. R /\ j - 1 \in 0 .. R /\ j \in 1 .. R - 1
    BY <1>1, <1>4
  <2>2. (slot + R - j) % R = IF slot < j THEN slot + R - j ELSE slot - j
    BY <1>1, <2>1, AgeSlot
  <2>3. (i + R - (j - 1)) % R
            = IF i < j - 1 THEN i + R - (j - 1) ELSE i - (j - 1)
    BY <1>1, <2>1, AgeSlot
  <2>4. slot = IF i + 1 < R THEN i + 1 ELSE 0
    BY <1>3
  <2>5. PICK y : y = IF slot < j THEN slot + R - j ELSE slot - j
    OBVIOUS
  <2>6. /\ y = IF i < j - 1 THEN i + R - (j - 1) ELSE i - (j - 1)
        /\ y \in 0 .. R - 1 /\ y # slot
    BY <1>1, <2>1, <2>4, <2>5
  <2>7. (slot + R - j) % R = y /\ (i + R - (j - 1)) % R = y
    <3>1. (slot + R - j) % R = y
      BY <2>2, <2>5, Zenon
    <3>2. y = IF i < j - 1 THEN i + R - (j - 1) ELSE i - (j - 1)
      BY <2>6
    <3>3. (i + R - (j - 1)) % R = y
      BY <2>3, <3>2, Zenon
    <3> QED
      BY <3>1, <3>3
  <2>8. obs[y] = st.obs[y]
    BY <1>8, <2>6
  <2> QED
    BY <1>7, <2>7, <2>8, Zenon DEF Aged, R, i
<1> QED
  BY <1>2, <1>4, <1>7, <1>10, <1>11

(* A second trade in the ledger only changes the price.                    *)
LEMMA AgedSame ==
    ASSUME NEW st \in OracleType, now \in Nat, now <= st.lastTs,
           NEW price, NEW new, new = AfterTrade(st, price)
    PROVE  /\ new.lastTs = st.lastTs /\ new.lastPrice = price
           /\ new.cum = st.cum /\ new.count = st.count
           /\ \A j \in Int : Aged(new, j) = Aged(st, j)
<1>1. new = [st EXCEPT !.lastPrice = price]
  BY DEF AfterTrade, Accumulate
<1>2. /\ new.lastTs = st.lastTs /\ new.lastPrice = price
      /\ new.cum = st.cum /\ new.count = st.count
      /\ new.index = st.index /\ new.obs = st.obs
  BY <1>1 DEF OracleType
<1> QED
  BY <1>2, Zenon DEF Aged

(* A trade writes down what happened since the last one.                   *)
LEMMA RecordedTrade ==
    ASSUME NEW st \in OracleType, NEW ps \in Prices, now \in Nat,
           Len(ps) = now, NEW id \in MarketIds, NEW price \in Nat,
           Recorded(st, ps, id)
    PROVE  Recorded(AfterTrade(st, price), ps, id)
<1>1. PICK new : new = AfterTrade(st, price)
  OBVIOUS
<1>2. /\ st.count \in Nat /\ st.count > 0 /\ st.count <= OracleRing
      /\ st.lastTs \in Nat /\ st.lastTs <= now
      /\ Aged(st, 0) = [ts |-> st.lastTs, cum |-> st.cum]
      /\ \A u \in st.lastTs + 1 .. now : ps[u][id] = st.lastPrice
      /\ \A j \in 0 .. st.count - 1 :
             Aged(st, j).cum = Integral(ps, id, Aged(st, j).ts)
      /\ \A i, j \in 0 .. st.count - 1 :
             i < j => Aged(st, j).ts < Aged(st, i).ts
      /\ \A j \in 1 .. st.count - 1 :
             \A u \in Aged(st, j).ts + 1 .. Aged(st, j - 1).ts :
                 ps[u][id] = ps[Aged(st, j - 1).ts][id]
      /\ st.lastPrice \in Nat /\ st.cum \in Nat
  BY RingParts DEF Recorded
<1>3. CASE now <= st.lastTs
  <2>1. /\ new.lastTs = st.lastTs /\ new.cum = st.cum
        /\ new.count = st.count /\ st.lastTs = now
        /\ \A j \in Int : Aged(new, j) = Aged(st, j)
    BY <1>1, <1>2, <1>3, AgedSame
  <2>2. \A j \in 0 .. st.count - 1 : /\ Aged(new, j) = Aged(st, j)
                                     /\ Aged(new, j - 1) = Aged(st, j - 1)
    BY <2>1
  <2> QED
    BY <1>1, <1>2, <2>1, <2>2 DEF Recorded
<1>4. CASE ~(now <= st.lastTs)
  <2>1. /\ new.lastTs = now
        /\ new.cum = st.cum + st.lastPrice * (now - st.lastTs)
        /\ new.count \in 1 .. st.count + 1
        /\ Aged(new, 0) = [ts |-> now, cum |-> new.cum]
        /\ \A j \in 1 .. new.count - 1 : Aged(new, j) = Aged(st, j - 1)
    BY <1>1, <1>2, <1>4, AgedAfter
  <2>2. new.cum = Integral(ps, id, now)
    <3>1. Integral(ps, id, now) = Integral(ps, id, st.lastTs)
                                  + st.lastPrice * (now - st.lastTs)
      <4>1. PICK s \in Nat, q \in Nat : s = st.lastTs /\ q = st.lastPrice
        BY <1>2
      <4>2. s <= now /\ now <= Len(ps) /\ Still(ps, id, s, now, q)
        BY <1>2, <4>1 DEF Still
      <4>3. Integral(ps, id, now) = Integral(ps, id, s) + q * (now - s)
        BY <4>2, IntegralSpan
      <4> QED
        BY <4>1, <4>3
    <3>2. st.cum = Integral(ps, id, st.lastTs)
      BY <1>2
    <3> QED
      BY <2>1, <3>1, <3>2
  <2> DEFINE c == new.count
             t == [j \in 0 .. c - 1 |-> Aged(new, j).ts]
  <2>3. c \in Nat /\ c > 0 /\ c - 1 <= st.count
    BY <1>2, <2>1
  <2>4. \A j \in 0 .. st.count - 1 : Aged(st, j).ts \in Nat
                                     /\ Aged(st, j).ts <= st.lastTs
    <3> SUFFICES ASSUME NEW j \in 0 .. st.count - 1
                 PROVE  Aged(st, j).ts \in Nat /\ Aged(st, j).ts <= st.lastTs
      OBVIOUS
    <3>1. j \in 0 .. OracleRing
      BY <1>2, RingParts
    <3>2. Aged(st, j).ts \in Nat
      BY <3>1, AgedType
    <3>3. j = 0 \/ (0 < j /\ 0 \in 0 .. st.count - 1)
      BY <1>2
    <3>4. j = 0 \/ Aged(st, j).ts < Aged(st, 0).ts
      BY <1>2, <3>3
    <3> QED
      BY <1>2, <3>2, <3>4
  <2>5. /\ t[0] = now /\ Aged(new, 0).cum = Integral(ps, id, t[0])
        /\ \A j \in 1 .. c - 1 : /\ j - 1 \in 0 .. st.count - 1
                                 /\ t[j] = Aged(st, j - 1).ts
                                 /\ t[j] < now
                                 /\ Aged(new, j).cum = Integral(ps, id, t[j])
    <3>1. 0 \in 0 .. c - 1
      BY <2>3
    <3>2. t[0] = now /\ Aged(new, 0).cum = Integral(ps, id, t[0])
      BY <2>1, <2>2, <3>1
    <3>3. ASSUME NEW j \in 1 .. c - 1
          PROVE  /\ j - 1 \in 0 .. st.count - 1
                 /\ t[j] = Aged(st, j - 1).ts
                 /\ t[j] < now
                 /\ Aged(new, j).cum = Integral(ps, id, t[j])
      <4>1. j - 1 \in 0 .. st.count - 1 /\ j \in 0 .. c - 1
        BY <1>2, <2>3
      <4>2. Aged(new, j) = Aged(st, j - 1) /\ t[j] = Aged(new, j).ts
        BY <2>1, <4>1
      <4>3. Aged(st, j - 1).cum = Integral(ps, id, Aged(st, j - 1).ts)
            /\ Aged(st, j - 1).ts \in Nat /\ Aged(st, j - 1).ts <= st.lastTs
        BY <1>2, <2>4, <4>1
      <4>4. Aged(new, j).cum = Integral(ps, id, t[j])
        BY <4>2, <4>3, Zenon
      <4> HIDE DEF t
      <4> QED
        BY <1>2, <1>4, <4>1, <4>2, <4>3, <4>4
    <3> HIDE DEF t
    <3> QED
      BY <3>2, <3>3
  <2>6. \A j \in 0 .. c - 1 : Aged(new, j).ts = t[j]
    OBVIOUS
  <2> HIDE DEF t, c
  <2>7. \A i, j \in 0 .. c - 1 : i < j => t[j] < t[i]
    <3> SUFFICES ASSUME NEW i \in 0 .. c - 1, NEW j \in 0 .. c - 1, i < j
                 PROVE  t[j] < t[i]
      OBVIOUS
    <3>1. CASE i = 0
      BY <2>3, <2>5, <3>1
    <3>2. CASE i # 0
      <4>1. i \in 1 .. c - 1 /\ j \in 1 .. c - 1 /\ i - 1 < j - 1
        BY <2>3, <3>2
      <4> QED
        BY <1>2, <2>5, <4>1
    <3> QED
      BY <3>1, <3>2
  <2>8. ASSUME NEW j \in 1 .. c - 1, NEW u \in t[j] + 1 .. t[j - 1]
        PROVE  ps[u][id] = ps[t[j - 1]][id]
    <3>1. CASE j = 1
      <4>1. t[1] = st.lastTs /\ t[0] = now
        BY <1>2, <2>5, <3>1
      <4>2. u \in st.lastTs + 1 .. now /\ now \in st.lastTs + 1 .. now
        BY <1>2, <1>4, <3>1, <4>1
      <4> QED
        BY <1>2, <3>1, <4>1, <4>2
    <3>2. CASE j # 1
      <4>1. j \in 1 .. c - 1 /\ j - 1 \in 1 .. c - 1
        BY <2>3, <3>2
      <4>2. j - 1 \in 1 .. st.count - 1 /\ t[j] = Aged(st, j - 1).ts
            /\ t[j - 1] = Aged(st, (j - 1) - 1).ts
        BY <2>3, <2>5, <4>1
      <4> QED
        BY <1>2, <4>2
    <3> QED
      BY <3>1, <3>2
  <2>9. \A j \in 0 .. c - 1 : Aged(new, j).cum = Integral(ps, id, t[j])
    <3> SUFFICES ASSUME NEW j \in 0 .. c - 1
                 PROVE  Aged(new, j).cum = Integral(ps, id, t[j])
      OBVIOUS
    <3>1. j = 0 \/ j \in 1 .. c - 1
      OBVIOUS
    <3> QED
      BY <2>5, <3>1
  <2>10. \A j \in 1 .. c - 1 : \A u \in Aged(new, j).ts + 1
                                       .. Aged(new, j - 1).ts :
             ps[u][id] = ps[Aged(new, j - 1).ts][id]
    <3> SUFFICES ASSUME NEW j \in 1 .. c - 1,
                        NEW u \in Aged(new, j).ts + 1 .. Aged(new, j - 1).ts
                 PROVE  ps[u][id] = ps[Aged(new, j - 1).ts][id]
      OBVIOUS
    <3>1. Aged(new, j).ts = t[j] /\ Aged(new, j - 1).ts = t[j - 1]
      BY <2>3, <2>6
    <3> QED
      BY <2>8, <3>1
  <2>11. /\ \A j \in 0 .. c - 1 :
                Aged(new, j).cum = Integral(ps, id, Aged(new, j).ts)
         /\ \A i, j \in 0 .. c - 1 : i < j => Aged(new, j).ts < Aged(new, i).ts
    BY <2>6, <2>7, <2>9
  <2>12. \A u \in now + 1 .. now : ps[u][id] = new.lastPrice
    OBVIOUS
  <2> QED
    BY <1>1, <1>2, <2>1, <2>3, <2>10, <2>11, <2>12 DEF Recorded, c
<1> QED
  BY <1>3, <1>4

(* A longer tape that goes on at the last price.                           *)
LEMMA RecordedLater ==
    ASSUME NEW st \in OracleType, NEW ps \in Prices, NEW qs \in Prices,
           NEW id \in MarketIds, Len(ps) <= Len(qs), Recorded(st, ps, id),
           \A u \in 1 .. Len(ps) : qs[u][id] = ps[u][id],
           \A u \in Len(ps) + 1 .. Len(qs) : qs[u][id] = st.lastPrice
    PROVE  Recorded(st, qs, id)
<1>1. /\ Len(ps) \in Nat /\ Len(qs) \in Nat
      /\ st.count \in Nat /\ st.count > 0 /\ st.count <= OracleRing
      /\ st.lastTs \in Nat /\ st.lastTs <= Len(ps)
      /\ Aged(st, 0) = [ts |-> st.lastTs, cum |-> st.cum]
  BY RingParts DEF Recorded, Prices
<1>2. ASSUME NEW j \in 0 .. st.count - 1
      PROVE  Aged(st, j).ts \in Nat /\ Aged(st, j).ts <= Len(ps)
  <2>1. j \in 0 .. OracleRing /\ 0 \in 0 .. st.count - 1 /\ (j = 0 \/ 0 < j)
    BY <1>1, RingParts
  <2>2. Aged(st, j).ts \in Nat
    BY <2>1, AgedType
  <2>3. j = 0 \/ Aged(st, j).ts < Aged(st, 0).ts
    BY <2>1 DEF Recorded
  <2> QED
    BY <1>1, <2>2, <2>3
<1>3. ASSUME NEW j \in 0 .. st.count - 1
      PROVE  Aged(st, j).cum = Integral(qs, id, Aged(st, j).ts)
  <2>1. Aged(st, j).cum = Integral(ps, id, Aged(st, j).ts)
    BY DEF Recorded
  <2>2. PICK t \in Nat : t = Aged(st, j).ts /\ t <= Len(ps)
    BY <1>2
  <2>3. \A u \in 1 .. t : ps[u][id] = qs[u][id]
    BY <1>1, <2>2
  <2>4. Integral(ps, id, t) = Integral(qs, id, t)
    BY <2>3, IntegralKept
  <2> QED
    BY <2>1, <2>2, <2>4, Zenon
<1>4. ASSUME NEW u \in st.lastTs + 1 .. Len(qs)
      PROVE  qs[u][id] = st.lastPrice
  <2>1. CASE u <= Len(ps)
    BY <1>1, <2>1 DEF Recorded
  <2>2. CASE ~(u <= Len(ps))
    BY <1>1, <2>2
  <2> QED
    BY <2>1, <2>2
<1>5. ASSUME NEW j \in 1 .. st.count - 1,
             NEW u \in Aged(st, j).ts + 1 .. Aged(st, j - 1).ts
      PROVE  qs[u][id] = qs[Aged(st, j - 1).ts][id]
  <2>1. j \in 0 .. st.count - 1 /\ j - 1 \in 0 .. st.count - 1
    BY <1>1
  <2>2. PICK a \in Nat, b \in Nat :
            a = Aged(st, j).ts /\ b = Aged(st, j - 1).ts /\ b <= Len(ps)
    BY <1>2, <2>1
  <2>3. ps[u][id] = ps[b][id]
    BY <2>2 DEF Recorded
  <2>4. u \in 1 .. Len(ps) /\ b \in 1 .. Len(ps)
    BY <1>1, <2>2
  <2> QED
    BY <2>2, <2>3, <2>4
<1>6. st.lastTs <= Len(qs)
  BY <1>1
<1> QED
  BY <1>1, <1>3, <1>4, <1>5, <1>6 DEF Recorded

(* create_market makes the first observation.                              *)
LEMMA RecordedNew ==
    ASSUME NEW ps \in Prices, now \in Nat, Len(ps) = now,
           NEW id \in MarketIds, Unrecorded(NoOracle, ps, id), NEW price,
           NEW new,
           new = [NoOracle EXCEPT !.lastTs = now, !.lastPrice = price,
                      !.count = 1, !.obs[0] = [ts |-> now, cum |-> 0]]
    PROVE  Recorded(new, ps, id)
<1>1. /\ new.lastTs = now /\ new.cum = 0 /\ new.count = 1 /\ new.index = 0
      /\ new.obs[0] = [ts |-> now, cum |-> 0]
  BY MarketCoreAssumption DEF NoOracle
<1>2. Aged(new, 0) = [ts |-> now, cum |-> 0]
  <2>1. OracleRing \in Nat \ {0} /\ 0 \in 0 .. OracleRing - 1
        /\ 0 \in 0 .. OracleRing
    BY MarketCoreAssumption
  <2>2. (0 + OracleRing - 0) % OracleRing
            = IF 0 < 0 THEN 0 + OracleRing - 0 ELSE 0 - 0
    BY <2>1, AgeSlot
  <2>3. (0 + OracleRing - 0) % OracleRing = 0
    BY <2>2
  <2> QED
    BY <1>1, <2>3, Zenon DEF Aged
<1>3. Integral(ps, id, now) = 0
  BY IntegralZero DEF Unrecorded, NoPrice
<1>4. \A j \in 0 .. new.count - 1 : j = 0
  BY <1>1
<1>5. /\ \A j \in 0 .. new.count - 1 :
             Aged(new, j).cum = Integral(ps, id, Aged(new, j).ts)
      /\ \A i, j \in 0 .. new.count - 1 : ~(i < j)
      /\ \A j \in 1 .. new.count - 1 : FALSE
      /\ \A u \in new.lastTs + 1 .. Len(ps) : FALSE
  <2>1. Aged(new, 0).cum = Integral(ps, id, Aged(new, 0).ts)
    BY <1>2, <1>3
  <2>2. 1 .. new.count - 1 = {} /\ new.lastTs + 1 .. Len(ps) = {}
    BY <1>1
  <2> QED
    BY <1>4, <2>1, <2>2
<1> QED
  BY <1>1, <1>2, <1>5 DEF Recorded

LEMMA TapeIsPrices ==
    ASSUME TapeTypes
    PROVE  /\ tape \in Prices /\ Len(tape) = now
           /\ \A id \in MarketIds : oracle[id] \in OracleType
BY DEF TapeTypes, Prices

(* Every operation keeps the rings of observations true to the tape.       *)
LEMMA OracleTick ==
    ASSUME IInv, TapeInv, TapeInv', OracleInv, Tick, TapeGrows
    PROVE  OracleInv'
<1>1. /\ now' = now + 1 /\ now \in Nat /\ UNCHANGED <<market, oracle>>
      /\ TapeTypes /\ TapeTypes'
  BY NowNat DEF Tick, TapeInv
<1>2. /\ tape \in Prices /\ tape' \in Prices
      /\ Len(tape) = now /\ Len(tape') = now + 1
      /\ \A id \in MarketIds : oracle[id] \in OracleType
  BY <1>1 DEF TapeTypes, Prices
<1>3. ASSUME NEW id \in MarketIds
      PROVE  /\ \A u \in 1 .. now : tape'[u][id] = tape[u][id]
             /\ tape'[now + 1][id] = HeldPrice(id)
  BY <1>1, <1>2 DEF TapeGrows, Prices
<1>4. ASSUME NEW id \in MarketIds
      PROVE  IF Exists(id)' THEN Recorded(oracle'[id], tape', id)
             ELSE Unrecorded(oracle'[id], tape', id)
  <2>1. oracle'[id] = oracle[id] /\ (Exists(id)' <=> Exists(id))
    BY <1>1 DEF Exists
  <2>2. CASE Exists(id)
    <3>1. Recorded(oracle[id], tape, id)
      BY <2>2 DEF OracleInv
    <3>2. \A u \in Len(tape) + 1 .. Len(tape') :
              tape'[u][id] = oracle[id].lastPrice
      BY <1>1, <1>2, <1>3, <2>2 DEF HeldPrice
    <3>3. Recorded(oracle[id], tape', id)
      <4>1. Len(tape) <= Len(tape')
            /\ \A u \in 1 .. Len(tape) : tape'[u][id] = tape[u][id]
        BY <1>1, <1>2, <1>3
      <4> QED
        BY <1>2, <3>1, <3>2, <4>1, RecordedLater
    <3> QED
      BY <2>1, <2>2, <3>3
  <2>3. CASE ~Exists(id)
    <3>1. oracle[id] = NoOracle
          /\ \A u \in 1 .. now : tape[u][id] = NoPrice
      BY <1>2, <2>3 DEF OracleInv, Unrecorded
    <3>2. tape'[now + 1][id] = NoPrice
      BY <1>3, <2>3 DEF HeldPrice
    <3>3. \A u \in 1 .. Len(tape') : tape'[u][id] = NoPrice
      BY <1>1, <1>2, <1>3, <3>1, <3>2
    <3>4. Unrecorded(oracle[id], tape', id)
      BY <3>1, <3>3 DEF Unrecorded
    <3> QED
      BY <2>1, <2>3, <3>4
  <2> QED
    BY <2>2, <2>3
<1> QED
  BY <1>4 DEF OracleInv

LEMMA OracleCreate ==
    ASSUME IInv, TapeInv, OracleInv, tape' = tape, Creation
    PROVE  OracleInv'
<1>1. PICK c \in Holders, t \in CloseChoices, s \in SeedChoices,
           p \in ProbChoices : CreateMarket(c, t, s, p)
  BY DEF Creation
<1>2. PICK id \in MarketIds : id = nextId /\ market[id].status = "none"
  <2>1. nextId < MaxMarkets
    BY <1>1 DEF CreateMarket
  <2>2. nextId \in 0 .. MaxMarkets /\ MaxMarkets \in Nat
    BY MarketCoreAssumption DEF IInv, TypeOK
  <2>3. nextId \in MarketIds
    BY <2>1, <2>2 DEF MarketIds
  <2>4. market[nextId].status = "none"
    BY <2>2, <2>3 DEF IInv, Safe, Fresh
  <2> QED
    BY <2>3, <2>4
<1>3. /\ tape \in Prices /\ Len(tape) = now /\ now \in Nat
      /\ oracle \in [MarketIds -> OracleType]
      /\ market \in [MarketIds -> MarketType]
  BY TapeIsPrices, NowNat DEF TapeInv, TapeTypes, IInv, TypeOK
<1>4. /\ market'[id].status = "open"
      /\ \A i \in MarketIds : i # id => market'[i] = market[i]
      /\ \A i \in MarketIds : i # id => oracle'[i] = oracle[i]
  BY <1>1, <1>2, <1>3 DEF CreateMarket
<1>5. oracle[id] = NoOracle /\ Unrecorded(NoOracle, tape, id)
  BY <1>2 DEF OracleInv, Exists, Unrecorded
<1>6. PICK price : price = PriceYesBps(SeedReserves(s, p))
  OBVIOUS
<1>7. oracle'[id] = [NoOracle EXCEPT !.lastTs = now, !.lastPrice = price,
                         !.count = 1, !.obs[0] = [ts |-> now, cum |-> 0]]
  BY <1>1, <1>2, <1>3, <1>5, <1>6 DEF CreateMarket
<1>8. Recorded(oracle'[id], tape, id)
  BY <1>3, <1>5, <1>7, RecordedNew
<1>9. ASSUME NEW i \in MarketIds
      PROVE  IF Exists(i)' THEN Recorded(oracle'[i], tape', i)
             ELSE Unrecorded(oracle'[i], tape', i)
  BY <1>4, <1>8 DEF OracleInv, Exists
<1> QED
  BY <1>9 DEF OracleInv

LEMMA OracleTrade ==
    ASSUME IInv, TapeInv, OracleInv, tape' = tape,
           NEW h \in Holders, NEW id \in MarketIds, NEW o \in Outcomes,
           Traded(h, id, o)
    PROVE  OracleInv'
<1>1. PICK r \in [Outcomes -> Nat], fee \in Nat, dSets \in Int,
           dShares \in Int, dHeld \in Int :
          /\ r[Other(o)] > 0
          /\ Trade(h, id, o, r, fee, dSets, dShares, dHeld)
  BY DEF Traded
<1>2. r["yes"] + r["no"] > 0
  BY <1>1 DEF Other, Outcomes
<1>3. PICK post \in Nat : post = PriceYesBps(r)
  BY <1>2, PriceNat
<1>4. /\ tape \in Prices /\ Len(tape) = now /\ now \in Nat
      /\ oracle \in [MarketIds -> OracleType]
      /\ market \in [MarketIds -> MarketType]
  BY TapeIsPrices, NowNat DEF TapeInv, TapeTypes, IInv, TypeOK
<1>5. /\ oracle'[id] = AfterTrade(oracle[id], post)
      /\ \A i \in MarketIds : i # id => oracle'[i] = oracle[i]
      /\ \A i \in MarketIds : market'[i].status = market[i].status
  BY <1>1, <1>3, <1>4 DEF Trade, MarketType
<1>6. Exists(id) /\ Recorded(oracle[id], tape, id)
  BY DEF Traded, Exists, OracleInv
<1>7. Recorded(oracle'[id], tape, id)
  BY <1>4, <1>5, <1>6, RecordedTrade
<1>8. ASSUME NEW i \in MarketIds
      PROVE  IF Exists(i)' THEN Recorded(oracle'[i], tape', i)
             ELSE Unrecorded(oracle'[i], tape', i)
  BY <1>5, <1>6, <1>7 DEF OracleInv, Exists
<1> QED
  BY <1>8 DEF OracleInv

LEMMA OracleStep ==
    IInv /\ TapeInv /\ TapeInv' /\ OracleInv /\ [TapeNext]_tapeVars
        => OracleInv'
<1> SUFFICES ASSUME IInv, TapeInv, TapeInv', OracleInv, [TapeNext]_tapeVars
             PROVE  OracleInv'
  OBVIOUS
<1>1. CASE Quiet
  <2>1. ASSUME NEW i \in MarketIds
        PROVE  IF Exists(i)' THEN Recorded(oracle'[i], tape', i)
               ELSE Unrecorded(oracle'[i], tape', i)
    <3>1. oracle'[i] = oracle[i] /\ tape' = tape
      BY <1>1 DEF Quiet
    <3>2. Exists(i)' <=> Exists(i)
      BY <1>1 DEF Quiet, QuietMarket, Exists
    <3> QED
      BY <3>1, <3>2 DEF OracleInv
  <2> QED
    BY <2>1 DEF OracleInv
<1> QED
  BY <1>1, TapeMoves, OracleTick, OracleCreate, OracleTrade

(* Every ring holds the integrals of its market's prices at the times of   *)
(* its observations, with the price standing still in between.             *)
THEOREM OracleInvariance == TapeSpec => []OracleInv
<1>1. TapeInit => OracleInv
  <2> SUFFICES ASSUME TapeInit PROVE OracleInv
    OBVIOUS
  <2>1. ASSUME NEW id \in MarketIds
        PROVE  ~Exists(id) /\ Unrecorded(oracle[id], tape, id)
    <3>1. market[id].status = "none" /\ oracle[id] = NoOracle
      BY DEF TapeInit, Init, NoMarket
    <3>2. 1 .. Len(tape) = {}
      BY DEF TapeInit
    <3> QED
      BY <3>1, <3>2 DEF Exists, Unrecorded
  <2> QED
    BY <2>1 DEF OracleInv
<1>2. TapeSpec => []IInv
  BY TapeKeepsLedger
<1>3. IInv /\ TapeInv /\ TapeInv' /\ OracleInv /\ [TapeNext]_tapeVars
          => OracleInv'
  BY OracleStep
<1> QED
  BY <1>1, <1>2, <1>3, TapeInvariance, PTL DEF TapeSpec

(* Dividing a product by one of its factors.                               *)
LEMMA ExactQuotient ==
    ASSUME NEW d \in Nat \ {0}, NEW q \in Nat
    PROVE  (q * d) \div d = q
<1>1. PICK x \in Nat : x = q * d
  BY Product
<1>2. PICK y \in Nat, r \in Nat :
          y = x \div d /\ r = x % d /\ x = d * y + r /\ r < d
  BY Division
<1>3. CASE y = q
  BY <1>1, <1>2, <1>3
<1>4. CASE y < q
  <2>1. PICK k \in Nat : q = y + 1 + k
    BY <1>4
  <2>2. (y + 1 + k) * d = d * y + d + k * d /\ k * d \in Nat
    OBVIOUS
  <2> QED
    BY <1>1, <1>2, <2>1, <2>2
<1>5. CASE y > q
  <2>1. PICK k \in Nat : y = q + 1 + k
    BY <1>5
  <2>2. d * (q + 1 + k) = q * d + d + d * k /\ d * k \in Nat
    OBVIOUS
  <2> QED
    BY <1>1, <1>2, <2>1, <2>2
<1> QED
  BY <1>2, <1>3, <1>4, <1>5

(* observe_at: where the ring still reaches, the observations around t are *)
(* neighbours, and the price between them was one price.                   *)
LEMMA ObservedExactly ==
    ASSUME NEW st \in OracleType, NEW ps \in Prices, NEW id \in MarketIds,
           Recorded(st, ps, id), NEW t \in Nat, t <= Len(ps), ~TooOld(st, t)
    PROVE  ObserveAt(st, t) = Integral(ps, id, t)
<1>1. /\ Len(ps) \in Nat /\ st.count \in Nat /\ st.count > 0
      /\ st.count <= OracleRing /\ st.lastTs \in Nat /\ st.cum \in Nat
      /\ st.lastPrice \in Nat /\ st.lastTs <= Len(ps)
      /\ Aged(st, 0) = [ts |-> st.lastTs, cum |-> st.cum]
  BY RingParts DEF Recorded, Prices
<1>2. \A u \in 1 .. Len(ps) : ps[u][id] \in Nat
  BY DEF Prices
<1>3. st.cum = Integral(ps, id, st.lastTs)
  BY <1>1 DEF Recorded
<1>4. CASE t >= st.lastTs
  <2>1. PICK s \in Nat, p \in Nat : s = st.lastTs /\ p = st.lastPrice
    BY <1>1
  <2>2. s <= t /\ Still(ps, id, s, t, p)
    BY <1>1, <1>4, <2>1 DEF Recorded, Still
  <2>3. Integral(ps, id, t) = Integral(ps, id, s) + p * (t - s)
    BY <2>2, IntegralSpan
  <2> QED
    BY <1>3, <1>4, <2>1, <2>3 DEF ObserveAt
<1>5. CASE ~(t >= st.lastTs)
  <2> DEFINE c == st.count
             P == Points(st)
             At(j) == Aged(st, j).ts
  <2>1. P = {Aged(st, j) : j \in 0 .. c - 1}
    <3>1. st.count > 0
      BY <1>1
    <3> QED
      BY <3>1, PointsByAge, Zenon
  <2>2. ASSUME NEW j \in 0 .. c - 1
        PROVE  /\ Aged(st, j) \in [ts : Nat, cum : Nat]
               /\ Aged(st, j).cum = Integral(ps, id, At(j))
               /\ At(j) <= st.lastTs
    <3>1. j \in 0 .. OracleRing /\ 0 \in 0 .. c - 1 /\ (j = 0 \/ 0 < j)
      BY <1>1, RingParts
    <3>2. j = 0 \/ At(j) < At(0)
      BY <3>1 DEF Recorded
    <3>3. Aged(st, j) \in [ts : Nat, cum : Nat]
      BY <3>1, AgedType
    <3> QED
      BY <1>1, <3>2, <3>3 DEF Recorded
  <2>3. \A i, j \in 0 .. c - 1 : i < j => At(j) < At(i)
    BY DEF Recorded
  <2> DEFINE F == {j \in 0 .. c - 1 : At(j) <= t}
  <2>4. F \subseteq Nat /\ F # {}
    <3>1. PICK p \in P : ~(p.ts > t)
      BY <1>5, <1>1 DEF TooOld
    <3>2. PICK j \in 0 .. c - 1 : p = Aged(st, j)
      BY <2>1, <3>1
    <3>3. At(j) <= t
      BY <2>2, <3>1, <3>2
    <3> QED
      BY <3>3
  <2>5. PICK k \in F : \A j \in F : k <= j
    <3> HIDE DEF F
    <3> QED
      BY <2>4, LeastNatural
  <2>6. k \in 1 .. c - 1 /\ k - 1 \in 0 .. c - 1 /\ At(k) <= t
    <3>1. At(0) = st.lastTs
      BY <1>1
    <3>2. k # 0
      BY <1>1, <1>5, <3>1
    <3> QED
      BY <1>1, <3>2
  <2>7. At(k - 1) > t /\ At(k - 1) \in Nat /\ At(k) \in Nat
    <3>1. k - 1 \notin F
      BY <2>5, <2>6
    <3> QED
      BY <2>2, <2>6, <3>1
  <2>8. PICK lo, hi : lo = Aged(st, k) /\ hi = Aged(st, k - 1)
    OBVIOUS
  <2>9. /\ lo.ts \in Nat /\ hi.ts \in Nat /\ lo.ts <= t /\ t < hi.ts
        /\ hi.ts <= Len(ps)
        /\ lo.cum = Integral(ps, id, lo.ts)
        /\ hi.cum = Integral(ps, id, hi.ts)
        /\ lo \in P /\ hi \in P
        /\ \A u \in lo.ts + 1 .. hi.ts : ps[u][id] = ps[hi.ts][id]
    <3>1. /\ lo.cum = Integral(ps, id, lo.ts) /\ hi.cum = Integral(ps, id, hi.ts)
          /\ hi.ts <= st.lastTs
      BY <2>2, <2>6, <2>8
    <3>2. lo \in P /\ hi \in P
      BY <2>1, <2>6, <2>8
    <3>3. \A u \in lo.ts + 1 .. hi.ts : ps[u][id] = ps[hi.ts][id]
      BY <2>6, <2>8 DEF Recorded
    <3> QED
      BY <1>1, <2>6, <2>7, <2>8, <3>1, <3>2, <3>3
  <2>10. ASSUME NEW q \in P
         PROVE  /\ q.ts \in Nat
                /\ q.ts <= t => q.ts <= lo.ts
                /\ q.ts > t => q.ts >= hi.ts
                /\ q.ts = lo.ts => q = lo
                /\ q.ts = hi.ts => q = hi
    <3>1. PICK j \in 0 .. c - 1 : q = Aged(st, j)
      BY <2>1
    <3>2. j < k \/ j = k \/ k < j
      BY <2>6
    <3>3. j < k - 1 \/ j = k - 1 \/ k - 1 < j
      BY <2>6
    <3>4. At(j) \in Nat /\ (j < k => At(k) < At(j)) /\ (k < j => At(j) < At(k))
      BY <2>2, <2>3, <2>6
    <3>5. /\ j < k - 1 => At(k - 1) < At(j)
          /\ k - 1 < j => At(j) < At(k - 1)
      BY <2>3, <2>6
    <3>6. k - 1 < j => k = j \/ k < j
      BY <2>6
    <3>7. j < k => At(j) > t
      <4>1. j < k => j \notin F
        BY <2>5, <2>6
      <4> QED
        BY <3>4, <4>1
    <3> HIDE DEF At, F, P
    <3>8. q.ts = At(j) /\ lo.ts = At(k) /\ hi.ts = At(k - 1)
      BY <2>8, <3>1 DEF At
    <3> QED
      BY <2>6, <2>7, <2>8, <3>1, <3>2, <3>3, <3>4, <3>5, <3>6, <3>7, <3>8
  <2>11. [ts |-> st.lastTs, cum |-> st.cum] \in P
    BY <1>1, <2>1
  <2> DEFINE live == [ts |-> st.lastTs, cum |-> st.cum]
             a == CHOOSE p \in P :
                     /\ p.ts <= t
                     /\ \A p2 \in P : p2.ts <= t => p2.ts <= p.ts
             b == CHOOSE p \in P \cup {live} :
                     /\ p.ts >= t
                     /\ \A p2 \in P \cup {live} : p2.ts >= t => p2.ts >= p.ts
  <2>12. ObserveAt(st, t) =
             IF a.ts = t THEN a.cum
             ELSE IF b.ts = t THEN b.cum
             ELSE a.cum
                  + ((b.cum - a.cum) * (t - a.ts)) \div (b.ts - a.ts)
    BY <1>5, Zenon DEF ObserveAt
  <2>13. P \cup {live} = P
    BY <2>11
  <2> HIDE DEF P, At, F, c, live
  <2>14. a = lo
    <3>1. lo \in P /\ lo.ts <= t /\ \A p2 \in P : p2.ts <= t => p2.ts <= lo.ts
      BY <2>9, <2>10
    <3>2. a \in P /\ a.ts <= t /\ \A p2 \in P : p2.ts <= t => p2.ts <= a.ts
      BY <3>1
    <3> HIDE DEF a
    <3>3. a.ts \in Nat /\ lo.ts \in Nat /\ a.ts <= lo.ts /\ lo.ts <= a.ts
      BY <2>9, <2>10, <3>1, <3>2
    <3>4. a.ts = lo.ts
      BY <3>3
    <3> QED
      BY <2>10, <3>2, <3>4
  <2>15. CASE lo.ts = t
    BY <2>9, <2>12, <2>14, <2>15
  <2>16. CASE lo.ts # t
    <3>1. b = hi
      <4>1. b = CHOOSE p \in P : /\ p.ts >= t
                                 /\ \A p2 \in P : p2.ts >= t => p2.ts >= p.ts
        BY <2>13, Zenon
      <4> HIDE DEF b
      <4>2. ASSUME NEW q \in P, q.ts >= t PROVE q.ts > t /\ q.ts >= hi.ts
        <5>1. q.ts # t
          BY <2>9, <2>10, <2>16
        <5> QED
          BY <2>10, <4>2, <5>1
      <4>3. hi \in P /\ hi.ts >= t /\ \A p2 \in P : p2.ts >= t => p2.ts >= hi.ts
        BY <2>9, <4>2
      <4>4. b \in P /\ b.ts >= t /\ \A p2 \in P : p2.ts >= t => p2.ts >= b.ts
        BY <4>1, <4>3
      <4>5. b.ts \in Nat /\ b.ts >= hi.ts /\ hi.ts >= b.ts
        BY <2>10, <4>3, <4>4
      <4>6. b.ts = hi.ts
        BY <2>9, <4>5
      <4> QED
        BY <2>10, <4>4, <4>6
    <3> HIDE DEF a, b
    <3>2. PICK s \in Nat, e \in Nat : s = lo.ts /\ e = hi.ts /\ s < t /\ t < e
      BY <2>9, <2>16
    <3>3. PICK p \in Nat : p = ps[e][id]
      BY <1>1, <1>2, <2>9, <3>2
    <3>4. PICK x \in Nat, d \in Nat \ {0} : x = t - s /\ d = e - s
      BY <3>2
    <3>5. Still(ps, id, s, e, p) /\ Still(ps, id, s, t, p)
      BY <2>9, <3>2, <3>3 DEF Still
    <3>6. /\ Integral(ps, id, s) \in Int
          /\ Integral(ps, id, e) = Integral(ps, id, s) + p * (e - s)
          /\ Integral(ps, id, t) = Integral(ps, id, s) + p * (t - s)
      <4>1. s <= e /\ e <= Len(ps) /\ s <= t
        BY <2>9, <3>2
      <4> QED
        BY <3>5, <4>1, IntegralSpan
    <3>7. PICK base \in Int : base = Integral(ps, id, s)
      BY <3>6
    <3>8. lo.cum = base /\ hi.cum = base + p * d
          /\ Integral(ps, id, t) = base + p * x
      BY <2>9, <3>2, <3>4, <3>6, <3>7
    <3>9. ObserveAt(st, t) = lo.cum + ((hi.cum - lo.cum) * x) \div d
      <4>1. hi.ts # t
        BY <3>2
      <4> QED
        BY <2>12, <2>14, <2>16, <3>1, <3>2, <3>4, <4>1
    <3>10. (hi.cum - lo.cum) * x = (p * x) * d
      <4>1. p * d \in Int /\ hi.cum - lo.cum = p * d
        BY <3>8
      <4>2. (p * d) * x = (p * x) * d
        OBVIOUS
      <4> QED
        BY <4>1, <4>2
    <3>11. ((p * x) * d) \div d = p * x
      BY Product, ExactQuotient
    <3> QED
      BY <3>8, <3>9, <3>10, <3>11
  <2> QED
    BY <2>15, <2>16
<1> QED
  BY <1>4, <1>5

(* observe() and twap(): an answer given from the ring is the exact        *)
(* integral of the prices the ledgers ended with, and the mean is that of  *)
(* the window, however many trades, ledgers and turns of the ring lie      *)
(* between.                                                                *)
THEOREM ObserveMatchesTape == TapeSpec => []ObserveIsExact
<1>1. ASSUME TapeInv, OracleInv, now \in Nat PROVE ObserveIsExact
  <2>1. ASSUME NEW id \in MarketIds, Exists(id), NEW t \in Nat, t <= now,
               ~TooOld(oracle[id], t)
        PROVE  ObserveAt(oracle[id], t) = Integral(tape, id, t)
    <3>1. Recorded(oracle[id], tape, id)
      BY <1>1, <2>1 DEF OracleInv
    <3>2. tape \in Prices /\ Len(tape) = now /\ oracle[id] \in OracleType
      BY <1>1, TapeIsPrices DEF TapeInv
    <3> QED
      BY <2>1, <3>1, <3>2, ObservedExactly
  <2>2. ASSUME NEW id \in MarketIds, Exists(id), NEW s \in 0 .. now,
               ObserveOk(id, s)
        PROVE  Observe(id, s) = Integral(tape, id, now - s)
    <3>1. Ago(s) = now - s /\ now - s \in Nat /\ now - s <= now
      BY <1>1 DEF Ago
    <3> QED
      BY <2>1, <2>2, <3>1 DEF ObserveOk, Observe
  <2>3. ASSUME NEW id \in MarketIds, Exists(id)
        PROVE  PriceCumulative(id) = Integral(tape, id, now)
    <3>1. ~TooOld(oracle[id], now)
      <4>1. oracle[id] \in OracleType /\ Len(tape) = now
        BY <1>1, TapeIsPrices DEF TapeInv
      <4>2. oracle[id].lastTs \in Nat /\ oracle[id].lastTs <= now
        BY <1>1, <2>3, <4>1, RingParts DEF OracleInv, Recorded
      <4> QED
        BY <1>1, <4>2 DEF TooOld
    <3> QED
      BY <1>1, <2>1, <2>3, <3>1 DEF PriceCumulative
  <2>4. ASSUME NEW id \in MarketIds, Exists(id), NEW s \in 0 .. now,
               TwapOk(id, s)
        PROVE  Twap(id, s) = (Integral(tape, id, now)
                              - Integral(tape, id, now - s)) \div s
    BY <2>2, <2>3, <2>4, Zenon DEF TwapOk, Twap
  <2> QED
    BY <2>2, <2>4, Zenon DEF ObserveIsExact
<1>2. IInv => now \in Nat
  BY NowNat
<1>3. TapeSpec => []IInv
  BY TapeKeepsLedger
<1> QED
  BY <1>1, <1>2, <1>3, TapeInvariance, OracleInvariance, PTL
=============================================================================
