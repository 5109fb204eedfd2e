------------------------------- MODULE Feeds -------------------------------
(***************************************************************************)
(* How the resolver turns the records of a SEP-40 price feed into an       *)
(* outcome: the lookup on the feed's grid, the comparison of a feed price  *)
(* with a threshold of other decimals, and the time-weighted average.      *)
(*                                                                         *)
(* A result is the record [ok, price, at, yes]; every Err of the code is   *)
(* None.                                                                   *)
(***************************************************************************)
EXTENDS Integers, Sequences, FiniteSets, SequencesExt

CONSTANTS
    MaxLookback,    \* MAX_LOOKBACK_RECORDS
    MaxSamples,     \* MAX_TWAP_SAMPLES
    MaxInt          \* i128::MAX

None == [ok |-> FALSE, price |-> 0, at |-> 0, yes |-> FALSE]

Settles(price, at, yes) == [ok |-> TRUE, price |-> price, at |-> at, yes |-> yes]

-----------------------------------------------------------------------------
(* The feed, an external contract: its period (0 when broken, -1 when the  *)
(* call traps), its decimals and its records.  Some feeds answer price(t)  *)
(* with the record at t or nothing, some with the newest record up to t.   *)

Nothing == [found |-> FALSE, price |-> 0, timestamp |-> 0]

FeedPrice(feed, t) ==
    LET upTo == {s \in DOMAIN feed.records :
                    IF feed.exact THEN s = t ELSE s <= t}
        newest == CHOOSE s \in upTo : \A r \in upTo : r <= s
    IN  IF upTo = {} THEN Nothing
        ELSE [found |-> TRUE, price |-> feed.records[newest],
              timestamp |-> newest]

-----------------------------------------------------------------------------
(* One record.                                                             *)

ComparePrice(direction, price, threshold) ==
    CASE direction = "above"       -> price > threshold
      [] direction = "at-or-above" -> price >= threshold
      [] direction = "below"       -> price < threshold
      [] direction = "at-or-below" -> price <= threshold

ValidatePrice(staleness, close, data) ==
    /\ data.price > 0
    /\ data.timestamp <= close /\ close - data.timestamp <= staleness

GridEnd(close, period) == (close \div period) * period

(* The n timestamps at the end of the grid, newest first.                  *)
GridBack(close, period, n) ==
    [i \in 1 .. n |-> GridEnd(close, period) - (i - 1) * period]

(* read_feed_on_grid(): walks back until a record is found, the next one   *)
(* would be too old, the grid ends or the lookback is used up.             *)
ReadFeedOnGrid(feed, staleness, close) ==
    LET Step(acc, t) ==
            LET data == FeedPrice(feed, t) IN
            IF acc.done THEN acc
            ELSE IF data.found THEN [done |-> TRUE, data |-> data]
            ELSE [done |-> \/ t < feed.period
                           \/ close - t + feed.period > staleness,
                  data |-> Nothing]
        walk == FoldLeft(Step, [done |-> FALSE, data |-> Nothing],
                         GridBack(close, feed.period, MaxLookback))
    IN  IF feed.period > 0 /\ walk.data.found
           /\ ValidatePrice(staleness, close, walk.data)
        THEN walk.data ELSE Nothing

ReadFeed(feed, c, close) == ReadFeedOnGrid(feed, c.staleness, close)

(* price_outcome(), without or with a snapshot.                            *)
PriceOutcome(feed, c, close, snapshot) ==
    LET data == IF snapshot.found THEN snapshot
                ELSE ReadFeed(feed, c, close)
    IN  IF data.found /\ ValidatePrice(c.staleness, close, data)
        THEN Settles(data.price, data.timestamp,
                     ComparePrice(c.direction, data.price, c.threshold))
        ELSE None

-----------------------------------------------------------------------------
(* A threshold with decimals of its own.                                   *)

Pow10(k) == FoldLeft(LAMBDA n, i : n * 10, 1, [i \in 1 .. k |-> i])
Fits(n) == n <= MaxInt

(* rescale(): both to the larger of the two scales, checked.               *)
Rescale(price, pd, threshold, td) ==
    LET target == IF pd > td THEN pd ELSE td
        p == Pow10(target - pd)
        t == Pow10(target - td)
    IN  [ok |-> Fits(p) /\ Fits(t) /\ Fits(price * p) /\ Fits(threshold * t),
         price |-> price * p, threshold |-> threshold * t]

ScaledPriceOutcome(feed, c, close) ==
    LET data == ReadFeedOnGrid(feed, c.staleness, close)
        both == Rescale(data.price, feed.decimals, c.threshold, c.decimals)
    IN  IF data.found /\ both.ok
        THEN Settles(data.price, data.timestamp,
                     ComparePrice(c.direction, both.price, both.threshold))
        ELSE None

-----------------------------------------------------------------------------
(* The time-weighted average.                                              *)

WindowStart(c, close) == IF close > c.window THEN close - c.window ELSE 0

(* Mutant: the last record weighs nothing for the second of the close.     *)
NextSampleExclusive(samples, i, close) ==
    IF i < Len(samples) THEN samples[i + 1].timestamp ELSE close

(* A sample holds until the next one, the last through the close itself.   *)
NextSample(samples, i, close) ==
    IF i < Len(samples) THEN samples[i + 1].timestamp ELSE close + 1

(* The slots of the window, newest first: each distinct record once, and a *)
(* bad or future record refuses the whole average.                         *)
TwapSamples(feed, c, close) ==
    LET start == WindowStart(c, close)
        slots == SelectSeq(GridBack(close, feed.period, MaxSamples),
                           LAMBDA t : t > start)
        Step(acc, t) ==
            LET data == FeedPrice(feed, t) IN
            IF acc.bad \/ ~data.found THEN acc
            ELSE IF data.price <= 0 \/ data.timestamp > close
            THEN [acc EXCEPT !.bad = TRUE]
            ELSE IF /\ data.timestamp > start
                    /\ \/ acc.samples = << >>
                       \/ data.timestamp < Head(acc.samples).timestamp
            THEN [acc EXCEPT !.samples = <<data>> \o @]
            ELSE acc
    IN  FoldLeft(Step, [bad |-> FALSE, samples |-> << >>], slots)

GapsOk(samples, c, close) ==
    /\ samples[1].timestamp - WindowStart(c, close) <= c.gap
    /\ close - Last(samples).timestamp <= c.gap
    /\ \A i \in 2 .. Len(samples) :
           samples[i].timestamp - samples[i - 1].timestamp <= c.gap

(* min_samples is at least 2, so there is a first sample.                  *)
TwapOutcome(feed, c, close) ==
    LET read == TwapSamples(feed, c, close)
        samples == read.samples
        Weight(i) == NextSample(samples, i, close) - samples[i].timestamp
        indices == [i \in 1 .. Len(samples) |-> i]
        weighted == FoldLeft(LAMBDA sum, i : sum + samples[i].price * Weight(i),
                             0, indices)
        total == FoldLeft(LAMBDA sum, i : sum + Weight(i), 0, indices)
        twap == weighted \div total
    IN  IF /\ ~read.bad /\ Len(samples) >= c.samples
           /\ GapsOk(samples, c, close)
           /\ Fits(weighted)
        THEN Settles(twap, Last(samples).timestamp,
                     ComparePrice(c.direction, twap, c.threshold))
        ELSE None

(* committed_price_outcome(): whichever price rule the market has.         *)
CommittedPriceOutcome(feed, c, close, snapshot) ==
    CASE c.kind \in {"price", "hybrid"} -> PriceOutcome(feed, c, close, snapshot)
      [] c.kind = "scaled" -> ScaledPriceOutcome(feed, c, close)
      [] c.kind = "twap" /\ feed.period > 0 -> TwapOutcome(feed, c, close)
      [] OTHER -> None

-----------------------------------------------------------------------------
(* What they should compute, from the records alone.                       *)

Newest(ts) == CHOOSE t \in ts : \A s \in ts : s <= t

(* The newest record within max_staleness of the close, and within the     *)
(* lookback of a feed that is asked slot by slot.                          *)
EligibleRecords(feed, c, close) ==
    {t \in DOMAIN feed.records :
        /\ t <= close /\ close - t <= c.staleness
        /\ feed.exact =>
               t > GridEnd(close, feed.period) - MaxLookback * feed.period}

RecordDecides(feed, c, close, result) ==
    LET eligible == EligibleRecords(feed, c, close)
        good == eligible # {} /\ feed.records[Newest(eligible)] > 0
        price == feed.records[Newest(eligible)]
        \* price / 10^feed.decimals against threshold / 10^c.decimals
        left == price * Pow10(c.decimals)
        right == c.threshold * Pow10(feed.decimals)
    IN  /\ result.ok => /\ good /\ result.price = price
                        /\ result.at = Newest(eligible)
                        /\ result.yes = ComparePrice(c.direction, left, right)
        /\ good /\ ~result.ok => ~Fits(left) \/ ~Fits(right)

(* The price of every second from the first record of the window through   *)
(* the close.                                                              *)
AverageDecides(feed, c, close, result) ==
    LET start == WindowStart(c, close)
        inside == {t \in DOMAIN feed.records : t > start /\ t <= close}
        first == CHOOSE t \in inside : \A s \in inside : t <= s
        PriceAt(s) == feed.records[Newest({t \in inside : t <= s})]
        seconds == [i \in 1 .. close - first + 1 |-> first + i - 1]
        sum == FoldLeft(LAMBDA n, s : n + PriceAt(s), 0, seconds)
        covered == \A s \in start .. close - c.gap :
                       s = start \/ s \in inside =>
                           \E t \in inside \cup {close} :
                               t > s /\ t <= s + c.gap
        good == /\ Cardinality(inside) >= c.samples /\ covered
                /\ \A t \in inside : feed.records[t] > 0
    IN  /\ result.ok => /\ good /\ result.price = sum \div Len(seconds)
                        /\ result.at = Newest(inside)
                        /\ result.yes = ComparePrice(c.direction, result.price,
                                                     c.threshold)
        /\ good /\ Fits(sum) /\ (\A t \in DOMAIN feed.records : feed.records[t] > 0)
           => result.ok
=============================================================================
