# OracleDesk in TLA+

A verification project for the OracleDesk smart contracts
(`src/oracledesk-stellar`): TLA+ models of the contracts, TLC runs over small
instances, and TLAPS proofs for every value of the parameters.

The repository keeps a small TLA+ model of its own
(`oracledesk-stellar/docs/formal/resolver.tla`: the Signers and Price lifecycle
of a market). The models here are independent of it and are written from the
Rust sources.

## 1. The system

OracleDesk runs binary prediction markets on Stellar/Soroban. A market is a
fixed-product pool over complete sets of YES and NO shares; agents trade through
a treasury contract, publish reasoning traces, and sell them over HTTP with
x402 payments.

| Component | State it keeps | Operations | Hard behaviour |
|---|---|---|---|
| market-core (`contracts/market-core`) | markets, reserves, positions, fees, settlement counters, price accumulator, breakers, wiring | create, buy, sell (and v2), resolve, void, redeem, remainder and fee claims, batches, close-out, transfers, configuration | order of claims, sweeps and transfers; rounding; ring buffer; rotation of treasury and resolver |
| resolver (`contracts/resolver`) | committed rules, attestations, proposals, disputes, committees, snapshots | reveal, attest, submit_signatures, finalize, dispute, rule, expire, guardian void, rotate, price resolution | two contracts that must agree; deadlines racing late votes; silent signers, guardians, feeds |
| timelock (`contracts/timelock`) | roles, delays, scheduled operations | schedule, execute, cancel, emergency, configuration, admin transfer | delays and roles moving under pending operations; replay |
| treasury (`contracts/treasury`) | agents, caps, usage windows, exposure, vault shares, PnL | agent trades, deposits, withdrawals, settlement, drawdown, yield, migration | caps over long sequences; cross-contract accounting |
| reasoning-registry | agents, traces, chains, batches, signing keys | register, publish, consume, flag, rotate keys | chain order, consumption once |
| router | an address book | create-and-reveal, buy-and-publish | atomic compound flows |
| spec-hash (`scripts/spec-hash`) | none | command line to commitment | must agree with what the resolver later admits |
| interface-manifest (`scripts/interface-manifest`) | none | manifest, diff, version policy of the bindings | reach of a change through nested types |
| agents (`agents/`) | lock file, journal, event cursor, own-market states | lease, submit, follow, maker and trader tasks | several processes, crashes, races between awaits |
| x402 (`x402/`) | payment ledger, distributed locks, budgets, refunds | verify, settle, deliver, refund, purchase | timeouts and lost answers, crashes, replays |

What makes each correct: *market-core* pays every claim exactly once and in full
out of the collateral of that market; *resolver* settles once, on what was
committed, and always in the end; *timelock* lets nothing pass unannounced;
*treasury* keeps agents within limits measured against what was really spent and
the share price of its vault from falling; *registry* keeps chains, indexes and
signatures readable for good; *router* does both halves or neither; a *sale* is
settled at most once and served only when paid; a *lease* has one holder.

Contracts call one another synchronously inside one transaction: resolver calls
market-core's `resolve`/`void_market`, the treasury calls every trading and
claiming entrypoint, the timelock calls admin entrypoints, the registry is asked
by the resolver to consume a trace. A Soroban invocation is atomic and an `Err`
or panic rolls back all of it, so **one entrypoint is one action**, enabled
exactly when the call returns Ok. Concurrency on chain is the order of
transactions; time is the ledger timestamp, advanced by `Tick`.

## 2. Modules

| Module | Models | Notes |
|---|---|---|
| `FpmmMath` | `market-core/src/math.rs` | seed, buy, sell, fee split, settlement values, limits, with the code's roundings |
| `SellShares` | `calc_sell_shares`, `isqrt` | recursive; used by TLC only |
| `MarketCore` | `market-core/src/lib.rs` | one action per entrypoint |
| `MarketTape` | `MarketCore` plus a history of ledger prices, and the views | what the accumulator, the band, quotes and `would_trip` are claims about |
| `Settlement`, `Resolver` | what a market and its disputer are promised; `resolver/src/lib.rs`, with market-core as its calls see it | one market, every mode; `Resolver` refines `Settlement` |
| `Feeds` | the resolver's reads of a price feed | grid, staleness, rescaling, TWAP |
| `Commitment` | the resolver's hash domains, `register_*`, rule validation | several markets, rules and envelopes |
| `SpecHash` | `scripts/spec-hash` | command lines to rules, envelopes and commitments |
| `Timelock` | `timelock/src/lib.rs`, with the governed contract as external state | history variables `born`, `ended` |
| `TreasuryMath`, `TreasuryBook` | usage windows, rings, share arithmetic; exposure, PnL, index | pure operators on the books |
| `TreasuryGov` | agents, caps, bands, policies and their announcements | |
| `Treasury` | every entrypoint that moves money, composed with `TreasuryGov` and with markets on several cores | history variable `hist` |
| `Registry`, `Merkle` | `reasoning-registry/src/lib.rs`; inclusion proofs | |
| `Router` | `router/src/lib.rs`, composed with `Commitment` and `Registry` | |
| `Interface` | `scripts/interface-manifest` | |
| `Purchase`, `Payments` | what a sale promises; `x402/trace-api.ts` over the payment ledger | `Payments` refines `Purchase` |
| `Lease` | `agents/runtime/lease.ts` | |
| `MarketCoreProofs`, `ResolverProofs`, `TimelockProofs`, `TreasuryProofs`, `TreasuryMoneyProofs`, `RouterProofs`, `PaymentsProofs` | theorems and proofs | by component, §4 |
| `MathProofs` | division, the market maker's arithmetic, sums over finite sets | what the other proofs rest on |
| `MCFpmm`, `MCArithmetic`, `MCMarketCore`, `MCTape`, `MCResolver`, `MCTimelock`, `MCTreasury`, `MCRouter` | instances for TLC | |

### MarketCore

Each variable is a family of storage entries: `market` is `Market(id)`, `settle`
is `Settle(id)`, `terms` is `FeeTerms(id)` with `Breaker(id)`, `lpFees`, `pos`,
`oracle` (with its observation ring) and `band` are the entries of those names,
`config` and `pending` the instance storage. `held` is what the token contract
holds on a market's behalf, kept per market so that one market's shortfall is
never hidden by another's surplus; `feesPaid` records which treasury received
protocol fees. The token is external: a transfer moves exactly its amount and a
negative one fails.

`DoBuy` and `DoSell` share `Trade`, as `do_buy` and `do_sell` share
`accrue_fees`, `accumulate` and the breakers. The batch entrypoints apply
`RedeemAll`/`ClaimAll` to the markets that can pay and skip the others.

### Resolver

Entries of different markets have different keys, so one market is modelled, in
whichever mode its commitment names. `core`, `by` and `isResolver` are
market-core's side: the status, who moved it, and whether this contract still
holds the role. A feed read yields Yes, No or unusable, freely at every call:
what makes it one or the other is the business of `Feeds`. Which rule may be
revealed is the business of `Commitment`; here the committed one is.
`Settlement` is the same market without rules, votes or feeds: it is decided
once, after close; one contest, against a bond, ends with that decision only.
It is refined under the mapping outcome = market-core's status, contest = the open
dispute and the proposed outcome, owed = the payee of a settled one, held = the
escrow.
`slots` is the length of the signer vector: `validate_rule` does not reject a
signer who appears twice, and the instance includes such a rule.

### Timelock

`ops` is `Op(id)`, `override` is `Delay(target, fn_name)`, `floor` is
`DefaultDelay`. Every action names the address that signed. `execute` of an
expired operation removes it and returns `Err`, which rolls the removal back: it
changes nothing, so it is not an action. Of a governed contract the model keeps
a pause flag, one setting that stands for everything else an admin call changes,
and a proposal that `cancel_proposal` cancels.

### Feeds, Merkle, Interface

Pure operators, translated loop by loop, each checked against a definition that
does not share its code: `RecordDecides` and `AverageDecides` say which record
and which average a rule should see by looking at every second of the window;
inclusion is compared with the list of leaves; `StillUnderstood` and
`SameEncoding` say what a user of the old bindings, or the author of a
commitment, relies on. A hash is the tuple of what is hashed, with its prefix,
so two hashes are equal exactly when domain and content are.

### Commitment, SpecHash, Router, Registry

`entries` holds the rules stored for a market, `markets` the hashes committed,
`rstate` the resolver's state as far as reveals look at it. `SpecHash` reads a
command line (a sequence of words and typed values), and `PrintedIsRevealable`
says that what it printed can be revealed. `Registry` has agents, traces (plain,
chained, signed), the chain and the three other indexes, keys with their history, flags, consumers
and batches; its properties are stated on the views readers use. `Router`
composes the two: each of its flows is one action made of theirs.

### Treasury

Markets are keyed by core and id, as in storage, since a treasury may move to
another core. Of a market the model keeps reserves, the treasury's position, its
fees and status (`mkt`); others trade, resolve, close out and give shares away.
`book` has the exposure, net, PnL and index entries, `vault` the shares, the
queue and the collateral, `stop` the drawdown stop, `yield` the lending venue:
principal, what the venue's pool owes, and what a pool left behind by
`set_yield_venue` still owes, which `yield_value` no longer sees. `hist` remembers
what was really spent and received, when, by core and id, which markets ended
(final, and nothing of the treasury's left in them), and on which day; it is read
by no action. The result of a market that ends is what it paid less what was put
into it, from `hist` and not from the books.

### Payments and Lease

These model TypeScript, where a process may be interrupted at every `await`:
there one action is what runs between two awaits. `Payments` has one payment,
several requests, a facilitator whose answer may be lost while the transaction
lands, and crashes after which `reconcileStuck` runs. The ledger is the durable
one; with the in-memory ledger a crash forgets the payment. `Lease` has the lock
file, which is absent, torn or a record, and processes that may die anywhere. A
heartbeat between its read and its rename (`beating`) goes on beside a release,
so its rename may bring back the file that the release unlinked.

### Mutants

Next to some definitions stands a *mutant*: the same operation with a plausible
mistake (a dropped guard, the current value in place of the frozen one, a missing
reset). No specification uses one. `PROJECT.json` names for every property a
mutant that TLC finds to violate it, which shows that the property can fail.

## 3. Runs

All bounds are constants in the `.cfg` files.

| Run | Config | Shows | Bounds |
|---|---|---|---|
| `arithmetic` | `MCArithmetic` | pool arithmetic, feed reads, inclusion proofs, releases of the bindings | every pool, amount and fee of a small grid; feeds of 5 slots; trees of up to 5 leaves; every pair of small interfaces |
| `settlement` | `MCSettlement` | collateral, counters, solvency, exact payouts, the product of the reserves | 2 holders, 1 market, 3 trade sizes, LP fees up to 3 units, 4 ledgers |
| `custody` | `MCCustody` | fee recipients, the closed market | 2 markets in batches; 1 market under administration |
| `tape` | `MCTape` | the accumulator, the price band, the views | ring of 2, 4 ledgers, so the ring wraps |
| `resolver` | `MCResolver` | the safety of every way to settle | all modes, 3 signers, 2 judges, 1 disputer, deadline inside the time bound |
| `live` | `MCResolverLive` | every market is settled, every dispute ends | actors stop at `LastMove`, time goes on to `MaxTime` |
| `timelock` | `MCTimelock` | announcements, frozen delays | 2 operations, 2 addresses, delays 1..2, grace 1 |
| `treasury` | `MCTreasury` | limits, books, index, vault, drawdown, announcements | seven lanes, see below |
| `router` | `MCRouter` | commitments, registry, compound flows, the sale of a trace | six lanes, see below |
| `sweep`, `treasury_batch`, `lease` | see §6 | disagreements between code and documentation | |

Why the bounds are enough to be interesting: the smallest seed the contract's
own checks allow leaves pools in which every rounding happens; two holders are
enough for transfers and for claims in either order; `MaxFees` stops trading in
a market once both kinds of fee have accrued; ring and ledgers are such that the
oldest observation is overwritten; the resolver's clock passes close, both grace
periods, the dispute window, the escalation timeout and the deadline, and votes
can arrive in each of these intervals. `MaxEpoch` allows one rotation before, between
or after the votes. `OneConcern` (an action constraint of `MCMarketCore` and
`MCResolver`) varies the environment where it matters: a committee rotates
under a committee's rule, the resolver role moves under a disputable rule, the
evidence policy changes under a signers' rule; administration goes on around one
market, batches run over two. The theorems of §4 do not depend on any of these.

*Lanes.* The treasury and the registry have too many independent operations for
one product of states, so a behaviour of `MCTreasury` and `MCRouter` keeps to one
lane, chosen at the start: the operations of a concern and those that interact
with it, for at most `Depth` steps. Every lane is a subset of the behaviours of
the specification, and every operation is in some lane. Treasury: `gov`
(announcements), `share` (deposits, queue and emergency exits around a market),
`risk` (limits under buys, sells, settlement, batches and hours that roll),
`stop` (losses, realization, days), `core` (two cores and migration), `fee`
(other people's markets, gifts, fees, close-out), `yield` (lending idle
collateral). The window has 3 buckets of 2 seconds, so it slides fully within
`MaxTime`; caps are such that the third trade exceeds one of them, the index
holds 2 markets, and the loss of one market trips the stop. Router: `commit`,
`chain`, `key`, `judge` (flags, revocation, consumption), `buy`, and `pay`, which
is not bounded in depth: the sale's state space is finite for 3 requests and 2
crashes. The numbers of the depths are the largest that keep each run within
minutes; they are enough for the longest sequence a mutant needs, with room.

Deadlock is checked in the market-core and timelock runs. The resolver runs
switch it off: a settled market whose clock has reached `MaxTime` really is
finished. So do the lanes, which end at their depth, and `arithmetic` has no
steps but stuttering.

### Properties

*arithmetic.* `NoRoundTripProfit`, `SellSharesIsGreatest`: the pool's roundings
and the root search. `OracleReadsAreExact`, `InclusionIsExact`,
`VersionsKeepPromises`: see Feeds, Merkle, Interface above.

*market-core.* `OpenBacked`: while open, collateral = sets + fees, and pool +
outstanding = sets for each outcome. `OutstandingCountsShares`: the counters of
`Settle` agree with the positions. `Solvent`: a final market holds enough for
everyone still to be paid, in any order. `PaysWhatItClears`: until the redemption
deadline each step pays exactly the claims it clears. `ProductNeverFalls`: no
sequence of trades drains the pool. `ClosedPaysNothing`: close-out is final (that
it is also complete, `ClosedHoldsNothing`, is refuted in general, see §6).
`SweepsReachFrozenRecipient`: `sweep_fees` pays the recipient frozen at creation.
`ObserveIsExact`, `BandHolds`: the accumulator is the exact integral, and the
price stays inside the band of the ledger's opening price.
`ViewsForetellTrades`: quotes and `would_trip` say what the trade then does.

*resolver.* `TerminalIffSettled`: resolver and market-core agree on every path.
`DisputeIsRulable`: a dispute can always be ruled on. `BehavesAsSettlement`: the
refinement of `Settlement`; a bond is paid once, to the one who was right. `OutcomeIsBacked`: a Yes or No has its quorum or its judges.
`EvidenceBacked`, `RotatedOutKeysDoNotDecide`: a frozen evidence policy and a
rotated committee cannot be got around. `EventuallySettled`, `BondComesBack`:
liveness. `RevealedIsCommitted`, `PrintedIsRevealable` (run `router`): one rule
per market, the committed one, and whatever the tool prints can be revealed.

*timelock.* `AnnouncedFirst`: nothing but a pause or a cancelled proposal lands
unannounced. `WaitsWhatItWasGiven`: delays are frozen at scheduling.

*treasury.* `SpendWithinLimits`: every spend respects every limit, measured on
the true history. `BooksMatchMoney`, `IndexCoversHoldings`, `VaultBooks`: exposure,
PnL, index, shares and queue agree with the money. `SharePriceNeverFalls`: nobody's
deposit or exit takes from the others. `DrawdownGuards`: `drawdown_status` reports
what the markets that ended in the window really lost; the call that ends a market
trips the stop if and only if that is a loss past the maximum; while it is tripped
nothing is spent, and it is lifted only once acknowledged. Exempt, while they are
in the window, are the days in which a market ended that a batch call had paid or
whose id was used in a second core (§6). `AgentsInBounds`, `LooseningAnnounced`: a
settler always remains, and nothing is widened unannounced.

*registry, router, sale.* `ChainsAreComplete`, `IndexesAgree`,
`SignaturesStayAttributable`, `CompoundFlowsAreWhole`, and `BehavesAsPurchase`: the
refinement of `Purchase` by `Payments` under the mapping asked = calls to
`/settle`, taken = the transaction landed, served = requests answered.

### Fairness

`LiveSpec` assumes weak fairness of `Tick` (ledgers keep closing) and of four
calls anyone may submit without a role: `finalize_signers`, `expire_dispute`,
`open_fallback` and `expire_market`, the last two when the feed is unusable.
Whoever waits for a payout has a reason to make them and needs no permission.
Nothing is assumed of signers, judges, disputers, the guardian, the admin or the
feed. `LastMove` bounds when the former act, so that the behaviours explored are
finite; it lies after the deadline, so their last acts race expiry.

## 4. Proofs

| Module | Theorems |
|---|---|
| `MathProofs` | `RoundTripLoses` |
| `MarketCoreProofs` | `TypeCorrect`, `EverySetIsBacked`, `PoolNeverDrained`, `SweepsAreFrozen`, `ClosedForGood`, `LedgerInvariance`, `CountersAreSums`, `EveryMarketIsSolvent`, `EveryPaymentIsOwed`, `TapeInvariance`, `PriceStaysInBand`, `OracleInvariance`, `ObserveMatchesTape` |
| `ResolverProofs` | `TypeCorrect`, `ContractsAgree`, `NeverBeforeClose`, `DisputesAreRulable`, `BondsAreEscrowed`, `PinnedPriceDecides`, `BackingInvariance`, `SettlementIsBacked`, `RequiredEvidenceIsCited`, `OnlyMembersDecide`, `MarketsSettleAsPromised` |
| `TimelockProofs` | `TypeCorrect`, `EveryChangeIsAnnounced`, `FloorRaisesAreAnnounced`, `DelaysAreFrozen`, `ReplaySafe` |
| `TreasuryProofs` | `GovInvariance`, `TreasuryIsGoverned`, `AgentsKeepBounds`, `EveryLooseningWasAnnounced`, `TreasuryInvariance`, `NavCoversHoldings`, `VaultAddsUp`, `NobodyDilutes` |
| `TreasuryMoneyProofs` | `MoneyInvariance`, `BooksAgreeWithMoney`, `DrawdownIsExact`, `SpendingIsCapped` |
| `RouterProofs` | `RouterInvariance`, `OnlyCommittedRules`, `FlowsAreWhole`, `ChainsNeverFork`, `IndexesListEverything`, `PagesListEverything`, `SignaturesLast` |
| `PaymentsProofs` | `SaleIsAPurchase` |

They hold for every value of the constants that satisfies the module's named
assumption (types of the constants, a positive minimum seed and ring, fees of at
most 10%, finite sets of holders, signers, agents and owners), so in particular
for any number of markets, holders, signers, traces and operations and without
the time bound of TLC. Where a run divides the operations into lanes, the
theorem is about the specification without lanes. Every inductive invariant was
checked by TLC on the instance of §3 before it was proved.

*Sums.* Solvency, the vault's books and the price integral are sums, over
holders, spends or ledgers. `MathProofs` shows that a sum over a finite set
changes by what changes in it.
The library's induction theorems take an operator and no installed prover can
instantiate one, so the induction is stated with sets (`SubsetInduction`: what
holds of a set whenever it holds of it without any one element), from the fact
that strict inclusion on the subsets of a finite set is well-founded.

*market-core.* `MathProofs` proves what the arithmetic promises: floor and
ceiling division bracket the quotient, and from that `calc_buy` and `calc_sell`
never lower the product and never take a reserve or a share count below zero.
`RoundTripLoses` follows: if buying and selling back paid, both reserves would
end below where they began, and the product with them.
`IInv` adds to the types and to `OpenBacked` two facts: nothing is recorded for
an id not handed out (`Fresh`), without which `create_market` could inherit a
balance; and a closed market is final with no fee left (`ClosedIsDone`), which
is what keeps `claim_lp_fees` and `sweep_fees`, which do not read the closed
flag, from paying. One lemma per action.

*Solvency.* `Solvent` is not inductive: a redemption keeps a market solvent only
if the counters still say who is to be paid. `Ledger` says that they do: each
outstanding counter is the sum of the positions, and what was paid is what the
cleared claims were worth, before and after `finalize_market` replaces the
counters by a total. With it the collateral covers the sum of what is still
owed (`LedgerMeetsClaims`: the roundings of the settlement values add up to at
most the sets), and each payment is exactly a claim that disappears.

*The price band.* `TapeInv`: an open market's accumulator holds its current
price; a market has no price in a ledger before it exists; and in a ledger the
reference of the band is the price the ledger opened with, be it stored by the
first trade or still the pool's own. Without the last part the band of a ledger
without a trade would follow from nothing.

*The price accumulator.* `OracleInv` describes the ring not by its slots, which
move when it wraps, but by age: the last observation, the one before it, and so
on (`Aged`). Each holds the exact integral of the prices up to its time, and
between two neighbours the price stood still, because a trade in a later
ledger always writes an observation first. So the chord that `observe_at` draws
between them is the integral itself and its division leaves no remainder
(`ExactQuotient`). A write replaces the oldest entry and makes every other one
older by one (`AgedAfter`), for a ring of any size. That the prices of past
ledgers never change is what `TapeInv` adds.

*resolver.* `IInv` joins the listed invariants with `ProposedAfterClose` (no
proposal exists before close: the reason `NothingBeforeClose` holds though
`void_market` does not check) and `PayeeMeansTerminal` (a bond with a payee
belongs to a settled market, so a second dispute cannot overwrite it).
`BackingInv` is about what the outcome rests on. `OutcomeIsBacked` must survive
everything that happens after settlement, and `cancel_proposal` does not look at
the state: in a weighted market it could open a new round and drop the votes.
It cannot because the proposal is still there and its window is over
(`RoundIsOver`). The citations of an agent are counted against its
attestations, both of which grow together and are empty before the reveal
(`NothingBeforeReveal`).

`MarketsSettleAsPromised` goes through the entrypoints one by one: each is one
step of `Settlement` or none. The cases that matter are those that meet an open
dispute. Attestations, signatures and cancellations leave it alone because they
refuse the Disputed state, so the contested outcome is the one that was
proposed; `expire_market`, `finalize_signers` and the feeds cannot decide the
market under it; the verdicts, the timeout and the guardian can, and each of
them writes the payee in the same step.

*timelock.* `PendingIsFresh` ties each pending operation to its history: its eta
and expiry are those it was born with, and it has neither run nor been
cancelled. `AnnouncedFirst` then follows for `execute` from `Due`, and for
`emergency` from the allow-list.

*treasury.* Every action of `Treasury` is an action of `TreasuryGov` or leaves
its variables alone (`TreasuryIsGoverned`, a refinement), so the governance
theorems are proved of `TreasuryGov` and carried over. `LooseningAnnounced`
takes `GovInv` and the classification of each change as tighter or looser.
`TreasuryInv` adds the types, the vault and the index. The vault's own part
needs more than `VaultBooks`: when there is no share nobody has one, dead shares
included, so that the first mint starts from nothing, and the queue runs from
head to tail, so that paying its head and pushing at its tail change the sum of
the tickets by one ticket. `NobodyDilutes` then is about the two share prices:
both divisions round towards the vault, the payment of a ticket takes exactly
what was reserved for it, and the queue being covered makes the net assets a
difference of naturals. The index is a list with a map back into it
(`IndexShape`), which the swap of a removal keeps; a market is removed only when
nothing is left in it, and migration adds the new core to those it can reach.
The model restricts two external steps to what is possible: `Init` lets an
initial balance mint only more than the dead shares, as the constructor does,
and markets created by others are seeded as market-core requires.

*The treasury's money.* The limits are stated on `hist`, the list of every spend
and receipt, while the code keeps rings of buckets that it reuses and sums.
`MoneyInv` relates the two. A usage window is a ring of `Buckets` hours with a
head hour; moving the head clears the hours that were passed. Bucket `i` stands
for the hour `RingPeriod` computes, no two buckets stand for the same hour, and
each holds exactly what `hist` says was spent in its hour (`Counts`,
`WindowsAgree`). Hence the sum of the ring is the sum over the window's hours,
and the last day lies within them: the code may refuse a spend that would fit,
never allow one that does not. The PnL ring is the same with days, for all
but the blurred ones (`ResultsAgree`, `CountsExcept`), and a book entry is marked
realized exactly when some core's market of that id has ended. `DrawdownIsExact`
proves both halves of `DrawdownGuards` from it. A bucket gets the book's proceeds
less cost of the id; if no other core used the id and no batch call paid, these are
the market's own money by `AccountsAgree` (`OneFlow`), which is the result `hist`
adds that day. So the sum `check_drawdown` reads is the true one, and its decision
to trip is right in both directions; every other step leaves results, ring and
trip alone (`Stays`), spends while the stop is up, or lifts it acknowledged.
`AccountsAgree`: for each market, exposure, cost, proceeds and
fees are the sums of its money in `hist`, which every entrypoint moves together
(`BookMoved`); exempt are markets that were migrated and those paid through
`redeem_many` or `claim_pool_remainders`, which record nothing. `hist`
numbers its records, since two equal spends in one ledger would otherwise be one
element of a set.

*commitments, registry, router.* `RouterSpec` interleaves the tool, market-core,
the resolver's entrypoints, the registry, the router and the treasury's compound
flow. `RouterInv` has one part per component. A reveal needs a market without a
rule and a hash of the rule, and market ids are never reused, so a rule once
stored stays the committed one. Each index lists the traces of its key in
increasing order (`Indexes`); the new id is above all listed ones. `ChainInv`
adds to `ChainsAreComplete` that an agent without a chain has the all-zero head,
from which its first chained trace must start. A page of a list starts where
the one before it ended, so what was read is always the beginning of the list up
to the cursor, and a list of distinct ids is no longer than the number of traces
(`PagesGiveAll`, `ListsAreShort`). `KeyInv`: a key in somebody's
history is bound to that agent and is there once; `retire_signing_key` keeps
`KeyToAgent`, so no other agent can add it and no signature changes owner.

*sale.* `PayInv`: one request owns the payment, the ledger's row is where its
owner left it (`RowFollowsOwner`), and the facilitator was asked by the owner or
not at all. With it every step of the service is a step of `Purchase` or a
stutter, for any number of requests and crashes.

`NothingBeforeClose`, `BondsEscrowed`, `SnapshotDecides`, `FloorRaiseAnnounced`,
`RunsAtMostOnce` and `IndexesAreComplete` are stated by theorems only: no run
spends time on them. `RoundTripLoses` proves the arithmetic of the run's
`NoRoundTripProfit`, which is stated in a module that reaches a recursive
operator.

### Only model-checked

- Liveness (`EventuallySettled`, `BondComesBack`) and `ViewsForetellTrades`: they
  need `ENABLED`.
- `NoRoundTripProfit` by its name; what it says is proved as `RoundTripLoses`.
- `SellSharesIsGreatest`, `OracleReadsAreExact`, `InclusionIsExact`,
  `VersionsKeepPromises`: recursive operators and folds over the data.
- `PrintedIsRevealable`: what a command line means is given with each line of the
  instance; for all of them it would be an assumption.

## 5. Not modelled

- Storage TTLs (an archived entry blocks a call until restored), events, error
  texts, the bytes of XDR and of hashes, entries that earlier versions wrote.
- i128 overflow: the code's checked arithmetic turns it into an `Err`; `MAX_SETS`
  keeps products in range. (`MAX_SETS` is 10^18; comments in `math.rs` say 10^15.)
  Rescaling a feed price, where it is within reach, is modelled with a limit.
- The two-step admin transfer of market-core, resolver, registry and treasury; the
  timelock's, of the same shape, is modelled.
- Agents other than the lease: `submit.ts` with its journal is called by tests
  only; strategies are floating point; the simulator replicates `math.rs`.
- x402 other than the sale: `payment-coordinator.ts`, `refunds.ts` and
  `agent-budget-ledger.ts` are imported by tests only (in the coordinator,
  "settling" lapses with the lock's TTL, and renew and release pass an empty
  token); pricing, discovery and HTTP.

## 6. What the models say against the documentation

Three runs expect a violation:

- `sweep`: `claim_pool_remainder` adds LP fees to `paid_out`
  (`market-core/src/lib.rs:1376`), but the sets that `finalize_market` subtracts
  it from never contained them. The close-out comes out short by the LP fees
  already claimed and leaves them in the contract; with enough of them the call
  fails. The doc comment promises "exactly the market's contract balance".
- `treasury_batch`: the treasury's `redeem_many` and `claim_pool_remainders` record
  nothing (`treasury/src/lib.rs:2007`), so what they bring back never leaves net
  exposure, which the comment at 3263 says redemptions and claims free.
  `BooksMatchMoney` exempts these markets and holds for all others. What they bring
  back is missing from the market's PnL too: when it is realized it enters the
  window as a loss that was none, or a larger one, and may trip the stop.
  `DrawdownGuards` exempts that day.
- `lease`: two processes that judged the same stale record rename one after the
  other, each reading its own token back (`agents/runtime/lease.ts:134`); the
  comment promises that "exactly one wins". The first finds out at its next
  heartbeat.

Observations that have no run of their own:

- `finalize_market` pays protocol fees to the current treasury
  (`market-core/src/lib.rs:1612`), not to the recipient that `FeeTerms` freezes (262).
- `expire_market` on a hybrid market whose fallback is not open always fails
  (`resolver/src/lib.rs:1940`) though line 1894 says anyone may void it; someone has
  to call `open_fallback` first, and with that call `EventuallySettled` holds.
- `register_spec_v2` says it validates "exactly as the legacy entrypoints do", but
  for a committee rule `validate_rule` checks neither existence nor epoch, which
  `register_committee_spec` does. `ValidRule` is the weaker check, so the model has
  markets whose committee does not exist yet, or never will.
- `persist()` bumps an entry to 60 days and `bump_persistent` then skips one that is
  past half its target, so a market may keep less than the horizon `ttl.rs` states.
- PnL is keyed by id without the core (`treasury/src/lib.rs:484`). Of two markets of
  one id the one that ends first takes the other's flows so far with it, and the
  second is never counted, since the id is marked realized (3877). Anyone may make
  the call that settles either first, while `docs/architecture.md:646` says that
  third parties "cannot manipulate loss magnitude, only realization timing".
  `DrawdownGuards` exempts the days of such markets.
- treasury: `agent_claim_lp_fees` records a return but no proceeds; a venue can be
  replaced while the old pool still owes interest, which is then outside
  `yield_value`; NAV leaves out lent collateral and clamps at
  zero when holdings do not cover the queue (`SharePriceNeverFalls` is stated
  where they do); `allocate_to_yield` does not look at the reserve;
  `remove_agent` leaves the agent's pending policy; shares given to the treasury
  are not indexed; an admin `withdraw` exists although `docs/architecture.md:558`
  says there is none; `agent_create_market_and_reveal` takes any resolver address.
- registry: `publish_trace_batch` (905-990) holds the leftovers of a merge and does
  not compile; it is modelled as intended. A revoked agent can be revoked again
  with a later `effective_from`. A signature covers neither CID nor position in
  the chain. The router is built against a committed WASM whose `publish_trace`
  takes a string where the source takes a `TraceAction`.
- spec-hash: `verify <hash> price-scaled ... --decimal` is always refused, since
  `take_decimal_flag` (557) looks for the mode one word too early; and the parser
  accepts rules the resolver refuses.
- interface-manifest: changes do not compose. Renaming an error case and later
  giving its old name a new code are additive one by one, but together they
  renumber the name, which in one release would be breaking.
- x402: `trace-api.ts:297` records any error of `/settle` but a timeout as "failed",
  although the transaction may land; the payer is charged and not served.
- If market-core's resolver role moves away while a dispute is open,
  `expire_dispute` fails in `void_market` and the bond stays locked until the role
  returns, and for good if the other resolver has settled the market; `BondComesBack` is checked with the role kept.
- After `execute_rotation` a committee's proposal may lose its quorum, contrary
  to the comment of `has_valid_proposal`; the stale proposal also keeps a new
  Yes/No quorum from proposing, so the market ends by expiry.
- `validate_rule` accepts a signer listed twice.
- ADR 0008 says an expired operation "is dropped as `OperationExpired`"; the
  removal is rolled back with the error. `set_roles`' comment recommends
  scheduling it, but a scheduled self-call other than `set_default_delay` returns
  `SelfCallUnsupported`.
- `store_rule` binds `_key` and uses `key`, so the resolver does not compile as
  committed; the model reads it as intended. `AttestEpoch` is written and never
  read. `docs/frontend-integration.md` describes a `sell_shares` entrypoint that
  market-core does not have; `calc_sell_shares` exists.

## 7. Plan

Done: the contracts, the two tools, the sale of a trace and the lease; proofs for
every contract; three refinements (`Payments` of `Purchase` and `Resolver` of
`Settlement`, checked and proved; `Treasury` of `TreasuryGov`, proved). Every
safety property of the contracts that a run checks is proved, except those
listed in §4 as only model-checked. Left:

1. The admin transfers that §5 leaves out, on the pattern of `Timelock`.
2. A proof that Newton's iteration in `isqrt` ends at the root, which needs an
   induction the provers can instantiate.
