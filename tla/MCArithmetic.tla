---------------------------- MODULE MCArithmetic ----------------------------
(***************************************************************************)
(* The pure algorithms over every small input: the FPMM quotes of MCFpmm,  *)
(* the reads of a price feed, the Merkle trees of trace batches and the    *)
(* releases of a contract's bindings.  One initial state per input, no     *)
(* steps.                                                                  *)
(***************************************************************************)
EXTENDS MCFpmm, Feeds, Merkle, Interface

CONSTANTS
    Period, Slots,  \* the period of the feed, and the slots it may have filled
    Prices,         \* prices of its records; a non-positive one is a fault
    MaxLeaves       \* leaves of the largest tree

VARIABLE input      \* the feed and the close of a market, a batch, a release

BrokenFeeds ==
    {[period |-> p, decimals |-> 1, exact |-> TRUE, records |-> << >>] :
        p \in {-1, 0}}

TheFeeds ==
    BrokenFeeds \cup
    UNION {[period : {Period}, decimals : {1}, exact : BOOLEAN,
            records : [{s * Period : s \in filled} -> Prices]] :
               filled \in SUBSET Slots}

Trace(name) == <<"trace", name, "">>

TheBatches ==
    UNION {[1 .. n -> {Trace("t1"), Trace("t2")}] : n \in 1 .. MaxLeaves}

(* Definitions of three types, one of them a root, that refer to one       *)
(* another, of a function and the constructor, an error enum and an event. *)
Def(kind, name, parts) ==
    [kind |-> kind, name |-> name, parts |-> parts, out |-> <<"void", 0>>,
     doc |-> 0]

Part(name, tag, arg) == [name |-> name, val |-> <<tag, arg>>]

RootDefs ==
    {Def("struct", 20, <<Part(13, "u32", 0), Part(12, "udt", 21)>>),
     Def("struct", 20, <<Part(12, "udt", 21), Part(13, "u32", 0)>>),
     Def("struct", 20, <<Part(12, "udt", 22), Part(13, "u32", 0)>>)}

InnerDefs ==
    {Def("struct", 21, <<Part(0, "udt", 22), Part(1, "u32", 0)>>),
     Def("struct", 21, <<Part(0, "u32", 0), Part(1, "udt", 22)>>),
     Def("union", 21, <<Part(12, "udt", 22)>>),
     Def("union", 21, <<Part(13, "udt", 20), Part(12, "udt", 22)>>)}

EnumDefs(kind, name) ==
    {Def(kind, name, <<Part(12, "code", 1)>>),
     [Def(kind, name, <<Part(12, "code", 1)>>) EXCEPT !.doc = 1],
     Def(kind, name, <<Part(13, "code", 2), Part(12, "code", 1)>>),
     Def(kind, name, <<Part(13, "code", 1)>>),
     Def(kind, name, <<Part(13, "code", 1), Part(12, "code", 2)>>)}

FnDefs(name) ==
    LET f == Def("fn", name, <<Part(12, "u32", 0), Part(13, "udt", 20)>>)
    IN  {f, [f EXCEPT !.parts = Reverse(@)], [f EXCEPT !.parts = Tail(@)],
         [f EXCEPT !.parts[1].name = 14], [f EXCEPT !.out = <<"u32", 0>>]}

EventDefs ==
    {Def("event", 40, <<Part(13, "u32", 0), Part(12, "u32", 0)>>),
     Def("event", 40, <<Part(12, "u32", 0), Part(13, "u32", 0)>>)}

OneOf(S) == {<< >>} \cup {<<d>> : d \in S}

Wasms(A, B, C) == {a \o b \o c : a \in OneOf(A), b \in OneOf(B), c \in OneOf(C)}

TypeWasms == Wasms(RootDefs, InnerDefs, EnumDefs("enum", 22))

CallWasms == Wasms(FnDefs(30), FnDefs(Constructor), {})

SignalWasms == Wasms(EnumDefs("error", 22), EventDefs, {})

TheReleases ==
    UNION {[about : {"release"}, old : W, new : W] :
               W \in {TypeWasms, CallWasms, SignalWasms}}

SomeOrder == [r |-> 1, other |-> 1, amount |-> 1, fee |-> 0]

MCInit ==
    \/ Init /\ input = [about |-> "order"]
    \/ /\ order = SomeOrder
       /\ \/ input \in [about : {"feed"}, feed : TheFeeds,
                        close : 3 * Period .. 4 * Period - 1]
          \/ input \in [about : {"batch"}, hashes : TheBatches]
          \/ input \in TheReleases

MCSpec == MCInit /\ [][Next /\ UNCHANGED input]_<<vars, input>>

-----------------------------------------------------------------------------
ReadRules ==
    [kind : {"price"}, staleness : {1, 3, 5}, threshold : {3},
     decimals : {1}, direction : {"at-or-above", "below"}] \cup
    [kind : {"scaled"}, staleness : {5}, threshold : {0, 3, 25},
     decimals : 0 .. 2, direction : {"above", "at-or-below"}]

TwapRules ==
    [kind : {"twap"}, window : {4, 6}, samples : {2, 3}, gap : 1 .. 4,
     threshold : {2}, direction : {"above"}]

(* The oracle reads are exact, whatever slots of the feed are empty, stale *)
(* or broken and whatever it answers between them: a price rule settles on *)
(* the newest record its staleness allows, or not at all; decimals do not  *)
(* change which side of the threshold the price is on, short of overflow;  *)
(* and the TWAP is the average over every second of the records in the     *)
(* window, refused when there are too few or a gap is too wide             *)
(* (read_feed_on_grid, rescale, twap_outcome).                             *)
OracleReadsAreExact ==
    input.about = "feed" =>
        LET Result(c) == CommittedPriceOutcome(input.feed, c, input.close,
                                               Nothing)
        IN  IF input.feed.period <= 0
            THEN \A c \in ReadRules \cup TwapRules : ~Result(c).ok
            ELSE /\ \A c \in ReadRules :
                        RecordDecides(input.feed, c, input.close, Result(c))
                 /\ \A c \in TwapRules :
                        AverageDecides(input.feed, c, input.close, Result(c))

NodesOf(hashes) == UNION {Range(l) : l \in Range(BuildTree(hashes))}

(* Inclusion in a batch is exact: the proof the agent builds for a leaf    *)
(* verifies, and no other hash, inner nodes included, verifies at that     *)
(* position with the proof of any leaf, shortened, lengthened or as it is, *)
(* whatever number of leaves the batch was published with                  *)
(* (verify_trace_inclusion against buildTree and proofFor).                *)
InclusionIsExact ==
    input.about = "batch" =>
        LET hashes == input.hashes
            n == Len(hashes)
            root == RootOf(hashes)
            proofs == {ProofFor(hashes, i) : i \in 0 .. n - 1}
            tried == proofs \cup {Tail(p) : p \in proofs \ {<< >>}}
                            \cup {Append(p, root) : p \in proofs}
            Verifies(count, i, h, p) ==
                VerifyTraceInclusion(root, count, h, i, p)
            claims == Range(hashes) \cup NodesOf(hashes)
        IN  /\ \A i \in 0 .. n - 1 :
                   Verifies(n, i, hashes[i + 1], ProofFor(hashes, i))
            /\ \A i \in 0 .. n - 1, h \in claims, p \in tried :
                   Verifies(n, i, h, p) =>
                       h = hashes[i + 1] /\ p = ProofFor(hashes, i)
            /\ \A count \in 1 .. MaxLeaves : \A i \in 0 .. count - 1 :
                   \A h, g \in claims, p, q \in tried :
                       Verifies(count, i, h, p) /\ Verifies(count, i, g, q)
                       => h = g

OldVersions == {<<0, 1, 1>>, <<1, 0, 0>>}

NewVersions == {<<0, 1, 1>>, <<0, 1, 2>>, <<0, 2, 0>>, <<1, 0, 0>>,
                <<1, 0, 1>>, <<1, 1, 0>>, <<2, 0, 0>>}

(* A version keeps its promise: a release of the bindings that validate()  *)
(* accepts and that users of the previous one take without asking leaves   *)
(* every call, type, event and error code of theirs as it was, and every   *)
(* commitment hashed as it was, down to types the committed ones only      *)
(* reach through others; a release that takes something away names it in   *)
(* its changelog.                                                          *)
VersionsKeepPromises ==
    input.about = "release" =>
        LET old == Extract(input.old)
            new == Extract(input.new)
            changes == Diff(old, new)
            items == {c.item : c \in changes}
            lost == Lost(old, new)
            moved == CommitmentsMoved(old, new)
        IN  \A v \in OldVersions, w \in NewVersions :
            \A body \in {items} \cup {items \ {i} : i \in items} :
                Validate(changes, v, w, (w :> body)) =>
                    /\ Caret(v, w) => lost = {} /\ ~moved
                    /\ \A l \in lost : \E i \in body : l = <<i[1], i[2]>>
=============================================================================
