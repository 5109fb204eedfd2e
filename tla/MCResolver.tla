----------------------------- MODULE MCResolver -----------------------------
(***************************************************************************)
(* Resolver for TLC: one rule per mode.  s3 signs no fixed rule; it is a   *)
(* committee's newcomer, and an unknown key to a weighted rule.            *)
(***************************************************************************)
EXTENDS Resolver, TLC

CONSTANTS s1, s2, s3, j1, j2

NoWeight == [k \in Signers |-> 0]

Rule(mode) ==
    [mode |-> mode, signers |-> {s1, s2}, slots |-> 2,
     threshold |-> 2, window |-> 1, weight |-> NoWeight,
     escalation |-> "judges", judges |-> {j1, j2}, k |-> 2, timeout |-> 2,
     minEpoch |-> 1, maxDelta |-> 1, fallbackAfter |-> 1]

Price == Rule("price")
Weighted == [Rule("weighted") EXCEPT
                !.weight = [NoWeight EXCEPT ![s1] = 2, ![s2] = 1]]
(* A signer vector that names a signer twice passes validate_rule.         *)
Repeated == [Rule("signers") EXCEPT !.signers = {s1}, !.slots = 2]
Guardian == [Rule("disputable") EXCEPT !.escalation = "guardian",
                !.judges = {}, !.k = 0]

FixedSpecs == {Rule(m) : m \in {"price", "scaled", "twap", "signers",
                                "disputable", "hybrid"}}
                 \cup {Weighted, Repeated, Guardian}
AllSpecs == FixedSpecs \cup {Rule("committee")}
HybridSpec == {Rule("hybrid")}

NoElectorates == {}
OneElectorate == {[members |-> {s1, s2}, threshold |-> 2]}
TwoElectorates == OneElectorate \cup {[members |-> {s2, s3}, threshold |-> 1]}

NoTraces == {}
(* Two traces of one signer, one of another; one too early, one elsewhere. *)
SomeTraces ==
    {[agent |-> s1, here |-> TRUE, at |-> 1, id |-> 1],
     [agent |-> s1, here |-> TRUE, at |-> 2, id |-> 2],
     [agent |-> s2, here |-> TRUE, at |-> 1, id |-> 3],
     [agent |-> s2, here |-> TRUE, at |-> 0, id |-> 4],
     [agent |-> s2, here |-> FALSE, at |-> 1, id |-> 5]}

Roles == {TRUE, FALSE}
NoRoles == {}
NoPolicies == {}
Policies == {"optional", "required", "disabled"}

(* What the environment varies besides signers, feed and time is varied    *)
(* where it matters: the electorate under a committee's rule, the role     *)
(* under a disputable one, the evidence policy under a signers' one; and a *)
(* rotation changes the members.                                           *)
OneConcern ==
    /\ rotations' # rotations => spec.mode = "committee"
    /\ rotation' \notin {None, rotation} =>
           rotation'.members # committee.members
    /\ isResolver' # isResolver => spec.mode = "disputable"
    /\ evidence'.global # evidence.global => spec = Rule("signers")
=============================================================================
