------------------------------- MODULE Merkle -------------------------------
(***************************************************************************)
(* Batches of traces under one Merkle root: the tree an agent builds       *)
(* (agents/core/merkle.ts) and the inclusion check of the registry.        *)
(* Hashes are terms: a leaf and a node have prefixes of their own.  Leaf   *)
(* positions count from 0, as in the code.                                 *)
(***************************************************************************)
EXTENDS Integers, Sequences, SequencesExt

CONSTANTS
    MaxProofLen,    \* MAX_PROOF_LEN
    MaxLevels       \* levels of the largest tree

HashLeaf(h) == <<"leaf", h, "">>
HashNode(l, r) == <<"node", l, r>>

Rounds == [i \in 1 .. MaxLevels |-> i]

-----------------------------------------------------------------------------
(* The builder.                                                            *)

(* Pairs are hashed, an odd last node is promoted unchanged.               *)
NextLayer(layer) ==
    [i \in 1 .. (Len(layer) + 1) \div 2 |->
        IF 2 * i <= Len(layer) THEN HashNode(layer[2 * i - 1], layer[2 * i])
        ELSE layer[2 * i - 1]]

(* buildTree(): the layers, from the leaves to the root.                   *)
BuildTree(hashes) ==
    FoldLeft(LAMBDA layers, i : IF Len(Last(layers)) = 1 THEN layers
                                ELSE Append(layers, NextLayer(Last(layers))),
             << [i \in DOMAIN hashes |-> HashLeaf(hashes[i])] >>, Rounds)

RootOf(hashes) == Last(BuildTree(hashes))[1]

(* proofFor(): the sibling of each layer where there is one.               *)
ProofFor(hashes, index) ==
    LET layers == BuildTree(hashes)
        Step(acc, layer) ==
            LET sibling == IF acc.at % 2 = 0 THEN acc.at + 1 ELSE acc.at - 1
            IN  [at |-> acc.at \div 2,
                 proof |-> IF sibling < Len(layer)
                           THEN Append(acc.proof, layer[sibling + 1])
                           ELSE acc.proof]
    IN  FoldLeft(Step, [at |-> index, proof |-> << >>], Front(layers)).proof

-----------------------------------------------------------------------------
(* The registry.                                                           *)

(* Mutant: the last node of every layer counts as promoted.                *)
LastOfLayer(at, len) == at = len - 1

(* The odd last node of a layer has no sibling.                            *)
Lone(at, len) == len % 2 = 1 /\ at = len - 1

(* compute_merkle_root(); ok is FALSE for Err(InvalidProof).               *)
ComputeMerkleRoot(count, hash, index, proof) ==
    LET Step(acc, i) ==
            LET lone == Lone(acc.at, acc.len)
                sibling == proof[acc.used + 1]
                up == [acc EXCEPT !.at = @ \div 2, !.len = (@ + 1) \div 2]
            IN  CASE ~acc.ok \/ acc.len <= 1 -> acc
                  [] acc.ok /\ acc.len > 1 /\ lone -> up
                  [] acc.ok /\ acc.len > 1 /\ ~lone /\ acc.used >= Len(proof) ->
                         [acc EXCEPT !.ok = FALSE]
                  [] OTHER ->
                         [up EXCEPT !.used = @ + 1,
                                    !.node = IF acc.at % 2 = 0
                                             THEN HashNode(@, sibling)
                                             ELSE HashNode(sibling, @)]
        end == FoldLeft(Step, [ok |-> TRUE, at |-> index, len |-> count,
                               used |-> 0, node |-> HashLeaf(hash)], Rounds)
    IN  [ok |-> end.ok /\ end.used = Len(proof), root |-> end.node]

VerifyTraceInclusion(root, count, hash, index, proof) ==
    /\ index < count
    /\ Len(proof) <= MaxProofLen
    /\ LET computed == ComputeMerkleRoot(count, hash, index, proof)
       IN  computed.ok /\ computed.root = root
=============================================================================
