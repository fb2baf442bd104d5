---------------------------- MODULE MerkleBatch ----------------------------
(***************************************************************************)
(* verifyMerkleRoot of x/energy.  A producer publishes the root of a list  *)
(* of data hashes; a submitter sends a list of items with that root, and   *)
(* BatchSubmit recomputes it.  Keccak256 is taken to be free of            *)
(* collisions: a digest is the term that was hashed.  This is what lets    *)
(* EnergyKeeper read a root as the list of the hashes below it.            *)
(***************************************************************************)
EXTENDS Integers, Sequences

CONSTANTS Hashes,     \* non-empty DataHash strings
          MaxLen      \* bound of the model on the length of a list

VARIABLES published,  \* the hashes the published root was computed from
          items,      \* the DataHashes of the message
          prefix,     \* how the root is written in the message: its prefix
          verdict     \* of verifyMerkleRoot: "none" before it ran

vars == <<published, items, prefix, verdict>>

\* Mutant: no index in the leaf.
LeafUnindexed(i, h) == <<"leaf", 0, h>>

\* keccak256(uint64(index) || DataHash), counting from 0.
Leaf(i, h) == <<"leaf", i - 1, h>>

\* The smaller digest goes first, so the pair is unordered.
hashPair(a, b) == <<"pair", {a, b}>>

\* One level up: an odd last node is paired with itself.
NextLevel(level) ==
    [k \in 1..((Len(level) + 1) \div 2) |->
        hashPair(level[2 * k - 1], level[IF 2 * k <= Len(level) THEN 2 * k ELSE 2 * k - 1])]

\* The level after d calls.
Levels(leaves) ==
    LET level[d \in 0..Len(leaves)] ==
            IF d = 0 THEN leaves ELSE NextLevel(level[d - 1])
    IN  level

\* The only node of the first level that has one.
computeMerkleRoot(leaves) ==
    LET level == Levels(leaves)
        IsTop(d) == Len(level[d]) = 1 /\ \A e \in 0..(d - 1) : Len(level[e]) # 1
    IN  level[CHOOSE d \in 0..Len(leaves) : IsTop(d)][1]

Root(list) == computeMerkleRoot([i \in DOMAIN list |-> Leaf(i, list[i])])

\* The declared root is lowered before one "0x" is cut off; the case of its
\* digits does not matter either.
Prefixes == {"", "0x", "0X", "0x0x"}
Normalizes(p) == p # "0x0x"

verifyMerkleRoot == items # <<>> /\ Normalizes(prefix) /\ Root(items) = Root(published)

Lists == UNION {[1..n -> Hashes] : n \in 1..MaxLen}

Init ==
    /\ published \in Lists
    /\ items = <<>>
    /\ prefix \in Prefixes
    /\ verdict = "none"

AddItem(h) ==
    /\ verdict = "none" /\ Len(items) < MaxLen
    /\ items' = Append(items, h)
    /\ UNCHANGED <<published, prefix, verdict>>

Verify ==
    /\ verdict = "none"
    /\ verdict' = IF verifyMerkleRoot THEN "accepted" ELSE "rejected"
    /\ UNCHANGED <<published, items, prefix>>

-----------------------------------------------------------------------------
\* A root binds its submitter to one list: verifyMerkleRoot accepts exactly the
\* published items, all of them, in their order and each as often as it was
\* published, whatever the length of the list, in spite of the unordered pairs
\* and of the odd nodes that are paired with themselves.
RootBindsItems ==
    verdict # "none" =>
        (verdict = "accepted" <=> items = published /\ Normalizes(prefix))
=============================================================================
