-------------------------- MODULE EnergyPagination --------------------------
(***************************************************************************)
(* EnergyDataByCategory of x/energy (EnergyDataBySubmitter is the same     *)
(* code on the other index): a client lists a category page by page, each  *)
(* page a query of its own, while submissions add records in between.      *)
(* The index holds (category, id) keys and is walked in the byte order of  *)
(* the printed ids.                                                        *)
(***************************************************************************)
EXTENDS Integers, Sequences, FiniteSets

CONSTANTS
    Categories,
    Limits,          \* page limits a client may ask for, positive
    Earlier,         \* indexes that may exist when the model begins
    MaxSeq           \* bound of the model on the id sequence

VARIABLES
    seq,             \* IDSequence
    byCategory,      \* Keeper.ByCategory: category -> numbers of its ids
    scan,            \* category a client is listing
    cursor,          \* PageResponse.NextKey: an id number, Start or End
    seen,            \* numbers of the ids listed so far, in order
    existing         \* history: the entries when the listing began

vars == <<seq, byCategory, scan, cursor, seen, existing>>

Start == 0
End == -1

\* The digits of "energy-%d"; the common prefix does not affect the order.
Digits[n \in 0..MaxSeq] ==
    IF n < 10 THEN <<n>> ELSE Append(Digits[n \div 10], n % 10)

\* The print of m is a proper prefix of that of n, or smaller where they
\* first differ.
KeyLess(m, n) ==
    LET a == Digits[m]
        b == Digits[n]
    IN  \E k \in 1..Len(b) :
            /\ \A j \in 1..(k - 1) : j <= Len(a) /\ a[j] = b[j]
            /\ k > Len(a) \/ a[k] < b[k]

\* The set S in key order.
Walk(S) ==
    [i \in 1..Cardinality(S) |->
        CHOOSE n \in S : Cardinality({m \in S : KeyLess(m, n)}) = i - 1]

TypeOK ==
    /\ seq \in 0..MaxSeq
    /\ byCategory \in [Categories -> SUBSET (1..MaxSeq)]
    /\ scan \in Categories
    /\ cursor \in 0..MaxSeq \cup {End}
    /\ seen \in Seq(1..MaxSeq)
    /\ existing \subseteq 1..MaxSeq

Init ==
    /\ byCategory \in Earlier
    /\ seq = Cardinality(UNION {byCategory[c] : c \in Categories})
    /\ scan \in Categories
    /\ cursor = End
    /\ seen = <<>>
    /\ existing = {}

\* A committed submission: the next id, indexed under its category.
Submit(c) ==
    /\ seq < MaxSeq
    /\ seq' = seq + 1
    /\ byCategory' = [byCategory EXCEPT ![c] = @ \cup {seq + 1}]
    /\ UNCHANGED <<scan, cursor, seen, existing>>

\* Mutant: the id of the batch is generated after those of its items.
SubmitBatchLateID(c, n) ==
    /\ seq + 1 + n <= MaxSeq
    /\ seq' = seq + 1 + n
    /\ byCategory' = [byCategory EXCEPT ![c] = @ \cup (seq + 1)..(seq + n)]
    /\ UNCHANGED <<scan, cursor, seen, existing>>

\* A committed batch of n items: its own id, which is in no index, and theirs.
SubmitBatch(c, n) ==
    /\ seq + 1 + n <= MaxSeq
    /\ seq' = seq + 1 + n
    /\ byCategory' = [byCategory EXCEPT ![c] = @ \cup (seq + 2)..(seq + 1 + n)]
    /\ UNCHANGED <<scan, cursor, seen, existing>>

\* A client begins to list a category.
BeginListing(c) ==
    /\ cursor = End
    /\ scan' = c
    /\ cursor' = Start
    /\ seen' = <<>>
    /\ existing' = byCategory[c]
    /\ UNCHANGED <<seq, byCategory>>

\* Mutant: the walk starts after the key it is given.
FromKeyExclusive(S, key) == {n \in S : key = Start \/ KeyLess(key, n)}

\* The entries of the index at or after a key.
FromKey(S, key) == {n \in S : key = Start \/ ~KeyLess(n, key)}

\* One query: up to limit entries from the key of the last answer, which
\* names the first entry it had no room for.
EnergyDataByCategory(limit) ==
    /\ cursor # End
    /\ LET ahead == Walk(FromKey(byCategory[scan], cursor))
           more == Len(ahead) > limit
       IN  /\ seen' = seen \o (IF more THEN SubSeq(ahead, 1, limit) ELSE ahead)
           /\ cursor' = IF more THEN ahead[limit + 1] ELSE End
    /\ UNCHANGED <<seq, byCategory, scan, existing>>

-----------------------------------------------------------------------------
Listed == {seen[i] : i \in DOMAIN seen}

\* A finished listing holds every record that existed when it began, and none
\* twice, although records are inserted before and after the cursor between
\* its pages.
ListingComplete ==
    /\ cursor = End => existing \subseteq Listed
    /\ \A i, j \in DOMAIN seen : i < j => KeyLess(seen[i], seen[j])
=============================================================================
