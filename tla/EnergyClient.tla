---------------------------- MODULE EnergyClient ----------------------------
(***************************************************************************)
(* A client of x/energy, from end to end: it composes a MsgBatchSubmit     *)
(* with a published root (MerkleBatch), the chain verifies the root and    *)
(* stores the items, and the client then reads them back, page by page,    *)
(* with EnergyDataByCategory (EnergyPagination), while others submit.      *)
(***************************************************************************)
EXTENDS EnergyTypes, Integers, Sequences, FiniteSets

CONSTANTS MaxLen, Limits, Earlier,
          BatchCategory    \* MsgBatchSubmit.Category

VARIABLES published, items, prefix, verdict,
          seq, byCategory, scan, cursor, seen, existing,
          header           \* number of the id of the stored batch, or 0

message == <<published, items, prefix, verdict>>
index == <<seq, byCategory, scan, cursor, seen, existing>>
clientVars == <<message, index, header>>

Merkle == INSTANCE MerkleBatch
Listing == INSTANCE EnergyPagination

ASSUME ClientAssumption ==
    /\ MaxSeq \in Nat /\ MaxLen \in Nat
    /\ BatchCategory \in Categories
    /\ Limits \subseteq Nat \ {0}
    /\ Earlier \subseteq [Categories -> SUBSET (1..MaxSeq)]

ClientInit == Merkle!Init /\ Listing!Init /\ header = 0

Compose(h) == Merkle!AddItem(h) /\ UNCHANGED <<index, header>>

\* BatchSubmit: the root is verified, and the batch stored or the transaction
\* rolled back.
SubmitMessage ==
    /\ Merkle!Verify
    /\ IF verdict' = "accepted"
       THEN Listing!SubmitBatch(BatchCategory, Len(items)) /\ header' = seq + 1
       ELSE UNCHANGED <<index, header>>

\* Once it is accepted, the client lists categories, and others submit.
OtherSubmit(c) == verdict = "accepted" /\ Listing!Submit(c) /\ UNCHANGED <<message, header>>
List(c) == verdict = "accepted" /\ Listing!BeginListing(c) /\ UNCHANGED <<message, header>>
NextPage(limit) == Listing!EnergyDataByCategory(limit) /\ UNCHANGED <<message, header>>

ClientNext ==
    \/ \E h \in Hashes : Compose(h)
    \/ SubmitMessage
    \/ \E c \in Categories : OtherSubmit(c) \/ List(c)
    \/ \E limit \in Limits : NextPage(limit)

ClientSpec == ClientInit /\ [][ClientNext]_clientVars

-----------------------------------------------------------------------------
(* Properties                                                              *)

\* A root binds its submitter to one list: verifyMerkleRoot accepts exactly the
\* published items, all of them, in their order and each as often as it was
\* published, whatever the length of the list, in spite of the unordered pairs
\* and of the odd nodes that are paired with themselves.
RootBindsItems == Merkle!RootBindsItems

\* A finished listing holds every record that existed when it began, and none
\* twice, although records are inserted before and after the cursor between
\* its pages.  The variables of the listing have their types.
ListingComplete == Listing!TypeOK /\ Listing!ListingComplete

\* The numbers of the listed records of the batch, in their order.
Batch == {n \in Listing!Listed : n \in (header + 1)..(header + Len(items))}
BatchHash(n) == items[n - header]

\* Who lists the category of an accepted batch can check it against its header:
\* the DataCount records that follow the batch's id are there, whatever others
\* stored meanwhile and where the ids grow by a digit, and in the order of their
\* numbers (the pages are in the order of their prints) have the published root.
BatchAuditable ==
    header # 0 /\ cursor = Listing!End /\ scan = BatchCategory /\ seen # <<>> =>
        /\ Cardinality(Batch) = Len(items)
        /\ Merkle!Root(published) =
              Merkle!Root([i \in 1..Cardinality(Batch) |->
                 BatchHash(CHOOSE n \in Batch : Cardinality({k \in Batch : k <= n}) = i)])
=============================================================================
