--------------------------- MODULE AttestationLog ---------------------------
(***************************************************************************)
(* What x/energy promises to the outside: an append-only log of            *)
(* attestations.  A record or batch, once visible, never changes and never *)
(* disappears, and a batch becomes visible in one step together with every *)
(* record it announces.  How ids are issued, how transactions are rolled   *)
(* back, how governance changes the parameters and how the chain is        *)
(* exported and restarted are all invisible here.                          *)
(***************************************************************************)

CONSTANTS ItemIDs(_, _)   \* ItemIDs(id, b): the ids of the records of batch b

VARIABLES log,       \* id -> attestation record
          batches    \* id -> batch header

vars == <<log, batches>>

\* g holds everything f holds, unchanged.
Extends(f, g) ==
    /\ DOMAIN f \subseteq DOMAIN g
    /\ \A x \in DOMAIN f : g[x] = f[x]

Init == \A id \in DOMAIN batches : ItemIDs(id, batches[id]) \subseteq DOMAIN log

\* A committed transaction: any number of new records and new batches, where
\* the records of a new batch are new as well.
Publish ==
    /\ Extends(log, log')
    /\ Extends(batches, batches')
    /\ \A id \in DOMAIN batches' \ DOMAIN batches :
          ItemIDs(id, batches'[id]) \subseteq DOMAIN log' \ DOMAIN log

Spec == Init /\ [][Publish]_vars
=============================================================================
