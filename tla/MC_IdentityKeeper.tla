------------------------- MODULE MC_IdentityKeeper -------------------------
(* A small instance of IdentityKeeper for TLC.                             *)
EXTENDS IdentityKeeper

CONSTANTS alice, bob, r1, r2

P(admin, cap) == [AdminAddress |-> admin, MaxMetadataSize |-> cap]

\* No admin, either of the two, and a cap that fails validation.
MCParamChoices == {P(NoAddress, 2), P(alice, 2), P(bob, 1), P(bob, 3)}

Id(role, status, m) == [Role |-> role, Status |-> status, Metadata |-> m]

\* An empty chain, and one with a pending and a revoked identity.
MCGeneses ==
    {[Params |-> P(NoAddress, 2), Identities |-> <<>>],
     [Params |-> P(alice, 2),
      Identities |-> [a \in {alice, bob} |->
                         IF a = alice THEN Id(r1, "revoked", 2) ELSE Id(r2, "pending", 0)]]}
=============================================================================
