--------------------------- MODULE IdentityKeeper ---------------------------
(***************************************************************************)
(* x/identity: a registry of identities with a role and a status, indexed  *)
(* by role.  The gov authority and the admin it appoints register and      *)
(* revoke identities; admin and owner may update them.                     *)
(*                                                                         *)
(* A handler that fails leaves no trace (baseapp drops its writes, as in   *)
(* EnergyKeeper), so a handler is one step.  Names and times are left out, *)
(* metadata is its size and 0 the empty string.                            *)
(***************************************************************************)
EXTENDS Integers

CONSTANTS
    Addresses,       \* bech32 addresses
    Authority,       \* the address of the gov module account
    Roles,           \* non-empty role strings
    MetadataSizes,   \* metadata lengths a message may carry
    ParamChoices,    \* parameters a governance proposal may carry
    Geneses,         \* genesis files the chain may be started from
    NoAddress        \* the empty string

\* The limits of types/types.go.
CONSTANTS IdentityMaxMetadataLowerBound, IdentityMaxMetadataUpperBound

VARIABLES
    params,          \* Keeper.Params
    identities,      \* Keeper.Identities: address -> Identity
    byRole,          \* Keeper.ByRole: set of (role, address)
    signer           \* history: Creator or Authority of the last message

vars == <<params, identities, byRole, signer>>

-----------------------------------------------------------------------------
Params == [AdminAddress : Addresses \cup {NoAddress}, MaxMetadataSize : Nat]

Statuses == {"pending", "active", "revoked"}
Identity == [Role : Roles, Status : Statuses, Metadata : MetadataSizes]

IsMap(f, K, V) == DOMAIN f \subseteq K /\ f \in [DOMAIN f -> V]
MapSet(f, k, v) == [x \in DOMAIN f \cup {k} |-> IF x = k THEN v ELSE f[x]]

TypeOK ==
    /\ params \in Params
    /\ IsMap(identities, Addresses, Identity)
    /\ byRole \subseteq Roles \X Addresses
    /\ signer \in Addresses \cup {NoAddress}

\* Params.Validate; addresses are valid bech32 by the types above.
ParamsValid(p) ==
    p.MaxMetadataSize \in IdentityMaxMetadataLowerBound..IdentityMaxMetadataUpperBound

isAdmin(a) ==
    \/ a = Authority
    \/ params.AdminAddress # NoAddress /\ params.AdminAddress = a

MetadataFits(m) == params.MaxMetadataSize > 0 => m <= params.MaxMetadataSize

\* What the hasRole precompile answers.
HasRole(a, r) ==
    /\ a \in DOMAIN identities
    /\ identities[a].Role = r /\ identities[a].Status = "active"

\* Mutant: the index forgotten.
SetIdentityUnindexed(a, id) ==
    /\ identities' = MapSet(identities, a, id)
    /\ byRole' = byRole

\* Keeper.SetIdentity: the record and its index entry.
SetIdentity(a, id) ==
    /\ identities' = MapSet(identities, a, id)
    /\ byRole' = byRole \cup {<<id.Role, a>>}

-----------------------------------------------------------------------------
\* A genesis file; GenesisState.Validate adds the cap on the metadata.
IsGenesisState(gs) ==
    /\ gs.Params \in Params
    /\ IsMap(gs.Identities, Addresses, Identity)
GenesisValid(gs) ==
    /\ ParamsValid(gs.Params)
    /\ \A a \in DOMAIN gs.Identities :
          gs.Identities[a].Metadata <= gs.Params.MaxMetadataSize

ASSUME ConstantsAssumption ==
    /\ Authority \in Addresses
    /\ NoAddress \notin Addresses
    /\ ParamChoices \subseteq Params

ASSUME GenesesAssumption ==
    \A gs \in Geneses : IsGenesisState(gs) /\ GenesisValid(gs)

RoleIndex(ids) == {<<ids[a].Role, a>> : a \in DOMAIN ids}

\* AppModule.InitGenesis on an empty store.
Init ==
    \E gs \in Geneses :
        /\ params = gs.Params
        /\ identities = gs.Identities
        /\ byRole = RoleIndex(gs.Identities)
        /\ signer = NoAddress

RegisterIdentity(creator, a, role, m) ==
    /\ isAdmin(creator)
    /\ MetadataFits(m)
    /\ a \notin DOMAIN identities
    /\ SetIdentity(a, [Role |-> role, Status |-> "active", Metadata |-> m])
    /\ signer' = creator
    /\ UNCHANGED params

\* Mutant: an update activates the identity, as a registration does.
UpdateIdentityActivates(creator, a, m) ==
    /\ a \in DOMAIN identities
    /\ isAdmin(creator) \/ creator = a
    /\ MetadataFits(m)
    /\ SetIdentity(a, [identities[a] EXCEPT !.Status = "active",
                           !.Metadata = IF m = 0 THEN @ ELSE m])
    /\ signer' = creator
    /\ UNCHANGED params

\* Empty metadata leaves the stored one.
UpdateIdentity(creator, a, m) ==
    /\ a \in DOMAIN identities
    /\ isAdmin(creator) \/ creator = a
    /\ MetadataFits(m)
    /\ SetIdentity(a, IF m = 0 THEN identities[a] ELSE [identities[a] EXCEPT !.Metadata = m])
    /\ signer' = creator
    /\ UNCHANGED params

\* Mutant: an owner may revoke.
RevokeIdentityByOwner(creator, a) ==
    /\ isAdmin(creator) \/ creator = a
    /\ a \in DOMAIN identities
    /\ identities[a].Status # "revoked"
    /\ SetIdentity(a, [identities[a] EXCEPT !.Status = "revoked"])
    /\ signer' = creator
    /\ UNCHANGED params

RevokeIdentity(creator, a) ==
    /\ isAdmin(creator)
    /\ a \in DOMAIN identities
    /\ identities[a].Status # "revoked"
    /\ SetIdentity(a, [identities[a] EXCEPT !.Status = "revoked"])
    /\ signer' = creator
    /\ UNCHANGED params

\* msgServer.UpdateParams, by the gov authority only.
UpdateParams(p) ==
    /\ ParamsValid(p)
    /\ params' = p
    /\ signer' = Authority
    /\ UNCHANGED <<identities, byRole>>

\* Keeper.ExportGenesis and AppModule.InitGenesis of a new chain.
RestartFromExport ==
    /\ byRole' = RoleIndex(identities)
    /\ signer' = NoAddress
    /\ UNCHANGED <<params, identities>>

Next ==
    \/ \E creator, a \in Addresses, role \in Roles, m \in MetadataSizes :
          RegisterIdentity(creator, a, role, m)
    \/ \E creator, a \in Addresses, m \in MetadataSizes : UpdateIdentity(creator, a, m)
    \/ \E creator, a \in Addresses : RevokeIdentity(creator, a)
    \/ \E p \in ParamChoices : UpdateParams(p)
    \/ RestartFromExport

Spec == Init /\ [][Next]_vars

-----------------------------------------------------------------------------
(* The registered invariant on the index: TRUE where it reports nothing.   *)

ByRoleConsistencyInvariant ==
    \A key \in byRole : key[2] \in DOMAIN identities /\ identities[key[2]].Role = key[1]

-----------------------------------------------------------------------------
(* Properties                                                              *)

IndexMatches == byRole = RoleIndex(identities)

\* A listing by role shows every identity of the role and nothing else, after
\* any sequence of registrations, updates, revocations and restarts, and the
\* registered invariant, which sees only what dangles, never reports anything.
\* SetIdentity removes no entry, so this rests on no handler ever changing the
\* role of a stored identity.  The collections have their types.
ByRoleConsistent == TypeOK /\ IndexMatches /\ ByRoleConsistencyInvariant

\* An identity never disappears and never changes its role, and once revoked it
\* stays revoked: neither its owner nor an admin, a new one included, can bring
\* it back by updating or registering it again.
RevocationFinal ==
    [][\A a \in DOMAIN identities :
          /\ a \in DOMAIN identities'
          /\ identities'[a].Role = identities[a].Role
          /\ identities[a].Status = "revoked" => identities'[a].Status = "revoked"]_vars

\* A role, as the precompile reports it to contracts, is gained or lost only in
\* a message of whoever is admin at that moment, and the rest of an identity
\* changes only in a message of the admin or of its owner.
AuthorizedChanges ==
    [][/\ \A a \in Addresses, r \in Roles : HasRole(a, r)' # HasRole(a, r) => isAdmin(signer')
       /\ \A a \in DOMAIN identities :
             identities'[a] # identities[a] => isAdmin(signer') \/ signer' = a]_vars
=============================================================================
