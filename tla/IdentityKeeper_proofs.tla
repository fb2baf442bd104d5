----------------------- MODULE IdentityKeeper_proofs -----------------------
(***************************************************************************)
(* IdentityKeeper for all sets of addresses, roles, parameters and genesis *)
(* files: types, the role index, the finality of a revocation and who may  *)
(* change what.                                                            *)
(***************************************************************************)
EXTENDS IdentityKeeper, TLAPS

\* The index speaks of the records, so its consistency is inductive only
\* together with their types.
IInv == TypeOK /\ IndexMatches

\* What SetIdentity does to the records and, as long as the role of a stored
\* identity is kept, to the index.
LEMMA SetIdentityFacts ==
    ASSUME TypeOK, IndexMatches,
           NEW a \in Addresses, NEW id \in Identity,
           a \in DOMAIN identities => id.Role = identities[a].Role,
           SetIdentity(a, id)
    PROVE  /\ IsMap(identities', Addresses, Identity)
           /\ byRole' \subseteq Roles \X Addresses
           /\ IndexMatches'
           /\ DOMAIN identities' = DOMAIN identities \cup {a}
           /\ identities'[a] = id
           /\ \A x \in DOMAIN identities : x # a => identities'[x] = identities[x]
<1>1. /\ DOMAIN identities' = DOMAIN identities \cup {a}
      /\ identities'[a] = id
      /\ \A x \in DOMAIN identities : x # a => identities'[x] = identities[x]
  BY DEF SetIdentity, MapSet
<1>2. IsMap(identities', Addresses, Identity)
  BY DEF SetIdentity, MapSet, TypeOK, IsMap
<1>3. id.Role \in Roles
  BY DEF Identity
<1>4. byRole' = byRole \cup {<<id.Role, a>>}
  BY DEF SetIdentity
<1>5. byRole' \subseteq Roles \X Addresses
  BY <1>3, <1>4 DEF TypeOK
<1>6. IndexMatches'
  <2>1. \A x \in DOMAIN identities : identities'[x].Role = identities[x].Role
    BY <1>1
  <2>2. RoleIndex(identities') = RoleIndex(identities) \cup {<<id.Role, a>>}
    BY <1>1, <2>1 DEF RoleIndex
  <2> QED
    BY <1>4, <2>2 DEF IndexMatches
<1> QED
  BY <1>1, <1>2, <1>5, <1>6

\* The identity each handler writes, and that it keeps the role.
LEMMA RegisterFacts ==
    ASSUME TypeOK, IndexMatches,
           NEW creator \in Addresses, NEW a \in Addresses,
           NEW role \in Roles, NEW m \in MetadataSizes,
           RegisterIdentity(creator, a, role, m)
    PROVE  /\ IInv'
           /\ a \notin DOMAIN identities
           /\ DOMAIN identities' = DOMAIN identities \cup {a}
           /\ \A x \in DOMAIN identities : identities'[x] = identities[x]
           /\ isAdmin(creator) /\ signer' = creator
<1> DEFINE id == [Role |-> role, Status |-> "active", Metadata |-> m]
<1>1. id \in Identity
  BY DEF Identity, Statuses
<1>2. /\ SetIdentity(a, id) /\ a \notin DOMAIN identities
      /\ isAdmin(creator) /\ signer' = creator /\ params' = params
  BY DEF RegisterIdentity
<1> HIDE DEF id
<1>3. /\ IsMap(identities', Addresses, Identity)
      /\ byRole' \subseteq Roles \X Addresses
      /\ IndexMatches'
      /\ DOMAIN identities' = DOMAIN identities \cup {a}
      /\ \A x \in DOMAIN identities : x # a => identities'[x] = identities[x]
  BY <1>1, <1>2, SetIdentityFacts
<1> QED
  BY <1>2, <1>3 DEF IInv, TypeOK

LEMMA UpdateFacts ==
    ASSUME TypeOK, IndexMatches,
           NEW creator \in Addresses, NEW a \in Addresses, NEW m \in MetadataSizes,
           UpdateIdentity(creator, a, m)
    PROVE  /\ IInv'
           /\ a \in DOMAIN identities
           /\ DOMAIN identities' = DOMAIN identities
           /\ identities'[a].Role = identities[a].Role
           /\ identities'[a].Status = identities[a].Status
           /\ \A x \in DOMAIN identities : x # a => identities'[x] = identities[x]
           /\ isAdmin(creator) \/ creator = a
           /\ signer' = creator
<1> DEFINE id == IF m = 0 THEN identities[a] ELSE [identities[a] EXCEPT !.Metadata = m]
<1>1. /\ SetIdentity(a, id) /\ a \in DOMAIN identities
      /\ isAdmin(creator) \/ creator = a
      /\ signer' = creator /\ params' = params
  BY DEF UpdateIdentity
<1>2. identities[a] \in Identity
  BY <1>1 DEF TypeOK, IsMap
<1>3. /\ id \in Identity
      /\ id.Role = identities[a].Role /\ id.Status = identities[a].Status
  BY <1>2 DEF Identity
<1> HIDE DEF id
<1>4. /\ IsMap(identities', Addresses, Identity)
      /\ byRole' \subseteq Roles \X Addresses
      /\ IndexMatches'
      /\ DOMAIN identities' = DOMAIN identities \cup {a}
      /\ identities'[a] = id
      /\ \A x \in DOMAIN identities : x # a => identities'[x] = identities[x]
  BY <1>1, <1>3, SetIdentityFacts
<1> QED
  BY <1>1, <1>3, <1>4 DEF IInv, TypeOK

LEMMA RevokeFacts ==
    ASSUME TypeOK, IndexMatches,
           NEW creator \in Addresses, NEW a \in Addresses,
           RevokeIdentity(creator, a)
    PROVE  /\ IInv'
           /\ a \in DOMAIN identities
           /\ DOMAIN identities' = DOMAIN identities
           /\ identities'[a].Role = identities[a].Role
           /\ identities'[a].Status = "revoked"
           /\ \A x \in DOMAIN identities : x # a => identities'[x] = identities[x]
           /\ isAdmin(creator) /\ signer' = creator
<1> DEFINE id == [identities[a] EXCEPT !.Status = "revoked"]
<1>1. /\ SetIdentity(a, id) /\ a \in DOMAIN identities
      /\ isAdmin(creator) /\ signer' = creator /\ params' = params
  BY DEF RevokeIdentity
<1>2. identities[a] \in Identity
  BY <1>1 DEF TypeOK, IsMap
<1>3. /\ id \in Identity
      /\ id.Role = identities[a].Role /\ id.Status = "revoked"
  BY <1>2 DEF Identity, Statuses
<1> HIDE DEF id
<1>4. /\ IsMap(identities', Addresses, Identity)
      /\ byRole' \subseteq Roles \X Addresses
      /\ IndexMatches'
      /\ DOMAIN identities' = DOMAIN identities \cup {a}
      /\ identities'[a] = id
      /\ \A x \in DOMAIN identities : x # a => identities'[x] = identities[x]
  BY <1>1, <1>3, SetIdentityFacts
<1> QED
  BY <1>1, <1>3, <1>4 DEF IInv, TypeOK

LEMMA InitIInv == Init => IInv
<1> SUFFICES ASSUME NEW gs \in Geneses,
                    params = gs.Params, identities = gs.Identities,
                    byRole = RoleIndex(gs.Identities), signer = NoAddress
             PROVE  IInv
  BY DEF Init
<1>1. params \in Params /\ IsMap(identities, Addresses, Identity)
  BY GenesesAssumption DEF IsGenesisState
<1>2. RoleIndex(identities) \subseteq Roles \X Addresses
  BY <1>1 DEF RoleIndex, IsMap, Identity
<1> QED
  BY <1>1, <1>2 DEF IInv, TypeOK, IndexMatches

LEMMA NextIInv == IInv /\ [Next]_vars => IInv'
<1> SUFFICES ASSUME IInv, [Next]_vars
             PROVE  IInv'
  OBVIOUS
<1>0. TypeOK /\ IndexMatches
  BY DEF IInv
<1>1. ASSUME NEW creator \in Addresses, NEW a \in Addresses, NEW role \in Roles,
             NEW m \in MetadataSizes, RegisterIdentity(creator, a, role, m)
      PROVE  IInv'
  BY <1>0, <1>1, RegisterFacts
<1>2. ASSUME NEW creator \in Addresses, NEW a \in Addresses,
             NEW m \in MetadataSizes, UpdateIdentity(creator, a, m)
      PROVE  IInv'
  BY <1>0, <1>2, UpdateFacts
<1>3. ASSUME NEW creator \in Addresses, NEW a \in Addresses, RevokeIdentity(creator, a)
      PROVE  IInv'
  BY <1>0, <1>3, RevokeFacts
<1>4. ASSUME NEW p \in ParamChoices, UpdateParams(p)
      PROVE  IInv'
  BY <1>0, <1>4, ConstantsAssumption DEF UpdateParams, IInv, TypeOK, IndexMatches
<1>5. CASE RestartFromExport
  BY <1>0, <1>5 DEF RestartFromExport, IInv, TypeOK, IndexMatches
<1>6. CASE UNCHANGED vars
  BY <1>0, <1>6 DEF vars, IInv, TypeOK, IndexMatches
<1> QED
  BY <1>1, <1>2, <1>3, <1>4, <1>5, <1>6 DEF Next

LEMMA Invariance == Spec => []IInv
BY InitIInv, NextIInv, PTL DEF Spec

\* Every collection of the identity keeper keeps its type.
THEOREM TypeCorrect == Spec => []TypeOK
<1>1. IInv => TypeOK
  BY DEF IInv
<1> QED
  BY <1>1, Invariance, PTL

\* The ByRole index is exactly the roles of the stored identities.
THEOREM RoleIndexConsistent == Spec => []ByRoleConsistent
<1>1. IInv => ByRoleConsistent
  BY DEF IInv, IndexMatches, RoleIndex, ByRoleConsistent, ByRoleConsistencyInvariant
<1> QED
  BY <1>1, Invariance, PTL

\* No sequence of messages, admin changes and restarts revives, moves to
\* another role or loses an identity.
THEOREM RevocationsFinal == Spec => RevocationFinal
<1> DEFINE Final ==
      \A a \in DOMAIN identities :
          /\ a \in DOMAIN identities'
          /\ identities'[a].Role = identities[a].Role
          /\ identities[a].Status = "revoked" => identities'[a].Status = "revoked"
<1>1. IInv /\ [Next]_vars => [Final]_vars
  <2> SUFFICES ASSUME IInv, Next
               PROVE  Final
    OBVIOUS
  <2>0. TypeOK /\ IndexMatches
    BY DEF IInv
  <2>1. ASSUME NEW creator \in Addresses, NEW a \in Addresses, NEW role \in Roles,
               NEW m \in MetadataSizes, RegisterIdentity(creator, a, role, m)
        PROVE  Final
    BY <2>0, <2>1, RegisterFacts
  <2>2. ASSUME NEW creator \in Addresses, NEW a \in Addresses,
               NEW m \in MetadataSizes, UpdateIdentity(creator, a, m)
        PROVE  Final
    BY <2>0, <2>2, UpdateFacts
  <2>3. ASSUME NEW creator \in Addresses, NEW a \in Addresses, RevokeIdentity(creator, a)
        PROVE  Final
    BY <2>0, <2>3, RevokeFacts
  <2>4. CASE UNCHANGED identities
    BY <2>4
  <2> QED
    BY <2>1, <2>2, <2>3, <2>4 DEF Next, UpdateParams, RestartFromExport
<1> QED
  BY <1>1, Invariance, PTL DEF Spec, RevocationFinal

\* Roles are gained and lost only by the admin of the moment, and an identity
\* changes only by the admin or its owner.
THEOREM OnlyAuthorizedChanges == Spec => AuthorizedChanges
<1> DEFINE Auth ==
      /\ \A a \in Addresses, r \in Roles : HasRole(a, r)' # HasRole(a, r) => isAdmin(signer')
      /\ \A a \in DOMAIN identities :
            identities'[a] # identities[a] => isAdmin(signer') \/ signer' = a
<1>1. IInv /\ [Next]_vars => [Auth]_vars
  <2> SUFFICES ASSUME IInv, Next
               PROVE  Auth
    OBVIOUS
  <2>0. TypeOK /\ IndexMatches
    BY DEF IInv
  <2>1. ASSUME NEW creator \in Addresses, NEW a \in Addresses, NEW role \in Roles,
               NEW m \in MetadataSizes, RegisterIdentity(creator, a, role, m)
        PROVE  Auth
    BY <2>0, <2>1, RegisterFacts
  <2>2. ASSUME NEW creator \in Addresses, NEW a \in Addresses,
               NEW m \in MetadataSizes, UpdateIdentity(creator, a, m)
        PROVE  Auth
    <3>1. /\ DOMAIN identities' = DOMAIN identities
          /\ \A x \in DOMAIN identities :
                /\ identities'[x].Role = identities[x].Role
                /\ identities'[x].Status = identities[x].Status
      BY <2>0, <2>2, UpdateFacts
    <3>2. \A x \in Addresses, r \in Roles : HasRole(x, r)' = HasRole(x, r)
      BY <3>1 DEF HasRole
    <3> QED
      BY <2>0, <2>2, <3>2, UpdateFacts
  <2>3. ASSUME NEW creator \in Addresses, NEW a \in Addresses, RevokeIdentity(creator, a)
        PROVE  Auth
    BY <2>0, <2>3, RevokeFacts
  <2>4. CASE UNCHANGED identities
    BY <2>4 DEF HasRole
  <2> QED
    BY <2>1, <2>2, <2>3, <2>4 DEF Next, UpdateParams, RestartFromExport
<1> QED
  BY <1>1, Invariance, PTL DEF Spec, AuthorizedChanges
=============================================================================
