\* Gov and two accounts, each of which may be admin, owner or neither; two
\* roles; metadata that is empty, fits both caps or only the larger.
CONSTANTS
    alice = alice  bob = bob  r1 = r1  r2 = r2
    Addresses = {gov, alice, bob}
    Authority = gov
    NoAddress = NoAddress
    Roles = {r1, r2}
    MetadataSizes = {0, 1, 2}
    ParamChoices <- MCParamChoices
    Geneses <- MCGeneses
    IdentityMaxMetadataLowerBound = 1
    IdentityMaxMetadataUpperBound = 2
SPECIFICATION Spec
INVARIANTS
    ByRoleConsistent
PROPERTIES
    RevocationFinal
    AuthorizedChanges
