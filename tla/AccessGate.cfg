SPECIFICATION Spec
CONSTANTS
    None = None
    c1 = c1
    c2 = c2
    c3 = c3
    r1 = r1
    r2 = r2
    Clients = {c1, c2, c3}
    Identities <- MCIdentities
    Registrations <- MCRegistrations
    PolicySets <- MCPolicySets
    ServiceKey = ks
    BoundKeys = {k1}
    Calls = {r1, r2}
    VerbsOf <- MCVerbsOf
    MaxBinds = 3
    MaxEdits = 1
INVARIANTS  ErasedNeverReturns 
SYMMETRY ClientSymmetry
