SPECIFICATION Spec
CONSTANTS
    i1 = i1
    i2 = i2
    r1 = r1
    r2 = r2
    r3 = r3
    Nothing = Nothing
    Idl = {i1, i2}
    SchemaOf <- MCSchemaOf
    Req = {r1, r2, r3}
    MaxRestarts = 1
SYMMETRY MCSymmetry
INVARIANTS
    SchemaMatchesRow
    OneRegistrationWins
    CacheAgreesWhenQuiet
CHECK_DEADLOCK FALSE
