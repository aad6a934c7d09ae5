CONSTANTS
    g = g
    c1 = c1
    c2 = c2
    k1 = k1
    k2 = k2
    v1 = v1
    v2 = v2
    p1 = p1
    Groups = {g}
    Failing <- AllIssues
    Codes = {}
    Cases = {k1}
    OracleCases = {k1}
    Verifiers = {v1}
    Promoters = {p1}
    LegacyRows <- NoRows
    LegacyHistory <- NoRecords
    MaxPasses = 3
    MaxRuns = 0
    MaxBytes = 0
SPECIFICATION Spec
INVARIANTS
    FindingsFromCurrentCalls
