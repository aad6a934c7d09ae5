CONSTANTS
    g = g
    c1 = c1
    c2 = c2
    k1 = k1
    k2 = k2
    v1 = v1
    v2 = v2
    p1 = p1
    Groups = {g}
    Failing <- AllIssues
    Codes = {c1, c2}
    Cases = {k1, k2}
    OracleCases = {k1}
    Verifiers = {v1}
    Promoters = {p1}
    LegacyRows <- TwoCodesRows
    LegacyHistory <- TwoCodesHistory
    MaxPasses = 3
    MaxRuns = 2
    MaxBytes = 0
SPECIFICATION Spec
INVARIANTS
    LegacyImportedOnce
    CacheAgrees
PROPERTIES
    HistoryRetained
