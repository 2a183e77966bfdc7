CONSTANTS
    Producers = {p1, p2}
    Values = {v1, v2}
    BufLen = 3
    Nothing = Nothing
SPECIFICATION FairSpec
INVARIANTS NoSharedCell IInv
PROPERTIES ImplementsFifo PutcharReturns
