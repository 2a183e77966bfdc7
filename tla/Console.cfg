\* A ring of two characters, lines of two, and one user command.
SPECIFICATION Spec
CONSTANTS
    Letters = {"a", "b"}
    RingLen = 3
    LineLen = 2
    TableLen = 5
    Rank <- MCRank
    Echo = 1
    Help = 3
    Texts <- OneLine
INVARIANTS NoStuckInput LineAsTyped TableServes LineInjected
