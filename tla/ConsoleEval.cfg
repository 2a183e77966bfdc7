\* A string of two lines that does not fit into the ring
SPECIFICATION Spec
CONSTANTS
    Letters = {"a", "b"}
    RingLen = 3
    LineLen = 2
    TableLen = 4
    Rank <- MCRank
    Echo = 1
    Help = 3
    Texts <- TwoLines
INVARIANT EvalInjectsOnce
