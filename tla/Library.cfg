\* Every tree of up to five nodes, and every operation on it; counters, words
\* and clocks of a few values, so that they wrap.
SPECIFICATION MCSpec
CONSTANTS
    MaxNodes = 5
    LogLen = 4
    HeadLimit = 11
    LogLines = {"a", "b"}
    CountMod = 4
    InternalMod = 64
    Cycle = 16
    Window = 3
    Limit = 2
    MaxCount = 4
    Word = 16
    Sizes = {0, 20, 44, 50, 58, 60, 80, 100}
    Frames = {0, 3}
    Letters = {"a"}
    OutLen = 4
    RingRoom = 5
    EchoRoom = 3
    PostRoom = 3
    Packet = 3
    Cycles = 2
    Repeats = 2
    WarmUp = 2
    ClockMod = 32
    Minute = 3
    EventRoom = 3
    LongStall = 5
    Stalls = 1
    MaxMinutes = 2
    SecondsMod = 16
    Consoles = {"a", "b"}
    Short = 2
    Nap = 3
    Sleeps = {1, 4}
    Spins = {2}
    Typeahead = 1
    WallMod = 18
    Octets = {0, 171, 249}
    MaxOctets = 4
    PerLine = 2
    MaxWords = 4
    MaxArgs = 3
INVARIANTS Traverses ShowsRecent CountsClicks LimitsRate
INVARIANTS FadesToGoal OutputIsServed KeepsTime InTime PinAsAsked ReadsText
PROPERTIES Ends RoundTrip SecondBySecond NeverEarly
