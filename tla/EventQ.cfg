CONSTANTS
    Senders = {s1, s2}
    Others = {o1}
    EventLen = 2
    AtomicLen = 2
    Nobody = Nobody
SPECIFICATION FairSpec
INVARIANT StrandedIsTainted
PROPERTY HandledUnlessTainted
