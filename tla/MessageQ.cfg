CONSTANTS
    Senders = {s1, s2, s3}
    Values = {v1, v2}
    QueueLen = 3
    Nobody = Nobody
SPECIFICATION FairSpec
INVARIANTS TypeOK SlotExclusion IInv
PROPERTIES ImplementsChannel SentIsReceived RoomReturns
