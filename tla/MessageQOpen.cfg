CONSTANTS
    Senders = {s1, s2, s3}
    Values = {v1}
    QueueLen = 2
    Nobody = Nobody
SPECIFICATION OpenSpec
INVARIANT SlotExclusion
