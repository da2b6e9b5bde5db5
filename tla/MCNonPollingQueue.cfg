SPECIFICATION FairSpec
CONSTANTS
    Writer = {w1, w2}
    Item = {a, b}
    MaxPuts = 4
INVARIANTS
    NoLostWakeup
    PopFindsItem
    FifoDelivery
PROPERTIES
    ImplementsFairFifo
\* Once the bound on Puts is reached the reader waits for ever.
CHECK_DEADLOCK FALSE
