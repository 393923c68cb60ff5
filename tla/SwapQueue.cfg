\* Three slots: room for the producer and the consumer to be in calls on
\* different slots while a third is full or empty.
CONSTANTS
    QueueSize = 3
    Items = {a, b}
    NoItem = NoItem
SPECIFICATION Spec
INVARIANTS
    TypeOK
    NoSharedSlot
    SizeIsALowerBound
    IndicesAgree
PROPERTY
    IsBoundedFifo
