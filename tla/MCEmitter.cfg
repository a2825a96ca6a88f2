SPECIFICATION Spec
CONSTANTS
    e1 = e1
    e2 = e2
    c1 = c1
    c2 = c2
    Closer = Closer
    NoOne = NoOne
    Producers <- MCProducers
    Consumers <- MCConsumers
    SubCap = 1
    MaxEvents = 2
INVARIANTS
    TypeOK
    NoPanic
    DeliveredInOrder
    EveryEventAccounted
PROPERTIES
    EmitNeverBlocks
    ConsumersLeave
