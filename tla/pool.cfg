SPECIFICATION Spec
CONSTANTS
    MaxBuffers = 9
    Null = Null
INVARIANTS
    TypeOK
    PoolConsistent
PROPERTIES
    AllocatorSpec
