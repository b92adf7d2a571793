SPECIFICATION Spec
CONSTANTS
    Nodes = {1, 2, 3, 4, 5, 6, 7, 8}
    Key <- MCKey
CHECK_DEADLOCK FALSE
INVARIANTS
    TypeOK
    Balanced
    EveryMemberOnce
    DeletingReachesAll
PROPERTY DictionarySpec
