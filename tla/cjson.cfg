SPECIFICATION MCSpec
CONSTANTS
    Node = {1, 2, 3, 4, 5}
    a = a
    A = A
    Key <- MCKey
    Fold <- MCFold
    Counts = {2}
    Texts <- MCTexts
    NESTING_LIMIT = 2
    MaxAllocs = 7
    MaxCalls = 4
INVARIANTS
    Forest
    StringsOwned
    CompareAgrees
    StringsFit
    RoundTrip
    PrintFits
PROPERTY ListsAreSequences
CHECK_DEADLOCK FALSE
