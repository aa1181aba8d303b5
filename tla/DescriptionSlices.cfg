SPECIFICATION Spec
CONSTANTS
    Declarations <- MCDeclarations
    MaxNodes = 5
    Sizes = {1, 2}
INVARIANTS
    SlicesAreChecked
CHECK_DEADLOCK FALSE
