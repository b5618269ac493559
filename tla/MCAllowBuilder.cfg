CONSTANTS
    Decls <- MCDecls

SPECIFICATION Spec

INVARIANTS TypeOK DangerousOnlyWhenConfirmed GrantsMatchesReachableLeaves ConstructorsMatchUnitTests
