CONSTANTS
    Big = 4
    Radix = 3
    LoopPages = 13
    Layouts <- SmallLayouts
SPECIFICATION Spec
INVARIANT TypeOK
INVARIANT VmmUnreachable
INVARIANT IdentityMapped
INVARIANT TablesOwned
INVARIANT OnlyVmmAndPageBelow
