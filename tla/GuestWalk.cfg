CONSTANTS
    Dir = 4
    Tab = 2
    Page = 2
    Wide = 256
    Cr3 = 0
    Entries <- SmallEntries
    Slots <- SmallSlots
    GdtBase = 0
    BaseAt <- Bases
    Selectors = {0, 1, 2}
    Para = 2
    RealSeg = 8
SPECIFICATION Spec
INVARIANT TranslatesLikeTheCpu
