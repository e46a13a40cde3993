CONSTANTS
    k_cheap_prepend = 2
    k_initial_size = 3
    ExtraBuf = 2
    IntMod = 16
    MaxAppend = 7
    MaxBytes = 9
SPECIFICATION Spec
INVARIANT IndexesOrdered
PROPERTIES GrowsOnlyWhenFull QueueSpec
