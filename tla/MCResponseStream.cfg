\* Three chunks, two readers that resume at any time and any position.
CONSTANTS
    Reader = {r1, r2}
    MaxChunks = 3
    MaxBuffered = 2
SPECIFICATION Spec
INVARIANTS BufferHoldsAll ReaderGetsRest RegistryKeepsWhole
PROPERTIES ReaderServed
CHECK_DEADLOCK FALSE
