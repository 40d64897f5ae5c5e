SPECIFICATION Spec
CONSTANTS
    Capacity = 10
    Isr = "writer"
    Counts = {1, 4, 6}
    Frames = {2, 4}
    MaxSent = 26
INVARIANTS ReadCountIsTrue
PROPERTY FifoImpl
