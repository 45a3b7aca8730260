\* The pool's dispatch loop is the only reader; two ClosePipeline calls overlap,
\* and the user sets and removes a callback before, between and during them.
CONSTANTS
    Readers = {r1}
    Closers = {p1, p2}
    Callbacks = {u1}
    Nil = nil
    Sizes = {0, 2}
    MaxBytes = 4
    MaxQueue = 1
SPECIFICATION MCSpec
SYMMETRY Symmetry
INVARIANTS StreamIntact NoLostWakeup CallbacksKept
CHECK_DEADLOCK FALSE
