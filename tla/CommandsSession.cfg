\* The frontend's promise about retries, when the session may be lost.
CONSTANTS
    Requests = {q1, q2, q3, q4}
    Commands = {c1, c2}
    Keys = {k1, k2, k3}
    None = None
SPECIFICATION CmdSpec
SYMMETRY Symmetry
INVARIANT EffectsAsMeant
CHECK_DEADLOCK FALSE
