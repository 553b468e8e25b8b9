\* Three requests over two keys and two commands; two senders, a queue of one.
CONSTANTS
    q1 = q1
    q2 = q2
    q3 = q3
    k1 = k1
    k2 = k2
    c1 = c1
    Requests = {q1, q2, q3}
    Commands = {c1, c2}
    Keys = {k1, k2}
    Senders = {w1, w2}
    Capacity = 1
    None = None
SPECIFICATION MCSpec
INVARIANTS
    OneEffectPerKey
    AnswersAreTrue
    NotifiedAfterCommit
    EventsAccounted
PROPERTIES
    EveryRequestAnswered
    ClientCloses
CHECK_DEADLOCK FALSE
