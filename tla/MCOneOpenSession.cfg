CONSTANTS
    s1 = s1
    s2 = s2
    c1 = c1
    c2 = c2
    o1 = o1
    o2 = o2
    NoOffer = NoOffer
    Direct = Direct
    Sessions = {s1, s2}
    Callers = {c1, c2}
    Offers = {o1, o2}
SPECIFICATION Spec
SYMMETRY Symmetry
INVARIANT OneOpenSession
CHECK_DEADLOCK FALSE
