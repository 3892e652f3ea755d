\* One tender and two requests.  The instance stops when its ids are used up.
SPECIFICATION Spec
CONSTANTS
    t1 = t1
    q1 = q1
    q2 = q2
    None = None
    Tenders = {t1}
    Requests = {q1, q2}
SYMMETRY Symmetry
INVARIANT OneProjectPerTender
CHECK_DEADLOCK FALSE
