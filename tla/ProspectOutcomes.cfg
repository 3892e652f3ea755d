\* One prospect, entered by hand, and two requests.
SPECIFICATION Spec
CONSTANTS
    p1 = p1
    q1 = q1
    q2 = q2
    None = None
    Prospects = {p1}
    Sources = {}
    Events = {}
    Requests = {q1, q2}
SYMMETRY Symmetry
INVARIANT DuplicatesRecordOnce
CHECK_DEADLOCK FALSE
