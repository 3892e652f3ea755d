\* An instance stops when its bounds are used up.
SPECIFICATION FairSpec
CONSTANTS
    c1 = c1
    c2 = c2
    e1 = e1
    i1 = i1
    i2 = i2
    p1 = p1
    p2 = p2
    q1 = q1
    q2 = q2
    q3 = q3
    t1 = t1
    u1 = u1
    u2 = u2
    u3 = u3
    None = None
    Tenders = {t1}
    TenderRequests = {q1, q2, q3}
    Prospects = {p1, p2}
    Sources = {e1}
    Events = {e1}
    ProspectRequests = {q1, q2}
    Users = {u1, u2}
    Fetches = {c1, c2}
    Gated = {c2}
    MaxTokens = 3
    SignInBounds <- MCSignInBounds
    Tickets = {1, 2}
    ConsoleBounds <- MCConsoleBounds
    Updates = {u1, u2, u3}
    Invitations = {i1, i2}
    Limit = 1
    MaxTime = 1
    Contents <- MCContents
    MaxFaults = 1
    Scenes = {"tenders", "prospects", "signin", "console", "settings", "invites", "deck"}
INVARIANTS TypeOK RecordsComplete OnePerSource ServicesAgree SlidesHold
PROPERTIES NothingUnasked ServicesEnd
CHECK_DEADLOCK FALSE
