SPECIFICATION FairSpec
CONSTANTS
    c1 = c1
    c2 = c2
    j1 = j1
    j2 = j2
    p1 = p1
    p2 = p2
    r1 = r1
    r2 = r2
    None = None
    Clients = {c1, c2}
    Questionnaires <- MCQuestionnaires
    Scores = {0, 1, 2, 3, 9}
    Remarks = {"fine"}
    Options = {"x", "y"}
    MaxSends = 2
    FormBounds <- MCFormBounds
    Jobs = {j1, j2}
    PlaybookBounds <- MCPlaybookBounds
    Projects = {p1, p2}
    Milestones = {"m1", "m2"}
    Notes = {"n1", "n2"}
    Changes <- MCChanges
    ProjectBounds <- MCProjectBounds
    Convs = {r1, r2}
    MaxParts = 1
    ChatBounds <- MCChatBounds
    Slots = {1, 2}
    MaxTexts = 2
    MaxFaults = 1
INVARIANTS TypeOK ViewsAgree InputIsKept DoneOnce AnswersHold
PROPERTIES WorkEnds
\* The instance stops when its bounds are used up.
CHECK_DEADLOCK FALSE
