SPECIFICATION Spec
CONSTANTS
    ann = ann
    bea = bea
    ivy = ivy
    t1 = t1
    t2 = t2
    p1 = p1
    None = None
    People <- MCPeople
    Founders <- MCFounders
    Teams <- MCTeams
    Projects <- MCProjects
    First = t1
    Choices <- MCChoices
    Ids = {i1, i2}
    OwnerRequests = {r1, r2}
    Visitors = {v1}
    MaxChanges = 2
SYMMETRY MCSymmetry
CHECK_DEADLOCK FALSE
INVARIANTS
    OwnersGovern
    JoinsByCurrentLink
    SessionsWithinAccess
