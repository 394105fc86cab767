CONSTANTS
    o1 = o1
    o2 = o2
    o3 = o3
    n1 = n1
    n2 = n2
    n3 = n3
    sound = sound
    plain = plain
    doubtful = doubtful
    wrong = wrong
    Signal = {1, 2}
    Text = {sound, plain, doubtful, wrong}
    Grade <- MCGrade
    Opp = {o1, o2, o3}
    Name = {n1, n2, n3}
    Generic = {n3}
    Admin = {a1, a2}
    User = {u1}
    Job = {j1, j2}
    PoolSize = 2
    MaxLeft = 4
    None = None
    Card = {1, 2, 3}
    Piece = {1, 2}
    Note = {11, 12}
    NotedAt <- MCNotedAt
    PageSize = 2
    Level = {0, 1}
    Null = Null
    MaxChanges = 1
SPECIFICATION MCSpec
CHECK_DEADLOCK FALSE
INVARIANTS
    EvidenceCountsOnce
    PublishedIsCleared
    EvidenceFollowsMerges
    NothingStaysBehind
    PublishedNamesDiffer
    PagesFaithful
PROPERTIES
    ApprovalStands
    NoLostEdit
