SPECIFICATION Spec
CONSTANTS
    u1 = u1
    u2 = u2
    t1 = t1
    t2 = t2
    Users = {u1, u2}
    NoUser = NoUser
    Callers = {c1, c2}
    NoCall = NoCall
    Tokens = {t1, t2, t3}
    Codes = {1, 2, 3}
    LockAfterFailures = 2
    CodesPerWindow = 3
    FirstToken <- TheTokens
    Scenes <- TheScenes
    Rooms = {r1}
    Buyer <- TheBuyer
    Seller <- TheSeller
    MessageIds = {m1, m2}
    Bodies = {x1, x2}
    PageSize = 2
    Targets = {o1, o2, o3, o4}
    ReportLimit = 2
    Sockets = {s1, s2}
    Refreshes = {f1, f2}
SYMMETRY Alike
INVARIANTS
    TypeOK
    GuessesAreBounded
    FewUnusedCodes
    LostFailuresAreBounded
    FewSessionsSurvive
    AcknowledgedIsStored
    FewReadsUnseen
    SubscriptionsSurvive
    ReportsAreLimited
\* Tokens, codes and messages run out.
CHECK_DEADLOCK FALSE
