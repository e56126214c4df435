SPECIFICATION PartsSpec
CONSTANTS
    Key = {k1, k2}
    NoKey = NoKey
    Correspondent = {cal, dot}
    Windows = {w1}
    MaxPair = 2
    Box = {a1, a2}
    MessageId = {m1, m2}
    Presses = {p1, p2}
    NoOwner = NoOwner
    ScanLimit = 2
    MaxSent = 2
    MaxFound = 1
    Picture = {i1, i2}
    Percent = {50}
    Composers = {c1, c2}
    Heavy = 2
    Cap = 3
    Path <- FolderPaths
    MaxMbox = 3
    Nowhere = Nowhere
    Inbox <- InboxPath
    Attr <- NoAttr
    RoleName <- Roles
    Rank <- Ranks
    Dependable <- Leaves
    Hand = {h1}
    MinSize = 2
    MaxBody = 3
    MaxBuild = 1
VIEW View
INVARIANTS KeyServesItsData KeysServe ScanTellsTrue RightFolder MadeIsShown AnswersWhole ArrivesWhole
PROPERTY PicturesStand
CHECK_DEADLOCK FALSE
