SPECIFICATION ScreensSpec
CONSTANTS
    b1 = b1
    b2 = b2
    n1 = n1
    p1 = p1
    p2 = p2
    root = root
    boss = boss
    Nobody = Nobody
    Names = {n1}
    Passwords = {p1, p2}
    Browsers = {b1, b2}
    Configs <- MCConfigs
    MaxId = 2
    MaxSecret = 2
    Model = {m1}
    NoModel = NoModel
    Admins = {s1}
SYMMETRY Symmetric
PROPERTY PasswordAloneProves
