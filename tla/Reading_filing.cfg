SPECIFICATION MailSpec
CONSTANTS
    inbox = inbox  trash = trash
    Folders = {inbox, trash}
    Inbox = inbox
    Trash = trash
    Filing = {inbox}
    m1 = m1  m2 = m2
    Messages = {m1, m2}
    t1 = t1  t2 = t2
    Tabs = {t1, t2}
    MaxUid = 2
    MaxSelected = 1
    MaxMishaps = 1
    MaxAtOnce = 2
    Person = {ann, bea}
    PublicKey = {x1, x2}
    NoneKept = NoneKept
    NoSender = NoSender
    MaxMail = 2
SYMMETRY Interchangeable
INVARIANTS NothingLost OpenIsThere BookIsOwners
PROPERTIES OthersStand KeepsItsMeaning
