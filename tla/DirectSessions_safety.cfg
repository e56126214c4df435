SPECIFICATION FairSpec
CONSTANTS
  s1 = s1  s2 = s2
  r1 = r1  r2 = r2
  a1 = a1  a2 = a2
  Sessions = {s1, s2}
  Accounts = {a1}
  Requests = {r1, r2}
  Hung = {}
  None = None
INVARIANTS PasswordOnlyInStore SocketOnlyByOverlap ForgottenUnlessBusy
PROPERTIES ErasedInTheEnd
