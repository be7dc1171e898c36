SPECIFICATION Spec
CONSTANTS
  Accounts = {a1, a2}
  Requests = {q1, q2}
  Forms = {}
  Losses = FALSE
  None = None
PROPERTY SignedOutIsGone
