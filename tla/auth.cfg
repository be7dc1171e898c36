SPECIFICATION FairSpec
CONSTANTS
  Accounts = {a1, a2}
  Requests = {q1, q2}
  Forms = {q2}
  Losses = TRUE
  None = None
INVARIANT CurrentIsStored
INVARIANT SingleFlight
INVARIANT WaitersHaveTrip
INVARIANT AtMostTwoSends
INVARIANT TokensStayHome
INVARIANT AuthInv
PROPERTY LossHasCause
PROPERTY GainHasCause
PROPERTY IsSharedTrip
PROPERTY RequestsEnd
