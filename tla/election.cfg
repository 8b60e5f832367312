SPECIFICATION FairSpec
CONSTANTS
  Nobody = Nobody  Gone = Gone  NoCall = NoCall
  Process = {p1, p2}
  LeaseDuration = 4
  RenewDeadline = 1
  RetryPeriod = 1
  MaxReply = 1
  MaxMishaps = 3
INVARIANT IInv
PROPERTIES ImplementsLeadership SomeoneLeads
