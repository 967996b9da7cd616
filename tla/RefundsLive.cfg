\* One refund asked, several workers, one fault, under fairness.
SPECIFICATION FairSpec
CONSTANTS
  k1 = k1
  k2 = k2
  d1 = d1
  Keys = {k1}
  Desk = {}
  Amount <- Amounts
  Taken = 2
  Workers = {w1, w2}
  NoRefund = NoRefund
  MaxFaults = 1
  Events = {"crash", "unsaid", "refused", "failed", "written", "cancelled"}
INVARIANT TypeOK
PROPERTIES RecordFollows RequestedEnds  BehindEnds
\* Every refund may have ended.
CHECK_DEADLOCK FALSE
