\* Two people's refunds, of which one fits, and one made at the desk, which may be
\* taken for either; two workers, and a process that dies or an answer that is lost.
\* The payment is not written down yet, and the provider cancels none.
SPECIFICATION Spec
CONSTANTS
  k1 = k1
  k2 = k2
  d1 = d1
  Keys = {k1, k2}
  Desk = {d1}
  Amount <- Amounts
  Taken = 3
  Workers = {w1, w2}
  NoRefund = NoRefund
  MaxFaults = 1
  Events = {"crash", "unsaid"}
SYMMETRY Alike
INVARIANTS HoldCovers StaffWithinTaken
\* Every refund may have ended.
CHECK_DEADLOCK FALSE
