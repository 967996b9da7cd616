\* Three writers in two servers, one connection each, under fairness, with all the
\* environment may do.
SPECIFICATION FairSpec
CONSTANTS
  s1 = s1
  s2 = s2
  w1 = w1
  w2 = w2
  w3 = w3
  Names <- TwoNames
  Writers = {w1, w2, w3}
  Servers = {s1, s2}
  Home <- TwoAndOne
  Dialects <- AllDialects
  Nobody = Nobody
  Pool = 1
  MaxRows <- TwoRows
  Events = {"timeout", "fail", "crash", "join"}
INVARIANTS NoGaps TurnsKept WaitsGoUp
PROPERTIES ImplementsSeries CallsEnd
