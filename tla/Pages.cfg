SPECIFICATION PagesSpec
CONSTANTS
  Runs = {r1, r2}
  WaiverIds = {w1, w2}
  Filters = {all, open}
  Pages = 2
  Bodies = {b1, b2}
  Tokens = {t1, t2}
  Documents = {d1, d2}
  Nothing = Nothing
  MaxRequests = 4
  MaxHead = 3
  MaxEpoch = 5
  MaxClicks = 4
CHECK_DEADLOCK FALSE
INVARIANTS DashboardSettles AppliedWasDisplayed DecisionIsOfInputs EvidenceIsCurrent
PROPERTY ButtonComesBack
