\* All the services' answers for one call; shared and inner calls with a few.
CONSTANTS
  a = a  b = b  p1 = p1  p2 = p2  h1 = h1  h2 = h2  None = None
  Callers = {a, b}
  Candidates <- MCCandidates
  Proxies = {p1}
  Hashes = {h1, h2}
  Scenarios <- MCScenarios
SPECIFICATION Spec
INVARIANTS BlameIsFair ProxiesComeBack
PROPERTY CallsSettle
\* Everything is done when every call has ended.
CHECK_DEADLOCK FALSE
