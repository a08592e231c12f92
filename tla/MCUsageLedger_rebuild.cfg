SPECIFICATION Spec
CONSTANTS
  p1 = p1
  p2 = p2
  m1 = m1
  m2 = m2
  s1 = s1
  h1 = h1
  NoSession = nosession
  NoHarness = noharness
  Procs <- TwoProcs
  Readers <- OneProc
  Models <- OneModel
  Sessions <- TwoSessions
  Harnesses <- TwoHarnesses
  MaxTokens = 1
  MaxCalls = 2
INVARIANT SessionsKept
