SPECIFICATION PageSpec
CONSTANTS
  Refs = {r1, r2}
  Values = {v1}
  Events = {e1}
  Keys = {k1, k2}
  ListLimit = 3
  MaxMishaps = 2
  NoKey = NoKey
  NoRequest = NoRequest
INVARIANTS
  FreeReferenceIsTaken
