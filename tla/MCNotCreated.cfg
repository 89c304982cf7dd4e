SPECIFICATION PageSpec
CONSTANTS
  Refs = {r1}
  Values = {v1}
  Events = {e1}
  Keys = {k1, k2}
  ListLimit = 3
  MaxMishaps = 1
  NoKey = NoKey
  NoRequest = NoRequest
INVARIANTS
  NotCreatedIsTrue
