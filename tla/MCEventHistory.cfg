SPECIFICATION PageSpec
CONSTANTS
  Refs = {r1}
  Values = {v1}
  Events = {e1, e2, e3}
  Keys = {k1}
  ListLimit = 2
  MaxMishaps = 0
  NoKey = NoKey
  NoRequest = NoRequest
INVARIANTS
  FailedEventsAreListed
