SPECIFICATION FairSpec
CONSTANTS
  Refs = {r1, r2}
  Values = {v1}
  Events = {e1, e2}
  Keys = {k1}
  ListLimit = 3
  MaxMishaps = 1
  NoKey = NoKey
  NoRequest = NoRequest
INVARIANTS
  PageTypeOK
  CompletedOnce
  SubmissionBooksOnce
PROPERTIES
  FailedEventGetsThrough
