SPECIFICATION Spec
CONSTANTS
  Source <- EightSources
  Adapter <- TheAdapters
  Class <- TheClasses
  UpstreamId <- TheUpstreams
  Underflow = 6
  Subjects <- TheSubjects
  Routed <- TheRoutes
  Answers <- TheAnswers
  ErrorCodes <- TheErrors
INVARIANTS RefreshTypeOK VerifiedIsEarned MedianFair FailsOnlyWhen ReadersServed
