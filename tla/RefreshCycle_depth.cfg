SPECIFICATION Spec
CONSTANTS
  Source <- EightSources
  Adapter <- TheAdapters
  Class <- TheClasses
  UpstreamId <- TheUpstreams
  Underflow = 6
  Subjects <- DepthSubject
  Routed <- TheRoutes
  Answers <- TheAnswers
  ErrorCodes <- TheErrors
INVARIANTS DepthReadersServed
