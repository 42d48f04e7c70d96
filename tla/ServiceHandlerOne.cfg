\* One request at a time, everything scripts, middlewares and the error event
\* of the module can do to the response.
SPECIFICATION FairSpec
CONSTANTS
  Request = {r1}
  Handler = {h1, h2}
  NoHandler = NoHandler
  MaxSize = 2
  Middlewares = 2
  FactoryMayFail = TRUE
  HandlesError = TRUE
  Statements = {"write", "flush", "fetch", "panic"}
  MaxFailures = 2
INVARIANTS CompleteBeforeDone ErrorReported
PROPERTIES WireFinal Answered
