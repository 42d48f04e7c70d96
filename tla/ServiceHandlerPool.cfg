\* Three requests on a pool that keeps two handlers; scripts only fetch.
SPECIFICATION Spec
CONSTANTS
  Request = {r1, r2, r3}
  Handler = {h1, h2, h3}
  NoHandler = NoHandler
  MaxSize = 3
  Middlewares = 0
  FactoryMayFail = TRUE
  HandlesError = FALSE
  Statements = {"fetch", "panic"}
  MaxFailures = 1
SYMMETRY Symm
INVARIANTS HandlerExclusive IdleHoldsNoClient VictimsBound
