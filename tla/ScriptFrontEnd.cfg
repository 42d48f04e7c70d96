SPECIFICATION Spec
CONSTANTS
  Names = {"a", "b"}
  MaxScopes = 4
  MaxLocal = 4
  MaxDecls = 2
  MaxUpvals = 1
  Main = "main"
  Programs <- MCPrograms
  Prototypes <- MCPrototypes
  Arguments <- MCArguments
INVARIANTS
  SlotsApart
  InnermostWins
  LinkedAsWritten
  RefusedForCause
  ChecksAsDescribed
CHECK_DEADLOCK FALSE
