SPECIFICATION AlarmSpec
CONSTANTS
  N = 2
  Setups <- MCSetups
INVARIANTS SilentOnlyIfConfirmed
