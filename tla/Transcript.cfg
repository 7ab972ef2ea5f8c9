\* Two turns, three tokens and two calls in all, one reload.
SPECIFICATION Spec
CONSTANTS
  Letters = {"a", "<"}
  Tools = {"bash", "ask"}
  MaxTurns = 2
  MaxTokens = 3
  MaxCalls = 2
  MaxReloads = 1
CHECK_DEADLOCK FALSE
INVARIANTS
  TypeOK
  
  NothingSpins
  ReloadShowsTheSame
