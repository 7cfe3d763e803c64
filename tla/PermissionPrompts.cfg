CONSTANTS
  p1 = p1
  p2 = p2
  Prompts = {p1, p2}
  Racers <- AllRace
  Sub = {p2}
  Early = {p2}
  Signal <- TwoTurns
  Main = "main"
  Alike <- SomeAlike
  None = None
SPECIFICATION FairSpec
INVARIANTS TypeOK SurfacesAgree RulesReachTheQueue
PROPERTY QueueMovesOn
CHECK_DEADLOCK FALSE
