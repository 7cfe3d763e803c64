SPECIFICATION FairSpec
CONSTANTS
  prompt = prompt
  slash = slash
  second = second
  note = note
  subnote = subnote
  mate = mate
  None = None
  Commands = {prompt, slash, second, note, subnote, mate}
  Casts <- SmallCasts
  Mode <- ModeOf
  Prio <- PrioOf
  Follow <- FollowOf
  ForSubagent <- Subagents
  Teammates <- Mates
  MaxTurns = 3
  MaxCancels = 2
INVARIANTS TypeOK TheGuardHasATurn TurnsAreExclusive MessagesAreConserved
PROPERTY TheSessionMovesOn
CHECK_DEADLOCK FALSE
