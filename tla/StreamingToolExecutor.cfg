CONSTANTS
  Kinds <- Most
  MaxTools = 3
  MaxRetries = 0
  Cap = 2
SPECIFICATION Spec
INVARIANTS TypeOK ExclusiveAccess StartsInOrder AnswersAreSound
PROPERTY NothingStartsAfterAnError
CHECK_DEADLOCK FALSE
