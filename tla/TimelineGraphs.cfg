CONSTANTS
  Capacity = 2
  QueueCapacity = 2
  Reader = {r1}
  Sink = {}
  Requests = {"play"}
  MaxSerial = 4
  MaxStarts = 1
  MaxCommands = 4
  None = None
SPECIFICATION Spec
INVARIANTS ActiveIsOwned NoGraphIsLost ParameterFindsItsRack ParameterAnswerIsTrue
PROPERTIES CommandsAreApplied ReadersAreAnswered ImplementsGraphLifecycle
