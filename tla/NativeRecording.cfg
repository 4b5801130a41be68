CONSTANTS
  Capacity = 1
  QueueCapacity = 2
  Reader = {}
  Sink = {s1, s2}
  Requests = {"stop"}
  MaxSerial = 1
  MaxStarts = 1
  MaxCommands = 5
  None = None
SPECIFICATION RecordingSpec
INVARIANTS SinkIsAlive SinkIsAccountedFor
PROPERTIES StopsEnd SinkOutlivesRecording

