CONSTANTS Requests = 3
          MaxLoop = 4
          MaxSends = 2
          Room = 1
          Chunk = 1
          Bytes = {"a", "b"}
          Scripts <- MCScripts
          Attempts <- MCAttempts
SPECIFICATION Spec
INVARIANT StreamsKept
PROPERTY Progress
CHECK_DEADLOCK FALSE
