SPECIFICATION FairSpec
CONSTANTS
  hello = hello
  grant = grant
  sync = sync
  Task = {hello, sync}
  Kind <- TaskKind
  Hello = hello
  NoTask = NoTask
  MaxWorkers = 2
  MaxFailures = 3
  Second = 1
  Minute = 2
  Half = 8
  MaxErrors = 2
PROPERTIES InterruptEnds RecalledEnds HeartEnds ClientOrError
