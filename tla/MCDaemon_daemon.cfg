SPECIFICATION Spec
CONSTANTS
  hello = hello
  grant = grant
  sync = sync
  Task = {hello, grant, sync}
  Kind <- TaskKind
  Hello = hello
  NoTask = NoTask
  MaxWorkers = 2
  MaxFailures = 3
  Second = 1
  Minute = 2
  Half = 8
  MaxErrors = 3
INVARIANTS TypeOK SlotsAccounted TaskAnswered OneShotDoesIt BackoffHolds
PROPERTIES PoolSpec
