SPECIFICATION CommonSpec
CONSTANTS
  timeout = 2
  MaxCalls = 4
  Listeners = {panel, sidebar, onceListener}
  OnceListeners = {onceListener}
  MaxTuples = 3
  MaxDispatches = 2
  Tasks = {format, substitute, css, sheet}
  Chunked = {css, sheet}
  HardwareConcurrency = 4
  MaxChunks = 1
  MaxErrors = 1
CHECK_DEADLOCK FALSE
INVARIANTS WaitingIsScheduled ResolvedAfterRun
PROPERTIES Spaced WhatIsAskedIsDone ListenersAreCalled FormatterIsTaskPool
