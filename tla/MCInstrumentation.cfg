CONSTANTS
  q1 = q1
  q2 = q2
  h1 = h1
  NoParent = NoParent
  PreviewMax = 2
  Ellipsis = ellipsis
  Hidden = hidden
  Private <- MCPrivate
  Owner = owner
  SpanIds <- MCSpanIds
  Calls <- MCCalls
  Threads <- MCThreads
  Requests = {q1, q2}
  Handlers = {h1}
  HandlerOf <- SharedHandler
  MaxMessages = 3
  MaxRounds = 2
  MaxTools = 1
  MaxLlmRuns = 3
  MaxLoops = 2
SPECIFICATION Spec
INVARIANTS OncePerCall FaithfulStatus FaithfulOutput ToolsLinked EarlyCallsReturn
CHECK_DEADLOCK FALSE
