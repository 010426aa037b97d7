SPECIFICATION DrainSpec
CONSTANTS
  Catalog <- MCCatalog
  Fetch <- FetchNode
  Push <- PushNode
  PushOne <- PushEdge
  Writable <- MCWritable
  Deltas <- MCDeltas
  JsMax = 400
  DoRegisterQuery <- MCRegisterQuery
  DoTxnQuery <- MCTxnQuery
  DoPushAll <- MCPushAll
  DoRewind <- MCRewind
  DoDestroyPipeline <- MCDestroyPipeline
  DoDeliverable <- MCDeliverable
  DoDeliver <- MCDeliver
  DoAnswer <- MCAnswer
  SumMax = 600
  AvgUnit = 12
  ChunkSize = 1
INVARIANT ViewsExact
CHECK_DEADLOCK FALSE
