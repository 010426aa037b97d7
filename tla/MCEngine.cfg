SPECIFICATION EngineSpec
CONSTANTS
  Parts = {"db", "tree", "cells", "flat", "plan", "sql", "frame", "store", "scalar", "conns"}
  Catalog <- MCCatalog
  Fetch <- FetchNode
  Push <- PushNode
  PushOne <- MCPushOne
  Writable <- MCWritable
  Deltas <- MCDeltas
  JsMax = 400
  DoRegisterQuery <- MCRegisterQuery
  DoTxnQuery <- MCTxnQuery
  DoPushAll <- MCPushAll
  DoRewind <- MCRewind
  DoDestroyPipeline <- MCDestroyPipeline
  DoDeliverable <- MCDeliverable
  DoDeliver <- MCDeliver
  DoAnswer <- MCAnswer
  SumMax = 600
  AvgUnit = 12
  ChunkSize = 1
  MaxNodeSize = 2
  TreeSort <- MCTreeSort
  TreeRows <- MCTreeRows
  TreeBounds <- MCTreeBounds
  MaxTreeOps = 2
  Int63 = 4
  FloatMags <- MCFloatMags
  CellTexts <- MCCellTexts
  LikePatterns <- MCLikePatterns
  LikeTexts <- MCLikeTexts
  FlatRows = {1, 2}
  FlatSchemas <- MCFlatSchemas
  OtherSchemas <- MCOtherSchemas
  Comparators = {1, 2}
  ComparatorVersion = 2
  MaxPerChunk = 1
  MaxEpochs = 2
  MaxFlatCommits = 2
  MaxFlippable = 2
  PlanChunk = 2
  DoPlansOf <- MCPlansOf
  DoCheaper <- MCCheaper
  DoSqlTryPush <- MCSqlTryPush
  DoReadsAgree <- MCReadsAgree
  DoHydrate <- MCHydrate
  DoStoreSet <- MCStoreSet
  DoStoreGet <- MCStoreGet
  DoCursorNext <- MCCursorNext
  DoDecodeStorageValue <- MCDecodeStorageValue
  SqlRequests <- MCSqlRequests
  SqlChanges <- MCSqlChanges
  MaxRun = 4
  Lossy = 9
  Real = 8
  MaxSqlPushes = 1
  ByteBase = 8
  LenBytes = 2
  WordBytes = 2
  NotUtf8 = {7}
  Sentinel = 7
  Magic <- MCMagic
  MaxContainerChunks = 2
  Headers <- MCHeaders
  Bodies <- MCBodies
  MaxDamage = 1
  ScanPage = 2
  CommitInterval = 2
  StoreKeys <- MCStoreKeys
  StorePrefixes <- MCStorePrefixes
  StoreValues <- MCStoreValues
  MaxStoreOps = 2
  ScalarWrites <- MCScalarWrites
  Conns <- MCConns
  Edge0 = 1
  ConnChanges <- MCConnChanges
  MaxConnects = 3
INVARIANTS
  ViewsExact TxnReads Settled HostIntegersSafe
  TreesExact DiffExact
  CellsAgree LikeExact
  SubscriptionExact
  PlanExact
  SqlSourceExact DeliveriesAddUp
  FramesExact
  
  
  IndexExact ConnsHonest
 
CHECK_DEADLOCK FALSE
