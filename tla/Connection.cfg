CONSTANTS
    Requests <- MCRequests
    Records <- MCRecords
    InitTopics <- MCInitTopics
    PeerAnswers <- MCPeerAnswers
    PutRequest <- EncodeRequest
    GetRequest <- DecodeRequest
    PutResponse <- EncodeResponse
    GetResponse <- DecodeResponse
    Fits <- FrameFits
    ClientAddr <- Addr
    MaxFaults = 1
    CorrModulus = 1000
    MaxRecordBytes = 2
    MaxFrameBytes = 260
SPECIFICATION FairSpec
INVARIANTS
    TypeOK
    AnswersReachTheirCallers
    PipelinedInOrder
    AnswersAreTrue
    ClosedForAReason
PROPERTIES
    EveryCallReturns
CHECK_DEADLOCK FALSE
