SPECIFICATION Spec
CONSTANTS
    Clients = {c1, c2}
    Serializers = {k1, k2}
    Heap <- MCHeap
    Inputs <- MCInputs
    Blocks <- MCBlocks
    Runspace <- MCRunspace
    PipelineID <- MCPipelineID
    Raw <- MCRaw
    NoXml = NoXml
    MaxDepth = 8
    MaxWork = 5
    MessageCost = 2
SYMMETRY MCSymmetry
INVARIANTS DocumentsSurvive TextSurvives FragmentsInTurn
CHECK_DEADLOCK FALSE
