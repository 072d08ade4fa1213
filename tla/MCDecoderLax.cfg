CONSTANTS
    Chn <- DChn
    Buffer <- DBuffer
    None <- TNone
    Order <- DOrder
    Kind <- DKind
    Source <- DSource
    Outs <- DOuts
    Bufs <- DBufs
    MayFail <- DFail
    FrameNum = 1
    Passthru <- NoChn
    Boot <- DBoot
    Output = "output"
    Capture = "cap"
    Script <- DScript
    LaxDriver = TRUE
    MaxSignals = 1
SPECIFICATION FairSpec
INVARIANTS BuffersSafe NoLeakAtExit Increasing
PROPERTIES EndsOrFails SignalStops
