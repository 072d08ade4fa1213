CONSTANTS
    Chn <- DChn
    Buffer <- DBuffer
    None <- TNone
    Order <- DOrder
    Kind <- DKind
    Source <- DSource
    Outs <- DOuts
    Bufs <- DBufs
    MayFail <- NoChn
    FrameNum = 1
    Passthru <- NoChn
    Boot <- DBoot
    Output = "output"
    Capture = "cap"
    Script <- DScript
    LaxDriver = FALSE
    MaxSignals = 1
SPECIFICATION FairSpec
INVARIANTS BuffersSafe PipeServed Delivered
PROPERTY Terminates
