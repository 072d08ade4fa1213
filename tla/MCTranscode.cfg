CONSTANTS
    Chn <- TChn
    Buffer <- TBuffer
    None <- TNone
    Order <- TOrder
    Kind <- TKind
    Source <- TSource
    Outs <- TOuts
    Bufs <- TBufs
    MayFail <- TFail
    FrameNum = 4
    Passthru <- TPassthru
    Boot <- TChn
    Output <- TNone
    Capture <- TNone
    Script <- NoScript
    LaxDriver = FALSE
    MaxSignals = 1
SPECIFICATION FairSpec
INVARIANTS TypeOK BuffersSafe StopOrder Delivered
PROPERTY Terminates
