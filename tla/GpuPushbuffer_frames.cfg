SPECIFICATION GpuSpec
CONSTANTS
    Width = 3
    Height = 1
    Buffers <- MCBuffers
    Limits <- MCLimits
    MaxDraw = 6
    MaxCalls = 3
PROPERTY FrameSequenceGrows
CHECK_DEADLOCK FALSE
