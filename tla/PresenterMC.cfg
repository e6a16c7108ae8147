\* The way of a frame to a window that may fail to come up and may be closed.
SPECIFICATION FairSpec
CONSTANTS
    Height = 2
    MaxCopies = 4
    MaxFrames = 3
INVARIANT
    TypeOK
PROPERTY
    ImplementsScreen
\* The run ends when the window is closed.
CHECK_DEADLOCK FALSE
