SPECIFICATION BitmapSpec
CONSTANT FRAMES = 6
PROPERTY ImplementsFrameStates
