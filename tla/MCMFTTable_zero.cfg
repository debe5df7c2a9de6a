SPECIFICATION Spec
CONSTANTS
  N = 5
  Sizes = {0, 1, 2, 3}
  MaxRun = 3
  Wrap = 16
  MaxUint32 = 99
  BitmapEntry = 3
  Workers = {w1, w2}
  Images <- MCImages
  Selections <- MCSelections
  Bounds <- MCBounds
INVARIANT ZeroAreaSkipped
