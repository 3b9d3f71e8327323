SPECIFICATION Spec
\* A call that has returned does nothing more.
CHECK_DEADLOCK FALSE
CONSTANTS
  Space = space
  Newline = newline
  Letter = letter
  Keys <- KeySet
  Plains <- PlainSet
  Examples <- ExampleSet
  Texts <- TextSet
  Messages <- MessageSet
  Missing = {0, 1, 2, 3, 60, 128, 131}
  Strays = {1, 9, 21, 200}
  Encodings = {"UTF-8"}
  Frames <- FrameSet
  Gaps <- GapSet
  Canvases <- CanvasSet
  Pens <- PenSet
  Glyphs <- GlyphSet
  Pixels <- PixelSet
  Colours <- ColourSet
INVARIANTS
  DecryptsCipher
  SpacesRemoved
  ItemWhole
  DrawnInPlace
