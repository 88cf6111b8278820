SPECIFICATION Spec
CONSTANTS
  k1 = k1
  k2 = k2
  a = a
  blank = blank
  Names = {p1, gone}
  Profiles = {p1}
  Widths = {1, 2, 3}
  DefaultWidth = 2
  MinWidth = 2
  Keys = {k1, k2}
  Strokes = {a, blank}
  NoStroke = blank
  DefaultStrokes <- MCStrokes
  Newest = 2
  MaxEdits = 2
  None = None
  NoFile = NoFile
  Torn = Torn
  Idle = Idle
  Busy = Busy
INVARIANTS
  SavedIsKept
  UnsavedIsShown
PROPERTY CancelRestores
