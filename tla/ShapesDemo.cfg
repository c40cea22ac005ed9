\* The shapes demo: a command line, Ctrl-C pressed up to twice while the
\* read loop and the write loop run, the shape moving about a small
\* drawing area.
SPECIFICATION Spec
CONSTANTS
  None = None
  NaN = NaN
  DA_WIDTH = 28
  DA_HEIGHT = 30
  CommandLines <- SomeCommandLines
  MaxCtrlC = 2
INVARIANTS
  TypeOK
  ShapeStaysInDrawingArea
PROPERTIES
  CtrlCStopsTheProgram
CHECK_DEADLOCK FALSE
