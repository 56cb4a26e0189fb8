\* Three places, three screens, three cursors, two texts, two styles; the daemon
\* waits for each reply, so one frame a pass.
CONSTANTS
  Cells = {1, 2, 3}
  Hole = {1}
  RowOf <- MCRowOf
  Grids <- MCGrids
  Cursors <- MCCursors
  Values = {1, 2}
  Styles = {1, 2}
  Burst = 1
  MaxFrames = 3
  MaxTaps = 2
  MaxFaults = 1
SPECIFICATION Spec
INVARIANT OsdOnTop
PROPERTIES GridShown PageShown LastFrameShown
