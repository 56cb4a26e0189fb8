\* Three places, one screen, white on white, three cursors, two texts, two styles; the daemon
\* waits for each reply, so one frame a pass.
CONSTANTS
  Cells = {1, 2, 3}
  Hole = {1}
  RowOf <- MCRowOf
  Grids <- MCWhiteGrids
  Cursors <- MCCursors
  Values = {1, 2}
  Styles = {1, 2}
  Burst = 1
  MaxFrames = 3
  MaxTaps = 2
  MaxFaults = 0
SPECIFICATION Spec
PROPERTY GridShown
