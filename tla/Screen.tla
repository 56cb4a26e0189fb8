-------------------------------- MODULE Screen --------------------------------
(***************************************************************************)
(* The panel's glass and the caches that decide what is painted on it: the *)
(* console's cells, each compared with the one last painted; the status    *)
(* page's widgets, each compared with its last text; and the OSD, laid     *)
(* over a hole that the two others skip.  Mode switches, banners and the   *)
(* OSD wipe parts of the glass behind the caches' back.                    *)
(*                                                                         *)
(* The main loop passes through tick, ingest, link, flush and paint.  A    *)
(* place on the glass stands for a console cell and for a widget of the    *)
(* page; one that touches the hole lies in it.                             *)
(***************************************************************************)
EXTENDS Integers, FiniteSets

CONSTANTS
  Cells,      \* places on the glass
  Hole,       \* those the OSD covers
  RowOf,      \* the row of each
  Grids,      \* the screens the shell may show
  Cursors,    \* where it may be, and whether it is lit
  Values,     \* what the widgets of the status page may read
  Styles,
  Burst,      \* bound: frames received in one pass of the loop
  MaxFrames,  \* bound: frames
  MaxTaps,    \* bound: what the button does
  MaxFaults   \* bound: losses of the link

\* No place, text, value or style.
None == 0
Rows == {RowOf[c] : c \in Cells}

\* A code point and an attribute byte; what prev_cp_ and prev_attr_ start as.
Invalid == 255
Blank == [cp |-> 32, attr |-> 7]
Unpainted == [cp |-> 0, attr |-> Invalid]

ASSUME ScreenAssumption ==
  /\ Cells \subseteq Nat \ {0} /\ Values \subseteq Nat \ {0} /\ Styles \subseteq Nat \ {0}
  /\ Hole \subseteq Cells /\ RowOf \in [Cells -> Rows]
  /\ Grids \subseteq [Cells -> [cp : Nat \ {0}, attr : 0 .. 255]]
  /\ Cursors \subseteq [at : Cells, lit : 0 .. 1]
  /\ \A n \in {Burst, MaxFrames, MaxTaps, MaxFaults} : n \in Nat

VARIABLES
  pc,         \* the stage of loop()
  glass,      \* what each place shows
  \* Terminal: the console
  cell,       \* cp_ and attr_
  prev,       \* prev_cp_ and prev_attr_
  rowDirty,   \* rows with row_dirty_
  cur,        \* cur_x_, cur_y_ and whether cur_flags_ lights the cursor
  prevCur,    \* prev_cur_*; at is None at first, lit Invalid when the flags are
  holeOn,     \* hole_on_
  \* Terminal: the status page and the link
  snap,       \* status_: its widgets' value and its style
  statusUi, statusDirty, statusFull,
  linked, bye,
  \* status_ui
  guiPrev,    \* g_prev, NoSnap while g_have_prev is false
  shown,      \* g_s_*: the text each widget last painted, or None
  guiHole,    \* g_hole_on
  \* osd
  open,
  wasStatus,  \* g_was_status
  chrome,     \* g_need_chrome
  \* main
  linkUi,
  \* history and bounds
  wiped,      \* a banner was painted over the open OSD
  burst, frames, taps, faults

consoleVars == <<cell, prev, rowDirty, cur, prevCur>>
pageVars == <<snap, statusUi, statusDirty, statusFull>>
linkVars == <<linked, bye, linkUi>>
guiVars == <<guiPrev, shown>>
osdVars == <<open, wasStatus, chrome, wiped>>
holeVars == <<holeOn, guiHole>>
bounds == <<burst, frames, taps, faults>>
vars == <<pc, glass, consoleVars, pageVars, linkVars, guiVars, osdVars, holeVars, bounds>>

\* What a place can show.
Plain(what) == [what |-> what]
CellLook(content, cursor) == [what |-> "cell", content |-> content, cursor |-> cursor]
PageLook(s) == [what |-> "page", value |-> s.value, style |-> s.style]

NoText == [c \in Cells |-> None]
NoSnap == [value |-> None, style |-> None]
Over(set, look) == [c \in Cells |-> IF c \in set THEN look ELSE glass[c]]

Init ==
  /\ pc = "tick" /\ glass = [c \in Cells |-> Plain("banner")]
  /\ cell = [c \in Cells |-> Blank] /\ prev = [c \in Cells |-> Unpainted]
  /\ rowDirty = Rows
  /\ \E c \in Cells \ Hole : cur = [at |-> c, lit |-> 0]
  /\ prevCur = [at |-> None, lit |-> Invalid]
  /\ holeOn = FALSE /\ guiHole = FALSE
  /\ snap = NoSnap /\ statusUi = FALSE /\ statusDirty = FALSE /\ statusFull = FALSE
  /\ linked = FALSE /\ bye = FALSE /\ linkUi = "Waiting"
  /\ guiPrev = NoSnap /\ shown = NoText
  /\ open = FALSE /\ wasStatus = FALSE /\ chrome = FALSE /\ wiped = FALSE
  /\ burst = 0 /\ frames = 0 /\ taps = 0 /\ faults = 0

-----------------------------------------------------------------------------
(* osd::tick: the button, the idle timer and sleep                         *)

\* Mutant of Repaint: a change of mode is not noticed.
RepaintSameMode ==
  /\ open
  /\ wasStatus' = statusUi
  /\ chrome' = FALSE
  /\ IF chrome THEN glass' = Over(Hole, Plain("osd")) /\ wiped' = FALSE
               ELSE UNCHANGED <<glass, wiped>>
  /\ UNCHANGED holeVars

\* paintDirty on an open OSD: a change of mode may have wiped it.
Repaint ==
  LET changed == statusUi # wasStatus
  IN  /\ open
      /\ wasStatus' = statusUi
      /\ holeOn' = (holeOn \/ changed) /\ guiHole' = (guiHole \/ changed)
      /\ chrome' = FALSE
      /\ IF chrome \/ changed THEN glass' = Over(Hole, Plain("osd")) /\ wiped' = FALSE
                              ELSE UNCHANGED <<glass, wiped>>

Tap == pc = "tick" /\ taps < MaxTaps /\ taps' = taps + 1 /\ pc' = "ingest"

OpenOsd ==
  /\ Tap /\ ~open
  /\ open' = TRUE /\ wasStatus' = statusUi /\ chrome' = FALSE /\ wiped' = FALSE
  /\ holeOn' = TRUE /\ guiHole' = TRUE
  /\ glass' = Over(Hole, Plain("osd"))
  /\ UNCHANGED <<consoleVars, pageVars, linkVars, guiVars, burst, frames, faults>>

\* The next row, or a changed value.
ChangeOsd ==
  /\ Tap /\ Repaint
  /\ UNCHANGED <<consoleVars, pageVars, linkVars, guiVars, open, burst, frames, faults>>

\* Mutant of RestoreRegion: only widgets with a new text are painted.
RestoreRegionChanged ==
  /\ glass' = [c \in Cells |-> IF shown[c] # snap.value THEN PageLook(snap) ELSE glass[c]]
  /\ shown' = [c \in Cells |-> snap.value]

\* statusGuiRestoreRegion: the widgets in the region, and those with a new text.
RestoreRegion ==
  /\ glass' = [c \in Cells |-> IF c \in Hole \/ shown[c] # snap.value THEN PageLook(snap)
                                                                    ELSE glass[c]]
  /\ shown' = [c \in Cells |-> snap.value]

\* Mutant of RestoreCells: the cache is not told.
RestoreCellsBlack ==
  /\ glass' = Over(Hole, Plain("black"))
  /\ rowDirty' = rowDirty \union {RowOf[c] : c \in Hole}
  /\ UNCHANGED prev

\* The black fill and invalidateCells.
RestoreCells ==
  /\ glass' = Over(Hole, Plain("black"))
  /\ prev' = [c \in Cells |-> IF c \in Hole THEN [prev[c] EXCEPT !.attr = Invalid] ELSE prev[c]]
  /\ rowDirty' = rowDirty \union {RowOf[c] : c \in Hole}

\* closeOsd: past the last row, after eight idle seconds, or to sleep.
CloseOsd ==
  /\ Tap /\ open
  /\ open' = FALSE /\ holeOn' = FALSE /\ guiHole' = FALSE
  /\ \/ statusUi /\ RestoreRegion /\ UNCHANGED consoleVars
     \/ ~statusUi /\ RestoreCells /\ UNCHANGED <<cell, cur, prevCur, shown>>
  /\ UNCHANGED <<pageVars, linkVars, guiPrev, wasStatus, chrome, wiped, burst, frames, faults>>

\* A tap on an alert: requestStatusRepaint.
DismissAlert ==
  /\ Tap /\ ~open /\ statusUi
  /\ statusDirty' = TRUE
  /\ UNCHANGED <<glass, consoleVars, snap, statusUi, statusFull, linkVars, guiVars, osdVars,
                 holeVars, burst, frames, faults>>

NoTap ==
  /\ pc = "tick" /\ pc' = "ingest"
  /\ UNCHANGED <<glass, consoleVars, pageVars, linkVars, guiVars, osdVars, holeVars, bounds>>

-----------------------------------------------------------------------------
(* Terminal::ingest and applyPayload                                       *)

\* Mutant of InvalidateCache: the cells are cleared, what was painted is kept.
InvalidateCacheCells ==
  /\ cell' = [c \in Cells |-> Blank] /\ rowDirty' = Rows
  /\ UNCHANGED prev

\* invalidateCache, but for the cursor.
InvalidateCache ==
  /\ cell' = [c \in Cells |-> Blank] /\ prev' = [c \in Cells |-> Unpainted]
  /\ rowDirty' = Rows

\* statusGuiReset.
GuiReset == guiPrev' = NoSnap /\ shown' = NoText /\ guiHole' = FALSE

Receive ==
  /\ pc = "ingest" /\ burst < Burst /\ frames < MaxFrames
  /\ burst' = burst + 1 /\ frames' = frames + 1
  /\ UNCHANGED <<pc, linkUi, osdVars, holeOn, taps>>

\* A style outlasts a flush: buddy.config does not change twice in 16 ms.
MayStyle(st) == st = snap.style \/ guiPrev \in {NoSnap, [guiPrev EXCEPT !.style = snap.style]}

\* The rows of a new grid that differ from the old one are marked.
NewCells(old, grid, dirty) ==
  /\ cell' = grid
  /\ rowDirty' = dirty \union {RowOf[c] : c \in {d \in Cells : grid[d] # old[d]}}

TerminalFrame ==
  /\ Receive
  /\ \E grid \in Grids, cursor \in Cursors :
       /\ cur' = cursor
       /\ \/ /\ statusUi
             /\ NewCells([c \in Cells |-> Blank], grid, Rows)
             /\ prev' = [c \in Cells |-> Unpainted] /\ prevCur' = [prevCur EXCEPT !.lit = Invalid]
             /\ GuiReset /\ statusFull' = FALSE
             /\ glass' = [c \in Cells |-> Plain("black")]
          \/ /\ ~statusUi
             /\ NewCells(cell, grid, rowDirty)
             /\ UNCHANGED <<prev, prevCur, guiVars, guiHole, statusFull, glass>>
  /\ statusUi' = FALSE /\ linked' = TRUE
  /\ UNCHANGED <<snap, statusDirty, bye, faults>>

StatusFrame ==
  /\ Receive
  /\ \E s \in [value : Values, style : Styles] :
       /\ MayStyle(s.style) /\ snap' = s
       /\ statusDirty' = (statusDirty \/ ~statusUi \/ s # snap)
       /\ statusFull' = (statusFull \/ ~statusUi)
  /\ statusUi' = TRUE /\ linked' = TRUE /\ cur' = [cur EXCEPT !.lit = 0]
  /\ UNCHANGED <<glass, cell, prev, rowDirty, prevCur, bye, guiVars, guiHole, faults>>

StyleFrame ==
  /\ Receive
  /\ \E st \in Styles :
       /\ MayStyle(st)
       /\ snap' = [snap EXCEPT !.style = st]
       /\ statusDirty' = (statusDirty \/ (statusUi /\ st # snap.style))
  /\ linked' = TRUE
  /\ UNCHANGED <<glass, consoleVars, statusUi, statusFull, bye, guiVars, guiHole, faults>>

ByeFrame ==
  /\ Receive /\ faults < MaxFaults /\ faults' = faults + 1
  /\ bye' = TRUE /\ linked' = FALSE /\ statusUi' = FALSE
  /\ cur' = [cur EXCEPT !.lit = 0]
  /\ UNCHANGED <<glass, cell, prev, rowDirty, prevCur, snap, statusDirty, statusFull, guiVars,
                 guiHole>>

IngestDone ==
  /\ pc = "ingest" /\ pc' = "link"
  /\ UNCHANGED <<glass, consoleVars, pageVars, linkVars, guiVars, osdVars, holeVars, bounds>>

-----------------------------------------------------------------------------
(* The rest of loop                                                        *)

ShowBanner ==
  /\ glass' = [c \in Cells |-> Plain("banner")]
  /\ statusUi' = FALSE /\ statusDirty' = FALSE /\ statusFull' = FALSE /\ linked' = FALSE
  /\ GuiReset /\ InvalidateCache
  /\ cur' = [cur EXCEPT !.lit = 0] /\ prevCur' = [prevCur EXCEPT !.lit = Invalid]

Linked == pc = "link" /\ pc' = "flush" /\ burst' = 0

\* A BYE, or twelve seconds without a frame.
LinkLost ==
  /\ Linked
  /\ \/ bye /\ UNCHANGED faults
     \/ ~bye /\ linkUi = "Live" /\ burst = 0 /\ faults < MaxFaults /\ faults' = faults + 1
  /\ bye' = FALSE /\ linkUi' = "Lost" /\ ShowBanner
  /\ wiped' = open
  /\ UNCHANGED <<snap, open, wasStatus, chrome, holeOn, frames, taps>>

LinkKept ==
  /\ Linked /\ ~bye
  /\ linkUi' = IF linked THEN "Live" ELSE linkUi
  /\ UNCHANGED <<glass, consoleVars, pageVars, linked, bye, guiVars, osdVars, holeVars,
                 frames, taps, faults>>

\* Mutant of PaintPage: the texts are compared, the style is not.
PaintPageTextOnly ==
  LET force == statusFull \/ guiPrev = NoSnap
      new(c) == force \/ shown[c] # snap.value
  IN  /\ glass' = [c \in Cells |-> IF new(c) /\ ~(guiHole /\ c \in Hole) THEN PageLook(snap)
                                                                       ELSE glass[c]]
      /\ shown' = [c \in Cells |-> snap.value] /\ guiPrev' = snap

\* paintStatusGui: everything outside the hole, or the widgets with a new text.
PaintPage ==
  LET force == statusFull \/ guiPrev = NoSnap \/ guiPrev.style # snap.style
      new(c) == force \/ shown[c] # snap.value
  IN  /\ glass' = [c \in Cells |-> IF new(c) /\ ~(guiHole /\ c \in Hole) THEN PageLook(snap)
                                                                       ELSE glass[c]]
      /\ shown' = [c \in Cells |-> snap.value] /\ guiPrev' = snap

FlushPage ==
  /\ IF statusDirty THEN PaintPage ELSE UNCHANGED <<glass, guiVars>>
  /\ statusDirty' = FALSE /\ statusFull' = (statusFull /\ ~statusDirty)
  /\ UNCHANGED consoleVars

CursorAt(c) == cur.lit = 1 /\ cur.at = c

\* Mutant of Touched: where the cursor was is not painted again.
TouchedNew == IF cur # prevCur /\ cur.lit = 1 THEN {cur.at} ELSE {}

\* Places invalidated because the cursor moved, blinked or was cleared.
Touched ==
  IF cur = prevCur THEN {}
  ELSE ({prevCur.at} \union (IF cur.lit = 1 THEN {cur.at} ELSE {})) \ {None}

FlushCells ==
  LET before(c) == IF c \in Touched THEN [prev[c] EXCEPT !.attr = Invalid] ELSE prev[c]
      dirty == rowDirty \union {RowOf[c] : c \in Touched}
      repaint(c) == RowOf[c] \in dirty /\ (CursorAt(c) \/ cell[c] # before(c))
  IN  /\ glass' = [c \in Cells |-> IF repaint(c) /\ ~(holeOn /\ c \in Hole)
                                     THEN CellLook(cell[c], CursorAt(c)) ELSE glass[c]]
      /\ prev' = [c \in Cells |-> IF repaint(c) THEN cell[c] ELSE before(c)]
      /\ rowDirty' = {} /\ prevCur' = cur
      /\ UNCHANGED <<cell, cur, statusDirty, statusFull, guiVars>>

Flush ==
  /\ pc = "flush" /\ linkUi = "Live" /\ pc' = "paint"
  /\ \/ statusUi /\ FlushPage
     \/ ~statusUi /\ FlushCells
  /\ UNCHANGED <<snap, statusUi, linkVars, osdVars, holeVars, bounds>>

\* No link, or less than 16 ms since the last flush.
NoFlush ==
  /\ pc = "flush" /\ pc' = "paint"
  /\ UNCHANGED <<glass, consoleVars, pageVars, linkVars, guiVars, osdVars, holeVars, bounds>>

Paint ==
  /\ pc = "paint" /\ pc' = "tick"
  /\ \/ Repaint
     \/ ~open /\ UNCHANGED <<glass, wasStatus, chrome, wiped, holeVars>>
  /\ UNCHANGED <<open, consoleVars, pageVars, linkVars, guiVars, bounds>>

Taps == OpenOsd \/ ChangeOsd \/ CloseOsd \/ DismissAlert
Frame == TerminalFrame \/ StatusFrame \/ StyleFrame \/ ByeFrame
Loop == NoTap \/ IngestDone \/ LinkLost \/ LinkKept \/ Flush \/ NoFlush \/ Paint

Next == Taps \/ Frame \/ Loop

\* loop() is called again and again, and 16 ms pass.
Fairness == WF_vars(Loop) /\ SF_vars(Flush)

Spec == Init /\ [][Next]_vars /\ Fairness

-----------------------------------------------------------------------------
Contents == [cp : Nat, attr : 0 .. 255]
Looks ==
  {Plain(w) : w \in {"banner", "black", "osd"}}
  \union {CellLook(k, b) : k \in {g[c] : g \in Grids, c \in Cells} \union {Blank}, b \in BOOLEAN}
  \union {PageLook(s) : s \in [value : Values, style : Styles]}

\* Every variable keeps its type.
TypeOK ==
  /\ pc \in {"tick", "ingest", "link", "flush", "paint"}
  /\ glass \in [Cells -> Looks]
  /\ \A c \in Cells : cell[c] \in Contents /\ prev[c] \in Contents
  /\ rowDirty \subseteq Rows
  /\ cur \in [at : Cells, lit : 0 .. 1] /\ prevCur.at \in Cells \union {None}
  /\ snap \in [value : Values \union {None}, style : Styles \union {None}]
  /\ \A b \in {statusUi, statusDirty, statusFull, linked, bye, open, wasStatus, chrome, holeOn,
               guiHole, wiped} : b \in BOOLEAN
  /\ linkUi \in {"Waiting", "Live", "Lost"}
  /\ shown \in [Cells -> Values \union {None}]
  /\ burst \in 0 .. Burst /\ frames \in 0 .. MaxFrames

GridOnGlass ==
  \A c \in Cells : ~(holeOn /\ c \in Hole) => glass[c] = CellLook(cell[c], CursorAt(c))
PageOnGlass == \A c \in Cells : ~(guiHole /\ c \in Hole) => glass[c] = PageLook(snap)

FlushShowsGrid == Flush /\ ~statusUi => GridOnGlass'
FlushShowsPage == Flush /\ statusUi => PageOnGlass'

\* After every flush in terminal mode each place outside the OSD shows the cell
\* the daemon last sent, with the cursor where it is and nowhere else: what the
\* OSD covered, a cursor that moved, a banner and a change of mode are all made
\* good by the comparison with prev_*, although it is never compared with the glass.
GridShown == [][FlushShowsGrid]_vars

\* After every flush in status mode each widget outside the OSD shows the last
\* snapshot in the last style, although unchanged texts are not painted.
PageShown == [][FlushShowsPage]_vars

\* At the end of a pass an open OSD is on the glass, through changes of mode that
\* clear the screen under it, unless a banner was painted over it.
OsdOnTop == pc = "tick" /\ open /\ ~wiped => \A c \in Hole : glass[c] = Plain("osd")

\* A link that lasts brings the last frame to the glass.
LastFrameShown ==
  <>[](linkUi = "Live") => <>[](IF statusUi THEN PageOnGlass ELSE GridOnGlass)
=============================================================================
