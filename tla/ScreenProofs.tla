----------------------------- MODULE ScreenProofs -----------------------------
(***************************************************************************)
(* For any places, screens, texts and styles, and any number of frames,    *)
(* taps and losses: what a cache says was painted is on the glass wherever *)
(* somebody relies on it.  So after a flush the glass shows the console or *)
(* the page, and an open OSD stays on top of both.                         *)
(***************************************************************************)
EXTENDS Screen, TLAPS

\* No cell of any screen has the attribute that marks a cell as unpainted: see
\* the run screen_white for one that has.
NoSolid == \A g \in Grids, c \in Cells : g[c].attr # Invalid

\* The daemon waits for the reply to a frame before it sends another.
OneFrame == Burst <= 1

-----------------------------------------------------------------------------
(* Invariants                                                              *)

\* What a cell may hold, and what the page may say.
Known == {g[c] : g \in Grids, c \in Cells} \union {Blank}
Snaps == [value : Values \union {None}, style : Styles \union {None}]
Said(s) == s.value \in Values /\ s.style \in Styles

Flags ==
  /\ statusUi \in BOOLEAN /\ statusDirty \in BOOLEAN /\ statusFull \in BOOLEAN
  /\ linked \in BOOLEAN /\ bye \in BOOLEAN
  /\ open \in BOOLEAN /\ wasStatus \in BOOLEAN /\ chrome \in BOOLEAN /\ wiped \in BOOLEAN
  /\ holeOn \in BOOLEAN /\ guiHole \in BOOLEAN

Counts == burst \in 0 .. Burst /\ frames \in 0 .. MaxFrames

Caches ==
  /\ cell \in [Cells -> Known] /\ prev \in [Cells -> Contents] /\ rowDirty \subseteq Rows
  /\ cur \in [at : Cells, lit : 0 .. 1]
  /\ prevCur \in [at : Cells \union {None}, lit : {0, 1, Invalid}]
  /\ snap \in Snaps /\ guiPrev \in Snaps
  /\ statusUi => Said(snap)
  /\ shown \in [Cells -> Values \union {None}]

\* TypeOK, with the cells that may be there and a page that says something.
Types ==
  /\ pc \in {"tick", "ingest", "link", "flush", "paint"}
  /\ linkUi \in {"Waiting", "Live", "Lost"}
  /\ glass \in [Cells -> Looks]
  /\ Flags /\ Counts /\ Caches

\* The holes are there only while the OSD is open; a BYE is dealt with before a flush.
Overlay ==
  /\ ~chrome /\ holeOn = open /\ (guiHole => open)
  /\ pc = "flush" => ~bye

\* In terminal mode prev_* is what the glass shows, where it is valid and no OSD is.
CellsPainted ==
  ~statusUi /\ ~bye =>
    \A c \in Cells : prev[c].attr # Invalid /\ ~(holeOn /\ c \in Hole)
      => glass[c] = CellLook(prev[c], prevCur.lit = 1 /\ prevCur.at = c)

\* A row without its mark holds what was painted.
CleanRows == \A c \in Cells : RowOf[c] \notin rowDirty => cell[c] = prev[c]

\* In status mode the texts are on the glass in the last style, unless the next
\* flush paints them all.
WidgetsPainted ==
  statusUi /\ ~statusFull /\ guiPrev # NoSnap /\ guiPrev.style = snap.style =>
    \A c \in Cells : ~(guiHole /\ c \in Hole)
      => glass[c] = PageLook([value |-> shown[c], style |-> snap.style])

\* A page without its mark was painted.
CleanPage ==
  statusUi /\ ~statusDirty =>
    ~statusFull /\ guiPrev = snap /\ \A c \in Cells : shown[c] = snap.value

\* An open OSD is on the glass, and its hole is known to whom it concerns, unless
\* the mode has changed and Repaint will notice.
OnGlass ==
  /\ pc \in {"tick", "flush", "paint"} => burst = 0
  /\ open /\ (pc = "tick" \/ (pc = "ingest" /\ burst = 0)) => wasStatus = statusUi
  /\ open /\ ~wiped /\ wasStatus = statusUi =>
       (statusUi => guiHole) /\ \A c \in Hole : glass[c] = Plain("osd")

-----------------------------------------------------------------------------
(* Types                                                                   *)

\* What may be painted.
LEMMA LooksOf ==
  /\ Plain("banner") \in Looks /\ Plain("black") \in Looks /\ Plain("osd") \in Looks
  /\ \A k \in Known, b \in BOOLEAN : CellLook(k, b) \in Looks
  /\ \A s \in Snaps : Said(s) => PageLook(s) \in Looks
<1>1. \A k \in Known, b \in BOOLEAN : CellLook(k, b) \in Looks
  BY DEF Looks, Known
<1>2. ASSUME NEW s \in Snaps, Said(s) PROVE PageLook(s) \in Looks
  <2>1. s \in [value : Values, style : Styles]
    BY <1>2 DEF Snaps, Said
  <2>. QED  BY <2>1 DEF Looks
<1>3. /\ Plain("banner") \in Looks /\ Plain("black") \in Looks /\ Plain("osd") \in Looks
  BY DEF Looks
<1>. QED  BY <1>1, <1>2, <1>3

\* Cells hold contents.
LEMMA KnownContents ==
  /\ Blank \in Known /\ Blank \in Contents /\ Unpainted \in Contents
  /\ Known \subseteq Contents
  /\ \A g \in Grids : g \in [Cells -> Known]
  /\ \A k \in Contents : [k EXCEPT !.attr = Invalid] \in Contents
<1>1. Blank \in Known /\ Blank \in Contents /\ Unpainted \in Contents
  BY DEF Known, Blank, Contents, Unpainted, Invalid
<1>2. \A g \in Grids : g \in [Cells -> [cp : Nat \ {0}, attr : 0 .. 255]]
  BY ScreenAssumption
<1>3. \A g \in Grids, c \in Cells : g[c] \in Contents
  BY <1>2 DEF Contents
<1>4. \A g \in Grids : g \in [Cells -> Known]
  BY <1>2 DEF Known
<1>5. \A k \in Contents : [k EXCEPT !.attr = Invalid] \in Contents
  BY DEF Contents, Invalid
<1>6. Known \subseteq Contents
  BY <1>1, <1>3 DEF Known
<1>. QED  BY <1>1, <1>4, <1>5, <1>6

\* Nothing is something to be said.
LEMMA NoneSaid ==
  /\ NoSnap \in Snaps /\ NoText \in [Cells -> Values \union {None}]
  /\ \A s : Said(s) => s # NoSnap
<1>1. None \notin Values
  BY ScreenAssumption DEF None
<1>. QED  BY <1>1 DEF NoSnap, NoText, Snaps, Said

\* Painting keeps the glass's type.
LEMMA OverLooks ==
  ASSUME glass \in [Cells -> Looks], NEW look \in Looks, NEW set
  PROVE  Over(set, look) \in [Cells -> Looks]
BY DEF Over

\* At the start.
LEMMA TypesInit == Init => Types
<1> SUFFICES ASSUME Init PROVE Types
  OBVIOUS
<1>1. Flags
  BY DEF Init, Flags
<1>2. Counts
  BY ScreenAssumption DEF Init, Counts
<1>3. Caches
  <2>1. cell \in [Cells -> Known] /\ prev \in [Cells -> Contents] /\ rowDirty \subseteq Rows
    BY KnownContents DEF Init
  <2>2. cur \in [at : Cells, lit : 0 .. 1] /\ prevCur \in [at : Cells \union {None}, lit : {0, 1, Invalid}]
    BY DEF Init
  <2>. QED  BY <2>1, <2>2, NoneSaid DEF Init, Caches
<1>4. glass \in [Cells -> Looks]
  BY LooksOf DEF Init
<1>. QED  BY <1>1, <1>2, <1>3, <1>4 DEF Init, Types

\* Repaint touches the OSD's flags and the glass under it.
LEMMA RepaintTypes ==
  ASSUME Types, Repaint
  PROVE  /\ glass' \in [Cells -> Looks]
         /\ wasStatus' \in BOOLEAN /\ chrome' \in BOOLEAN /\ wiped' \in BOOLEAN
         /\ holeOn' \in BOOLEAN /\ guiHole' \in BOOLEAN
<1>1. glass' \in [Cells -> Looks]
  BY LooksOf, OverLooks DEF Repaint, Types
<1>2. wasStatus' \in BOOLEAN /\ chrome' \in BOOLEAN /\ wiped' \in BOOLEAN
  BY DEF Repaint, Types, Flags
<1>3. holeOn' \in BOOLEAN /\ guiHole' \in BOOLEAN
  BY DEF Repaint, Types, Flags
<1>. QED  BY <1>1, <1>2, <1>3

\* The button.
LEMMA TapTypes == ASSUME Types, Taps \/ NoTap PROVE Types'
<1>1. CASE OpenOsd
  <2>1. glass' \in [Cells -> Looks]
    BY <1>1, LooksOf, OverLooks DEF OpenOsd, Types
  <2>2. Flags'
    BY <1>1 DEF OpenOsd, Types, Flags, pageVars, linkVars
  <2>3. Counts' /\ Caches'
    BY <1>1 DEF OpenOsd, Types, Counts, Caches, consoleVars, pageVars, guiVars
  <2>. QED  BY <1>1, <2>1, <2>2, <2>3 DEF OpenOsd, Tap, Types, linkVars
<1>2. CASE ChangeOsd
  <2>1. Repaint
    BY <1>2 DEF ChangeOsd
  <2>2. Flags'
    BY <1>2, <2>1, RepaintTypes DEF ChangeOsd, Types, Flags, pageVars, linkVars
  <2>3. Counts' /\ Caches'
    BY <1>2 DEF ChangeOsd, Types, Counts, Caches, consoleVars, pageVars, guiVars
  <2>. QED  BY <1>2, <2>1, <2>2, <2>3, RepaintTypes DEF ChangeOsd, Tap, Types, linkVars
<1>3. CASE CloseOsd
  <2>1. Flags' /\ Counts'
    BY <1>3 DEF CloseOsd, Types, Flags, Counts, pageVars, linkVars
  <2>2. CASE statusUi /\ RestoreRegion /\ UNCHANGED consoleVars
    <3>1. Said(snap) /\ snap \in Snaps
      BY <2>2 DEF Types, Caches
    <3>2. glass' \in [Cells -> Looks]
      BY <2>2, <3>1, LooksOf DEF RestoreRegion, Types
    <3>3. shown' \in [Cells -> Values \union {None}]
      BY <2>2, <3>1 DEF RestoreRegion, Said
    <3>4. Caches'
      BY <1>3, <2>2, <3>3 DEF CloseOsd, Types, Caches, consoleVars, pageVars
    <3>. QED  BY <1>3, <2>1, <3>2, <3>4 DEF CloseOsd, Tap, Types, linkVars
  <2>3. CASE ~statusUi /\ RestoreCells /\ UNCHANGED <<cell, cur, prevCur, shown>>
    <3>1. glass' \in [Cells -> Looks]
      BY <2>3, LooksOf, OverLooks DEF RestoreCells, Types
    <3>2. prev' \in [Cells -> Contents]
      BY <2>3, KnownContents DEF RestoreCells, Types, Caches
    <3>3. rowDirty' \subseteq Rows
      BY <2>3, ScreenAssumption DEF RestoreCells, Types, Caches, Rows
    <3>4. Caches'
      BY <1>3, <2>3, <3>2, <3>3 DEF CloseOsd, Types, Caches, pageVars
    <3>. QED  BY <1>3, <2>1, <3>1, <3>4 DEF CloseOsd, Tap, Types, linkVars
  <2>. QED  BY <1>3, <2>2, <2>3 DEF CloseOsd
<1>4. CASE DismissAlert
  <2>1. Flags' /\ Counts' /\ Caches'
    BY <1>4 DEF DismissAlert, Types, Flags, Counts, Caches, consoleVars, linkVars, guiVars,
                osdVars, holeVars
  <2>. QED  BY <1>4, <2>1 DEF DismissAlert, Tap, Types, linkVars
<1>5. CASE NoTap
  <2>1. Flags' /\ Counts' /\ Caches'
    BY <1>5 DEF NoTap, Types, Flags, Counts, Caches, consoleVars, pageVars, linkVars, guiVars,
                osdVars, holeVars, bounds
  <2>. QED  BY <1>5, <2>1 DEF NoTap, Types, linkVars
<1>. QED  BY <1>1, <1>2, <1>3, <1>4, <1>5 DEF Taps


\* A frame.
LEMMA FrameTypes == ASSUME Types, Frame PROVE Types'
<1>0. ASSUME Receive PROVE Counts'
  <2>1. Burst \in Nat /\ MaxFrames \in Nat
    BY ScreenAssumption
  <2>. QED  BY <1>0, <2>1 DEF Receive, Types, Counts
<1>1. CASE TerminalFrame
  <2>1. PICK grid \in Grids, cursor \in Cursors :
          /\ cur' = cursor
          /\ \/ /\ statusUi
                /\ NewCells([c \in Cells |-> Blank], grid, Rows)
                /\ prev' = [c \in Cells |-> Unpainted] /\ prevCur' = [prevCur EXCEPT !.lit = Invalid]
                /\ GuiReset /\ statusFull' = FALSE
                /\ glass' = [c \in Cells |-> Plain("black")]
             \/ /\ ~statusUi
                /\ NewCells(cell, grid, rowDirty)
                /\ UNCHANGED <<prev, prevCur, guiVars, guiHole, statusFull, glass>>
    BY <1>1 DEF TerminalFrame
  <2>2. /\ Receive /\ statusUi' = FALSE /\ linked' = TRUE
        /\ UNCHANGED <<snap, statusDirty, bye, faults>>
    BY <1>1 DEF TerminalFrame
  <2>3. Flags'
    BY <2>1, <2>2 DEF Receive, GuiReset, Types, Flags, osdVars, guiVars
  <2>4. cell' \in [Cells -> Known] /\ rowDirty' \subseteq Rows
    <3>1. cell' = grid
      BY <2>1 DEF NewCells
    <3>2. \A old : {RowOf[c] : c \in {d \in Cells : grid[d] # old[d]}} \subseteq Rows
      BY DEF Rows
    <3>3. rowDirty \subseteq Rows
      BY DEF Types, Caches
    <3>4. rowDirty' \subseteq Rows
      <4>1. CASE NewCells([c \in Cells |-> Blank], grid, Rows)
        BY <4>1, <3>2 DEF NewCells
      <4>2. CASE NewCells(cell, grid, rowDirty)
        BY <4>2, <3>2, <3>3 DEF NewCells
      <4>. QED  BY <4>1, <4>2, <2>1
    <3>. QED  BY <3>1, <3>4, KnownContents
  <2>5. glass' \in [Cells -> Looks] /\ prev' \in [Cells -> Contents]
    BY <2>1, KnownContents, LooksOf DEF Types, Caches
  <2>6. cur' \in [at : Cells, lit : 0 .. 1] /\ prevCur' \in [at : Cells \union {None}, lit : {0, 1, Invalid}]
    BY <2>1, ScreenAssumption, SMTT(30) DEF Types, Caches
  <2>7. guiPrev' \in Snaps /\ shown' \in [Cells -> Values \union {None}]
    BY <2>1, NoneSaid DEF GuiReset, guiVars, Types, Caches
  <2>8. Caches'
    BY <2>2, <2>4, <2>5, <2>6, <2>7 DEF Types, Caches
  <2>. QED  BY <1>0, <2>2, <2>3, <2>5, <2>8 DEF Receive, Types
<1>2. CASE StatusFrame
  <2>1. snap' \in Snaps /\ Said(snap')
    BY <1>2 DEF StatusFrame, Snaps, Said
  <2>2. Flags'
    BY <1>2 DEF StatusFrame, Receive, Types, Flags, osdVars
  <2>3. cur' \in [at : Cells, lit : 0 .. 1]
    BY <1>2 DEF StatusFrame, Types, Caches
  <2>4. Caches'
    BY <1>2, <2>1, <2>3 DEF StatusFrame, Types, Caches, guiVars, Said
  <2>. QED  BY <1>0, <1>2, <2>2, <2>4 DEF StatusFrame, Receive, Types
<1>3. CASE StyleFrame
  <2>1. snap' \in Snaps /\ snap'.value = snap.value /\ snap'.style \in Styles
    BY <1>3 DEF StyleFrame, Types, Caches, Snaps
  <2>2. Flags'
    BY <1>3 DEF StyleFrame, Receive, Types, Flags, osdVars
  <2>3. Caches'
    BY <1>3, <2>1 DEF StyleFrame, Types, Caches, guiVars, consoleVars, Said
  <2>. QED  BY <1>0, <1>3, <2>2, <2>3 DEF StyleFrame, Receive, Types
<1>4. CASE ByeFrame
  <2>1. Flags'
    BY <1>4 DEF ByeFrame, Receive, Types, Flags, osdVars
  <2>2. cur' \in [at : Cells, lit : 0 .. 1]
    BY <1>4 DEF ByeFrame, Types, Caches
  <2>3. Caches'
    BY <1>4, <2>2 DEF ByeFrame, Types, Caches, guiVars
  <2>. QED  BY <1>0, <1>4, <2>1, <2>3 DEF ByeFrame, Receive, Types
<1>. QED  BY <1>1, <1>2, <1>3, <1>4 DEF Frame

\* The flush of the page and of the console.
LEMMA FlushTypes == ASSUME Types, Flush PROVE Types'
<1>0. /\ pc' = "paint" /\ linkUi' = linkUi
      /\ UNCHANGED <<snap, statusUi, linkVars, osdVars, holeVars, bounds>>
  BY DEF Flush, linkVars
<1>1. CASE statusUi /\ FlushPage
  <2>1. Said(snap) /\ snap \in Snaps
    BY <1>1 DEF Types, Caches
  <2>2. glass' \in [Cells -> Looks]
    BY <1>1, <2>1, LooksOf DEF FlushPage, PaintPage, Types
  <2>3. guiPrev' \in Snaps /\ shown' \in [Cells -> Values \union {None}]
    BY <1>1, <2>1 DEF FlushPage, PaintPage, Types, Caches, guiVars, Said
  <2>4. Flags'
    BY <1>0, <1>1 DEF FlushPage, Types, Flags, linkVars, osdVars, holeVars
  <2>5. Counts' /\ Caches'
    BY <1>0, <1>1, <2>3 DEF FlushPage, Types, Counts, Caches, consoleVars, bounds
  <2>. QED  BY <1>0, <2>2, <2>4, <2>5 DEF Types
<1>2. CASE ~statusUi /\ FlushCells
  <2>1. \A c \in Cells : CursorAt(c) \in BOOLEAN /\ cell[c] \in Known /\ cell[c] \in Contents
    BY KnownContents DEF CursorAt, Types, Caches
  <2>2. \A c \in Cells : CellLook(cell[c], CursorAt(c)) \in Looks
    BY <2>1, LooksOf
  <2>3. glass' \in [Cells -> Looks]
    BY <1>2, <2>2 DEF FlushCells, Types
  <2>4. \A c \in Cells : prev[c] \in Contents /\ [prev[c] EXCEPT !.attr = Invalid] \in Contents
    BY KnownContents DEF Types, Caches
  <2>5. prev' \in [Cells -> Contents]
    BY <1>2, <2>1, <2>4 DEF FlushCells
  <2>6. prevCur' \in [at : Cells \union {None}, lit : {0, 1, Invalid}]
    BY <1>2 DEF FlushCells, Types, Caches
  <2>7. Flags'
    BY <1>0, <1>2 DEF FlushCells, Types, Flags, linkVars, osdVars, holeVars
  <2>8. Counts' /\ Caches'
    BY <1>0, <1>2, <2>5, <2>6 DEF FlushCells, Types, Counts, Caches, guiVars, bounds
  <2>. QED  BY <1>0, <2>3, <2>7, <2>8 DEF Types
<1>. QED  BY <1>1, <1>2 DEF Flush

\* The rest of the loop.
LEMMA LoopTypes == ASSUME Types, IngestDone \/ LinkLost \/ LinkKept \/ NoFlush \/ Paint PROVE Types'
<1>1. CASE IngestDone \/ NoFlush
  <2>1. Flags' /\ Counts' /\ Caches'
    BY <1>1 DEF IngestDone, NoFlush, Types, Flags, Counts, Caches, consoleVars, pageVars,
                linkVars, guiVars, osdVars, holeVars, bounds
  <2>. QED  BY <1>1, <2>1 DEF IngestDone, NoFlush, Types, linkVars
<1>2. CASE LinkLost
  <2>1. ShowBanner /\ GuiReset /\ InvalidateCache
    BY <1>2 DEF LinkLost, ShowBanner
  <2>2. glass' \in [Cells -> Looks]
    BY <2>1, LooksOf DEF ShowBanner
  <2>3. Flags'
    BY <1>2, <2>1 DEF LinkLost, ShowBanner, GuiReset, Types, Flags
  <2>4. Counts'
    BY <1>2, ScreenAssumption DEF LinkLost, Linked, Types, Counts
  <2>5. cell' \in [Cells -> Known] /\ prev' \in [Cells -> Contents] /\ rowDirty' \subseteq Rows
    BY <2>1, KnownContents DEF InvalidateCache
  <2>6. cur' \in [at : Cells, lit : 0 .. 1] /\ prevCur' \in [at : Cells \union {None}, lit : {0, 1, Invalid}]
    BY <2>1 DEF ShowBanner, Types, Caches
  <2>7. Caches'
    BY <1>2, <2>1, <2>5, <2>6, NoneSaid DEF LinkLost, ShowBanner, GuiReset, Types, Caches
  <2>. QED  BY <1>2, <2>2, <2>3, <2>4, <2>7 DEF LinkLost, Linked, Types
<1>3. CASE LinkKept
  <2>1. Flags' /\ Caches'
    BY <1>3 DEF LinkKept, Types, Flags, Caches, consoleVars, pageVars, guiVars, osdVars, holeVars
  <2>2. Counts'
    BY <1>3, ScreenAssumption DEF LinkKept, Linked, Types, Counts
  <2>. QED  BY <1>3, <2>1, <2>2 DEF LinkKept, Linked, Types
<1>4. CASE Paint
  <2>1. \/ Repaint
        \/ UNCHANGED <<glass, wasStatus, chrome, wiped, holeVars>>
    BY <1>4 DEF Paint
  <2>2. /\ glass' \in [Cells -> Looks]
        /\ wasStatus' \in BOOLEAN /\ chrome' \in BOOLEAN /\ wiped' \in BOOLEAN
        /\ holeOn' \in BOOLEAN /\ guiHole' \in BOOLEAN
    BY <2>1, RepaintTypes DEF Types, Flags, holeVars
  <2>3. Flags' /\ Counts' /\ Caches'
    BY <1>4, <2>2 DEF Paint, Types, Flags, Counts, Caches, consoleVars, pageVars, linkVars,
                      guiVars, bounds
  <2>. QED  BY <1>4, <2>2, <2>3 DEF Paint, Types, linkVars
<1>. QED  BY <1>1, <1>2, <1>3, <1>4

\* So every step does.
LEMMA TypesNext == Types /\ [Next]_vars => Types'
<1> SUFFICES ASSUME Types, [Next]_vars PROVE Types'
  OBVIOUS
<1>1. CASE Next
  BY <1>1, TapTypes, FrameTypes, FlushTypes, LoopTypes DEF Next, Loop
<1>2. CASE UNCHANGED vars
  <2>1. Flags' /\ Counts' /\ Caches'
    BY <1>2 DEF vars, Types, Flags, Counts, Caches, consoleVars, pageVars,
                linkVars, guiVars, osdVars, holeVars, bounds
  <2>. QED  BY <1>2, <2>1 DEF vars, Types, linkVars
<1>. QED  BY <1>1, <1>2

\* Every variable keeps its type, and the page is painted only when there is
\* something to say.
THEOREM TypeTheorem == Spec => []TypeOK
<1>1. Types => TypeOK
  <2> SUFFICES ASSUME Types PROVE TypeOK
    OBVIOUS
  <2>1. \A c \in Cells : cell[c] \in Contents /\ prev[c] \in Contents
    BY KnownContents DEF Types, Caches
  <2>2. \A b \in {statusUi, statusDirty, statusFull, linked, bye, open, wasStatus, chrome, holeOn,
                  guiHole, wiped} : b \in BOOLEAN
    BY DEF Types, Flags
  <2>3. prevCur.at \in Cells \union {None}
    BY DEF Types, Caches
  <2>. QED  BY <2>1, <2>2, <2>3 DEF Types, TypeOK, Caches, Counts, Snaps
<1>. QED  BY <1>1, TypesInit, TypesNext, PTL DEF Spec


-----------------------------------------------------------------------------
(* The OSD                                                                 *)

\* The flags of the OSD, under every step.
LEMMA OverlayNext == Types /\ Overlay /\ [Next]_vars => Overlay'
<1> SUFFICES ASSUME Types, Overlay, [Next]_vars PROVE Overlay'
  OBVIOUS
<1> USE DEF Overlay
<1>0. Flags
  BY DEF Types
<1>1. CASE Taps \/ NoTap
  <2>1. CASE OpenOsd \/ CloseOsd
    <3>1. pc' = "ingest"
      BY <2>1 DEF OpenOsd, CloseOsd, Tap
    <3>2. ~chrome' /\ holeOn' = open' /\ (guiHole' => open')
      <4>1. CASE OpenOsd
        BY <4>1 DEF OpenOsd
      <4>2. CASE CloseOsd
        BY <4>2 DEF CloseOsd
      <4>. QED  BY <2>1, <4>1, <4>2
    <3>. QED  BY <3>1, <3>2
  <2>2. CASE ChangeOsd
    BY <2>2, <1>0 DEF ChangeOsd, Tap, Repaint, Flags
  <2>3. CASE DismissAlert \/ NoTap
    BY <2>3 DEF DismissAlert, NoTap, Tap, osdVars, holeVars
  <2>. QED  BY <1>1, <2>1, <2>2, <2>3 DEF Taps
<1>2. CASE Frame
  BY <1>2 DEF Frame, TerminalFrame, StatusFrame, StyleFrame, ByeFrame, Receive, GuiReset, osdVars
<1>3. CASE IngestDone \/ LinkLost \/ LinkKept
  BY <1>3 DEF IngestDone, LinkLost, LinkKept, Linked, ShowBanner, GuiReset, linkVars, osdVars,
               holeVars
<1>4. CASE Flush \/ NoFlush
  BY <1>4 DEF Flush, NoFlush, osdVars, holeVars
<1>5. CASE Paint
  BY <1>5, <1>0 DEF Paint, Repaint, Flags, holeVars
<1>6. CASE UNCHANGED vars
  BY <1>6 DEF vars, linkVars, osdVars, holeVars
<1>. QED  BY <1>1, <1>2, <1>3, <1>4, <1>5, <1>6 DEF Next, Loop

\* Repaint puts an open OSD back.
LEMMA RepaintOnGlass ==
  ASSUME Types, Overlay, OnGlass, Repaint, UNCHANGED statusUi
  PROVE  /\ wasStatus' = statusUi'
         /\ ~wiped' => (statusUi' => guiHole') /\ \A c \in Hole : glass'[c] = Plain("osd")
<1>1. wasStatus' = statusUi'
  BY DEF Repaint
<1>2. Hole \subseteq Cells /\ glass \in [Cells -> Looks] /\ Flags
  BY ScreenAssumption DEF Types
<1>3. CASE statusUi # wasStatus
  BY <1>1, <1>2, <1>3 DEF Repaint, Over, Flags
<1>4. CASE statusUi = wasStatus
  <2>1. UNCHANGED <<glass, wiped>> /\ guiHole' = guiHole /\ open
    BY <1>2, <1>4 DEF Repaint, Overlay, Flags
  <2>. QED  BY <1>1, <1>4, <2>1 DEF OnGlass
<1>. QED  BY <1>3, <1>4

\* The console and the page are painted around the OSD.
LEMMA FlushAround ==
  ASSUME Types, Overlay, OnGlass, Flush, open, ~wiped, wasStatus = statusUi
  PROVE  \A c \in Hole : glass'[c] = Plain("osd")
<1>1. Hole \subseteq Cells /\ \A c \in Hole : glass[c] = Plain("osd")
  BY ScreenAssumption DEF OnGlass
<1>2. CASE statusUi /\ FlushPage
  BY <1>1, <1>2 DEF FlushPage, PaintPage, OnGlass
<1>3. CASE ~statusUi /\ FlushCells
  <2>1. holeOn
    BY DEF Overlay
  <2>. QED  BY <1>1, <1>3, <2>1 DEF FlushCells
<1>. QED  BY <1>2, <1>3 DEF Flush

\* With one frame a pass, Repaint notices every change of mode.
LEMMA OnGlassNext ==
  ASSUME OneFrame, Types, Overlay, OnGlass, [Next]_vars
  PROVE  OnGlass'
<1>0. burst \in Nat /\ Flags /\ Hole \subseteq Cells /\ glass \in [Cells -> Looks]
  BY ScreenAssumption DEF Types, Counts
<1>1. CASE OpenOsd
  BY <1>0, <1>1 DEF OpenOsd, Tap, OnGlass, Over, pageVars
<1>2. CASE ChangeOsd
  <2>1. Repaint /\ UNCHANGED statusUi /\ pc' = "ingest" /\ UNCHANGED burst
    BY <1>2 DEF ChangeOsd, Tap, pageVars
  <2>. QED  BY <2>1, RepaintOnGlass DEF OnGlass
<1>3. CASE CloseOsd
  BY <1>3 DEF CloseOsd, Tap, OnGlass
<1>4. CASE DismissAlert \/ NoTap
  BY <1>4 DEF DismissAlert, NoTap, Tap, OnGlass, pageVars, osdVars, holeVars, bounds
<1>5. CASE Frame
  <2>1. /\ pc = "ingest" /\ pc' = "ingest" /\ burst = 0 /\ burst' = 1
        /\ UNCHANGED <<open, wasStatus, wiped>>
    <3>1. Receive
      BY <1>5 DEF Frame, TerminalFrame, StatusFrame, StyleFrame, ByeFrame
    <3>2. Burst \in Nat
      BY ScreenAssumption
    <3>. QED  BY <1>0, <3>1, <3>2 DEF Receive, OneFrame, osdVars
  <2>2. open => wasStatus = statusUi
    BY <2>1 DEF OnGlass
  <2>3. ASSUME open, statusUi' = statusUi PROVE UNCHANGED <<glass, guiHole>>
    BY <1>5, <2>3, <1>0 DEF Frame, TerminalFrame, StatusFrame, StyleFrame, ByeFrame, Flags
  <2>4. CASE statusUi' = statusUi
    BY <2>1, <2>2, <2>3, <2>4 DEF OnGlass
  <2>5. CASE statusUi' # statusUi
    BY <2>1, <2>2, <2>5 DEF OnGlass
  <2>. QED  BY <2>4, <2>5
<1>6. CASE IngestDone \/ NoFlush
  BY <1>6 DEF IngestDone, NoFlush, OnGlass, pageVars, osdVars, holeVars, bounds
<1>7. CASE LinkLost
  BY <1>7 DEF LinkLost, Linked, OnGlass
<1>8. CASE LinkKept
  BY <1>8 DEF LinkKept, Linked, OnGlass, pageVars, osdVars, holeVars
<1>9. CASE Flush
  <2>1. /\ pc = "flush" /\ pc' = "paint"
        /\ UNCHANGED <<statusUi, open, wasStatus, wiped, guiHole, burst>>
    BY <1>9 DEF Flush, osdVars, holeVars, bounds
  <2>. QED  BY <1>9, <2>1, FlushAround DEF OnGlass
<1>10. CASE Paint
  <2>1. pc' = "tick" /\ UNCHANGED <<open, statusUi, burst>>
    BY <1>10 DEF Paint, pageVars, bounds
  <2>2. pc = "paint"
    BY <1>10 DEF Paint
  <2>. QED  BY <1>10, <2>1, <2>2, RepaintOnGlass DEF Paint, OnGlass
<1>11. CASE UNCHANGED vars
  BY <1>11 DEF vars, OnGlass, pageVars, osdVars, holeVars, bounds
<1>. QED  BY <1>1, <1>2, <1>3, <1>4, <1>5, <1>6, <1>7, <1>8, <1>9, <1>10, <1>11
          DEF Next, Taps, Loop


-----------------------------------------------------------------------------
(* The console                                                             *)

\* No cell looks unpainted.
LEMMA CellValid ==
  ASSUME NoSolid, Types
  PROVE  \A c \in Cells : cell[c].attr # Invalid
<1>1. \A k \in Known : k.attr # Invalid
  BY DEF NoSolid, Known, Blank, Invalid
<1>. QED  BY <1>1 DEF Types, Caches

\* A cell that the cursor did not touch and that needs no paint is on the glass as it is.
LEMMA CellKept ==
  ASSUME NoSolid, Types, Overlay, CellsPainted, CleanRows, ~statusUi, ~bye,
         NEW c \in Cells, c \notin Touched, ~(holeOn /\ c \in Hole),
         RowOf[c] \notin rowDirty \/ (~CursorAt(c) /\ cell[c] = prev[c])
  PROVE  cell[c] = prev[c] /\ glass[c] = CellLook(cell[c], CursorAt(c))
<1>1. cell[c] = prev[c]
  BY DEF CleanRows
<1>2. prev[c].attr # Invalid
  BY <1>1, CellValid
<1>3. glass[c] = CellLook(prev[c], prevCur.lit = 1 /\ prevCur.at = c)
  BY <1>2 DEF CellsPainted
<1>4. CursorAt(c) <=> (prevCur.lit = 1 /\ prevCur.at = c)
  <2>1. CASE cur = prevCur
    BY <2>1 DEF CursorAt
  <2>2. CASE cur # prevCur
    <3>1. c # None
      BY ScreenAssumption DEF None
    <3>2. c # prevCur.at /\ ~CursorAt(c)
      BY <2>2, <3>1 DEF Touched, CursorAt
    <3>. QED  BY <3>2
  <2>. QED  BY <2>1, <2>2
<1>5. CursorAt(c) = (prevCur.lit = 1 /\ prevCur.at = c)
  BY <1>4 DEF CursorAt
<1>. QED  BY <1>1, <1>3, <1>5

\* What a flush does to one cell.
LEMMA FlushedCell ==
  ASSUME NoSolid, Types, Overlay, CellsPainted, CleanRows, ~statusUi, ~bye, FlushCells,
         NEW c \in Cells
  PROVE  /\ prev'[c] = cell[c]
         /\ ~(holeOn /\ c \in Hole) => glass'[c] = CellLook(cell[c], CursorAt(c))
<1>. DEFINE before == IF c \in Touched THEN [prev[c] EXCEPT !.attr = Invalid] ELSE prev[c]
            dirty == rowDirty \union {RowOf[d] : d \in Touched}
            repaint == RowOf[c] \in dirty /\ (CursorAt(c) \/ cell[c] # before)
<1>1. /\ glass'[c] = IF repaint /\ ~(holeOn /\ c \in Hole) THEN CellLook(cell[c], CursorAt(c))
                                                          ELSE glass[c]
      /\ prev'[c] = IF repaint THEN cell[c] ELSE before
  BY DEF FlushCells
<1>2. CASE repaint
  BY <1>1, <1>2
<1>3. CASE ~repaint
  <2>1. c \notin Touched
    <3>1. ASSUME c \in Touched PROVE repaint
      <4>1. RowOf[c] \in dirty
        BY <3>1
      <4>2. before.attr = Invalid
        BY <3>1 DEF Types, Caches, Contents
      <4>3. cell[c] # before
        BY <4>2, CellValid
      <4>. QED  BY <4>1, <4>3
    <3>. QED  BY <1>3, <3>1
  <2>2. before = prev[c]
    BY <2>1
  <2>3. RowOf[c] \notin rowDirty \/ (~CursorAt(c) /\ cell[c] = prev[c])
    BY <1>3, <2>2
  <2>4. cell[c] = prev[c]
    BY <2>3 DEF CleanRows
  <2>5. ~(holeOn /\ c \in Hole) => glass[c] = CellLook(cell[c], CursorAt(c))
    BY <2>1, <2>3, CellKept
  <2>. QED  BY <1>1, <1>3, <2>2, <2>4, <2>5
<1>. QED  BY <1>2, <1>3

\* After a flush the glass shows the grid, and the caches know it.
LEMMA FlushGrid ==
  ASSUME NoSolid, Types, Overlay, CellsPainted, CleanRows, Flush, ~statusUi
  PROVE  GridOnGlass' /\ CellsPainted' /\ CleanRows'
<1>1. FlushCells /\ ~bye /\ UNCHANGED <<cell, cur, holeOn>> /\ prevCur' = cur
  BY DEF Flush, FlushPage, FlushCells, Overlay, holeVars
<1>2. \A c \in Cells : CursorAt(c)' = CursorAt(c)
  BY <1>1 DEF CursorAt
<1>3. GridOnGlass'
  BY <1>1, <1>2, FlushedCell DEF GridOnGlass
<1>4. CellsPainted'
  BY <1>1, <1>2, FlushedCell DEF CellsPainted, CursorAt
<1>5. CleanRows'
  BY <1>1, FlushedCell DEF CleanRows
<1>. QED  BY <1>3, <1>4, <1>5

\* Marks of rows, when a frame brings a new grid.
LEMMA NewRows ==
  ASSUME NEW old \in [Cells -> Known], NEW grid \in [Cells -> Known], NEW dirty,
         NewCells(old, grid, dirty), NEW c \in Cells, RowOf[c] \notin rowDirty'
  PROVE  RowOf[c] \notin dirty /\ cell'[c] = old[c]
BY DEF NewCells

\* Everything else that happens to the glass is known to prev_* too.
LEMMA CellsNext ==
  ASSUME NoSolid, Types, Overlay, CellsPainted, CleanRows, [Next]_vars
  PROVE  CellsPainted' /\ CleanRows'
<1>0. /\ Flags /\ Caches /\ glass \in [Cells -> Looks] /\ Hole \subseteq Cells
      /\ Unpainted.attr = Invalid
  BY ScreenAssumption DEF Types, Unpainted
<1>1. CASE OpenOsd
  <2>1. /\ UNCHANGED <<cell, prev, rowDirty, prevCur, statusUi, bye>> /\ holeOn' = TRUE
        /\ glass' = Over(Hole, Plain("osd"))
    BY <1>1 DEF OpenOsd, consoleVars, pageVars, linkVars
  <2>. QED  BY <2>1, <1>0 DEF CellsPainted, CleanRows, Over
<1>2. CASE ChangeOsd \/ Paint
  <2>1. /\ UNCHANGED <<cell, prev, rowDirty, prevCur, statusUi, bye>>
        /\ Repaint \/ UNCHANGED <<glass, holeOn>>
    BY <1>2 DEF ChangeOsd, Paint, consoleVars, pageVars, linkVars, holeVars
  <2>2. CleanRows'
    BY <2>1 DEF CleanRows
  <2>3. CASE Repaint
    <3>1. holeOn /\ holeOn' /\ \A c \in Cells \ Hole : glass'[c] = glass[c]
      BY <2>3, <1>0 DEF Repaint, Overlay, Over
    <3>. QED  BY <2>1, <2>2, <3>1 DEF CellsPainted
  <2>4. CASE UNCHANGED <<glass, holeOn>>
    BY <2>1, <2>2, <2>4 DEF CellsPainted
  <2>. QED  BY <2>1, <2>3, <2>4
<1>3. CASE CloseOsd
  <2>1. UNCHANGED <<statusUi, bye, cell, prevCur>> /\ holeOn' = FALSE
    BY <1>3 DEF CloseOsd, consoleVars, pageVars, linkVars
  <2>2. CASE statusUi /\ UNCHANGED consoleVars
    BY <2>1, <2>2 DEF CellsPainted, CleanRows, consoleVars
  <2>3. CASE ~statusUi /\ RestoreCells
    <3>1. \A c \in Cells : IF c \in Hole THEN prev'[c].attr = Invalid
                                        ELSE prev'[c] = prev[c] /\ glass'[c] = glass[c]
      BY <2>3, <1>0 DEF RestoreCells, Over, Caches, Contents
    <3>2. \A c \in Cells : RowOf[c] \notin rowDirty' => RowOf[c] \notin rowDirty /\ c \notin Hole
      BY <2>3 DEF RestoreCells
    <3>. QED  BY <2>1, <3>1, <3>2 DEF CellsPainted, CleanRows
  <2>. QED  BY <1>3, <2>2, <2>3 DEF CloseOsd
<1>4. CASE DismissAlert \/ NoTap \/ IngestDone \/ NoFlush
  BY <1>4 DEF DismissAlert, NoTap, IngestDone, NoFlush, CellsPainted, CleanRows, consoleVars,
              pageVars, linkVars, holeVars
<1>5. CASE TerminalFrame
  <2>1. PICK grid \in Grids :
          \/ /\ statusUi
             /\ NewCells([c \in Cells |-> Blank], grid, Rows)
             /\ prev' = [c \in Cells |-> Unpainted]
          \/ /\ ~statusUi
             /\ NewCells(cell, grid, rowDirty)
             /\ UNCHANGED <<prev, prevCur, glass>>
    BY <1>5 DEF TerminalFrame
  <2>2. UNCHANGED <<bye, holeOn>> /\ grid \in [Cells -> Known]
    BY <1>5, KnownContents DEF TerminalFrame, Receive
  <2>3. CASE /\ statusUi
             /\ NewCells([c \in Cells |-> Blank], grid, Rows)
             /\ prev' = [c \in Cells |-> Unpainted]
    <3>1. \A c \in Cells : RowOf[c] \in rowDirty'
      BY <2>3 DEF NewCells, Rows
    <3>. QED  BY <1>0, <2>3, <3>1 DEF CellsPainted, CleanRows
  <2>4. CASE /\ ~statusUi
             /\ NewCells(cell, grid, rowDirty)
             /\ UNCHANGED <<prev, prevCur, glass>>
    <3>1. CellsPainted'
      BY <2>2, <2>4 DEF CellsPainted
    <3>2. cell \in [Cells -> Known]
      BY <1>0 DEF Caches
    <3>3. CleanRows'
      BY <2>2, <2>4, <3>2, NewRows DEF CleanRows
    <3>. QED  BY <3>1, <3>3
  <2>. QED  BY <2>1, <2>3, <2>4
<1>6. CASE StatusFrame \/ ByeFrame
  <2>1. UNCHANGED <<cell, prev, rowDirty>> /\ (statusUi' \/ bye')
    BY <1>6 DEF StatusFrame, ByeFrame
  <2>. QED  BY <2>1 DEF CellsPainted, CleanRows
<1>7. CASE StyleFrame
  BY <1>7 DEF StyleFrame, Receive, CellsPainted, CleanRows, consoleVars
<1>8. CASE LinkLost
  <2>1. prev' = [c \in Cells |-> Unpainted] /\ rowDirty' = Rows
    BY <1>8 DEF LinkLost, ShowBanner, InvalidateCache
  <2>2. \A c \in Cells : RowOf[c] \in rowDirty'
    BY <2>1 DEF Rows
  <2>. QED  BY <1>0, <2>1, <2>2 DEF CellsPainted, CleanRows
<1>9. CASE LinkKept
  BY <1>9 DEF LinkKept, CellsPainted, CleanRows, consoleVars, pageVars, holeVars
<1>10. CASE Flush /\ ~statusUi
  BY <1>10, FlushGrid
<1>11. CASE Flush /\ statusUi
  <2>1. UNCHANGED <<statusUi, cell, prev, rowDirty>>
    BY <1>11 DEF Flush, FlushPage, consoleVars
  <2>. QED  BY <1>11, <2>1 DEF CellsPainted, CleanRows
<1>12. CASE UNCHANGED vars
  BY <1>12 DEF vars, CellsPainted, CleanRows, consoleVars, pageVars, linkVars, holeVars
<1>. QED  BY <1>1, <1>2, <1>3, <1>4, <1>5, <1>6, <1>7, <1>8, <1>9, <1>10, <1>11, <1>12
          DEF Next, Taps, Frame, Loop


-----------------------------------------------------------------------------
(* The status page                                                         *)

\* What the page looks like, by its parts.
LEMMA LookOfPage ==
  ASSUME NEW s
  PROVE  PageLook([value |-> s.value, style |-> s.style]) = PageLook(s)
BY DEF PageLook

\* After a flush the glass shows the page, and g_prev and g_s_* know it.
LEMMA FlushWidgets ==
  ASSUME Types, WidgetsPainted, CleanPage, Flush, statusUi
  PROVE  PageOnGlass' /\ WidgetsPainted' /\ CleanPage'
<1>1. FlushPage /\ UNCHANGED <<statusUi, snap, guiHole>>
  BY DEF Flush, FlushCells, holeVars
<1>2. Said(snap) /\ snap # NoSnap
  BY NoneSaid DEF Types, Caches
<1>3. CASE ~statusDirty
  <2>1. /\ UNCHANGED <<glass, guiPrev, shown, statusDirty, statusFull>>
        /\ ~statusFull /\ guiPrev = snap /\ \A c \in Cells : shown[c] = snap.value
    BY <1>1, <1>3 DEF FlushPage, guiVars, CleanPage, Types, Flags
  <2>2. \A c \in Cells : ~(guiHole /\ c \in Hole) => glass[c] = PageLook(snap)
    BY <1>2, <2>1, LookOfPage DEF WidgetsPainted
  <2>. QED  BY <1>1, <2>1, <2>2 DEF PageOnGlass, WidgetsPainted, CleanPage
<1>4. CASE statusDirty
  <2>1. /\ PaintPage /\ statusFull' = FALSE /\ statusDirty' = FALSE
        /\ guiPrev' = snap /\ shown' = [c \in Cells |-> snap.value]
    BY <1>1, <1>4 DEF FlushPage, PaintPage
  <2>2. ASSUME NEW c \in Cells, ~(guiHole /\ c \in Hole) PROVE glass'[c] = PageLook(snap)
    <3>. DEFINE new == \/ statusFull \/ guiPrev = NoSnap \/ guiPrev.style # snap.style
                       \/ shown[c] # snap.value
    <3>1. glass'[c] = IF new THEN PageLook(snap) ELSE glass[c]
      BY <2>1, <2>2 DEF PaintPage
    <3>2. CASE ~new
      BY <2>2, <3>1, <3>2, LookOfPage DEF WidgetsPainted
    <3>. QED  BY <3>1, <3>2
  <2>3. PageOnGlass'
    BY <1>1, <2>2 DEF PageOnGlass
  <2>4. WidgetsPainted'
    BY <1>1, <2>1, <2>2, LookOfPage DEF WidgetsPainted
  <2>. QED  BY <1>1, <2>1, <2>3, <2>4 DEF CleanPage
<1>. QED  BY <1>3, <1>4 DEF Types, Flags

\* A style that may follow is the last one, or finds the page in the last one.
LEMMA StyleKept ==
  ASSUME NEW st, MayStyle(st), guiPrev # NoSnap, guiPrev \in Snaps, guiPrev.style = st
  PROVE  guiPrev.style = snap.style
<1>1. CASE st = snap.style
  BY <1>1
<1>2. CASE guiPrev = [guiPrev EXCEPT !.style = snap.style]
  BY <1>2 DEF Snaps
<1>. QED  BY <1>1, <1>2 DEF MayStyle

\* Everything else that happens to the glass is known to g_prev and g_s_* too.
LEMMA WidgetsNext ==
  ASSUME Types, Overlay, WidgetsPainted, CleanPage, [Next]_vars
  PROVE  WidgetsPainted' /\ CleanPage'
<1>0. /\ Flags /\ Caches /\ glass \in [Cells -> Looks] /\ Hole \subseteq Cells
  BY ScreenAssumption DEF Types
<1>1. CASE OpenOsd
  <2>1. /\ UNCHANGED <<snap, statusUi, statusDirty, statusFull, guiPrev, shown>> /\ guiHole' = TRUE
        /\ glass' = Over(Hole, Plain("osd"))
    BY <1>1 DEF OpenOsd, guiVars, pageVars
  <2>. QED  BY <2>1, <1>0 DEF WidgetsPainted, CleanPage, Over
<1>2. CASE ChangeOsd \/ Paint
  <2>1. /\ UNCHANGED <<snap, statusUi, statusDirty, statusFull, guiPrev, shown>>
        /\ Repaint \/ UNCHANGED <<glass, guiHole>>
    BY <1>2 DEF ChangeOsd, Paint, guiVars, pageVars, holeVars
  <2>2. CleanPage'
    BY <2>1 DEF CleanPage
  <2>3. CASE Repaint
    <3>1. CASE statusUi # wasStatus
      <4>1. guiHole' /\ \A c \in Cells \ Hole : glass'[c] = glass[c]
        BY <2>3, <3>1, <1>0 DEF Repaint, Over, Flags
      <4>. QED  BY <2>1, <2>2, <4>1 DEF WidgetsPainted
    <3>2. CASE statusUi = wasStatus
      <4>1. UNCHANGED <<glass, guiHole>>
        BY <2>3, <3>2, <1>0 DEF Repaint, Overlay, Flags
      <4>. QED  BY <2>1, <2>2, <4>1 DEF WidgetsPainted
    <3>. QED  BY <3>1, <3>2
  <2>4. CASE UNCHANGED <<glass, guiHole>>
    BY <2>1, <2>2, <2>4 DEF WidgetsPainted
  <2>. QED  BY <2>1, <2>3, <2>4
<1>3. CASE CloseOsd
  <2>1. UNCHANGED <<snap, statusUi, statusDirty, statusFull, guiPrev>> /\ guiHole' = FALSE
    BY <1>3 DEF CloseOsd, pageVars
  <2>2. CASE statusUi /\ RestoreRegion
    <3>1. \A c \in Cells : shown'[c] = snap.value
      BY <2>2 DEF RestoreRegion
    <3>2. CleanPage'
      BY <2>1, <3>1 DEF CleanPage
    <3>3. ASSUME ~statusFull, guiPrev # NoSnap, guiPrev.style = snap.style, NEW c \in Cells
          PROVE  glass'[c] = PageLook(snap)
      <4>1. glass'[c] = IF c \in Hole \/ shown[c] # snap.value THEN PageLook(snap) ELSE glass[c]
        BY <2>2 DEF RestoreRegion
      <4>2. c \notin Hole => glass[c] = PageLook([value |-> shown[c], style |-> snap.style])
        BY <2>2, <3>3 DEF WidgetsPainted
      <4>. QED  BY <4>1, <4>2, LookOfPage
    <3>4. WidgetsPainted'
      BY <2>1, <3>1, <3>3, LookOfPage DEF WidgetsPainted
    <3>. QED  BY <3>2, <3>4
  <2>3. CASE ~statusUi
    BY <2>1, <2>3 DEF WidgetsPainted, CleanPage
  <2>. QED  BY <1>3, <2>2, <2>3 DEF CloseOsd
<1>4. CASE DismissAlert
  BY <1>4 DEF DismissAlert, WidgetsPainted, CleanPage, guiVars, holeVars
<1>5. CASE NoTap \/ IngestDone \/ NoFlush
  BY <1>5 DEF NoTap, IngestDone, NoFlush, WidgetsPainted, CleanPage, guiVars, pageVars, holeVars
<1>6. CASE TerminalFrame \/ ByeFrame
  <2>1. ~statusUi'
    BY <1>6 DEF TerminalFrame, ByeFrame
  <2>. QED  BY <2>1 DEF WidgetsPainted, CleanPage
<1>7. CASE StatusFrame
  <2>1. PICK s : /\ MayStyle(s.style) /\ snap' = s
                 /\ statusDirty' = (statusDirty \/ ~statusUi \/ s # snap)
    BY <1>7 DEF StatusFrame
  <2>2. /\ statusFull' = (statusFull \/ ~statusUi)
        /\ UNCHANGED <<glass, guiPrev, shown, guiHole>>
    BY <1>7 DEF StatusFrame, guiVars
  <2>3. CleanPage'
    BY <2>1, <2>2, <1>0 DEF CleanPage, Flags
  <2>4. guiPrev # NoSnap /\ guiPrev.style = snap'.style => snap'.style = snap.style
    BY <2>1, StyleKept, <1>0 DEF Caches
  <2>5. ~statusFull' => statusUi /\ ~statusFull
    BY <2>2, <1>0 DEF Flags
  <2>6. WidgetsPainted'
    BY <2>2, <2>4, <2>5 DEF WidgetsPainted
  <2>. QED  BY <2>3, <2>6
<1>8. CASE StyleFrame
  <2>1. PICK st \in Styles : /\ MayStyle(st) /\ snap' = [snap EXCEPT !.style = st]
                             /\ statusDirty' = (statusDirty \/ (statusUi /\ st # snap.style))
    BY <1>8 DEF StyleFrame
  <2>2. UNCHANGED <<glass, guiPrev, shown, guiHole, statusUi, statusFull>>
    BY <1>8 DEF StyleFrame, guiVars
  <2>3. snap'.style = st /\ snap'.value = snap.value /\ (st = snap.style => snap' = snap)
    BY <2>1, <1>0 DEF Caches, Snaps
  <2>4. CleanPage'
    BY <2>1, <2>2, <2>3, <1>0 DEF CleanPage, Flags
  <2>5. guiPrev # NoSnap /\ guiPrev.style = snap'.style => snap'.style = snap.style
    BY <2>1, <2>3, StyleKept, <1>0 DEF Caches
  <2>6. WidgetsPainted'
    BY <2>2, <2>5 DEF WidgetsPainted
  <2>. QED  BY <2>4, <2>6
<1>9. CASE LinkLost
  <2>1. ~statusUi'
    BY <1>9 DEF LinkLost, ShowBanner
  <2>. QED  BY <2>1 DEF WidgetsPainted, CleanPage
<1>10. CASE LinkKept
  BY <1>10 DEF LinkKept, WidgetsPainted, CleanPage, guiVars, pageVars, holeVars
<1>11. CASE Flush /\ statusUi
  BY <1>11, FlushWidgets
<1>12. CASE Flush /\ ~statusUi
  <2>1. ~statusUi'
    BY <1>12 DEF Flush
  <2>. QED  BY <2>1 DEF WidgetsPainted, CleanPage
<1>13. CASE UNCHANGED vars
  BY <1>13 DEF vars, WidgetsPainted, CleanPage, guiVars, pageVars, holeVars
<1>. QED  BY <1>1, <1>2, <1>3, <1>4, <1>5, <1>6, <1>7, <1>8, <1>9, <1>10, <1>11, <1>12, <1>13
          DEF Next, Taps, Frame, Loop

-----------------------------------------------------------------------------
(* The theorems                                                            *)

\* At the start nothing is known to be painted, and no OSD is open.
LEMMA InitPainted == Init => Overlay /\ OnGlass /\ CellsPainted /\ CleanRows /\ WidgetsPainted /\ CleanPage
<1> SUFFICES ASSUME Init
             PROVE  Overlay /\ OnGlass /\ CellsPainted /\ CleanRows /\ WidgetsPainted /\ CleanPage
  OBVIOUS
<1>1. CellsPainted /\ CleanRows
  BY DEF Init, CellsPainted, CleanRows, Unpainted, Rows
<1>2. Overlay /\ OnGlass /\ WidgetsPainted /\ CleanPage
  BY DEF Init, Overlay, OnGlass, WidgetsPainted, CleanPage
<1>. QED  BY <1>1, <1>2

\* An open OSD is on the glass at the end of every pass, whatever frames, changes of
\* mode and losses of the link came, unless a banner was painted over it: so long
\* as a pass takes one frame, which the daemon's waiting for replies ensures.
THEOREM OsdTheorem == ASSUME OneFrame PROVE Spec => []OsdOnTop
<1>1. Init => Types /\ Overlay /\ OnGlass
  BY TypesInit, InitPainted
<1>2. Types /\ Overlay /\ OnGlass /\ [Next]_vars => Types' /\ Overlay' /\ OnGlass'
  BY TypesNext, OverlayNext, OnGlassNext, OneFrame
<1>3. OnGlass => OsdOnTop
  BY DEF OnGlass, OsdOnTop
<1>. QED  BY <1>1, <1>2, <1>3, PTL DEF Spec

\* Every flush in terminal mode leaves the glass with the grid last received and the
\* cursor, the OSD's place aside: for screens without a white cell on white.
THEOREM GridTheorem == ASSUME NoSolid PROVE Spec => GridShown
<1>1. Init => Types /\ Overlay /\ CellsPainted /\ CleanRows
  BY TypesInit, InitPainted
<1>2. Types /\ Overlay /\ CellsPainted /\ CleanRows /\ [Next]_vars
        => Types' /\ Overlay' /\ CellsPainted' /\ CleanRows'
  BY TypesNext, OverlayNext, CellsNext, NoSolid
<1>3. Types /\ Overlay /\ CellsPainted /\ CleanRows /\ [Next]_vars => [FlushShowsGrid]_vars
  BY FlushGrid, NoSolid DEF FlushShowsGrid
<1>. QED  BY <1>1, <1>2, <1>3, PTL DEF Spec, GridShown

\* Every flush in status mode leaves the glass with the last snapshot in the last
\* style, the OSD's place aside.
THEOREM PageTheorem == Spec => PageShown
<1>1. Init => Types /\ Overlay /\ WidgetsPainted /\ CleanPage
  BY TypesInit, InitPainted
<1>2. Types /\ Overlay /\ WidgetsPainted /\ CleanPage /\ [Next]_vars
        => Types' /\ Overlay' /\ WidgetsPainted' /\ CleanPage'
  BY TypesNext, OverlayNext, WidgetsNext
<1>3. Types /\ Overlay /\ WidgetsPainted /\ CleanPage /\ [Next]_vars => [FlushShowsPage]_vars
  BY FlushWidgets DEF FlushShowsPage
<1>. QED  BY <1>1, <1>2, <1>3, PTL DEF Spec, PageShown

=============================================================================
