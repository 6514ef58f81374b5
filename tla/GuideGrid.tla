------------------------------ MODULE GuideGrid ------------------------------
(***************************************************************************)
(* The grid of the TV guide (ui/guide.js): rows of channels of which only  *)
(* those near the viewport are drawn, the cells of a row, the search, and  *)
(* the keys that move the focus through cells that are drawn anew under    *)
(* it.  Times are counted in slots of half an hour.                        *)
(***************************************************************************)
EXTENDS Integers, Lists

CONSTANTS
    GuideRows,     \* visibleChannels: a sequence of channels
    Named,         \* the channels whose name matches the search
    Guides,        \* a sequence of guides: the programs of each channel
    Slots,         \* slots of the window
    RowHeight, HeaderHeight, ViewHeight,
    Overscan,      \* guideWindowOverscan
    MostRows,      \* bound of guideVisibleRange
    MostResults,   \* bound of guideSearchPrograms
    ScrollStep,    \* bound on the scroll positions
    FirstNow, MaxNow   \* bounds of the clock

\* The rows that fit the height of the grid.
VisibleRows == (ViewHeight + RowHeight - 1) \div RowHeight

\* The page never draws more than MostRows rows: the screen is not so high that
\* those in it and one further part of the overscan are more.
ASSUME GridConstants ==
    /\ GuideRows \in Seq(ToSet(GuideRows)) /\ IsInjective(GuideRows)
    /\ \A g \in DOMAIN Guides :
          /\ DOMAIN Guides[g] = ToSet(GuideRows)
          /\ \A c \in ToSet(GuideRows) :
                /\ IsFiniteSet(Guides[g][c])
                /\ \A p \in Guides[g][c] : {p.start, p.end} \subseteq Int
    /\ {HeaderHeight, ViewHeight, MostRows} \subseteq Nat
    /\ {Slots, RowHeight, Overscan} \subseteq Nat \ {0}
    /\ HeaderHeight < ViewHeight
    /\ VisibleRows + Overscan < MostRows
    /\ {FirstNow, MaxNow} \subseteq Int /\ FirstNow <= MaxNow

VARIABLES
    now,           \* guideSlotStart
    guide,         \* state.programsByChannel: one of the guides
    query,         \* whether there is a text in the search
    searching,     \* state.guideSearchTimer
    dismissed,     \* state.guideSearchDismissed
    results,       \* the programs listed under the search
    guideChannels, \* state.guideChannels
    scrollTop,     \* of the grid
    frame,         \* state.guideRenderFrame
    header,        \* state.guideLastSlotStart
    drawn,         \* the rows in the page, with the range drawn
    focused,       \* what has the focus
    guideFocus     \* state.guideFocus, with its anchor

gridVars == <<now, guide, query, searching, dismissed, results, guideChannels, scrollTop,
              frame, header, drawn, focused, guideFocus>>

\* An element that is no cell.
Element(kind) == [channel |-> "", kind |-> kind, program |-> "", start |-> 0]
WithAnchor(f, anchor) ==
    [channel |-> f.channel, kind |-> f.kind, program |-> f.program, start |-> f.start,
     anchor |-> anchor]
NoFocus == WithAnchor(Element("none"), 0)

Larger(a, b) == IF a > b THEN a ELSE b
Smaller(a, b) == IF a < b THEN a ELSE b

(***************************************************************************)
(* Rows and cells                                                          *)
(***************************************************************************)
\* programsFor: what ended an hour ago is left out.
ProgramsFor(g, at, c) == {p \in Guides[g][c] : p.end >= at - 2}

Times == FirstNow..MaxNow

\* guideChannelMatchesQuery
GuideMatches(g, at, searched, c) ==
    ~searched \/ c \in Named \/ \E p \in ProgramsFor(g, at, c) : p.match

\* resetGuideRows, the list: of a guide, at a time, with or without a search.
Rows ==
    [g \in DOMAIN Guides |-> [at \in Times |-> [searched \in BOOLEAN |->
        Only(GuideRows, {c \in ToSet(GuideRows) : GuideMatches(g, at, searched, c)})]]]

\* renderEPGGapCell
Gap(from, to) ==
    IF to <= from THEN <<>> ELSE <<[kind |-> "gap", program |-> "", start |-> from, end |-> to]>>

\* What falls into the window that starts at a time, by start and end.
Entries(programs, at) ==
    LET clipped == {[program |-> p.id, start |-> Larger(p.start, at), end |-> Smaller(p.end, at + Slots)] :
                       p \in programs}
        before(a, b) == a.start < b.start \/ (a.start = b.start /\ a.end < b.end)
    IN  Sorted({e \in clipped : e.end > at /\ e.start < at + Slots}, before)

\* Mutant: a program starts where the guide says, also within the one before it.
AddCellOverlapping(row, e) ==
    IF e.end <= row.cursor THEN row
    ELSE [cursor |-> e.end,
          cells |-> row.cells \o Gap(row.cursor, e.start)
                    \o <<[kind |-> "program", program |-> e.program, start |-> e.start, end |-> e.end]>>]

\* One turn of the loop of renderEPGCells.
AddCell(row, e) ==
    LET start == Larger(e.start, row.cursor)
    IN  IF e.end <= start THEN row
        ELSE [cursor |-> e.end,
              cells |-> row.cells \o Gap(row.cursor, start)
                        \o <<[kind |-> "program", program |-> e.program, start |-> start, end |-> e.end]>>]

\* renderEPGCells of each channel.
EPGCells ==
    [g \in DOMAIN Guides |-> [at \in Times |-> [searched \in BOOLEAN |-> [c \in DOMAIN Guides[g] |->
        LET matching == {p \in ProgramsFor(g, at, c) : ~searched \/ c \in Named \/ p.match}
            row == FoldLeft(AddCell, [cursor |-> at, cells |-> <<>>], Entries(matching, at))
        IN  row.cells \o Gap(row.cursor, at + Slots)]]]]

\* guideVisibleRange; rows are counted from 0.
VisibleRange(total, top) ==
    LET visible == Larger(1, VisibleRows)
        first == (Larger(0, top - HeaderHeight) \div RowHeight) - Overscan
        start == Smaller(Larger(0, total - visible), Larger(0, first))
    IN  [start |-> start,
         end |-> Smaller(total, start + Smaller(MostRows, visible + 2 * Overscan))]

NothingDrawn == [start |-> -1, end |-> -1, at |-> 0, rows |-> <<>>]

\* The rows that renderGuideWindow draws.
DrawRows(top) ==
    \E range \in {VisibleRange(Len(guideChannels'), top)} :
    \E channels \in {SubSeq(guideChannels', range.start + 1, range.end)} :
        drawn' = IF channels = <<>> THEN NothingDrawn
                 ELSE [start |-> range.start, end |-> range.end, at |-> now',
                       rows |-> [i \in DOMAIN channels |->
                                    [channel |-> channels[i],
                                     cells |-> EPGCells[guide'][now'][query'][channels[i]]]]]

(***************************************************************************)
(* The focus                                                               *)
(***************************************************************************)
\* guideRowFocusCells: the channel's button, then its cells.
RowCells(row, at) ==
    <<[channel |-> row.channel, kind |-> "channel", program |-> "", start |-> at, end |-> at]>>
    \o [i \in DOMAIN row.cells |->
            [channel |-> row.channel, kind |-> row.cells[i].kind, program |-> row.cells[i].program,
             start |-> row.cells[i].start, end |-> row.cells[i].end]]

\* guideFocusInfo
Info(cell) == [channel |-> cell.channel, kind |-> cell.kind, program |-> cell.program,
               start |-> cell.start]

IsCell(f) == f.kind \in {"channel", "gap", "program"}

\* guideFocusMatches
FocusMatches(f, g) ==
    /\ f.channel = g.channel
    /\ f.kind = g.kind
    /\ \/ f.kind = "channel"
       \/ f.program # "" /\ f.program = g.program
       \/ f.start = g.start

\* The first drawn cell that matches, if any.
Matching(d, f) ==
    LET rows == {r \in DOMAIN d.rows : d.rows[r].channel = f.channel}
        cells == IF rows = {} THEN <<>> ELSE RowCells(d.rows[CHOOSE r \in rows : TRUE], d.at)
        matching == {i \in DOMAIN cells : FocusMatches(Info(cells[i]), f)}
    IN  IF matching = {} THEN <<>>
        ELSE <<Info(cells[CHOOSE i \in matching : \A j \in matching : i <= j])>>

\* rememberGuideFocus, on focusin
Remembering(f) ==
    guideFocus' = WithAnchor(f, IF guideFocus.kind # "none" /\ FocusMatches(f, guideFocus)
                                THEN guideFocus.anchor ELSE f.start)

\* Where the focus is after the rows were drawn anew.
Refocused(d) ==
    IF ~IsCell(focused) THEN UNCHANGED <<focused, guideFocus>>
    ELSE LET cell == Matching(d, focused)
         IN  IF cell = <<>> THEN focused' = Element("none") /\ UNCHANGED guideFocus
             ELSE focused' = cell[1] /\ Remembering(cell[1])

\* The lowest scroll position; a shorter grid is scrolled up by the browser.
LastTop == Larger(0, HeaderHeight + Len(guideChannels') * RowHeight - ViewHeight)

\* resetGuideRows and renderEPG.
ResetAndRender ==
    /\ guideChannels' = Rows[guide'][now'][query']
    /\ scrollTop' = Smaller(scrollTop, LastTop)
    /\ frame' = (scrollTop > LastTop)
    /\ DrawRows(scrollTop)
    /\ Refocused(drawn')

(***************************************************************************)
(* The search                                                              *)
(***************************************************************************)
\* guideSearchPrograms: the first ones by start, then by row.
SearchPrograms ==
    [g \in DOMAIN Guides |-> [at \in Times |->
        LET row(c) == CHOOSE i \in DOMAIN GuideRows : GuideRows[i] = c
            found == {r \in UNION {{<<c, p>> : p \in Guides[g][c]} : c \in DOMAIN Guides[g]} :
                         /\ r[2].match /\ r[2].end > at /\ r[2].start < at + Slots}
            when(r) == Larger(r[2].start, at)
            before(a, b) == when(a) < when(b) \/ (when(a) = when(b) /\ row(a[1]) < row(b[1]))
        IN  {r \in found : Cardinality({x \in found : before(x, r)}) < MostResults}]]

\* renderGuideProgramSearch, with the focus where f says.
RenderResults(f) ==
    results' = IF dismissed' \/ ~query' THEN {}
               ELSE IF f.kind = "result" THEN results
               ELSE SearchPrograms[guide'][now']

\* renderGuidePage: the page is new, nothing of it has the focus.
RenderGuidePage ==
    /\ UNCHANGED <<query, dismissed, guideFocus>>
    /\ searching' = FALSE
    /\ header' = now'
    /\ guideChannels' = Rows[guide'][now'][query']
    /\ scrollTop' = 0
    /\ frame' = FALSE
    /\ DrawRows(0)
    /\ focused' = Element("none")
    /\ RenderResults(focused')

\* applyGuideSearch; where the focus goes is up to its callers.
ApplyGuideSearch ==
    /\ UNCHANGED <<now, guide, query, header>>
    /\ searching' = FALSE
    /\ guideChannels' = Rows[guide'][now'][query']
    /\ scrollTop' = 0
    /\ frame' = (scrollTop # 0)
    /\ DrawRows(0)
    /\ RenderResults(focused)

GridInit ==
    /\ now = FirstNow
    /\ guide \in DOMAIN Guides
    /\ query = FALSE
    /\ searching = FALSE
    /\ dismissed = FALSE
    /\ results = {}
    /\ guideChannels = <<>>
    /\ scrollTop = 0
    /\ frame = FALSE
    /\ header = 0
    /\ drawn = NothingDrawn
    /\ focused = Element("none")
    /\ guideFocus = NoFocus

\* scheduleGuideSearch, by the input event.
ScheduleGuideSearch(text) ==
    /\ focused.kind = "search"
    /\ query' = text
    /\ searching' = TRUE
    /\ dismissed' = FALSE
    /\ UNCHANGED <<now, guide, results, guideChannels, scrollTop, frame, header, drawn, focused, guideFocus>>

\* Its timer; and Escape in the search field, which also closes the results.
SearchApplied(escape) ==
    /\ IF escape THEN focused.kind = "search" ELSE searching
    /\ dismissed' = (escape \/ dismissed)
    /\ ApplyGuideSearch
    /\ focused' = IF IsCell(focused)
                  THEN LET cell == Matching(drawn', focused)
                       IN  IF cell = <<>> THEN Element("none") ELSE cell[1]
                  ELSE IF focused.kind = "result" /\ results' = {} THEN Element("none")
                  ELSE focused
    /\ guideFocus' = IF IsCell(focused') THEN WithAnchor(focused', focused'.start) ELSE NoFocus

(***************************************************************************)
(* Scrolling, the clock and the guide                                      *)
(***************************************************************************)
\* By the wheel: to the ends and some places between.
ScrollTops ==
    LET last == Larger(0, HeaderHeight + Len(guideChannels) * RowHeight - ViewHeight)
    IN  {last} \cup {top \in 0..last : top % ScrollStep = 0}

Scroll(top) ==
    /\ top # scrollTop
    /\ scrollTop' = top
    /\ frame' = TRUE
    /\ UNCHANGED <<now, guide, query, searching, dismissed, results, guideChannels, header,
                   drawn, focused, guideFocus>>

\* The frame of scheduleGuideWindowRender.
RenderFrame ==
    /\ frame
    /\ frame' = FALSE
    /\ UNCHANGED <<now, guide, query, searching, dismissed, results, guideChannels, scrollTop, header>>
    /\ LET range == VisibleRange(Len(guideChannels), scrollTop)
       IN  IF guideChannels # <<>> /\ range.start = drawn.start /\ range.end = drawn.end
           THEN UNCHANGED <<drawn, focused, guideFocus>>
           ELSE DrawRows(scrollTop) /\ Refocused(drawn')

SlotPasses ==
    /\ now < MaxNow
    /\ now' = now + 1
    /\ UNCHANGED <<guide, query, searching, dismissed, results, guideChannels, scrollTop, frame,
                   header, drawn, focused, guideFocus>>

\* tickGuideAutoRefresh up to its request, and the render of the page.
TickGuide ==
    /\ header # now
    /\ focused.kind # "search"
    /\ UNCHANGED <<now, guide>>
    /\ RenderGuidePage

\* Programs have arrived: of the tick, of the window that a scroll or the page
\* asked for, of a refresh or of a ping.
GuideArrives(newPage) ==
    /\ guide' \in DOMAIN Guides
    /\ UNCHANGED now
    /\ IF newPage
       THEN focused.kind # "search" /\ RenderGuidePage
       ELSE /\ UNCHANGED <<query, searching, dismissed, results, header>>
            /\ ResetAndRender

(***************************************************************************)
(* The keyboard                                                            *)
(***************************************************************************)
\* Tab, into the search or to the one cell that updateGuideTabStops left.
TabTo(kind) ==
    /\ UNCHANGED <<now, guide, query, searching, dismissed, results, guideChannels, scrollTop,
                   frame, header, drawn>>
    /\ \/ kind = "search" /\ focused' = Element("search") /\ UNCHANGED guideFocus
       \/ /\ kind = "grid"
          /\ drawn.rows # <<>>
          /\ LET stop == Matching(drawn, guideFocus)
             IN  focused' = IF stop # <<>> THEN stop[1] ELSE Info(RowCells(drawn.rows[1], drawn.at)[1])
          /\ Remembering(focused')

\* Mutant: the end of a program belongs to it.
DistanceInclusive(cell, time) ==
    IF time < cell.start THEN cell.start - time
    ELSE IF time > cell.end THEN time - cell.end ELSE 0

\* guideCellIndexAtTime: how far a cell is from a time.
Distance(cell, time) ==
    IF time < cell.start THEN cell.start - time
    ELSE IF time >= cell.end THEN time - cell.end + 1 ELSE 0

\* guideCellForTime: of the nearest cells the first, never the channel's button.
CellForTime(cells, time) ==
    LET programs == {i \in DOMAIN cells : cells[i].kind # "channel"}
    IN  cells[CHOOSE i \in programs : \A j \in programs :
                 \/ Distance(cells[i], time) < Distance(cells[j], time)
                 \/ Distance(cells[i], time) = Distance(cells[j], time) /\ i <= j]

\* Where focusGuideRow scrolls to; rows are counted from 1 here.
TopFor(index) ==
    LET top == (index - 1) * RowHeight
        lowest == top + RowHeight + HeaderHeight - ViewHeight
    IN  IF top < scrollTop THEN top
        ELSE IF lowest > scrollTop THEN Larger(0, lowest) ELSE scrollTop

\* The cell that focusGuideRow chooses.
CellOf(cells, anchor, where, program) ==
    LET wanted == {i \in DOMAIN cells : program # "" /\ cells[i].program = program}
    IN  IF wanted # {} THEN cells[CHOOSE i \in wanted : \A j \in wanted : i <= j]
        ELSE IF where = "last" THEN Last(cells)
        ELSE IF where \in {"channel", "first"} THEN cells[1]
        ELSE CellForTime(cells, anchor)

\* focusGuideRow and focusGuideCell
FocusGuideRow(index, anchor, where, program) ==
    /\ scrollTop' = TopFor(index)
    /\ frame' = (frame \/ scrollTop' # scrollTop)
    /\ DrawRows(scrollTop')
    /\ \E cells \in {RowCells(drawn'.rows[index - drawn'.start], now')} :
          focused' = Info(CellOf(cells, anchor, where, program))
    /\ guideFocus' = WithAnchor(focused', anchor)

\* Down or Enter in the search field.
SearchEntered ==
    /\ focused.kind = "search"
    /\ dismissed' = FALSE
    /\ ApplyGuideSearch
    /\ focused' = IF results' # {} THEN Element("result")
                  ELSE IF guideChannels' = <<>> THEN focused
                  ELSE Info(RowCells(drawn'.rows[1], now)[1])
    /\ guideFocus' = IF IsCell(focused') THEN WithAnchor(focused', now) ELSE NoFocus

\* Escape in the results, or Up at the first of them.
LeaveResults(escape) ==
    /\ focused.kind = "result"
    /\ focused' = Element("search")
    /\ dismissed' = (escape \/ dismissed)
    /\ results' = IF escape THEN {} ELSE results
    /\ UNCHANGED <<now, guide, query, searching, guideChannels, scrollTop, frame, header, drawn, guideFocus>>

\* jumpGuideToProgram: a result is chosen.
JumpGuideToProgram(r) ==
    /\ query' = FALSE
    /\ searching' = FALSE
    /\ dismissed' = TRUE
    /\ results' = {}
    /\ UNCHANGED <<now, guide, header>>
    /\ guideChannels' = GuideRows
    /\ FocusGuideRow(CHOOSE i \in DOMAIN GuideRows : GuideRows[i] = r[1], r[2].start, "program", r[2].id)

\* jumpGuideToNow, by its button or by N.
JumpGuideToNow ==
    /\ guideChannels # <<>>
    /\ dismissed' = TRUE
    /\ results' = {}
    /\ header' = now
    /\ UNCHANGED <<now, guide, query, searching, guideChannels>>
    /\ LET own == {i \in DOMAIN guideChannels : guideChannels[i] = guideFocus.channel}
           visible == Smaller(Len(guideChannels), scrollTop \div RowHeight + 1)
       IN  FocusGuideRow(IF own # {} THEN CHOOSE i \in own : TRUE ELSE visible, now, "program", "")

Anchor == IF guideFocus.kind # "none" THEN guideFocus.anchor ELSE focused.start

\* The row of the focused cell and its place in it.
FocusedRow == CHOOSE i \in DOMAIN drawn.rows : drawn.rows[i].channel = focused.channel
FocusedCells == RowCells(drawn.rows[FocusedRow], drawn.at)
FocusedIndex == CHOOSE i \in DOMAIN FocusedCells : Info(FocusedCells[i]) = focused

\* Left, Right, Home and End: the anchor moves along.
HorizontalKey(index) ==
    /\ IsCell(focused)
    /\ index \in DOMAIN FocusedCells
    /\ focused' = Info(FocusedCells[index])
    /\ guideFocus' = WithAnchor(focused', focused'.start)
    /\ UNCHANGED <<now, guide, query, searching, dismissed, results, guideChannels, scrollTop,
                   frame, header, drawn>>

PageRows == Larger(1, ViewHeight \div RowHeight - 1)

\* Up, Down, PageUp and PageDown, and Home and End with Control.
VerticalKey(step, edge) ==
    /\ IsCell(focused)
    /\ guideChannels # <<>>
    /\ UNCHANGED <<now, guide, query, searching, dismissed, results, guideChannels, header>>
    /\ LET row == drawn.start + FocusedRow
           to == IF edge = "first" THEN 1 ELSE IF edge = "last" THEN Len(guideChannels)
                 ELSE Larger(1, Smaller(Len(guideChannels), row + step))
       IN  FocusGuideRow(to, Anchor, IF edge = "none" THEN focused.kind ELSE edge, "")

GridNext ==
    \/ \E top \in ScrollTops : Scroll(top)
    \/ RenderFrame \/ SlotPasses \/ TickGuide
    \/ GuideArrives(TRUE) \/ GuideArrives(FALSE)
    \/ \E text \in BOOLEAN : ScheduleGuideSearch(text)
    \/ SearchApplied(FALSE) \/ SearchApplied(TRUE) \/ SearchEntered
    \/ LeaveResults(TRUE) \/ LeaveResults(FALSE)
    \/ \E r \in results : JumpGuideToProgram(r)
    \/ JumpGuideToNow
    \/ TabTo("search") \/ TabTo("grid")
    \/ IsCell(focused) /\ \E index \in {FocusedIndex - 1, FocusedIndex + 1, 1, Len(FocusedCells)} : HorizontalKey(index)
    \/ \E step \in {-1, 1, -PageRows, PageRows} : VerticalKey(step, "none")
    \/ VerticalKey(0, "first") \/ VerticalKey(0, "last")

(***************************************************************************)
(* Properties                                                              *)
(***************************************************************************)
\* The rows in the viewport, below the header that stays on top.
InViewport ==
    {i \in DOMAIN guideChannels :
        /\ (i - 1) * RowHeight < scrollTop + ViewHeight - HeaderHeight
        /\ i * RowHeight > scrollTop}

\* Without holes: every row in the viewport is in the page once no frame is
\* awaited, and the cells of a row fill the window that it was drawn for, one
\* after the other, whatever the guide says about programs that overlap.
GridIsComplete ==
    /\ ~frame => \A i \in InViewport : i > drawn.start /\ i <= drawn.end
    /\ \A r \in DOMAIN drawn.rows :
          LET cells == drawn.rows[r].cells
          IN  /\ cells[1].start = drawn.at
              /\ cells[Len(cells)].end = drawn.at + Slots
              /\ \A i \in 1..(Len(cells) - 1) : cells[i].end = cells[i + 1].start
              /\ \A i \in DOMAIN cells : cells[i].start < cells[i].end

\* The keys that change the row stay in the column they started from: the focus
\* goes to the cell that is on at the anchor, and the anchor stays, through
\* rows of shorter and longer programs and over redraws.
KeysKeepColumn ==
    [][(IsCell(focused) /\ focused.kind # "channel"
           /\ \E step \in {-1, 1, -PageRows, PageRows} : VerticalKey(step, "none"))
          => /\ guideFocus'.anchor = Anchor
             /\ (Anchor >= drawn'.at /\ Anchor < drawn'.at + Slots)
                   => LET row == CHOOSE i \in DOMAIN drawn'.rows : drawn'.rows[i].channel = focused'.channel
                      IN  \E cell \in ToSet(drawn'.rows[row].cells) :
                             /\ cell.start = focused'.start
                             /\ cell.start <= Anchor /\ Anchor < cell.end]_gridVars
=============================================================================
