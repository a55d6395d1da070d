----------------------------- MODULE ChartViewer -----------------------------
(***************************************************************************)
(* db show kpis --interactive: a window over the samples of a KPI that the *)
(* arrow keys move, on a terminal in raw mode (output/interactive.go).     *)
(* The user types keys; the viewer reads bytes, and an Esc pressed alone   *)
(* swallows the two bytes that follow it.                                  *)
(***************************************************************************)
EXTENDS Chart

CONSTANTS
  Inputs,            \* sequences of records that db show may hand over
  Terminals,         \* sizes the terminal may have
  MaxPending         \* bound: bytes typed and not read yet

\* runShowKPIs returns before the viewer when it has found nothing.
ASSUME ViewerAssumption ==
  /\ \A r \in Inputs : r \in Seq(Record) /\ r # <<>>
  /\ Terminals \subseteq Tty \ {NoTty}
  /\ MaxPending \in Nat

VARIABLES
  pc,                \* where RunInteractiveChart is
  records,           \* the samples, sorted at its start
  vp,                \* viewport: startIdx, count, total
  tty,               \* the terminal's size
  raw,               \* the terminal is in raw mode, its cursor hidden
  pending,           \* bytes typed and not read yet
  closed             \* stdin is at its end

viewVars == <<pc, records, vp, raw>>
userVars == <<tty, pending, closed>>
vars == <<viewVars, userVars>>

\* "q" stands for q, Q and Ctrl+C, "x" for every other byte that is not named.
Bytes == {"esc", "[", "A", "B", "C", "D", "q", "x"}

TypeOK ==
  /\ pc \in {"start", "draw", "read", "escape", "done"}
  /\ records \in Seq(Record)
  /\ vp \in [startIdx : Nat, count : Nat, total : Nat]
  /\ tty \in Terminals
  /\ raw \in BOOLEAN
  /\ pending \in Seq(Bytes)
  /\ closed \in BOOLEAN

Init ==
  /\ pc = "start"
  /\ records \in Inputs
  /\ vp = [startIdx |-> 0, count |-> Len(records), total |-> Len(records)]
  /\ tty \in Terminals
  /\ raw = FALSE
  /\ pending = <<>>
  /\ closed = FALSE

-----------------------------------------------------------------------------
(***************************************************************************)
(* The viewport.                                                           *)
(***************************************************************************)
Smaller(a, b) == IF a < b THEN a ELSE b
Larger(a, b)  == IF a > b THEN a ELSE b

\* A tenth of the window, whatever that is
StepOfNothing(v) == v.count \div 10

\* A tenth of the window, but never nothing
Step(v) == Larger(v.count \div 10, 1)

\* panLeft without its stop at the first sample
PanLeftOn(v) == [v EXCEPT !.startIdx = @ - Step(v)]

PanLeft(v) == [v EXCEPT !.startIdx = Larger(@ - Step(v), 0)]

PanRight(v) == [v EXCEPT !.startIdx = Smaller(@ + Step(v), v.total - v.count)]

\* clamp that forgets the right edge
ClampLeft(v) == [v EXCEPT !.startIdx = Larger(@, 0)]

Clamp(v) == [v EXCEPT !.startIdx =
               Larger(IF @ + v.count > v.total THEN v.total - v.count ELSE @, 0)]

ZoomOut(v) ==
  LET newCount == Smaller(v.count + Step(v), v.total)
      grown    == newCount - v.count
  IN Clamp([v EXCEPT !.startIdx = Larger(@ - grown \div 2, 0), !.count = newCount])

\* zoomIn: two samples at least, or all there are
ZoomIn(v) ==
  LET newCount == Larger(v.count - Step(v), Smaller(2, v.total))
      shrunk   == v.count - newCount
  IN Clamp([v EXCEPT !.startIdx = @ + shrunk \div 2, !.count = newCount])

-----------------------------------------------------------------------------
(***************************************************************************)
(* RunInteractiveChart.                                                    *)
(***************************************************************************)

\* It returns: the deferred calls restore the terminal and its cursor.
Return == pc' = "done" /\ raw' = FALSE

\* The samples are sorted and the terminal is made raw, which may fail.
Start ==
  /\ pc = "start"
  /\ records' = ByTime(records)
  /\ \/ pc' = "draw" /\ raw' = TRUE
     \/ Return
  /\ UNCHANGED <<vp, userVars>>

\* renderFrame, which fails when it cannot get the terminal's size
RenderFrame ==
  /\ pc = "draw"
  /\ \/ pc' = "read" /\ UNCHANGED raw
     \/ Return
  /\ UNCHANGED <<records, vp, userVars>>

\* readKey up to its switch; it blocks while nothing was typed.  A read that
\* fails, at the end of stdin say, is keyQuit.
ReadKey ==
  /\ pc = "read"
  /\ \/ /\ pending = <<>> /\ closed
        /\ Return
        /\ UNCHANGED pending
     \/ /\ pending # <<>>
        /\ pending' = Tail(pending)
        /\ CASE Head(pending) = "q"   -> Return
             [] Head(pending) = "esc" -> pc' = "escape" /\ UNCHANGED raw
             [] OTHER                 -> pc' = "draw" /\ UNCHANGED raw
  /\ UNCHANGED <<records, vp, tty, closed>>

\* What the two bytes after an Esc do to the window
Moved(v, bytes) ==
  CASE bytes = <<"[", "A">> -> ZoomIn(v)
    [] bytes = <<"[", "B">> -> ZoomOut(v)
    [] bytes = <<"[", "C">> -> PanRight(v)
    [] bytes = <<"[", "D">> -> PanLeft(v)
    [] OTHER                -> v

\* readEscapeSeq that goes on waiting when stdin ends within the sequence
ReadEscapeSeqFully ==
  /\ pc = "escape"
  /\ Len(pending) >= 2
  /\ vp' = Moved(vp, SubSeq(pending, 1, 2))
  /\ pending' = Tail(Tail(pending))
  /\ pc' = "draw"
  /\ UNCHANGED <<records, raw, tty, closed>>

\* readEscapeSeq: io.ReadFull blocks for two bytes; at the end of stdin it fails
\* and what it read is lost.
ReadEscapeSeq ==
  /\ pc = "escape"
  /\ \/ /\ Len(pending) >= 2
        /\ vp' = Moved(vp, SubSeq(pending, 1, 2))
        /\ pending' = Tail(Tail(pending))
     \/ /\ Len(pending) < 2 /\ closed
        /\ pending' = <<>>
        /\ UNCHANGED vp
  /\ pc' = "draw"
  /\ UNCHANGED <<records, raw, tty, closed>>

-----------------------------------------------------------------------------
(***************************************************************************)
(* The user and the terminal.                                              *)
(***************************************************************************)
Keys == {<<"esc", "[", "A">>, <<"esc", "[", "B">>, <<"esc", "[", "C">>, <<"esc", "[", "D">>,
         <<"esc">>, <<"q">>, <<"x">>}

Press(key) ==
  /\ pc # "done" /\ ~closed
  /\ Len(pending) + Len(key) <= MaxPending
  /\ pending' = pending \o key
  /\ UNCHANGED <<viewVars, tty, closed>>

CloseInput ==
  /\ pc # "done" /\ ~closed
  /\ closed' = TRUE
  /\ UNCHANGED <<viewVars, tty, pending>>

Resize(size) ==
  /\ pc # "done"
  /\ tty' = size
  /\ UNCHANGED <<viewVars, pending, closed>>

Terminated == pc = "done" /\ UNCHANGED vars

-----------------------------------------------------------------------------
ViewerStep == Start \/ RenderFrame \/ ReadKey \/ ReadEscapeSeq

Next ==
  \/ ViewerStep
  \/ \E key \in Keys : Press(key)
  \/ CloseInput
  \/ \E size \in Terminals : Resize(size)
  \/ Terminated

\* The viewer runs, and a read returns when there is something to return.
\* Nothing obliges the user to press a key.
Spec == Init /\ [][Next]_vars /\ WF_vars(ViewerStep)

-----------------------------------------------------------------------------
(***************************************************************************)
(* Properties                                                              *)
(***************************************************************************)

\* However the keys follow each other, records[startIdx : startIdx+count] is
\* inside the samples, and the window never shrinks below two of them (or all).
WindowInside ==
  /\ vp.startIdx >= 0
  /\ vp.startIdx + vp.count <= vp.total
  /\ Smaller(2, vp.total) <= vp.count

Slice == SubSeq(records, vp.startIdx + 1, vp.startIdx + vp.count)

\* The frame to draw, chart and status bar, has no more rows than the terminal it
\* is drawn on, if that has the six a plot needs; and on a terminal of the least
\* width accepted for a chart of db show, or a wider one, the labels leave the plot
\* three quarters of that width, as long as no value is printed as 10^17 or more,
\* where even trillions take a label of twelve characters.  --interactive accepts
\* smaller terminals: of those nothing is said.
FrameFits ==
  pc = "draw" =>
    LET plot == Plot(Slice, tty, tty.width, tty.height - 1)
        rows == plot.height + 4
    IN /\ tty.height > 5 => plot.height > 0 /\ rows + 1 <= tty.height
       /\ tty.width >= MinChartWidth /\ (\A i \in DOMAIN Slice : Rounded(Slice[i], 12) <= 16)
            => 4 * plot.width >= 3 * MinChartWidth

AtLeft  == vp.startIdx = 0
AtRight == vp.startIdx + vp.count = vp.total

Middle(v) == 2 * v.startIdx + v.count

\* Every arrow key does its work until the window is at an edge or cannot zoom
\* further, also where a tenth of the window is less than a sample; a zoom keeps
\* the middle of the window, to half a sample, unless it meets an edge; nothing
\* but the bytes of an arrow key moves or resizes the window.
ArrowKeys ==
  [][LET bytes == IF pc = "escape" /\ pc' = "draw" /\ Len(pending) >= 2
                  THEN SubSeq(pending, 1, 2) ELSE <<>>
         zoom  == bytes \in {<<"[", "A">>, <<"[", "B">>}
         pan   == bytes \in {<<"[", "C">>, <<"[", "D">>}
     IN /\ bytes = <<"[", "D">> => vp'.count = vp.count /\ (vp'.startIdx < vp.startIdx \/ AtLeft)
        /\ bytes = <<"[", "C">> => vp'.count = vp.count /\ (vp'.startIdx > vp.startIdx \/ AtRight)
        /\ bytes = <<"[", "A">> => vp'.count < vp.count \/ vp.count <= 2
        /\ bytes = <<"[", "B">> => vp'.count > vp.count \/ vp.count = vp.total
        /\ zoom => Middle(vp') - Middle(vp) \in -1 .. 1 \/ AtLeft' \/ AtRight'
        /\ vp' # vp => (zoom \/ pan) /\ vp'.total = vp.total]_vars

\* q, or Ctrl+C, pressed often enough to be read as a key, or the end of stdin,
\* ends the viewer and gives back the terminal as it was.
QuitEnds ==
  LET n == Len(pending)
  IN (closed \/ (n >= 3 /\ \A i \in n - 2 .. n : pending[i] = "q"))
       ~> (pc = "done" /\ ~raw)
==============================================================================
