------------------------------ MODULE TermWriter ------------------------------
(***************************************************************************)
(* The frames of workflow trace: each one erases the one before it from    *)
(* the terminal and is cut to what fits (term_writer.go, tail_buffer.go    *)
(* and the loop of workflow_tracer.go that draws them). The tree itself is *)
(* in WorkflowTrace; a frame is here the widths of its lines.              *)
(*                                                                         *)
(* The terminal is external: lines wrap, rows scroll off the top, and the  *)
(* cursor cannot be moved up to a row that has gone.                       *)
(***************************************************************************)
EXTENDS Naturals, Sequences

CONSTANTS
  Sizes,      \* terminals: width, height, and the rows above the first frame
  Frames,     \* sequences of the widths of lines
  MaxFrames   \* bound on frames

VARIABLES
  terminal,   \* the terminal; it never changes, and the writer asks for it once
  rows,       \* what was printed above the row of the cursor, from the top
  gone,       \* how many rows have scrolled off the top
  frame,      \* the frame drawn last
  drawn,      \* how many frames were drawn
  lineCount,  \* the lines that the writer will clear
  tracing     \* whether the loop goes on, and how it ended

screenVars == <<terminal, rows, gone, frame, drawn, lineCount, tracing>>

\* A row of the screen: which frame it belongs to, 0 for what was there before,
\* which of its lines, and which part of the line.
ScreenRow(which, line, part) == <<which, line, part>>

Larger(m, n) == IF m < n THEN n ELSE m
Largest(numbers) == CHOOSE m \in numbers : \A n \in numbers : n <= m

Above == [i \in 1..terminal.above |-> ScreenRow(0, i, 1)]

-----------------------------------------------------------------------------
(* The terminal.                                                           *)

\* The rows that a line takes. A line that just fits does not wrap.
Height(width) == IF width = 0 THEN 1 ELSE (width + terminal.width - 1) \div terminal.width

RowsOf(which, lines) ==
  LET upTo[n \in 0..Len(lines)] ==
        IF n = 0 THEN <<>>
        ELSE upTo[n - 1] \o [part \in 1..Height(lines[n]) |-> ScreenRow(which, n, part)]
  IN upTo[Len(lines)]

\* Moving up and erasing to the end leaves these rows.
Cleared(up) == SubSeq(rows, 1, Larger(gone, Len(rows) - up))

-----------------------------------------------------------------------------
(* The writer.                                                             *)

\* Division in Go cuts off towards zero.
LineHeight(width) ==
  IF width = 0 THEN (IF terminal.width = 1 THEN 0 ELSE 1)
  ELSE 1 + (width - 1) \div terminal.width

\* The last n lines of a buffer.
End(buf, n) == SubSeq(buf, Len(buf) - n + 1, Len(buf))

\* Lines counts them, and the empty one after them.
Lines(buf, n) ==
  LET counted[m \in 0..n] ==
        IF m = 0 THEN LineHeight(0) ELSE counted[m - 1] + LineHeight(End(buf, n)[m])
  IN counted[n]

\* Mutant: the lines are counted before the frame is cut.
LastLines_CountedFirst(buf, maxLines) ==
  LET kept == {n \in 0..Len(buf) : maxLines = 0 \/ Lines(buf, n) <= maxLines} IN
  IF kept = {} THEN [lines |-> <<>>, count |-> 0]
  ELSE [lines |-> End(buf, Largest(kept)), count |-> Lines(buf, Len(buf))]

\* NewTailBoxBoundBuffer: lines are taken from the end while they fit.
LastLines(buf, maxLines) ==
  LET kept == {n \in 0..Len(buf) : maxLines = 0 \/ Lines(buf, n) <= maxLines} IN
  IF kept = {} THEN [lines |-> <<>>, count |-> 0]
  ELSE [lines |-> End(buf, Largest(kept)), count |-> Lines(buf, Largest(kept))]

\* Flush of a frame: the lines of the last frame are cleared, the new ones
\* are counted and written. An error of the output ends the trace, after the
\* clearing or before.
Flush(buf, trim) ==
  LET fitting == LastLines(buf, IF trim THEN terminal.height ELSE 0)
      cleared == IF lineCount = 0 THEN rows ELSE Cleared(lineCount - 1) IN
  /\ drawn' = drawn + 1 /\ frame' = buf
  /\ \/ /\ rows' = cleared \o RowsOf(drawn', fitting.lines)
        /\ lineCount' = fitting.count
        /\ tracing' = IF trim THEN "on" ELSE "ended"
     \/ rows' = rows /\ lineCount' = lineCount /\ tracing' = "error"
     \/ rows' = cleared /\ lineCount' = fitting.count /\ tracing' = "error"
  /\ gone' = Larger(gone, Len(rows') + 1 - terminal.height)

-----------------------------------------------------------------------------
(* The loop.                                                               *)

Init ==
  /\ terminal \in Sizes
  /\ rows = Above /\ gone = Larger(0, Len(rows) + 1 - terminal.height)
  /\ frame = <<>> /\ drawn = 0 /\ lineCount = 0 /\ tracing = "on"

\* A tick of PrintUpdates draws the progress line or the tree, when there is
\* a state to draw.
Draw ==
  /\ tracing = "on" /\ drawn < MaxFrames
  /\ \E buf \in Frames : Flush(buf, TRUE)
  /\ UNCHANGED terminal

\* PrintAndExit draws the whole tree.
PrintAndExit ==
  /\ tracing = "on"
  /\ \E buf \in Frames : Flush(buf, FALSE)
  /\ UNCHANGED terminal

Next == Draw \/ PrintAndExit

Spec == Init /\ [][Next]_screenVars

-----------------------------------------------------------------------------

TypeOK ==
  /\ terminal \in Sizes /\ frame \in Frames \cup {<<>>}
  /\ drawn \in 0..(MaxFrames + 1) /\ lineCount \in Nat /\ gone \in 0..Len(rows)
  /\ tracing \in {"on", "ended", "error"}

\* A terminal of one column is left out: there the writer takes an empty line
\* for none. So is one whose size is not known, which is 0.
ConstantsTyped ==
  /\ Sizes \subseteq [width : Nat \ {0, 1}, height : Nat \ {0}, above : Nat]
  /\ Frames \subseteq Seq(Nat) /\ MaxFrames \in Nat

\* The longest end of the frame that the terminal shows above the cursor, or
\* the whole frame once the trace has ended.
Shown ==
  LET ends == {n \in 0..Len(frame) :
                 \/ tracing = "ended"
                 \/ Len(RowsOf(1, End(frame, n))) < terminal.height}
  IN End(frame, Largest(ends))

\* Under what stood on the terminal before there is one frame, the last one,
\* cut from its top to what fits while the trace goes on: nothing is left of
\* the frames before, and nothing of what was there before them is erased.
OneFrameShown == tracing # "error" => rows = Above \o RowsOf(drawn, Shown)

==============================================================================
