------------------------------- MODULE Listing -------------------------------
(***************************************************************************)
(* The commands that list what the server has, page by page, and what the  *)
(* printer makes of it. The kinds of command are                            *)
(*   "paged"     workflow, activity and nexus operation list                *)
(*   "cluster"   cluster list, which does not say how long pages may be     *)
(*   "batch"     batch list                                                *)
(*   "worker"    worker list, in tables of TableRows rows                   *)
(*   "iterator"  deployment list, and schedule list as text, through an     *)
(*               iterator of the SDK, in tables of TableRows rows           *)
(*   "all"       namespace list, and schedule list under JSON               *)
(*   "endpoint"  nexus endpoint list                                       *)
(* and the forms of output "text", "json" (one document that is a list) and *)
(* "jsonl" (a document for each row).                                      *)
(***************************************************************************)
EXTENDS Naturals, Sequences, SequenceOperators

CONSTANTS
  ListCommands,  \* kind, form, limit (0 for none), and the blank rows
  RowCount,      \* the rows the server has
  PageRows,      \* the most rows of a page
  TableRows      \* the rows of a table that is filled over several pages

VARIABLES
  list,    \* the command; it never changes
  at,      \* where the command is
  sent,    \* how many rows the server has sent
  more,    \* the server has given a token for the next page
  pages,   \* how many pages have come, at most 2
  page,    \* the rows of the page that are not handled yet
  table,   \* the rows of the table that is being filled
  headed,  \* a table was printed, and with it the header
  taken,   \* the rows that count for the limit
  out,     \* what was written, token by token
  status   \* how the command ended

listVars == <<list, at, sent, more, pages, page, table, headed, taken, out, status>>

Rows == 1..RowCount

\* What is written: rows, and marks between them.
Row(i) == <<"row", i>>
Mark(sign) == <<sign>>

Text == list.form = "text"
Grows == list.kind \in {"worker", "iterator"}
LimitReached == list.limit > 0 /\ taken >= list.limit

\* Pages are never asked to be longer than the limit where the request says
\* how long they may be.
AskedRows ==
  IF list.kind = "paged" /\ list.limit > 0 /\ list.limit < PageRows THEN list.limit ELSE PageRows

-----------------------------------------------------------------------------
(* The printer.                                                            *)

\* StartList and EndList write the brackets of one JSON document.
StartList == IF list.form = "json" THEN <<Mark("[")>> ELSE <<>>

EndList == IF list.form = "json" THEN <<Mark("]")>> ELSE <<>>

\* Mutant: the first document is not remembered as the first.
PrintJSON_Comma(row) == IF list.form = "json" THEN <<Mark(","), Row(row)>> ELSE <<Row(row)>>

\* printJSON: in a list that is one document, a comma goes before every row
\* but the first.
PrintJSON(row) ==
  IF list.form = "json" /\ Last(out) # Mark("[") THEN <<Mark(","), Row(row)>> ELSE <<Row(row)>>

\* PrintStructured, of a table: its header unless the options say no.
PrintTable(rows, noHeader) ==
  (IF noHeader THEN <<>> ELSE <<Mark("header")>>) \o [i \in DOMAIN rows |-> Row(rows[i])]

-----------------------------------------------------------------------------

Init ==
  /\ list \in ListCommands
  /\ at = "start" /\ sent = 0 /\ more = TRUE /\ pages = 0 /\ page = <<>> /\ table = <<>>
  /\ headed = FALSE /\ taken = 0 /\ out = <<>> /\ status = "running"

Begin ==
  /\ at = "start"
  /\ out' = StartList /\ at' = "fetch"
  /\ UNCHANGED <<list, sent, more, pages, page, table, headed, taken, status>>

\* The server sends some of the rows that are left, perhaps none. After the
\* last row there may be one more page, empty.
Fetch ==
  /\ at = "fetch"
  /\ \E n \in 0..AskedRows :
       /\ sent + n <= RowCount /\ (pages = 2 => n > 0 \/ sent = RowCount)
       /\ sent' = sent + n
       /\ page' = [i \in 1..n |-> sent + i]
       /\ more' \in (IF sent' < RowCount THEN {TRUE} ELSE IF n > 0 THEN BOOLEAN ELSE {FALSE})
       /\ pages' = (IF pages = 2 THEN 2 ELSE pages + 1)
       /\ at' = (IF list.kind = "batch" /\ pages = 0 /\ n = 0 THEN "close" ELSE "page")
       /\ status' = (IF at' = "close" THEN "ok" ELSE status)
  /\ UNCHANGED <<list, table, headed, taken, out>>

\* A page could not be read, or the command was interrupted.
FetchFails ==
  /\ at = "fetch"
  /\ at' = "close" /\ status' = "error"
  /\ UNCHANGED <<list, sent, more, pages, page, table, headed, taken, out>>

\* A worker without a heartbeat is no row, nor under JSON an empty entry.
SkipRow ==
  /\ at = "page" /\ page # <<>> /\ ~LimitReached /\ Head(page) \in list.blank
  /\ page' = Tail(page)
  /\ UNCHANGED <<list, at, sent, more, pages, table, headed, taken, out, status>>

\* A document is written at once; a row waits for its table.
TakeRow ==
  /\ at = "page" /\ page # <<>> /\ ~LimitReached /\ Head(page) \notin list.blank
  /\ page' = Tail(page) /\ taken' = taken + 1
  /\ IF Text
       THEN LET rows == Append(table, Head(page))
                full == Grows /\ Len(rows) = TableRows IN
            /\ table' = (IF full THEN <<>> ELSE rows)
            /\ headed' = (headed \/ full)
            /\ out' = (IF full THEN out \o PrintTable(rows, headed) ELSE out)
       ELSE /\ out' = out \o PrintJSON(Head(page))
            /\ UNCHANGED <<table, headed>>
  /\ UNCHANGED <<list, at, sent, more, pages, status>>

\* The loop ends without a token or at the limit, and as text nexus endpoint
\* list ends after one page.
Stops == ~more \/ LimitReached \/ (list.kind = "endpoint" /\ Text)

\* What a page leaves in its table is printed before the next one: with a
\* header on the first page, and as cards by the commands that know no limit.
EndPage ==
  /\ at = "page" /\ (page = <<>> \/ LimitReached)
  /\ page' = <<>>
  /\ IF Grows \/ ~Text \/ table = <<>>
       THEN UNCHANGED <<table, headed, out>>
       ELSE LET noHeader == pages > 1 \/ list.kind \in {"all", "endpoint"} IN
            /\ out' = out \o PrintTable(table, noHeader)
            /\ headed' = (headed \/ ~noHeader)
            /\ table' = <<>>
  /\ at' = (IF Stops THEN "rest" ELSE "fetch")
  /\ UNCHANGED <<list, sent, more, pages, taken, status>>

\* The last table of the commands that fill tables over several pages, even
\* when it has no row.
PrintRest ==
  /\ at = "rest"
  /\ IF Grows /\ Text
       THEN out' = out \o PrintTable(table, headed) /\ headed' = TRUE /\ table' = <<>>
       ELSE UNCHANGED <<out, headed, table>>
  /\ at' = "close" /\ status' = "ok"
  /\ UNCHANGED <<list, sent, more, pages, page, taken>>

\* The list is closed however the command ends; it is a deferred call.
Close ==
  /\ at = "close"
  /\ out' = out \o EndList /\ at' = "ended"
  /\ UNCHANGED <<list, sent, more, pages, page, table, headed, taken, status>>

Next ==
  \/ Begin \/ Fetch \/ FetchFails \/ SkipRow \/ TakeRow \/ EndPage \/ PrintRest \/ Close

Spec == Init /\ [][Next]_listVars

-----------------------------------------------------------------------------

TypeOK ==
  /\ at \in {"start", "fetch", "page", "rest", "close", "ended"}
  /\ sent \in 0..RowCount /\ pages \in 0..2 /\ taken \in 0..RowCount
  /\ ToSet(page) \cup ToSet(table) \subseteq Rows
  /\ more \in BOOLEAN /\ headed \in BOOLEAN
  /\ ToSet(out) \subseteq {Mark(s) : s \in {"[", "]", ",", "header"}} \cup {Row(i) : i \in Rows}
  /\ status \in {"running", "ok", "error"}

ConstantsTyped ==
  /\ RowCount \in Nat /\ PageRows \in Nat /\ TableRows \in Nat \ {0}
  /\ ListCommands \subseteq
       [kind : {"paged", "cluster", "batch", "worker", "iterator", "all", "endpoint"},
        form : {"text", "json", "jsonl"}, limit : Nat, blank : SUBSET Nat]

Printed == Filtered(out, {Row(i) : i \in Rows})
Wanted == Filtered([i \in Rows |-> Row(i)], {Row(i) : i \in Rows \ list.blank})

\* These stop early: batch list at a first page without rows, and nexus
\* endpoint list, as text, after its first page.
CutShort == (list.kind = "batch" /\ taken = 0) \/ (list.kind = "endpoint" /\ Text)

\* A list command prints the server's rows in their order, each of them once
\* and never more than its limit; when it ends well none is missing.
AllRowsInOrder ==
  /\ IsPrefix(Printed, Wanted)
  /\ list.limit > 0 => Len(Printed) <= list.limit
  /\ at = "ended" /\ status = "ok" /\ ~CutShort =>
       Len(Printed) = (IF list.limit > 0 /\ list.limit < Len(Wanted) THEN list.limit ELSE Len(Wanted))

\* Under JSON the output is one list, also when the command has failed
\* halfway: brackets around it, and one comma between any two rows.
OneJSONList ==
  at = "ended" /\ list.form = "json" =>
    LET n == Len(Printed) IN
    out = <<Mark("[")>> \o [i \in 1..(IF n = 0 THEN 0 ELSE 2 * n - 1) |->
                        IF i % 2 = 1 THEN Printed[(i + 1) \div 2] ELSE Mark(",")] \o <<Mark("]")>>

\* A header stands above all rows, and the tables that are filled over several
\* pages do not go without it.
OneHeader ==
  /\ \A i \in DOMAIN out : out[i] = Mark("header") => i = 1
  /\ Text /\ Grows /\ Printed # <<>> => out[1] = Mark("header")

\* What a list command has written can be read: its rows, its list and its
\* header are as above at every moment.
ReadableList == AllRowsInOrder /\ OneJSONList /\ OneHeader
==============================================================================
