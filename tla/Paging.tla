------------------------------- MODULE Paging -------------------------------
(***************************************************************************)
(* A list read page by page: clamp_limit, the cursor and `paginate`        *)
(* (paging.py), the lists that fetch one row more than a page (tasks,      *)
(* activity) and the one the API serves by page number (assets).           *)
(*                                                                         *)
(* The agent may pass another `limit` with every cursor.  Between two      *)
(* pages rows may be added in front, as in a list that is newest first,    *)
(* and rows may go.  A cursor is opaque to the agent and carries an        *)
(* offset, so the model keeps the offset.                                  *)
(***************************************************************************)
EXTENDS Integers, Sequences

CONSTANTS Rows, None,
          Styles,       \* how the list is read: "memory", "extra", "pages"
          Limits,       \* the limits an agent passes, None for no limit
          PagesLimits,  \* those it passes while it reads by page number
          DEFAULT_LIMIT, MAX_LIMIT

ASSUME LimitsAssumption ==
  /\ DEFAULT_LIMIT \in Nat \ {0} /\ MAX_LIMIT \in Nat \ {0} /\ DEFAULT_LIMIT <= MAX_LIMIT
  /\ Limits \subseteq (Nat \ {0}) \cup {None} /\ None \notin Int
  /\ PagesLimits \subseteq Limits
  /\ Styles \subseteq {"memory", "extra", "pages"}

VARIABLES
  style,
  list,      \* the rows the API has, in order
  cursor,    \* offset of the page to read, None after next_cursor = null
  start,     \* rows that were there when the first page was asked for
  seen,      \* rows the agent has been given since
  repeated,  \* whether it has been given one of them twice
  added, removed  \* what happened to the list since

vars == <<style, list, cursor, start, seen, repeated, added, removed>>

RowsOf(s) == {s[k] : k \in 1 .. Len(s)}

TypeOK ==
  /\ style \in Styles
  /\ list \in Seq(Rows)
  /\ cursor \in Nat \cup {None}
  /\ start \subseteq Rows /\ seen \subseteq Rows
  /\ repeated \in BOOLEAN /\ added \in BOOLEAN /\ removed \in BOOLEAN

Init ==
  /\ style \in Styles
  /\ list = <<>>
  /\ cursor = None
  /\ start = {} /\ seen = {}
  /\ repeated = FALSE /\ added = FALSE /\ removed = FALSE

-----------------------------------------------------------------------------
\* clamp_limit, for a limit of at least 1.
Clamp(limit) ==
  IF limit = None THEN DEFAULT_LIMIT
  ELSE IF limit < MAX_LIMIT THEN limit ELSE MAX_LIMIT

Least(a, b) == IF a < b THEN a ELSE b

\* rows[from : from + size]
Slice(from, size) == SubSeq(list, from + 1, Least(from + size, Len(list)))

\* Mutant: the extra row is shown too.
MoreRows(offset, size) ==
  CASE style = "pages" -> Slice((offset \div size) * size, size)
    [] style = "extra" -> Slice(offset, size + 1)
    [] style = "memory" -> Slice(offset, size)

\* Mutant: the API's page numbers are taken to start at 0.
PagesFromZero(offset, size) ==
  IF style = "pages" THEN Slice(IF offset < size THEN 0 ELSE offset - size, size)
  ELSE Slice(offset, size)

\* The rows a call answers with.
PageRows(offset, size) ==
  IF style = "pages" THEN Slice((offset \div size) * size, size)  \* page offset // size + 1
  ELSE Slice(offset, size)

\* Mutant: a page back.
NextOnePageBack(offset, size) ==
  IF offset + size < Len(list) THEN offset - size ELSE None

\* Mutant: the cursor stays where the page began.
NextFromPageStart(offset, size) ==
  IF offset + size < Len(list) THEN offset ELSE None

\* next_cursor: "extra" tells from the row it fetched beyond the page whether
\* there is another, the others from the total.
NextCursor(offset, size) ==
  LET next == IF style = "extra" THEN offset + size ELSE offset + Len(PageRows(offset, size)) IN
  IF next < Len(list) THEN next ELSE None

Read(offset, limit) ==
  LET page == RowsOf(PageRows(offset, Clamp(limit))) IN
  /\ cursor' = NextCursor(offset, Clamp(limit))
  /\ IF offset = 0
     THEN seen' = page /\ repeated' = FALSE
     ELSE seen' = seen \cup page /\ repeated' = (repeated \/ seen \cap page # {})
  /\ UNCHANGED <<style, list>>

\* A call without a cursor, whatever became of an earlier reading.
FirstPage(limit) ==
  /\ Read(0, limit)
  /\ start' = RowsOf(list) /\ added' = FALSE /\ removed' = FALSE

\* "pass `next_cursor` back as `cursor`"
NextPage(limit) ==
  /\ cursor # None
  /\ Read(cursor, limit)
  /\ UNCHANGED <<start, added, removed>>

-----------------------------------------------------------------------------
(* The list changes between two pages (external) *)

AddRow(r) ==
  /\ r \in Rows \ (RowsOf(list) \cup start \cup seen)
  /\ list' = <<r>> \o list
  /\ added' = TRUE
  /\ UNCHANGED <<style, cursor, start, seen, repeated, removed>>

RemoveRow(k) ==
  /\ k \in 1 .. Len(list)
  /\ list' = SubSeq(list, 1, k - 1) \o SubSeq(list, k + 1, Len(list))
  /\ removed' = TRUE
  /\ UNCHANGED <<style, cursor, start, seen, repeated, added>>

-----------------------------------------------------------------------------
Next ==
  \/ \E limit \in IF style = "pages" THEN PagesLimits ELSE Limits :
       FirstPage(limit) \/ NextPage(limit)
  \/ \E r \in Rows : AddRow(r)
  \/ \E k \in 1 .. Len(list) : RemoveRow(k)

Spec == Init /\ [][Next]_vars

-----------------------------------------------------------------------------
(* Properties *)

\* "a list isn't complete while `next_cursor` is not null" (instructions), and then
\* it is: whoever reads to the end has been given every row that was there from the
\* start, whatever limits it passed and whatever was added in front meanwhile.
Complete == cursor = None /\ ~removed => start \cap RowsOf(list) \subseteq seen

\* The same of a list that does not change at all while it is read.
CompleteIfUnchanged == cursor = None /\ ~removed /\ ~added => start \subseteq seen

\* Reading a list to which nothing is added gives no row twice.
NoRepeats == repeated => added

\* Every cursor is further on than the one before, so reading comes to an end.
Advances ==
  [][\A limit \in Limits : NextPage(limit) => cursor' = None \/ cursor' > cursor]_vars
=============================================================================
