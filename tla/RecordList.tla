------------------------------ MODULE RecordList ------------------------------
(***************************************************************************)
(* The list of records of the terminal interface: recordWorkspace of       *)
(* internal/client/tui/record_workspace.go, with the results, keys, clicks *)
(* and changes of the window that its callers apply to it.                 *)
(*                                                                         *)
(* Indices start at 0, as in the code; the record with index i is          *)
(* records[i + 1].  Which results may come when is in Tui: here they come  *)
(* at any time that no path picker is open (it opens only when nothing is  *)
(* pending).                                                               *)
(***************************************************************************)
EXTENDS Integers, SequencesExt

CONSTANTS
  Records,      \* identifiers of records
  NoRecord,
  Pages,        \* the rows that windows of different heights have for records
  MaxLength     \* bound on the length of a list

ASSUME RecordListAssumption ==
  /\ NoRecord \notin Records
  /\ Pages \subseteq Nat \ {0}
  /\ MaxLength \in Nat

VARIABLES
  list,         \* the recordWorkspace
  page,         \* rows for records, of the height of the window
  picker,       \* a path picker covers the list
  click,        \* index and record of the last click, until a second may follow
  unseen        \* history: the window has changed below a picker, the list has not

vars == <<list, page, picker, click, unseen>>

Workspaces == [source : {"server", "cache", "none"}, open : BOOLEAN,
               state : {"idle", "loading", "ready", "failed"},
               records : Seq(Records), selected : Nat, offset : Nat]

NoClick == [index |-> 0, id |-> NoRecord]

\* clear.
Closed == [source |-> "none", open |-> FALSE, state |-> "idle", records |-> <<>>,
           selected |-> 0, offset |-> 0]

\* The list that the Server or the cache gives: no record twice.
Lists == {s \in SeqOf(Records, MaxLength) : IsInjective(s)}

-----------------------------------------------------------------------------
Clamp(i, low, high) == IF i < low THEN low ELSE IF i > high THEN high ELSE i

LastRow(records) == Len(records) - 1

AtLeast0(i) == IF i < 0 THEN 0 ELSE i

\* Mutation: a list that has become shorter leaves a blank tail.
EnsureVisibleNoTail(selected, offset, length, rows) ==
  LET up == IF selected < offset THEN selected ELSE offset
  IN IF selected >= up + rows THEN selected - rows + 1 ELSE up

\* ensureVisible: the offset from which the selected row is on the page.
EnsureVisible(selected, offset, length, rows) ==
  LET up == IF selected < offset THEN selected ELSE offset
      down == IF selected >= up + rows THEN selected - rows + 1 ELSE up
  IN Clamp(down, 0, AtLeast0(length - rows))

\* The workspace with these records, the row selected on the page.
Shown(w, records, selected) ==
  [w EXCEPT !.records = records, !.selected = selected,
            !.offset = EnsureVisible(selected, w.offset, Len(records), page)]

\* The workspace when its rows have come, or when one has gone.
Loaded(w, records, selected) ==
  [IF records = <<>> THEN [w EXCEPT !.records = <<>>, !.selected = 0, !.offset = 0]
     ELSE Shown(w, records, Clamp(selected, 0, LastRow(records)))
   EXCEPT !.state = "ready"]

Row(records, id) == CHOOSE i \in 0 .. Len(records) - 1 : records[i + 1] = id

\* hasSelection and selectedRecord.
Selected(w) ==
  IF w.state = "ready" /\ w.selected < Len(w.records) THEN w.records[w.selected + 1] ELSE NoRecord

-----------------------------------------------------------------------------
\* What a result or a key of the list leaves alone; it forgets the click.
Quiet == ~ picker /\ click' = NoClick /\ UNCHANGED <<page, picker>>

\* beginServer: a list of the Server that is shown stays until the new one comes.
BeginServer ==
  /\ Quiet /\ UNCHANGED unseen
  /\ list' = [IF list.source = "server" /\ list.state = "ready" THEN list
                ELSE [Closed EXCEPT !.state = "loading"]
              EXCEPT !.source = "server", !.open = TRUE]

\* handleCacheOpenResult: beginCache, and apply to the empty list it leaves.
OpenCache(records) ==
  /\ Quiet /\ ~ list.open /\ unseen' = FALSE
  /\ list' = Loaded([Closed EXCEPT !.source = "cache", !.open = TRUE], records, 0)

\* Mutation: the same row stays selected, whatever record is there now.
ApplyByRow(records) ==
  /\ Quiet /\ list.open /\ list.source = "server" /\ unseen' = FALSE
  /\ list' = Loaded(list, records, list.selected)

\* Mutation: a click before the refresh counts after it.
ApplyKeepsClick(records) ==
  /\ ~ picker /\ list.open /\ list.source = "server" /\ unseen' = FALSE
  /\ UNCHANGED <<page, picker, click>>
  /\ list' = Loaded(list, records, list.selected)

Has(records, id) == \E i \in 0 .. LastRow(records) : records[i + 1] = id

\* apply: the selected record stays selected, or else its row.
Apply(records) ==
  /\ Quiet /\ list.open /\ list.source = "server" /\ unseen' = FALSE
  /\ list' = Loaded(list, records, IF Has(records, Selected(list))
                                     THEN Row(records, Selected(list)) ELSE list.selected)

\* Mutation: a record that was changed is in the list twice.
ToFrontTwice(records, id) == <<id>> \o records

\* The records with id, if it is there, moved to the front.
ToFront(records, id) ==
  <<id>> \o (IF Has(records, id) THEN RemoveAt(records, Row(records, id) + 1) ELSE records)

\* prepend: a record that was created or changed is the first row, and selected.
Prepend(id) ==
  /\ Quiet /\ unseen' = FALSE
  /\ LET w == [list EXCEPT !.source = "server", !.open = TRUE, !.state = "ready", !.offset = 0]
     IN IF list.state = "ready"
          THEN list' = Shown(w, ToFront(list.records, id), 0)
          ELSE list' = [w EXCEPT !.records = <<id>>, !.selected = 0]

\* remove: the row after it moves up.
Drop(i) ==
  /\ Quiet /\ i < Len(list.records) /\ unseen' = FALSE
  /\ list' = Loaded(list, RemoveAt(list.records, i + 1), list.selected)

\* handleRecordListResult: a list that is shown survives a failure.
Fail ==
  /\ Quiet /\ list.open /\ list.state # "ready" /\ UNCHANGED unseen
  /\ list' = [list EXCEPT !.state = "failed", !.records = <<>>, !.selected = 0, !.offset = 0]

\* clear, also by a logout that ends while the picker is open.
Close ==
  /\ list' = Closed /\ click' = NoClick /\ picker' = FALSE /\ unseen' = FALSE
  /\ UNCHANGED page

\* move and moveTo: the row i, or the nearest one.
Goto(i) ==
  IF list.records = <<>> THEN list' = [list EXCEPT !.selected = 0, !.offset = 0]
  ELSE list' = Shown(list, list.records, Clamp(i, 0, LastRow(list.records)))

\* Up, Down, Page Up and Page Down.
Move ==
  /\ Quiet /\ list.open /\ unseen' = FALSE
  /\ \E step \in {-1, 1, -page, page} : Goto(list.selected + step)

\* Home and End keep the click.
MoveTo ==
  /\ ~ picker /\ list.open /\ unseen' = FALSE
  /\ Goto(0) \/ Goto(LastRow(list.records))
  /\ UNCHANGED <<page, picker, click>>

\* updateRecordWorkspaceMouse with registerClick: quick is within 350 ms of the last.
Click(i, quick) ==
  /\ ~ picker /\ list.open /\ list.state = "ready" /\ unseen' = FALSE
  /\ i >= list.offset /\ i < list.offset + page /\ i < Len(list.records)
  /\ click' = IF click # NoClick /\ click.index = i /\ quick THEN NoClick
                ELSE [index |-> i, id |-> list.records[i + 1]]
  /\ UNCHANGED <<page, picker>>
  /\ Goto(i)

\* A path picker opens over the list, or closes.
Picker == picker' = ~ picker /\ UNCHANGED <<list, page, click, unseen>>

\* updateWindowSize: below a picker, the list is left as it is.
Resize(p) ==
  /\ page' = p
  /\ IF list.open /\ ~ picker
       THEN /\ list' = [list EXCEPT !.offset = EnsureVisible(list.selected, @, Len(list.records), p)]
            /\ unseen' = FALSE
       ELSE unseen' = picker /\ UNCHANGED list
  /\ UNCHANGED <<picker, click>>

-----------------------------------------------------------------------------
\* The zero recordWorkspace: source is recordSourceServer.
Init ==
  /\ list = [Closed EXCEPT !.source = "server"]
  /\ page \in Pages
  /\ picker = FALSE
  /\ click = NoClick
  /\ unseen = FALSE

Next ==
  \/ BeginServer \/ Fail \/ Close \/ Move \/ MoveTo \/ Picker
  \/ \E records \in Lists : Apply(records) \/ OpenCache(records)
  \/ \E id \in Records : Len(list.records) < MaxLength /\ Prepend(id)
  \/ \E i \in 0 .. LastRow(list.records) : Drop(i) \/ \E quick \in BOOLEAN : Click(i, quick)
  \/ \E p \in Pages : Resize(p)

Spec == Init /\ [][Next]_vars

-----------------------------------------------------------------------------
(***************************************************************************)
(* Every variable has its type, and no record is in the list twice.        *)
(***************************************************************************)
TypeOK ==
  /\ list \in Workspaces
  /\ IsInjective(list.records)
  /\ page \in Pages
  /\ picker \in BOOLEAN
  /\ click \in [index : Nat, id : Records \cup {NoRecord}]
  /\ unseen \in BOOLEAN

\* The selected row is on the page, and the page has no blank rows it could fill.
OnPage ==
  /\ list.offset <= list.selected
  /\ list.selected < list.offset + page
  /\ list.offset > 0 => list.offset + page <= Len(list.records)

(***************************************************************************)
(* Whatever is loaded, saved, deleted or resized, the row that Enter and   *)
(* Delete act on is one the user can see, until the window changes below a *)
(* path picker (ensureVisible, and its callers that clamp selected).       *)
(***************************************************************************)
SelectionVisible ==
  /\ list.selected = 0 \/ list.selected < Len(list.records)
  /\ ~ unseen => OnPage

(***************************************************************************)
(* A double click opens the record that was under both clicks: what is     *)
(* remembered of a click is true of the list now, although rows may have   *)
(* come and gone between the two (clearClick).                             *)
(***************************************************************************)
ClickIsCurrent ==
  click # NoClick => click.index < Len(list.records) /\ list.records[click.index + 1] = click.id

(***************************************************************************)
(* A refresh does not move the selection to another record while the one   *)
(* that was selected is still there (apply).                               *)
(***************************************************************************)
RefreshKeepsSelection ==
  [][LET records == list'.records
         id == Selected(list)
     IN Apply(records) /\ Has(records, id) => Selected(list') = id]_vars
=============================================================================
