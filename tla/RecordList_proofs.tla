--------------------------- MODULE RecordList_proofs ---------------------------
(***************************************************************************)
(* Theorems about RecordList, for lists of any length and windows of any   *)
(* heights.                                                                *)
(***************************************************************************)
EXTENDS RecordList, SequenceTheorems, TLAPS

(***************************************************************************)
(* The inductive invariant.  A list that is closed is empty, so that a     *)
(* change of the window may pass it by; a list that is open keeps its      *)
(* selected row on the page, but for a change that it has not seen.        *)
(***************************************************************************)
Visible(w, rows) ==
  /\ w.offset <= w.selected
  /\ w.selected < w.offset + rows
  /\ w.offset > 0 => w.offset + rows <= Len(w.records)

Proper(w) ==
  /\ w \in Workspaces
  /\ IsInjective(w.records)
  /\ w.selected = 0 \/ w.selected < Len(w.records)
  /\ ~ w.open => w.records = <<>> /\ w.selected = 0 /\ w.offset = 0

IInv ==
  /\ Proper(list)
  /\ page \in Pages /\ picker \in BOOLEAN /\ unseen \in BOOLEAN
  /\ click \in [index : Nat, id : Records \cup {NoRecord}]
  /\ ~ unseen => Visible(list, page)
  /\ ClickIsCurrent

-----------------------------------------------------------------------------
\* ensureVisible brings the selected row on the page and leaves no blank rows.
LEMMA EnsureVisibleRange ==
  ASSUME NEW selected \in Nat, NEW offset \in Nat, NEW length \in Nat, NEW rows \in Nat \ {0},
         selected = 0 \/ selected < length
  PROVE  LET n == EnsureVisible(selected, offset, length, rows)
         IN /\ n \in Nat /\ n <= selected /\ selected < n + rows
            /\ n > 0 => n + rows <= length
BY DEF EnsureVisible, Clamp, AtLeast0

LEMMA ShownFits ==
  ASSUME NEW w \in Workspaces, w.open, page \in Nat \ {0},
         NEW records \in Seq(Records), IsInjective(records),
         NEW selected \in Nat, selected = 0 \/ selected < Len(records)
  PROVE  /\ Proper(Shown(w, records, selected))
         /\ Visible(Shown(w, records, selected), page)
         /\ Shown(w, records, selected).records = records
         /\ Shown(w, records, selected).selected = selected
         /\ Shown(w, records, selected).state = w.state
         /\ Shown(w, records, selected).open
<1> DEFINE n == EnsureVisible(selected, w.offset, Len(records), page)
<1>0. w.offset \in Nat /\ Len(records) \in Nat
  BY DEF Workspaces
<1>1. /\ n \in Nat /\ n <= selected /\ selected < n + page
      /\ n > 0 => n + page <= Len(records)
  BY <1>0, EnsureVisibleRange
<1> HIDE DEF n
<1>2. Shown(w, records, selected) =
        [w EXCEPT !.records = records, !.selected = selected, !.offset = n]
  BY DEF Shown, n
<1>3. QED
  BY <1>1, <1>2 DEF Proper, Visible, Workspaces

LEMMA LoadedFits ==
  ASSUME NEW w \in Workspaces, w.open, page \in Nat \ {0},
         NEW records \in Seq(Records), IsInjective(records), NEW selected \in Int
  PROVE  /\ Proper(Loaded(w, records, selected))
         /\ Visible(Loaded(w, records, selected), page)
         /\ Loaded(w, records, selected).records = records
         /\ Loaded(w, records, selected).state = "ready"
         /\ selected \in 0 .. LastRow(records) => Loaded(w, records, selected).selected = selected
<1>1. CASE records = <<>>
  <2>1. Loaded(w, records, selected) =
          [w EXCEPT !.records = records, !.selected = 0, !.offset = 0, !.state = "ready"]
    BY <1>1 DEF Loaded, Workspaces
  <2> DEFINE v == Loaded(w, records, selected)
  <2> HIDE DEF v
  <2>2. v = [w EXCEPT !.records = records, !.selected = 0, !.offset = 0, !.state = "ready"]
    BY <2>1 DEF v
  <2>3. /\ v \in Workspaces /\ v.records = records /\ v.selected = 0 /\ v.offset = 0
        /\ v.state = "ready" /\ v.open
    BY <2>2 DEF Workspaces
  <2>4. LastRow(records) = -1
    BY <1>1 DEF LastRow
  <2>5. Proper(v) /\ Visible(v, page) /\ selected \notin 0 .. LastRow(records)
    BY <2>3, <2>4 DEF Proper, Visible
  <2>6. QED
    BY <2>3, <2>5 DEF v
<1>2. CASE records # <<>>
  <2> DEFINE n == Clamp(selected, 0, LastRow(records))
             v == Shown(w, records, n)
  <2>1. Len(records) \in Nat \ {0}
    BY <1>2
  <2>2. n \in Nat /\ n < Len(records) /\ (selected \in 0 .. LastRow(records) => n = selected)
    BY <2>1 DEF Clamp, LastRow
  <2>3. /\ Proper(v) /\ Visible(v, page) /\ v.records = records /\ v.selected = n
    BY <2>2, ShownFits
  <2>4. Loaded(w, records, selected) = [v EXCEPT !.state = "ready"]
    BY <1>2 DEF Loaded
  <2> HIDE DEF n, v
  <2>5. QED
    BY <2>2, <2>3, <2>4 DEF Proper, Visible, Workspaces
<1>3. QED
  BY <1>1, <1>2

\* The row of a record that is there.
LEMMA RowOfRecord ==
  ASSUME NEW records \in Seq(Records), NEW id, Has(records, id)
  PROVE  Row(records, id) \in 0 .. LastRow(records) /\ records[Row(records, id) + 1] = id
BY DEF Has, Row, LastRow

LEMMA RemoveAtKeeps ==
  ASSUME NEW records \in Seq(Records), IsInjective(records), NEW n \in 1 .. Len(records)
  PROVE  /\ RemoveAt(records, n) \in Seq(Records)
         /\ Len(RemoveAt(records, n)) = Len(records) - 1
         /\ \A k \in 1 .. Len(records) - 1 :
              RemoveAt(records, n)[k] = IF k < n THEN records[k] ELSE records[k + 1]
         /\ IsInjective(RemoveAt(records, n))
<1> DEFINE s == RemoveAt(records, n)
<1>1. s = SubSeq(records, 1, n - 1) \o SubSeq(records, n + 1, Len(records))
  BY DEF RemoveAt
<1> DEFINE front == SubSeq(records, 1, n - 1)
           back == SubSeq(records, n + 1, Len(records))
<1>2. Len(records) \in Nat /\ \A k \in 1 .. Len(records) : records[k] \in Records
  BY ElementOfSeq
<1>3. /\ front \in Seq(Records) /\ Len(front) = n - 1
      /\ \A k \in 1 .. n - 1 : front[k] = records[k]
  <2>1. \A k \in 1 .. n - 1 : records[k] \in Records
    BY <1>2
  <2>2. n \in Int /\ n >= 1
    OBVIOUS
  <2>3. /\ front \in Seq(Records)
        /\ Len(front) = IF 1 <= n - 1 THEN (n - 1) - 1 + 1 ELSE 0
        /\ \A k \in 1 .. (n - 1) - 1 + 1 : front[k] = records[1 + k - 1]
    BY <2>1, <2>2, SubSeqProperties
  <2>4. QED
    BY <2>2, <2>3
<1>4. /\ back \in Seq(Records) /\ Len(back) = Len(records) - n
      /\ \A k \in 1 .. Len(records) - n : back[k] = records[n + k]
  <2>1. \A k \in n + 1 .. Len(records) : records[k] \in Records
    BY <1>2
  <2>2. n \in Int /\ n >= 1 /\ n <= Len(records)
    BY <1>2
  <2>3. /\ back \in Seq(Records)
        /\ Len(back) = IF n + 1 <= Len(records) THEN Len(records) - (n + 1) + 1 ELSE 0
        /\ \A k \in 1 .. Len(records) - (n + 1) + 1 : back[k] = records[(n + 1) + k - 1]
    BY <1>2, <2>1, <2>2, SubSeqProperties
  <2>4. QED
    BY <1>2, <2>2, <2>3
<1> HIDE DEF front, back
<1>5. /\ s \in Seq(Records) /\ Len(s) = Len(front) + Len(back)
      /\ \A k \in 1 .. Len(front) + Len(back) :
           s[k] = IF k <= Len(front) THEN front[k] ELSE back[k - Len(front)]
  <2>1. s = front \o back
    BY <1>1 DEF front, back
  <2> HIDE DEF s
  <2>2. /\ front \o back \in Seq(Records) /\ Len(front \o back) = Len(front) + Len(back)
        /\ \A k \in 1 .. Len(front) + Len(back) :
             (front \o back)[k] = IF k <= Len(front) THEN front[k] ELSE back[k - Len(front)]
    BY <1>3, <1>4, ConcatProperties
  <2>3. QED
    BY <2>1, <2>2
<1> HIDE DEF s
<1>6. Len(s) = Len(records) - 1
  BY <1>2, <1>3, <1>4, <1>5
<1>7. ASSUME NEW k \in 1 .. Len(records) - 1
      PROVE  s[k] = IF k < n THEN records[k] ELSE records[k + 1]
  <2>1. n \in Int /\ k \in Int /\ k \in 1 .. Len(front) + Len(back)
    BY <1>2, <1>3, <1>4
  <2>2. CASE k < n
    BY <1>2, <1>3, <1>5, <2>1, <2>2
  <2>3. CASE k >= n
    <3>1. k - (n - 1) \in 1 .. Len(records) - n /\ ~ (k <= Len(front))
      BY <1>2, <1>3, <2>1, <2>3
    <3>2. s[k] = back[k - (n - 1)]
      BY <1>3, <1>5, <2>1, <3>1
    <3>3. back[k - (n - 1)] = records[n + (k - (n - 1))]
      BY <1>4, <3>1
    <3>4. n + (k - (n - 1)) = k + 1
      BY <2>1
    <3>5. QED
      BY <2>1, <2>3, <3>2, <3>3, <3>4
  <2>4. QED
    BY <2>1, <2>2, <2>3
<1>8. IsInjective(s)
  <2> SUFFICES ASSUME NEW i \in 1 .. Len(s), NEW j \in 1 .. Len(s), s[i] = s[j]
               PROVE  i = j
    BY <1>5 DEF IsInjective
  <2> DEFINE at(k) == IF k < n THEN k ELSE k + 1
  <2>1. i \in 1 .. Len(records) - 1 /\ j \in 1 .. Len(records) - 1
    BY <1>6
  <2>2. records[at(i)] = records[at(j)]
    BY <1>7, <2>1
  <2>3. at(i) \in 1 .. Len(records) /\ at(j) \in 1 .. Len(records)
    BY <1>2, <2>1
  <2>4. at(i) = at(j)
    BY <2>2, <2>3 DEF IsInjective
  <2>5. QED
    BY <2>1, <2>4
<1>9. QED
  BY <1>5, <1>6, <1>7, <1>8 DEF s

LEMMA ToFrontKeeps ==
  ASSUME NEW records \in Seq(Records), IsInjective(records), NEW id \in Records
  PROVE  /\ ToFront(records, id) \in Seq(Records)
         /\ IsInjective(ToFront(records, id))
         /\ Len(ToFront(records, id)) > 0
<1> DEFINE rest == IF Has(records, id) THEN RemoveAt(records, Row(records, id) + 1) ELSE records
<1>1. rest \in Seq(Records) /\ IsInjective(rest) /\ \A k \in 1 .. Len(rest) : rest[k] # id
  <2>1. CASE Has(records, id)
    <3> DEFINE n == Row(records, id) + 1
    <3>1. n \in 1 .. Len(records) /\ records[n] = id
      BY <2>1, RowOfRecord DEF LastRow
    <3> HIDE DEF n
    <3>2. /\ RemoveAt(records, n) \in Seq(Records)
          /\ Len(RemoveAt(records, n)) = Len(records) - 1
          /\ \A k \in 1 .. Len(records) - 1 :
               RemoveAt(records, n)[k] = IF k < n THEN records[k] ELSE records[k + 1]
          /\ IsInjective(RemoveAt(records, n))
      BY <3>1, RemoveAtKeeps
    <3>3. rest = RemoveAt(records, n)
      BY <2>1 DEF n
    <3>4. \A k \in 1 .. Len(records) - 1 : RemoveAt(records, n)[k] # id
      BY <3>1, <3>2 DEF IsInjective
    <3>5. QED
      BY <3>2, <3>3, <3>4
  <2>2. CASE ~ Has(records, id)
    <3>1. \A k \in 1 .. Len(records) : (k - 1) \in 0 .. LastRow(records) /\ (k - 1) + 1 = k
      BY DEF LastRow
    <3>2. \A k \in 1 .. Len(records) : records[k] # id
      BY <2>2, <3>1 DEF Has
    <3>3. QED
      BY <2>2, <3>2
  <2>3. QED
    BY <2>1, <2>2
<1> HIDE DEF rest
<1>2. ToFront(records, id) = <<id>> \o rest
  BY DEF ToFront, rest
<1>3. /\ <<id>> \o rest \in Seq(Records) /\ Len(<<id>> \o rest) = Len(rest) + 1
      /\ (<<id>> \o rest)[1] = id
      /\ \A k \in 2 .. Len(rest) + 1 : (<<id>> \o rest)[k] = rest[k - 1]
  BY <1>1
<1>4. IsInjective(<<id>> \o rest)
  BY <1>1, <1>3 DEF IsInjective
<1>5. QED
  BY <1>1, <1>2, <1>3, <1>4

\* What the Server or the cache gives.
LEMMA ListTypes ==
  ASSUME NEW records \in Lists
  PROVE  records \in Seq(Records) /\ IsInjective(records)
BY DEF Lists, SeqOf

LEMMA PageTypes ==
  ASSUME IInv
  PROVE  page \in Nat \ {0}
BY RecordListAssumption DEF IInv

\* A result or a key after which the click is forgotten and the row is visible.
LEMMA QuietKeeps ==
  ASSUME IInv, Quiet, Proper(list'), Visible(list', page), unseen' \in BOOLEAN
  PROVE  IInv'
BY DEF IInv, Quiet, NoClick, ClickIsCurrent

\* A list without rows has nothing to scroll.
LEMMA EmptyFits ==
  ASSUME NEW w \in Workspaces, w.records = <<>>, w.selected = 0, w.offset = 0,
         NEW rows \in Nat \ {0}
  PROVE  Proper(w) /\ Visible(w, rows)
<1>1. Len(w.records) = 0 /\ IsInjective(w.records)
  BY DEF IsInjective
<1>2. QED
  BY <1>1 DEF Proper, Visible

\* What is made of Closed.
LEMMA ClosedFits ==
  ASSUME NEW source \in {"server", "cache", "none"}, NEW open \in BOOLEAN,
         NEW state \in {"idle", "loading", "ready", "failed"}, NEW w,
         w = [source |-> source, open |-> open, state |-> state, records |-> <<>>,
              selected |-> 0, offset |-> 0]
  PROVE  w \in Workspaces /\ w.records = <<>> /\ w.selected = 0 /\ w.offset = 0 /\ w.open = open
<1>1. <<>> \in Seq(Records)
  OBVIOUS
<1>2. QED
  BY <1>1 DEF Workspaces

-----------------------------------------------------------------------------
LEMMA BeginServerInvariant == IInv /\ BeginServer => IInv'
<1> SUFFICES ASSUME IInv, BeginServer PROVE IInv'
  OBVIOUS
<1>1. CASE list.source = "server" /\ list.state = "ready"
  <2>1. list' = [list EXCEPT !.source = "server", !.open = TRUE]
    BY <1>1 DEF BeginServer
  <2>2. list \in Workspaces
    BY DEF IInv, Proper
  <2>3. /\ list' \in Workspaces /\ list'.open /\ list'.records = list.records
        /\ list'.selected = list.selected /\ list'.offset = list.offset
    BY <2>1, <2>2 DEF Workspaces
  <2>4. Proper(list') /\ (Visible(list, page) => Visible(list', page))
    BY <2>3 DEF IInv, Proper, Visible
  <2>5. page' = page /\ picker' = picker /\ unseen' = unseen /\ click' = NoClick
    BY DEF BeginServer, Quiet
  <2>6. ClickIsCurrent' /\ click' \in [index : Nat, id : Records \cup {NoRecord}]
    BY <2>5 DEF ClickIsCurrent, NoClick
  <2>7. QED
    BY <2>4, <2>5, <2>6 DEF IInv
<1>2. CASE ~ (list.source = "server" /\ list.state = "ready")
  <2>1. list' = [source |-> "server", open |-> TRUE, state |-> "loading", records |-> <<>>,
                 selected |-> 0, offset |-> 0]
    BY <1>2 DEF BeginServer, Closed
  <2>2. Proper(list') /\ Visible(list', page)
    BY <2>1, ClosedFits, EmptyFits, PageTypes
  <2>3. QED
    BY <2>2, QuietKeeps DEF BeginServer, IInv
<1>3. QED
  BY <1>1, <1>2

LEMMA OpenCacheInvariant ==
  ASSUME IInv, NEW records \in Lists, OpenCache(records)
  PROVE  IInv'
<1> DEFINE w == [source |-> "cache", open |-> TRUE, state |-> "idle", records |-> <<>>,
                 selected |-> 0, offset |-> 0]
<1>1. w \in Workspaces /\ w.open
  BY ClosedFits
<1> HIDE DEF w
<1>2. Proper(Loaded(w, records, 0)) /\ Visible(Loaded(w, records, 0), page)
  BY <1>1, PageTypes, ListTypes, LoadedFits
<1>3. list' = Loaded(w, records, 0)
  <2>1. PICK v : v = [Closed EXCEPT !.source = "cache", !.open = TRUE]
    OBVIOUS
  <2>2. v = w
    BY <2>1 DEF Closed, w
  <2>3. QED
    BY <2>1, <2>2 DEF OpenCache
<1>4. QED
  BY <1>2, <1>3, QuietKeeps DEF OpenCache

LEMMA ApplyInvariant ==
  ASSUME IInv, NEW records \in Lists, Apply(records)
  PROVE  IInv'
<1>1. list \in Workspaces /\ list.open /\ list.selected \in Int
  BY DEF IInv, Proper, Apply, Workspaces
<1>2. PICK n \in Int : list' = Loaded(list, records, n)
  BY <1>1, ListTypes, RowOfRecord DEF Apply
<1>3. Proper(list') /\ Visible(list', page)
  BY <1>1, <1>2, PageTypes, ListTypes, LoadedFits
<1>4. QED
  BY <1>3, QuietKeeps DEF Apply

LEMMA PrependInvariant ==
  ASSUME IInv, NEW id \in Records, Prepend(id)
  PROVE  IInv'
<1> DEFINE w == [list EXCEPT !.source = "server", !.open = TRUE, !.state = "ready", !.offset = 0]
           new == ToFront(list.records, id)
<1>1. list \in Workspaces /\ list.records \in Seq(Records) /\ IsInjective(list.records)
  BY DEF IInv, Proper, Workspaces
<1>2. w \in Workspaces /\ w.open
  BY <1>1 DEF Workspaces
<1>3. CASE list.state = "ready"
  <2>1. list' = Shown(w, new, 0)
    BY <1>3 DEF Prepend
  <2>2. new \in Seq(Records) /\ IsInjective(new)
    BY <1>1, ToFrontKeeps
  <2> HIDE DEF w, new
  <2>3. Proper(list') /\ Visible(list', page)
    BY <1>2, <2>1, <2>2, PageTypes, ShownFits
  <2>4. QED
    BY <2>3, QuietKeeps DEF Prepend
<1>4. CASE list.state # "ready"
  <2>1. list' = [w EXCEPT !.records = <<id>>, !.selected = 0]
    BY <1>4 DEF Prepend
  <2>2. <<id>> \in Seq(Records) /\ IsInjective(<<id>>)
    BY DEF IsInjective
  <2>3. w.offset = 0
    BY <1>1 DEF Workspaces
  <2> HIDE DEF w
  <2>4. /\ list' \in Workspaces /\ list'.open /\ list'.records = <<id>>
        /\ list'.selected = 0 /\ list'.offset = 0
    BY <1>2, <2>1, <2>2, <2>3 DEF Workspaces
  <2>5. Proper(list') /\ Visible(list', page)
    BY <2>2, <2>4, PageTypes DEF Proper, Visible
  <2>6. QED
    BY <2>5, QuietKeeps DEF Prepend
<1>5. QED
  BY <1>3, <1>4

LEMMA DropInvariant ==
  ASSUME IInv, NEW i \in 0 .. LastRow(list.records), Drop(i)
  PROVE  IInv'
<1>1. /\ list \in Workspaces /\ list.records \in Seq(Records) /\ IsInjective(list.records)
      /\ list.selected \in Int
  BY DEF IInv, Proper, Workspaces
<1>2. i + 1 \in 1 .. Len(list.records)
  BY <1>1 DEF LastRow
<1>3. list.open
  <2>1. list.records # <<>>
    BY <1>2
  <2>2. QED
    BY <2>1 DEF IInv, Proper
<1>4. RemoveAt(list.records, i + 1) \in Seq(Records) /\ IsInjective(RemoveAt(list.records, i + 1))
  BY <1>1, <1>2, RemoveAtKeeps
<1>5. Proper(list') /\ Visible(list', page)
  BY <1>1, <1>3, <1>4, PageTypes, LoadedFits DEF Drop
<1>6. QED
  BY <1>5, QuietKeeps DEF Drop

LEMMA FailInvariant == IInv /\ Fail => IInv'
<1> SUFFICES ASSUME IInv, Fail PROVE IInv'
  OBVIOUS
<1>1. list \in Workspaces /\ list.open
  BY DEF IInv, Proper, Fail
<1>2. list' = [list EXCEPT !.state = "failed", !.records = <<>>, !.selected = 0, !.offset = 0]
  BY DEF Fail
<1>3. Proper(list') /\ Visible(list', page)
  <2>1. <<>> \in Seq(Records)
    OBVIOUS
  <2>2. list' \in Workspaces /\ list'.records = <<>> /\ list'.selected = 0 /\ list'.offset = 0
    BY <1>1, <1>2, <2>1 DEF Workspaces
  <2>3. QED
    BY <2>2, EmptyFits, PageTypes
<1>4. QED
  BY <1>3, QuietKeeps DEF Fail, IInv

LEMMA CloseInvariant == IInv /\ Close => IInv'
<1> SUFFICES ASSUME IInv, Close PROVE IInv'
  OBVIOUS
<1>1. Proper(Closed) /\ Visible(Closed, page)
  <2>1. Closed \in Workspaces /\ Closed.records = <<>> /\ Closed.selected = 0 /\ Closed.offset = 0
    BY ClosedFits DEF Closed
  <2>2. QED
    BY <2>1, EmptyFits, PageTypes
<1>2. QED
  BY <1>1 DEF Close, IInv, NoClick, ClickIsCurrent

\* The row that Goto selects is visible, and the records stay.
LEMMA GotoKeeps ==
  ASSUME IInv, NEW i \in Int, Goto(i), list.open
  PROVE  /\ Proper(list') /\ Visible(list', page)
         /\ list'.records = list.records
<1>1. list \in Workspaces /\ list.records \in Seq(Records) /\ IsInjective(list.records)
  BY DEF IInv, Proper, Workspaces
<1>2. CASE list.records = <<>>
  <2>1. list' = [list EXCEPT !.selected = 0, !.offset = 0]
    BY <1>2 DEF Goto
  <2>2. list' \in Workspaces /\ list'.records = <<>> /\ list'.selected = 0 /\ list'.offset = 0
    BY <1>1, <1>2, <2>1 DEF Workspaces
  <2>3. QED
    BY <1>2, <2>2, EmptyFits, PageTypes
<1>3. CASE list.records # <<>>
  <2> DEFINE n == Clamp(i, 0, LastRow(list.records))
  <2>1. Len(list.records) \in Nat \ {0}
    BY <1>1, <1>3
  <2>2. n \in Nat /\ n < Len(list.records)
    BY <2>1 DEF Clamp, LastRow
  <2>3. list' = Shown(list, list.records, n)
    BY <1>3 DEF Goto
  <2> HIDE DEF n
  <2>4. QED
    BY <1>1, <2>2, <2>3, PageTypes, ShownFits
<1>4. QED
  BY <1>2, <1>3

LEMMA MoveInvariant == IInv /\ Move => IInv'
<1> SUFFICES ASSUME IInv, Move PROVE IInv'
  OBVIOUS
<1>1. page \in Int /\ list.selected \in Int
  BY PageTypes DEF IInv, Proper, Workspaces
<1>2. PICK i \in Int : Goto(i)
  BY <1>1 DEF Move
<1>3. QED
  BY <1>2, GotoKeeps, QuietKeeps DEF Move

LEMMA MoveToInvariant == IInv /\ MoveTo => IInv'
<1> SUFFICES ASSUME IInv, MoveTo PROVE IInv'
  OBVIOUS
<1>1. LastRow(list.records) \in Int
  BY DEF LastRow, IInv, Proper, Workspaces
<1>2. PICK i \in Int : Goto(i)
  BY <1>1 DEF MoveTo
<1>3. Proper(list') /\ Visible(list', page) /\ list'.records = list.records
  BY <1>2, GotoKeeps DEF MoveTo
<1>4. QED
  BY <1>3 DEF MoveTo, IInv, ClickIsCurrent

LEMMA ClickInvariant ==
  ASSUME IInv, NEW i \in 0 .. LastRow(list.records), NEW quick \in BOOLEAN, Click(i, quick)
  PROVE  IInv'
<1>1. list.records \in Seq(Records) /\ i \in Nat /\ i < Len(list.records) /\ list.open
  BY DEF IInv, Proper, Workspaces, LastRow, Click
<1>2. Proper(list') /\ Visible(list', page) /\ list'.records = list.records
  BY <1>1, GotoKeeps DEF Click
<1>3. list.records[i + 1] \in Records
  BY <1>1
<1>4. click' \in {NoClick, [index |-> i, id |-> list.records[i + 1]]}
  BY DEF Click
<1>5. click' \in [index : Nat, id : Records \cup {NoRecord}] /\ ClickIsCurrent'
  BY <1>1, <1>2, <1>3, <1>4 DEF ClickIsCurrent, NoClick
<1>6. QED
  BY <1>2, <1>5 DEF Click, IInv

LEMMA ResizeInvariant ==
  ASSUME IInv, NEW p \in Pages, Resize(p)
  PROVE  IInv'
<1>1. list \in Workspaces /\ p \in Nat \ {0} /\ Proper(list)
  BY RecordListAssumption DEF IInv, Proper
<1>2. /\ list.selected \in Nat /\ list.offset \in Nat /\ Len(list.records) \in Nat
  BY <1>1 DEF Workspaces
<1>3. CASE list.open /\ ~ picker
  <2> DEFINE n == EnsureVisible(list.selected, list.offset, Len(list.records), p)
  <2>1. list' = [list EXCEPT !.offset = n]
    BY <1>3 DEF Resize
  <2>2. /\ n \in Nat /\ n <= list.selected /\ list.selected < n + p
        /\ n > 0 => n + p <= Len(list.records)
    BY <1>1, <1>2, EnsureVisibleRange DEF Proper
  <2> HIDE DEF n
  <2>3. Proper(list') /\ Visible(list', p) /\ list'.records = list.records
    BY <1>1, <1>3, <2>1, <2>2 DEF Proper, Visible, Workspaces
  <2>4. QED
    BY <1>3, <2>3 DEF Resize, IInv, ClickIsCurrent
<1>4. CASE ~ (list.open /\ ~ picker)
  <2>1. list' = list /\ unseen' = picker
    BY <1>4 DEF Resize
  <2>2. ~ picker => Visible(list, p)
    BY <1>1, <1>4 DEF Proper, Visible
  <2>3. QED
    BY <2>1, <2>2 DEF Resize, IInv, ClickIsCurrent
<1>5. QED
  BY <1>3, <1>4

LEMMA InitInvariant == Init => IInv
<1> SUFFICES ASSUME Init PROVE IInv
  OBVIOUS
<1>1. page \in Nat \ {0}
  BY RecordListAssumption DEF Init
<1>2. list = [source |-> "server", open |-> FALSE, state |-> "idle", records |-> <<>>,
              selected |-> 0, offset |-> 0]
  BY DEF Init, Closed
<1>3. Proper(list) /\ Visible(list, page)
  BY <1>1, <1>2, ClosedFits, EmptyFits
<1>4. QED
  BY <1>3 DEF Init, IInv, NoClick, ClickIsCurrent

LEMMA NextInvariant == IInv /\ [Next]_vars => IInv'
<1> SUFFICES ASSUME IInv, [Next]_vars PROVE IInv'
  OBVIOUS
<1>1. CASE BeginServer \/ Fail \/ Close \/ Move \/ MoveTo
  BY <1>1, BeginServerInvariant, FailInvariant, CloseInvariant, MoveInvariant, MoveToInvariant
<1>2. CASE Picker
  BY <1>2 DEF Picker, IInv, ClickIsCurrent
<1>3. ASSUME NEW records \in Lists, Apply(records) \/ OpenCache(records) PROVE IInv'
  BY <1>3, ApplyInvariant, OpenCacheInvariant
<1>4. ASSUME NEW id \in Records, Prepend(id) PROVE IInv'
  BY <1>4, PrependInvariant
<1>5. ASSUME NEW i \in 0 .. LastRow(list.records), Drop(i) PROVE IInv'
  BY <1>5, DropInvariant
<1>6. ASSUME NEW i \in 0 .. LastRow(list.records), NEW quick \in BOOLEAN, Click(i, quick)
      PROVE  IInv'
  BY <1>6, ClickInvariant
<1>7. ASSUME NEW p \in Pages, Resize(p) PROVE IInv'
  BY <1>7, ResizeInvariant
<1>8. CASE UNCHANGED vars
  BY <1>8 DEF vars, IInv, ClickIsCurrent
<1>9. QED
  BY <1>1, <1>2, <1>3, <1>4, <1>5, <1>6, <1>7, <1>8 DEF Next

-----------------------------------------------------------------------------
\* IInv holds for ever.
THEOREM Invariance == Spec => []IInv
BY InitInvariant, NextInvariant, PTL DEF Spec

(***************************************************************************)
(* Every variable has its type, and no record is in the list twice.        *)
(***************************************************************************)
THEOREM TypeCorrect == Spec => []TypeOK
<1>1. IInv => TypeOK
  BY DEF IInv, Proper, TypeOK
<1>2. QED
  BY <1>1, Invariance, PTL

(***************************************************************************)
(* The row that Enter and Delete act on is one the user can see, but for a *)
(* change of the window below a path picker (ensureVisible).               *)
(***************************************************************************)
THEOREM SelectionStaysVisible == Spec => []SelectionVisible
<1>1. IInv => SelectionVisible
  BY DEF IInv, Proper, Visible, SelectionVisible, OnPage
<1>2. QED
  BY <1>1, Invariance, PTL

(***************************************************************************)
(* The second of two clicks opens the record that was under the first      *)
(* (clearClick and registerClick).                                         *)
(***************************************************************************)
THEOREM ClickStaysCurrent == Spec => []ClickIsCurrent
<1>1. IInv => ClickIsCurrent
  BY DEF IInv
<1>2. QED
  BY <1>1, Invariance, PTL

(***************************************************************************)
(* A refresh keeps the selected record selected if it is still there       *)
(* (apply of recordWorkspace).                                             *)
(***************************************************************************)
THEOREM RefreshKeeps == Spec => RefreshKeepsSelection
<1> DEFINE Kept == LET records == list'.records
                       id == Selected(list)
                   IN Apply(records) /\ Has(records, id) => Selected(list') = id
<1>1. ASSUME IInv, IInv' PROVE Kept
  <2> DEFINE records == list'.records
             id == Selected(list)
  <2> SUFFICES ASSUME Apply(records), Has(records, id) PROVE Selected(list') = id
    OBVIOUS
  <2>1. records \in Seq(Records) /\ IsInjective(records)
    BY <1>1 DEF IInv, Proper, Workspaces
  <2>2. list \in Workspaces /\ list.open
    BY <1>1 DEF IInv, Proper, Apply
  <2>3. Row(records, id) \in 0 .. LastRow(records) /\ records[Row(records, id) + 1] = id
    BY <2>1, RowOfRecord
  <2>4. list' = Loaded(list, records, Row(records, id))
    BY DEF Apply
  <2>5. list'.state = "ready" /\ list'.selected = Row(records, id)
    BY <1>1, <2>1, <2>2, <2>3, <2>4, PageTypes, LoadedFits
  <2>6. list'.selected < Len(records)
    BY <2>1, <2>3, <2>5 DEF LastRow
  <2>7. QED
    BY <2>3, <2>5, <2>6 DEF Selected
<1>2. QED
  BY <1>1, Invariance, PTL DEF RefreshKeepsSelection
=============================================================================
