------------------------------ MODULE PathPicker ------------------------------
(***************************************************************************)
(* The window of the interface that picks a file or a directory            *)
(* (internal/client/tui/path_picker*.go, model_config.go, mouse.go) below  *)
(* the directory the program was started in.  A directory is read by a     *)
(* command of its own: its result may come when the picker is in another   *)
(* directory, or closed, or open again for another field.  One click on an *)
(* entry opens it when 350 ms have passed without a second click, which    *)
(* selects it: the timers are messages too.                                *)
(*                                                                         *)
(* A path is the sequence of its names from the root; names are numbers in *)
(* the order of the listing, and no name of a directory is one of a file.  *)
(* Every reading may find other entries: the disk changes.                 *)
(***************************************************************************)
EXTENDS Integers, Bags, SequencesExt

CONSTANTS
  DirNames,    \* names of directories ...
  FileNames,   \* ... and of files
  MaxDepth,    \* bound of the depth of directories
  Heights,     \* heights of the list, in entries
  Targets,     \* the fields that can be browsed for
  MaxReads,    \* bound of the readings in flight
  MaxTimers    \* bound of the timers in flight

VARIABLES
  window,      \* the window below the picker, or "none"
  fields,      \* fields[t]: the path in field t of that window
  picker,      \* the open picker, or NoPicker
  reads,       \* the bag of directories being read, with what is asked for
  timers       \* the timers of clicks that wait for a second one

pickerVars == <<window, fields, picker, reads, timers>>

AllTargets == {"caCert", "sessionDir", "cacheDir", "saveDir", "createFile", "editFile"}

ASSUME TargetsAssumption ==
  Targets \subseteq AllTargets /\ {"createFile", "editFile"} \subseteq Targets
ASSUME NamesAssumption ==
  /\ DirNames \subseteq Nat \ {0} /\ FileNames \subseteq Nat \ {0}
  /\ IsFiniteSet(DirNames \cup FileNames)
  /\ DirNames \cap FileNames = {}
  /\ MaxDepth \in Nat /\ Heights \subseteq Nat \ {0}

IsFilePicker(t) == t \in {"caCert", "createFile", "editFile"}

HostOf(t) ==
  CASE t = "saveDir" -> "save"
    [] t = "createFile" -> "create"
    [] t = "editFile" -> "edit"
    [] OTHER -> "config"

TargetsOf(w) == {t \in Targets : HostOf(t) = w}

Root == <<>>
Dirs == UNION {[1..n -> DirNames] : n \in 0..MaxDepth}
Files == {Append(d, f) : d \in Dirs, f \in FileNames}

\* A path in a field: typed by the user, or picked as a file or a directory.
NoPath == [path |-> Root, kind |-> "none"]
Values ==
  [path : Dirs \cup Files, kind : {"typed"}] \cup [path : Dirs, kind : {"directory"}]
    \cup [path : Files, kind : {"file"}] \cup {NoPath}

-----------------------------------------------------------------------------
Up == [name |-> 0, kind |-> "parent"]
NoEntry == [name |-> 0, kind |-> "none"]
Entries ==
  [name : DirNames, kind : {"directory"}] \cup [name : FileNames, kind : {"file"}] \cup {Up}

IsDirectory(e) == e.kind \in {"parent", "directory"}

NoName == -1     \* selectName: nothing to select
NoClick == 0

NoPicker == [target |-> "none"]

Pickers ==
  [target : Targets, dir : Dirs, entries : Seq(Entries), selected : Nat \ {0},
   offset : Nat, height : Heights, selectName : {NoName, 0} \cup DirNames \cup FileNames,
   focus : {"tree", "select", "cancel"}, click : Nat]

IsOpen == picker # NoPicker

\* The names in S in their order.
InOrder(S) ==
  CHOOSE s \in [1..Cardinality(S) -> S] : \A i, j \in 1..Cardinality(S) : i < j => s[i] < s[j]

Named(S, kind) == [i \in 1..Cardinality(S) |-> [name |-> InOrder(S)[i], kind |-> kind]]

\* What a reading of directory d gives when these names are in it.
Listing(d, only, names) ==
  (IF d = Root THEN <<>> ELSE <<Up>>)
    \o Named(DirNames \cap names, "directory")
    \o (IF only THEN <<>> ELSE Named(FileNames \cap names, "file"))

\* Directories of the greatest depth hold files only.
NamesIn(d) == IF Len(d) < MaxDepth THEN DirNames \cup FileNames ELSE FileNames

\* A reading that failed shows an error and no entries.
Listings(d, only) == {Listing(d, only, names) : names \in SUBSET NamesIn(d)} \cup {<<>>}

-----------------------------------------------------------------------------
Between(n, low, high) == IF n < low THEN low ELSE IF n > high THEN high ELSE n

EnsureVisible(p) ==
  LET n == Len(p.entries)
      shown == IF p.selected <= p.offset THEN p.selected - 1
               ELSE IF p.selected > p.offset + p.height THEN p.selected - p.height
               ELSE p.offset
  IN  [p EXCEPT !.offset =
         IF n = 0 THEN 0 ELSE Between(shown, 0, IF n > p.height THEN n - p.height ELSE 0)]

\* move and clampSelection: to an entry near the one at this position.
SelectNear(p, position) ==
  IF p.entries = <<>>
    THEN [p EXCEPT !.selected = 1, !.offset = 0]
    ELSE EnsureVisible([p EXCEPT !.selected = Between(position, 1, Len(p.entries))])

Highlighted(p) == IF p.selected \in DOMAIN p.entries THEN p.entries[p.selected] ELSE NoEntry

CanSelect(p, e) == IF IsFilePicker(p.target) THEN e.kind = "file" ELSE IsDirectory(e)

SelectEnabled(p) == CanSelect(p, Highlighted(p))

FocusTree(p) == [p EXCEPT !.focus = "tree"]

\* The next of tree, select and cancel in direction step; a disabled Select
\* is skipped.
NextFocus(p, step) ==
  LET ring == IF SelectEnabled(p) THEN <<"tree", "select", "cancel">> ELSE <<"tree", "cancel">>
      here == IF p.focus \in Range(ring) THEN CHOOSE i \in DOMAIN ring : ring[i] = p.focus ELSE 1
  IN  ring[((here - 1 + step) % Len(ring)) + 1]

ReadOf(p) == [dir |-> p.dir, only |-> ~ IsFilePicker(p.target)]

-----------------------------------------------------------------------------
(***************************************************************************)
(* A timer carries directory, index and generation of its click.  Every    *)
(* key and every click advances the generation, so at most one timer of    *)
(* the open picker is current; the others are void.  A new picker starts   *)
(* to count at 0 again: a timer of an earlier one may carry its generation.*)
(***************************************************************************)
Timers == [dir : Dirs, index : Nat \ {0}, state : {"current", "void", "earlier"}]

Voided(ts) == {[t EXCEPT !.state = IF @ = "current" THEN "void" ELSE @] : t \in ts}
Earlier == {[t EXCEPT !.state = "earlier"] : t \in timers}

ClearClick(p) == [p EXCEPT !.click = NoClick]

\* The picker goes on as p, without a click to be completed; the timers ts
\* are still in flight.
Continue(p, ts) ==
  /\ picker' = ClearClick(p)
  /\ timers' = Voided(ts)
  /\ UNCHANGED <<window, fields, reads>>

\* The picker goes to directory d, to select an entry of that name there.
Enter(p, d, name, ts) ==
  LET q == [ClearClick(p) EXCEPT !.dir = d, !.entries = <<>>, !.selected = 1, !.offset = 0,
                                 !.selectName = name]
  IN  /\ BagCardinality(reads) < MaxReads
      /\ picker' = q
      /\ reads' = reads (+) SetToBag({ReadOf(q)})
      /\ timers' = Voided(ts)
      /\ UNCHANGED <<window, fields>>

\* openHighlightedDirectory and up.
OpenHighlighted(p, ts) ==
  LET e == Highlighted(p) IN
    IF ~ IsDirectory(e) \/ (e = Up /\ p.dir = Root) THEN Continue(p, ts)
    ELSE IF e = Up THEN Enter(p, Front(p.dir), Last(p.dir), ts)
    ELSE Enter(p, Append(p.dir, e.name), p.selectName, ts)

\* The picker is closed: back to the window below.
Close ==
  /\ picker' = NoPicker
  /\ timers' = Earlier
  /\ UNCHANGED <<window, reads>>

\* The path of the highlighted entry goes into the field.
Pick(p) ==
  LET e == Highlighted(p)
      path == IF e = Up THEN p.dir ELSE Append(p.dir, e.name)
  IN  /\ fields' = [fields EXCEPT ![p.target] =
                      [path |-> path, kind |-> IF IsDirectory(e) THEN "directory" ELSE "file"]]
      /\ Close

-----------------------------------------------------------------------------
\* Where the picker starts: the directory of the path in the field, or the
\* nearest one above it that exists.
SelectionPath(t) == fields[t].path

StartDirectories(t) ==
  IF t = "saveDir" THEN Prefixes(SelectionPath(t))
  ELSE IF SelectionPath(t) = Root THEN {Root}
  ELSE Prefixes(Front(SelectionPath(t)))

InitialName(t, start) ==
  IF t = "saveDir" THEN IF start # Root THEN Up.name ELSE NoName
  ELSE IF SelectionPath(t) # Root /\ Front(SelectionPath(t)) = start
    THEN Last(SelectionPath(t)) ELSE NoName

\* newPathPicker
Browse(t) ==
  /\ ~ IsOpen
  /\ t \in TargetsOf(window)
  /\ BagCardinality(reads) < MaxReads
  /\ \E d \in StartDirectories(t) \cap Dirs, h \in Heights :
       LET p == [target |-> t, dir |-> d, entries |-> <<>>, selected |-> 1, offset |-> 0,
                 height |-> h, selectName |-> InitialName(t, d), focus |-> "tree",
                 click |-> NoClick]
       IN  picker' = p /\ reads' = reads (+) SetToBag({ReadOf(p)})
  /\ UNCHANGED <<window, fields, timers>>

\* applyReadResult, then handlePathPickerRead.
WithEntries(p, entries) ==
  LET named == {i \in DOMAIN entries : entries[i].name = p.selectName}
      wanted == IF p.selectName # NoName /\ named # {} THEN CHOOSE i \in named : TRUE
                ELSE p.selected
      q == SelectNear([p EXCEPT !.entries = entries, !.selectName = NoName], wanted)
  IN  IF q.focus = "select" /\ ~ SelectEnabled(q) THEN FocusTree(q) ELSE q

\* Mutation: a listing is shown in whatever directory the picker is now.
ReadEndsAnywhere(r) ==
  /\ reads' = reads (-) SetToBag({r})
  /\ IF IsOpen
       THEN \E entries \in Listings(r.dir, r.only) : picker' = WithEntries(picker, entries)
       ELSE UNCHANGED picker
  /\ UNCHANGED <<window, fields, timers>>

\* A reading ends.  Only the directory is compared, not who asked.
ReadEnds(r) ==
  /\ reads' = reads (-) SetToBag({r})
  /\ IF IsOpen /\ picker.dir = r.dir
       THEN \E entries \in Listings(r.dir, r.only) : picker' = WithEntries(picker, entries)
       ELSE UNCHANGED picker
  /\ UNCHANGED <<window, fields, timers>>

-----------------------------------------------------------------------------
\* The keys.
TabKey(step) ==
  /\ IsOpen
  /\ Continue([picker EXCEPT !.focus = NextFocus(picker, step)], timers)

ArrowKey(step) ==
  /\ IsOpen
  /\ Continue(IF picker.focus = "tree" THEN SelectNear(picker, picker.selected + step) ELSE picker,
              timers)

EnterKey ==
  /\ IsOpen
  /\ CASE picker.focus = "tree" -> OpenHighlighted(picker, timers)
       [] picker.focus = "select" ->
            IF SelectEnabled(picker) THEN Pick(picker) ELSE Continue(picker, timers)
       [] picker.focus = "cancel" -> Close /\ UNCHANGED fields

EscKey == IsOpen /\ Close /\ UNCHANGED fields

\* The mouse.  A press on Select that is disabled, or next to all entries,
\* only clears the click.
PressSelect ==
  /\ IsOpen
  /\ IF SelectEnabled(picker) THEN Pick(picker) ELSE Continue(picker, timers)

FirstClick(index) ==
  /\ IsOpen
  /\ index \in DOMAIN picker.entries
  /\ Cardinality(timers) < MaxTimers
  /\ picker' = [EnsureVisible([FocusTree(picker) EXCEPT !.selected = index])
                  EXCEPT !.click = index]
  /\ timers' = Voided(timers) \cup {[dir |-> picker.dir, index |-> index, state |-> "current"]}
  /\ UNCHANGED <<window, fields, reads>>

\* The second click within 350 ms: its timer has not fired.
SecondClick(index) ==
  /\ IsOpen
  /\ picker.click = index
  /\ \E t \in timers : t.state = "current"
  /\ index \in DOMAIN picker.entries
  /\ LET p == EnsureVisible([FocusTree(picker) EXCEPT !.selected = index])
     IN  IF SelectEnabled(p) THEN Pick(p) ELSE OpenHighlighted(p, timers)

Click(index) ==
  /\ IsOpen
  /\ index > picker.offset /\ index <= picker.offset + picker.height
  /\ FirstClick(index) \/ SecondClick(index)

\* acceptsMouseOpen.  Whether an earlier timer has the generation is open.
Accepts(t) ==
  /\ t.state # "void"
  /\ IsOpen
  /\ picker.click = t.index
  /\ picker.dir = t.dir

\* 350 ms after a click; below a menu or an alert the message has no effect.
TimerFires(t) ==
  \/ /\ timers' = timers \ {t}
     /\ UNCHANGED <<window, fields, picker, reads>>
  \/ /\ Accepts(t)
     /\ OpenHighlighted(FocusTree([picker EXCEPT !.selected = t.index]), timers \ {t})

Resize(h) ==
  /\ IsOpen
  /\ picker' = EnsureVisible([picker EXCEPT !.height = h])
  /\ UNCHANGED <<window, fields, reads, timers>>

PickerStep ==
  \/ \E r \in BagToSet(reads) : ReadEnds(r)
  \/ \E step \in {-1, 1} : TabKey(step) \/ ArrowKey(step)
  \/ EnterKey \/ EscKey \/ PressSelect
  \/ \E index \in 1..(Cardinality(DirNames) + Cardinality(FileNames) + 1) : Click(index)
  \/ \E t \in timers : TimerFires(t)
  \/ \E h \in Heights : Resize(h)
=============================================================================
