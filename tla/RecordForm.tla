------------------------------ MODULE RecordForm ------------------------------
(***************************************************************************)
(* The form that creates or edits a record (internal/client/tui/           *)
(* record_form*.go over text_field*.go and text_area.go), with the picker  *)
(* its file comes from, and the windows that use the same picker.          *)
(*                                                                         *)
(* A form lets only some characters in, and no more than its limits; the   *)
(* model of the record (internal/model) has limits of its own.  A text is  *)
(* shown in a normal form, but one the user did not change is sent as it   *)
(* was loaded.                                                             *)
(*                                                                         *)
(* A string is a sequence of Chars, which stand for classes of characters: *)
(* x a letter of one byte, w a letter of two, 0 and 1 the digits, sp the   *)
(* space, hid a character that is neither printed nor a space nor a        *)
(* control character (U+200D).  Budget bounds the windows opened, the      *)
(* pickers opened and the edits.                                           *)
(***************************************************************************)
EXTENDS PathPicker

CONSTANTS
  Inputs,      \* what is typed (one character) or pasted at once
  Loads,       \* the records that are opened to be edited
  MaxField,    \* runes of a single line
  MaxNumber, MinNumber, CVVSize,
  MaxText,     \* bytes of a text
  Budget

VARIABLES
  form,        \* the form of window "create" or "edit", or NoForm
  spent        \* how much of Budget is used

formVars == <<form, spent>>
vars == <<window, fields, picker, reads, timers, form, spent>>

-----------------------------------------------------------------------------
(***************************************************************************)
(* Strings.                                                                *)
(***************************************************************************)
Digits == {"0", "1"}
Printed == {"x", "w", "sp"} \cup Digits
Controls == {"lf", "cr", "tab"}
Spaces == {"sp"} \cup Controls
Chars == Printed \cup Controls \cup {"hid"}

ASSUME InputsAssumption == Inputs \subseteq Seq(Chars)
ASSUME LimitsAssumption ==
  {MaxField, MaxNumber, MinNumber, CVVSize, MaxText} \subseteq Nat

\* The characters of s that are in S.  It is SelectSeq, written as a function so
\* that facts about it can be proved.
Keep(s, S) ==
  LET kept[n \in 0..Len(s)] ==
        IF n = 0 THEN <<>>
        ELSE IF s[n] \in S THEN Append(kept[n - 1], s[n]) ELSE kept[n - 1]
  IN  kept[Len(s)]

Smaller(m, n) == IF m < n THEN m ELSE n
Limit(s, n) == SubSeq(s, 1, Smaller(n, Len(s)))
Bytes(s) == Len(s) + Len(Keep(s, {"w"}))

\* strings.TrimSpace: from the first to the last character that is no space.
Trimmed(s) ==
  LET solid == {i \in DOMAIN s : s[i] \notin Spaces}
  IN  IF solid = {} THEN <<>> ELSE SubSeq(s, Min(solid), Max(solid))

Blank(s) == Trimmed(s) = <<>>

FirstLine(s) ==
  SubSeq(s, 1, Min({i \in DOMAIN s : s[i] \in {"lf", "cr"}} \cup {Len(s) + 1}) - 1)

\* The longest beginning of s of at most n bytes.
LimitBytes(s, n) ==
  Limit(s, CHOOSE k \in 0..Len(s) :
             /\ Bytes(Limit(s, k)) <= n
             /\ k < Len(s) => Bytes(Limit(s, k + 1)) > n)

\* normalizeTextAreaValue: CR LF and CR are LF, a tab is a space; the LF of a CR LF
\* goes with what is not printed.
Plain(s, i) ==
  CASE s[i] = "lf" /\ i > 1 /\ s[i - 1] = "cr" -> "hid"
    [] s[i] = "cr" -> "lf"
    [] s[i] = "tab" -> "sp"
    [] OTHER -> s[i]

Lines(s) == Keep([i \in DOMAIN s |-> Plain(s, i)], Printed \cup {"lf"})

Area(s, n) == LimitBytes(Lines(s), n)

-----------------------------------------------------------------------------
(***************************************************************************)
(* Controls.                                                               *)
(***************************************************************************)
Types == {"text", "credentials", "card", "binary"}

Order(type) ==
  CASE type = "text" -> <<"title", "text", "metadata", "submit", "cancel">>
    [] type = "credentials" ->
         <<"title", "login", "password", "url", "metadata", "submit", "reveal", "cancel">>
    [] type = "card" ->
         <<"title", "number", "cardholder", "month", "year", "cvv", "metadata", "submit",
           "reveal", "cancel">>
    [] type = "binary" -> <<"title", "filePath", "metadata", "submit", "cancel">>

DigitFields == {"number", "month", "year", "cvv"}
LineFields == {"title", "login", "password", "url", "cardholder", "metadata"} \cup DigitFields

FieldsOf(type) == (LineFields \cup {"text"}) \cap Range(Order(type))

MaxOf(c) ==
  CASE c = "number" -> MaxNumber
    [] c = "cvv" -> CVVSize
    [] c \in {"month", "year"} -> 2
    [] OTHER -> MaxField

\* What control c makes of a string: textField.normalize, by its policy.
Normal(c, s) ==
  CASE c = "text" -> Area(s, MaxText)
    [] c \in DigitFields -> Limit(Keep(s, Digits), MaxOf(c))
    [] OTHER -> Limit(Keep(FirstLine(s), Printed), MaxOf(c))

NoForm == [type |-> "none"]

Forms(type) ==
  [type : {type}, editing : BOOLEAN, values : [FieldsOf(type) -> Seq(Chars)],
   active : Range(Order(type)),
   cursor : Nat,          \* in the active single line
   area : Nat,            \* in the text, also when another control is active
   original : Seq(Chars), \* the text as it was loaded
   dirty : BOOLEAN,       \* the user changed the text
   existing : BOOLEAN]    \* the record loaded has binary data

\* newRecordCreateForm: empty, the first control active.
NewForm(type) ==
  [type |-> type, editing |-> FALSE, values |-> [c \in FieldsOf(type) |-> <<>>],
   active |-> "title", cursor |-> 0, area |-> 0, original |-> <<>>, dirty |-> FALSE,
   existing |-> FALSE]

\* newRecordEditForm: the values of the record, as far as the fields take them.
EditForm(record) ==
  LET values == [c \in FieldsOf(record.type) |-> Normal(c, record.values[c])] IN
    [NewForm(record.type) EXCEPT
       !.editing = TRUE, !.values = values, !.cursor = Len(values["title"]),
       !.area = IF record.type = "text" THEN Len(values["text"]) ELSE 0,
       !.original = IF record.type = "text" THEN record.values["text"] ELSE <<>>,
       !.existing = record.type = "binary"]

-----------------------------------------------------------------------------
(***************************************************************************)
(* What is sent, what the form demands, and what the model of the record   *)
(* demands.                                                                *)
(***************************************************************************)
\* Mutation: the text is sent as it was loaded although it was changed.
SentTextLoaded(f) == IF f.editing THEN f.original ELSE f.values["text"]

\* The text in recordFormInputFrom.
SentText(f) == IF f.editing /\ ~ f.dirty THEN f.original ELSE f.values["text"]

\* normalizeRecordCardExpiryPart: there is no space among the digits to trim.
TwoDigits(s) == IF Len(s) = 1 THEN <<"0">> \o s ELSE s

\* recordFormInputFrom: the title without the spaces at its ends, month and year
\* in two digits.
Sent(f) ==
  [c \in FieldsOf(f.type) |->
     CASE c = "text" -> SentText(f)
       [] c = "title" -> Trimmed(f.values[c])
       [] c \in {"month", "year"} -> TwoDigits(f.values[c])
       [] OTHER -> f.values[c]]

Digit(c) == IF c = "1" THEN 1 ELSE 0
Number(s) == IF Len(s) = 1 THEN Digit(s[1]) ELSE 10 * Digit(s[1]) + Digit(s[2])

\* parseRecordCardExpiry
ExpiryParses(month, year) ==
  \/ month = <<>> /\ year = <<>>
  \/ month # <<>> /\ year # <<>> /\ Number(month) \in 1..12

\* A path of Files has no space at its ends: trimming it changes nothing.
FilePath(f) == IF f.editing THEN fields["editFile"] ELSE fields["createFile"]

\* Mutation: a CVV of any length will do.
CanSubmitAnyCVV(f) ==
  /\ ~ Blank(f.values["title"])
  /\ CASE f.type = "text" -> f.values["text"] # <<>>
       [] f.type = "credentials" -> ~ Blank(f.values["login"]) /\ ~ Blank(f.values["password"])
       [] f.type = "card" ->
            /\ Len(f.values["number"]) \in MinNumber..MaxNumber
            /\ ExpiryParses(f.values["month"], f.values["year"])
       [] f.type = "binary" -> FilePath(f) # NoPath \/ (f.editing /\ f.existing)

CanSubmit(f) ==
  /\ ~ Blank(f.values["title"])
  /\ CASE f.type = "text" -> f.values["text"] # <<>>
       [] f.type = "credentials" -> ~ Blank(f.values["login"]) /\ ~ Blank(f.values["password"])
       [] f.type = "card" ->
            /\ Len(f.values["number"]) \in MinNumber..MaxNumber
            /\ f.values["cvv"] # <<>> => Len(f.values["cvv"]) = CVVSize
            /\ ExpiryParses(f.values["month"], f.values["year"])
       [] f.type = "binary" -> FilePath(f) # NoPath \/ (f.editing /\ f.existing)

\* validateOptionalSingleLine and its neighbours; every character of a text is
\* one that several lines may have.
ValidLine(s, n) == Len(s) <= n /\ Keep(s, Controls) = <<>>
ValidRequired(s, n) == ~ Blank(s) /\ ValidLine(s, n)
ValidDigits(s, low, high) == Len(s) \in low..high /\ Keep(s, Digits) = s

ValidLines(s, n) == s # <<>> /\ Bytes(s) <= n

\* Validate of the payload of each type.
ValidText(values) == ValidLines(values["text"], MaxText)

ValidCredentials(values) ==
  /\ ValidRequired(values["login"], MaxField)
  /\ ValidRequired(values["password"], MaxField)
  /\ ValidLine(values["url"], MaxField)

ValidCard(values) ==
  /\ ValidDigits(values["number"], MinNumber, MaxNumber)
  /\ ValidLine(values["cardholder"], MaxField)
  /\ values["cvv"] # <<>> => ValidDigits(values["cvv"], CVVSize, CVVSize)
  /\ ExpiryParses(values["month"], values["year"])

\* ValidateRecordTitle and the payload.  Name and data of a file come from the
\* reading of it, or from the record.
ValidRecord(type, values) ==
  /\ ValidRequired(values["title"], MaxField)
  /\ ValidLine(values["metadata"], MaxField)
  /\ type = "text" => ValidText(values)
  /\ type = "credentials" => ValidCredentials(values)
  /\ type = "card" => ValidCard(values)

\* Month and year are numbers of the model, which populateCardExpiry prints.
ASSUME LoadsAssumption ==
  \A r \in Loads :
    /\ r.type \in Types
    /\ r.values \in [FieldsOf(r.type) -> Seq(Chars)]
    /\ ValidRecord(r.type, r.values)
    /\ r.type = "card" =>
         {r.values["month"], r.values["year"]} \subseteq {<<>>} \cup [1..2 -> Digits]

-----------------------------------------------------------------------------
(***************************************************************************)
(* Editing.                                                                *)
(***************************************************************************)
\* The form is open and takes keys.
Ready == form # NoForm /\ ~ IsOpen

Spend == spent < Budget /\ spent' = spent + 1

CursorOf(f) == IF f.active = "text" THEN f.area ELSE f.cursor

\* The active field holds s now, its cursor is at n (mutateText).
Edited(f, s, n) ==
  IF f.active = "text"
    THEN [f EXCEPT !.values["text"] = s, !.area = n,
                   !.dirty = @ \/ (f.editing /\ s # f.values["text"])]
    ELSE [f EXCEPT !.values[f.active] = s, !.cursor = n]

\* Mutation: what is pasted is cut to the limit of the field, not to the rest.
FittingUncounted(f, s) ==
  IF f.active = "text" THEN Area(s, MaxText) ELSE Normal(f.active, s)

\* As much of s as the active field has room for.
Fitting(f, s) ==
  LET value == f.values[f.active] IN
    IF f.active = "text"
      THEN Area(Area(s, MaxText), MaxText - Bytes(value))
      ELSE Limit(Normal(f.active, s), MaxOf(f.active) - Len(value))

InsertedIn(f, s) ==
  LET n == CursorOf(f)
      value == f.values[f.active]
      new == Fitting(f, s)
  IN  Edited(f, SubSeq(value, 1, n) \o new \o SubSeq(value, n + 1, Len(value)), n + Len(new))

InField == Ready /\ form.active \in DOMAIN form.values

\* A key, Enter in the text, or a paste.
Insert(s) ==
  /\ InField
  /\ Spend
  /\ form' = InsertedIn(form, s)
  /\ UNCHANGED pickerVars

Backspace ==
  /\ InField
  /\ CursorOf(form) > 0
  /\ Spend
  /\ form' = Edited(form, RemoveAt(form.values[form.active], CursorOf(form)), CursorOf(form) - 1)
  /\ UNCHANGED pickerVars

Delete ==
  /\ InField
  /\ CursorOf(form) < Len(form.values[form.active])
  /\ Spend
  /\ form' = Edited(form, RemoveAt(form.values[form.active], CursorOf(form) + 1), CursorOf(form))
  /\ UNCHANGED pickerVars

-----------------------------------------------------------------------------
(***************************************************************************)
(* Moving the cursor and the focus.                                        *)
(***************************************************************************)
\* The places of text s where a line starts and ends, for the line of place n.
LineStart(s, n) == CHOOSE k \in 0..n :
  /\ k = 0 \/ s[k] = "lf"
  /\ \A i \in (k + 1)..n : s[i] # "lf"

LineEnd(s, n) == CHOOSE k \in n..Len(s) :
  /\ k = Len(s) \/ s[k + 1] = "lf"
  /\ \A i \in (n + 1)..k : s[i] # "lf"

\* A line up or down, to the same column as far as that line goes (moveLine).
LineAbove(s, n) ==
  LET start == LineStart(s, n) IN
    IF start = 0 THEN n
    ELSE LineStart(s, start - 1) + Smaller(n - start, start - 1 - LineStart(s, start - 1))

LineBelow(s, n) ==
  LET end == LineEnd(s, n) IN
    IF end = Len(s) THEN n
    ELSE end + 1 + Smaller(n - LineStart(s, n), LineEnd(s, end + 1) - (end + 1))

MoveCursor ==
  /\ InField
  /\ LET value == form.values[form.active]
         n == CursorOf(form)
         near == {n - 1, n + 1} \cap 0..Len(value)
     IN  IF form.active = "text"
           THEN \E k \in near \cup {LineStart(value, n), LineEnd(value, n), LineAbove(value, n),
                                    LineBelow(value, n)} :
                  form' = [form EXCEPT !.area = k]
           ELSE \E k \in near \cup {0, Len(value)} : form' = [form EXCEPT !.cursor = k]
  /\ UNCHANGED <<pickerVars, spent>>

\* A field is entered at its end, the text at the end of its line.
FocusedOn(f, c) ==
  IF c = "text" THEN [f EXCEPT !.active = c, !.area = LineEnd(f.values[c], @), !.cursor = 0]
  ELSE IF c \in DOMAIN f.values THEN [f EXCEPT !.active = c, !.cursor = Len(f.values[c])]
  ELSE [f EXCEPT !.active = c, !.cursor = 0]

\* Tab and the arrows go to the neighbours in the ring, a click to any control.
Focus(c) ==
  /\ Ready
  /\ c \in Range(Order(form.type))
  /\ form' = FocusedOn(form, c)
  /\ UNCHANGED <<pickerVars, spent>>

-----------------------------------------------------------------------------
(***************************************************************************)
(* Windows.                                                                *)
(***************************************************************************)
NoPaths(w) == [t \in TargetsOf(w) |-> NoPath]

\* A window of the program opens: the configuration or the form to save a file.
OpenWindow(w) ==
  /\ window = "none"
  /\ TargetsOf(w) # {}
  /\ Spend
  /\ window' = w
  /\ fields' = NoPaths(w)
  /\ UNCHANGED <<picker, reads, timers, form>>

OpenForm(w, f) ==
  /\ window = "none"
  /\ Spend
  /\ window' = w
  /\ fields' = NoPaths(w)
  /\ form' = f
  /\ UNCHANGED <<picker, reads, timers>>

OpenCreate(type) == OpenForm("create", NewForm(type))
OpenEdit(record) == OpenForm("edit", EditForm(record))

\* The window is left: Esc, Cancel, or its form was accepted.
CloseWindow ==
  /\ window # "none"
  /\ ~ IsOpen
  /\ window' = "none"
  /\ fields' = <<>>
  /\ form' = NoForm
  /\ UNCHANGED <<picker, reads, timers, spent>>

\* The fields of the configuration can be typed, too.
TypePath(t, path) ==
  /\ ~ IsOpen
  /\ t \in TargetsOf("config") \cap DOMAIN fields
  /\ Spend
  /\ fields' = [fields EXCEPT ![t] = [path |-> path, kind |-> "typed"]]
  /\ UNCHANGED <<window, picker, reads, timers, form>>

\* Enter or a click on the file of a binary record, or on a Browse button.
OpenPicker(t) ==
  /\ form # NoForm => form.active = "filePath"
  /\ Spend
  /\ Browse(t)
  /\ UNCHANGED form

\* Back in the form, the file is the active control.
PickerGoesOn == PickerStep /\ UNCHANGED formVars

Init ==
  /\ window = "none" /\ fields = <<>>
  /\ picker = NoPicker /\ reads = EmptyBag /\ timers = {}
  /\ form = NoForm /\ spent = 0

UserEdits ==
  \/ \E s \in Inputs : Insert(s)
  \/ Backspace \/ Delete \/ MoveCursor
  \/ \E c \in LineFields \cup {"text", "filePath", "submit", "reveal", "cancel"} : Focus(c)

UserOpens ==
  \/ \E w \in {"config", "save"} : OpenWindow(w)
  \/ \E type \in Types : OpenCreate(type)
  \/ \E record \in Loads : OpenEdit(record)
  \/ CloseWindow
  \/ \E t \in Targets, path \in Dirs \cup Files : TypePath(t, path)
  \/ \E t \in Targets : OpenPicker(t)

Next == UserEdits \/ UserOpens \/ PickerGoesOn

Spec == Init /\ [][Next]_vars

-----------------------------------------------------------------------------
(***************************************************************************)
(* Every field holds what it would make of its own contents, within its    *)
(* limit, and the cursor is in it; the picker shows what can be in the     *)
(* directory.                                                              *)
(***************************************************************************)
TypeOK ==
  /\ picker = NoPicker \/ picker \in Pickers
  /\ IsOpen => picker.target \in TargetsOf(window)
  /\ fields \in [TargetsOf(window) -> Values]
  /\ BagToSet(reads) \subseteq [dir : Dirs, only : BOOLEAN]
  /\ timers \subseteq Timers
  /\ form = NoForm <=> window \notin {"create", "edit"}
  /\ form # NoForm =>
       /\ form \in Forms(form.type)
       /\ \A c \in DOMAIN form.values : form.values[c] = Normal(c, form.values[c])
       /\ form.type = "text" => form.area \in 0..Len(form.values["text"])
       /\ form.active \in LineFields => form.cursor \in 0..Len(form.values[form.active])

\* The entries shown are those of the directory shown.
ListingFits ==
  IsOpen /\ picker.entries # <<>> =>
    /\ Up \in Range(picker.entries) <=> picker.dir # Root
    /\ \A e \in Range(picker.entries) : e.kind = "directory" => Len(picker.dir) < MaxDepth

\* A path that was picked is of the kind the field is for.
PickedFits ==
  \A t \in DOMAIN fields :
    fields[t].kind \in {"none", "typed", IF IsFilePicker(t) THEN "file" ELSE "directory"}

(***************************************************************************)
(* Whatever late listings and timers do to the picker, it shows entries of *)
(* its own directory, Select has the focus only while it can be pressed,   *)
(* and the path it puts into a field is one the field is for.  A picker of *)
(* directories may show files all the same: a listing that an earlier      *)
(* picker asked for comes late, and only the directory is compared.        *)
(***************************************************************************)
PickerFits ==
  /\ ListingFits
  /\ IsOpen /\ picker.focus = "select" => SelectEnabled(picker)
  /\ PickedFits

(***************************************************************************)
(* What the form offers to submit, the model of the record accepts: the    *)
(* button is enabled by rules of its own (canSubmit), over fields whose    *)
(* limits are set elsewhere.                                               *)
(***************************************************************************)
SubmittedIsValid ==
  form # NoForm /\ CanSubmit(form) =>
    /\ ValidRecord(form.type, Sent(form))
    /\ form.type = "binary" => FilePath(form).kind = "file" \/ form.existing

(***************************************************************************)
(* The text that is sent is the one shown, in the normal form of the       *)
(* window, and only what changes the shown text changes the sent one: a    *)
(* text opened and saved keeps its line ends and tabs                      *)
(* (TestRecordEditForm_TextKeepsOriginalLineEndingsAndTabsUntilTextChanges)*)
(***************************************************************************)
IsText(f) == f # NoForm /\ f.type = "text"

TextIsKept ==
  [][IsText(form)' =>
       IF IsText(form) /\ form.values["text"] = form'.values["text"]
         THEN SentText(form') = SentText(form)
         ELSE Area(SentText(form'), MaxText) = form'.values["text"]]_vars
=============================================================================
