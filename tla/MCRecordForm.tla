----------------------------- MODULE MCRecordForm -----------------------------
(***************************************************************************)
(* RecordForm on a small instance for TLC.                                 *)
(***************************************************************************)
EXTENDS RecordForm

\* Enter, and pastes of digits, of line ends with a tab, of a space and what is not
\* printed.
SomeInputs ==
  {<<"lf">>, <<"1", "0">>, <<"x", "cr", "lf", "tab">>, <<"hid", "w", "sp">>}

Load(type, values) ==
  [type |-> type,
   values |-> [c \in FieldsOf(type) |-> IF c \in DOMAIN values THEN values[c] ELSE <<>>]]

\* A text of several lines, credentials with a hidden character and a title that
\* ends in a space, a full card, a file.
SomeLoads ==
  {Load("text", [title |-> <<"x">>, text |-> <<"x", "cr", "lf", "tab">>]),
   Load("credentials", [title |-> <<"x", "sp">>, login |-> <<"hid">>, password |-> <<"x">>]),
   Load("card", [title |-> <<"x">>, number |-> <<"1", "0">>, month |-> <<"1", "0">>,
                 year |-> <<"0", "1">>, cvv |-> <<"0", "1">>]),
   Load("binary", [title |-> <<"x">>])}
=============================================================================
