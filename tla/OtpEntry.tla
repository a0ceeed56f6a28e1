------------------------------ MODULE OtpEntry ------------------------------
(***************************************************************************)
(* What a code view of one field per character promises, without its text  *)
(* fields, responders and delegate calls.  All there is to see of the entry*)
(* is its gap, the fields still empty.  The gap is closed from its left end*)
(* and opened again at its left end, a field at a time; what was entered   *)
(* behind it stays.  Only a keystroke changes it, which needs the keyboard,*)
(* and the keyboard is given up only by an insertion that leaves no gap or *)
(* by the backspace that empties the last field of several characters.     *)
(* While no field holds several characters, a code is reported by the      *)
(* keystrokes that leave no gap and by no others.                          *)
(***************************************************************************)
EXTENDS Integers

CONSTANT otpFieldsCount   \* number of fields

Fields == 1..otpFieldsCount

VARIABLES gap,      \* the empty fields
          long,     \* some field holds several characters
          focused,  \* one of the fields is first responder
          entered   \* the last step reported a code

evars == <<gap, long, focused, entered>>

Init == gap = Fields /\ focused \in BOOLEAN /\ ~long /\ ~entered

Narrow == \E f \in gap : (\A x \in gap : f <= x) /\ gap' = gap \ {f}
Widen  == \E f \in Fields \ gap : (gap = {} \/ f + 1 \in gap) /\ gap' = gap \cup {f}

ReportsWhenFull == ~long' => (entered' <=> gap' = {})

\* An insertion: into the gap, or over the field before it.
Insert ==
  /\ focused
  /\ gap' = gap \/ Narrow
  /\ focused' \/ gap' = {}
  /\ ReportsWhenFull

\* A deletion; with nothing left to delete it changes nothing.
Erase ==
  /\ focused /\ focused'
  /\ Widen \/ (1 \in gap /\ gap' = gap)
  /\ long' => long
  /\ ~entered'

\* A backspace in a field of several characters empties it as an insertion would:
\* the keyboard moves on, and what is left elsewhere may make up a code.
EraseLong ==
  /\ focused /\ long
  /\ Widen
  /\ focused' \/ gap' = {otpFieldsCount}
  /\ ReportsWhenFull

\* A tap on a field.
Focus ==
  /\ gap' = gap /\ long' = long
  /\ focused' /\ ~entered'

\* The view starts again with empty fields.
Reset ==
  /\ gap' = Fields /\ focused' \in BOOLEAN
  /\ ~long' /\ ~entered'

Next == Insert \/ Erase \/ EraseLong \/ Focus \/ Reset

Spec == Init /\ [][Next]_evars
=============================================================================
