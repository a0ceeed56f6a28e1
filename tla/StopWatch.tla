------------------------------ MODULE StopWatch ------------------------------
(***************************************************************************)
(* TimeConvertMidel.swift: a number of seconds taken apart, and the text that *)
(* the code screen shows of it.  A text is the sequence of its characters     *)
(* without the colon.                                                       *)
(***************************************************************************)
EXTENDS Integers, Sequences

years(totalSeconds)   == totalSeconds \div 31536000
days(totalSeconds)    == (totalSeconds % 31536000) \div 86400
hours(totalSeconds)   == (totalSeconds % 86400) \div 3600
minutes(totalSeconds) == (totalSeconds % 3600) \div 60
seconds(totalSeconds) == totalSeconds % 60

\* The decimal digits of a number below 100.
Decimal(number) == IF number < 10 THEN <<number>> ELSE <<number \div 10, number % 10>>

timeText(number) == IF number < 10 THEN <<0>> \o Decimal(number) ELSE Decimal(number)

\* The hours are computed and left out.
simpleTimeString(totalSeconds) == timeText(minutes(totalSeconds)) \o timeText(seconds(totalSeconds))

\* What a reader makes of four characters, MM and SS.
Reads(text) == 60 * (10 * text[1] + text[2]) + 10 * text[3] + text[4]
=============================================================================
