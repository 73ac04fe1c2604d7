----------------------------- MODULE MCLogger -----------------------------
(***************************************************************************)
(* The constants of the run of Logger: the standard output and one file,   *)
(* of which the file may be added later, and two patterns that are read    *)
(* without an error.  %%T is the character % and then a tab.               *)
(***************************************************************************)
EXTENDS Logger, TLC

CONSTANTS out, file, f1, f2

MCPattern ==
  f1 :> <<"%", "d", "{", "Y", "}", "a">> @@ f2 :> <<"%", "%", "T">>
MCAdded == {<<out, file>>, <<out>>}
MCLetters == {"Y", "a", "T", "d"}

ASSUME MCAssumption == \A f \in Formatters : Spelled(Pattern[f])
===========================================================================
