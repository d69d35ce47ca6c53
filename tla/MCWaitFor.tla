------------------------------- MODULE MCWaitFor -------------------------------
(***************************************************************************)
(* Arguments of each kind, a word of a command, and two environments: one  *)
(* without the variables, one in which each has a value of its own.        *)
(***************************************************************************)
EXTENDS WaitFor, TLC

MCWords     == STRING
MCNumber    == ("0" :> 0) @@ ("1" :> 1) @@ ("2" :> 2)
MCUrls      == {"http://db"}
MCHostOf    == ("db:3306" :> "db") @@ ("db:" :> "db")
MCPortOf    == ("db:3306" :> "3306") @@ ("db:" :> "")
MCTimeoutOf == ("-t0" :> "0") @@ ("--timeout=1" :> "1")
MCUnbundled == ("-qt0" :> "-t0") @@ ("-qt" :> "-t")

MCEnvironments ==
  {[i \in 1..Len(Names) |-> ""], [i \in 1..6 |-> "env." \o Names[i]]}

MCArguments == {"db:3306", "db:", "http://db", "-q", "-qt0", "-qt", "-t", "1", "--", "run"}
=============================================================================
