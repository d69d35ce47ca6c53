---------------------------- MODULE MCHttpAdapter ----------------------------
(***************************************************************************)
(* Requests of every method, with no body, a malformed one and one that    *)
(* gives every field, and with every combination of query strings.         *)
(***************************************************************************)
EXTENDS HttpAdapter, FiniteSets

CONSTANTS r1, r2

\* "big" is a numeral beyond 32 bits, "x" is none.
MCStrings == {"", "one", "minus", "big", "x"}
MCNumerals == [one |-> 1, minus |-> -1, big |-> 4]
MCNums == {0, 1}

Bodies(fields) == {Malformed, Empty, [is |-> "fields", of |-> fields]}

In(m, fields, urls) == {[method |-> m, body |-> b, url |-> u] : b \in Bodies(fields), u \in urls}

MCIncoming ==
  In("Health", <<>>, {<<>>}) \cup In("Config", <<>>, {<<>>})
    \cup In("CreateRecord", [TheNum |-> 1, TheStr |-> "x"], {<<>>})
    \cup In("GetRecord", [ID |-> "x"], [ID : {"one"}])
    \cup In("ListRecord", [PageSize |-> "one", Page |-> "one"],
            [PageSize : MCStrings, Page : MCStrings])

=============================================================================
