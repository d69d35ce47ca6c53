--------------------------- MODULE MCGraphqlResolver ---------------------------
(***************************************************************************)
(* Requests of two fields: a query with two of its methods, each with all  *)
(* or none of its arguments, or a mutation with two creates.               *)
(***************************************************************************)
EXTENDS GraphqlResolver

MCStrings == {"", "one", "a"}
MCNumerals == [one |-> 1]
MCNums == {0, 1}

Value == [the_num |-> 1, the_str |-> "a", created_at |-> "a", id |-> "a",
          size |-> "one", page |-> "one"]

WithArgs(m) ==
  {[method |-> m, args |-> [a \in A |-> Value[a]]] : A \in {{}, Arguments[m]}}

InQuery == UNION {WithArgs(m) : m \in {"Health", "GetRecord", "ListRecord"}}

MCRequested ==
  {<<a, b>> : a, b \in InQuery} \cup {<<a, b>> : a, b \in WithArgs("CreateRecord")}
=============================================================================
