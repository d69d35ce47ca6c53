---------------------------- MODULE MCDynamicConfig ----------------------------
(***************************************************************************)
(* Documents with all keys, with one key, with none and with a type error. *)
(***************************************************************************)
EXTENDS DynamicConfig, TLC

CONSTANT r1

Doc(f) == [fields |-> f, malformed |-> FALSE]

SomeDocuments ==
  { Doc("enable" :> 1 @@ "num" :> 1 @@ "str" :> 1),
    Doc("enable" :> 1 @@ "num" :> 2 @@ "str" :> 2),
    Doc("str" :> 1),
    Doc("num" :> 2),
    Doc(<<>>),
    [fields |-> "enable" :> 1 @@ "num" :> 2, malformed |-> TRUE] }
=============================================================================
