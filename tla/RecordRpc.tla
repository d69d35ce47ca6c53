------------------------------- MODULE RecordRpc -------------------------------
(***************************************************************************)
(* The methods of GoAmazingServer (pkg/rpc/rpc.go) as what they make of a  *)
(* request: the call of the record DAO, or a refusal before any.           *)
(*                                                                         *)
(* The strings of a query are members of a small set; Numerals gives the   *)
(* number of those that strconv reads as one.                              *)
(***************************************************************************)
EXTENDS Integers

CONSTANTS Strings,    \* the strings a request may hold, "" among them
          Numerals,   \* the number each numeral among them stands for
          Nums,       \* the numbers a request may hold, 0 among them
          Int32       \* the number of values of a 32-bit integer

ASSUME StringsAssumption ==
  "" \in Strings /\ DOMAIN Numerals \subseteq Strings \ {""} /\ 0 \in Nums

\* The fields of each request, at their zero values, but for the created_at of
\* a create, which the method never reads.
Requests ==
  [Health |-> <<>>, Config |-> <<>>,
   CreateRecord |-> [TheNum |-> 0, TheStr |-> ""],
   GetRecord |-> [ID |-> ""],
   ListRecord |-> [PageSize |-> "", Page |-> ""]]

Methods == DOMAIN Requests

Refusal == [dao |-> "refused"]

\* validate:"required" on both fields
Valid(req) == req.PageSize # "" /\ req.Page # ""

\* strconv.ParseInt(s, 10, 32)
Parses(s) ==
  s \in DOMAIN Numerals /\ Numerals[s] \in -(Int32 \div 2)..(Int32 \div 2) - 1

ListRecord(req) ==
  IF Valid(req) /\ Parses(req.PageSize) /\ Parses(req.Page)
  THEN [dao |-> "ListRecords",
        opt |-> [Size |-> Numerals[req.PageSize], Page |-> Numerals[req.Page]]]
  ELSE Refusal

CreateRecord(req) == [dao |-> "CreateRecord", TheNum |-> req.TheNum, TheStr |-> req.TheStr]

GetRecord(req) == [dao |-> "GetRecord", id |-> req.ID]

\* Health and Config answer without the DAO.
Serve(method, req) ==
  CASE method = "CreateRecord" -> CreateRecord(req)
    [] method = "GetRecord"    -> GetRecord(req)
    [] method = "ListRecord"   -> ListRecord(req)
    [] OTHER                   -> [dao |-> "none"]

\* What a method may have done and answer.  The DAO may fail before its effect,
\* after it (the INSERT committed, its reply was lost), or have it after it failed (MySQL
\* executes the INSERT later), which counts as done.
Outcomes(method, req) ==
  CASE Serve(method, req) = Refusal          -> {[done |-> 0, result |-> "failed"]}
    [] Serve(method, req) = [dao |-> "none"] -> {[done |-> 1, result |-> "data"]}
    [] OTHER -> {[done |-> 0, result |-> "failed"], [done |-> 1, result |-> "failed"],
                 [done |-> 1, result |-> "data"]}
=============================================================================
