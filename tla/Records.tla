------------------------------- MODULE Records -------------------------------
(***************************************************************************)
(* The values of the record service: what is stored, what a listing asks   *)
(* for, under which key an answer is cached, and the answers a call gets.  *)
(*                                                                         *)
(* A record never changes after its INSERT (pkg/dao has no update and no   *)
(* delete), so it is represented by its uuid.  A listing is a set: the     *)
(* query has no ORDER BY, hence the order of its rows means nothing.       *)
(***************************************************************************)
EXTENDS Integers, FiniteSets

CONSTANTS IDs,      \* the uuids that uuid.New may return
          GetKeys,  \* the strings clients pass as the id of GetRecord
          Opts      \* the listings asked for, [Size : Int, Page : Int]

\* Mutant: the size is left out of the key of a listing.
KeyOfPage(o) == [key |-> <<o.Page>>]

\* fmt.Sprintf("%v-%v", opt.Page, opt.Size), as its tokens
KeyOf(o) == [key |-> <<o.Page, "-", o.Size>>]

ListKeys == {KeyOf(o) : o \in Opts}
Keys     == IDs \cup GetKeys \cup ListKeys

\* A uuid has four dashes and a listing key at most three: they never meet.
ASSUME OptsAssumption == Opts \subseteq [Size : Int, Page : Int]
ASSUME KeysAssumption == IDs \cap ListKeys = {}

-----------------------------------------------------------------------------
(* The page a listing selects from a table with n rows. *)

Limited(o) == o.Size > 0

Offset(o) == IF o.Page > 0 THEN o.Page * o.Size ELSE 0

PageLen(n, o) ==
  IF ~Limited(o) THEN n
  ELSE IF n <= Offset(o) THEN 0
  ELSE IF n - Offset(o) <= o.Size THEN n - Offset(o) ELSE o.Size

PageOf(S, o) == {P \in SUBSET S : Cardinality(P) = PageLen(Cardinality(S), o)}

-----------------------------------------------------------------------------
(* Answers.  The first two are also what a cache entry may hold. *)

Rec(i)   == [is |-> "record", id |-> i]
Page(P)  == [is |-> "page", rows |-> P]

None        == [is |-> "none"]         \* no argument, no cache entry
Pending     == [is |-> "pending"]
NotFound    == [is |-> "notfound"]     \* gorm.ErrRecordNotFound
Unavailable == [is |-> "unavailable"]  \* MySQL or Redis failed
Mistyped    == [is |-> "mistyped"]     \* the cached JSON is of the other type

Errors  == {Unavailable, Mistyped}
Values  == {Rec(i) : i \in IDs} \cup {Page(P) : P \in SUBSET IDs}
Results == Values \cup Errors \cup {Pending, NotFound}
=============================================================================
