----------------------------- MODULE RecordColumns -----------------------------
(***************************************************************************)
(* What becomes of the fields of a record between CreateRecord and the     *)
(* reads.  The RPC leaves the request's created_at out; GORM stamps the    *)
(* record in the pod, by the pod's clock, and then sends the INSERT, which *)
(* MySQL executes when it comes, after other calls' perhaps, or after its  *)
(* caller was told of an error, or never.  The create is answered from     *)
(* memory and every read from the row, whose columns are narrower than the *)
(* fields: INTEGER for an int64, varchar(255) for a string, TIMESTAMP in   *)
(* whole seconds.  Without strict mode (docker-compose.yml starts MySQL    *)
(* with an empty sql_mode) a value that does not fit is changed to one     *)
(* that does; with it, the INSERT fails.                                   *)
(*                                                                         *)
(* The pods' clocks need not agree.  That one is not set back is assumed.  *)
(***************************************************************************)
EXTENDS Integers

CONSTANTS Creates,    \* the calls of CreateRecord
          Hosts,      \* the pods
          Asked,      \* the requests: [num, len, created]; len is the string's length
          NoTime,     \* what created is in a request that leaves created_at out
          Column32,   \* the number of values of an INTEGER
          Varchar,    \* the length of a varchar column
          Second,     \* clock ticks to a second
          MaxClock    \* bound: ticks passed on a pod's clock

ASSUME ColumnsAssumption ==
  /\ Asked \subseteq [num : Int, len : Nat, created : Nat \cup {NoTime}]
  /\ {Column32, Varchar, Second, MaxClock} \subseteq Nat \ {0}
  /\ Column32 % 2 = 0

VARIABLES strict,   \* whether MySQL is in strict mode
          pod,      \* pod[c]: where call c is made
          clock,    \* clock[p]: the time in pod p, in ticks
          step,     \* step[c]: "none", "stamped", "answered" or "failed"
          record,   \* record[c]: the record in the memory of the call
          earlier,  \* earlier[c]: the creates its pod had answered when it was stamped
          rows      \* the table, with the call in place of the id

columnVars == <<strict, pod, clock, step, record, earlier, rows>>

Nothing == [num |-> 0, len |-> 0, created |-> 0, updated |-> 0]

ColumnsInit ==
  /\ strict \in BOOLEAN
  /\ pod \in [Creates -> Hosts]
  /\ clock = [p \in Hosts |-> 0]
  /\ step = [c \in Creates |-> "none"]
  /\ record = [c \in Creates |-> Nothing]
  /\ earlier = [c \in Creates |-> {}]
  /\ rows = {}

\* Mutant: the column has half the values.
SmallestNumHalved == -(Column32 \div 4)

SmallestNum == -(Column32 \div 2)

LargestNum  == (Column32 \div 2) - 1

StoredNum(n) == IF n < SmallestNum THEN SmallestNum
                ELSE IF n > LargestNum THEN LargestNum ELSE n

StoredLen(len) == IF len > Varchar THEN Varchar ELSE len

\* Rounded to the nearest second, a half up.
StoredTime(t) == Second * ((2 * t + Second) \div (2 * Second))

RowOf(c, r) == [id |-> c, num |-> StoredNum(r.num), len |-> StoredLen(r.len),
                created |-> StoredTime(r.created), updated |-> StoredTime(r.updated)]

Fits(r) == StoredNum(r.num) = r.num /\ StoredLen(r.len) = r.len

\* Mutant: the request's created_at is put into the record, where GORM keeps it.
StampedAsAsked(a, now) ==
  [num |-> a.num, len |-> a.len, updated |-> now,
   created |-> IF a.created = NoTime THEN now ELSE a.created]

Stamped(a, now) == [num |-> a.num, len |-> a.len, updated |-> now, created |-> now]

\* The record is made of the request and stamped, and the INSERT is sent.
Stamp(c) ==
  /\ step[c] = "none"
  /\ \E a \in Asked : record' = [record EXCEPT ![c] = Stamped(a, clock[pod[c]])]
  /\ earlier' = [earlier EXCEPT ![c] =
                   {d \in Creates : pod[d] = pod[c] /\ step[d] = "answered"}]
  /\ step' = [step EXCEPT ![c] = "stamped"]
  /\ UNCHANGED <<strict, pod, clock, rows>>

InTable(c) == \E r \in rows : r.id = c

\* MySQL executes the INSERT, once.
Insert(c) ==
  /\ step[c] \in {"stamped", "failed"}
  /\ ~InTable(c)
  /\ strict => Fits(record[c])
  /\ rows' = rows \cup {RowOf(c, record[c])}
  /\ UNCHANGED <<strict, pod, clock, step, record, earlier>>

Answer(c) ==
  /\ step[c] = "stamped"
  /\ InTable(c)
  /\ step' = [step EXCEPT ![c] = "answered"]
  /\ UNCHANGED <<strict, pod, clock, record, earlier, rows>>

\* MySQL refuses the INSERT, or the connection is lost before or after it.
Fail(c) ==
  /\ step[c] = "stamped"
  /\ step' = [step EXCEPT ![c] = "failed"]
  /\ UNCHANGED <<strict, pod, clock, record, earlier, rows>>

Tick(p) ==
  /\ clock[p] < MaxClock
  /\ clock' = [clock EXCEPT ![p] = @ + 1]
  /\ UNCHANGED <<strict, pod, step, record, earlier, rows>>

ColumnsNext ==
  \/ \E c \in Creates : Stamp(c)
  \/ \E c \in Creates : Insert(c)
  \/ \E c \in Creates : Answer(c)
  \/ \E c \in Creates : Fail(c)
  \/ \E p \in Hosts : Tick(p)

ColumnsSpec == ColumnsInit /\ [][ColumnsNext]_columnVars

-----------------------------------------------------------------------------
(* Properties *)

InColumns(r) == r.num \in -(Column32 \div 2)..(Column32 \div 2) - 1 /\ r.len <= Varchar

Close(s, t) == 2 * s \in 2 * t - Second..2 * t + Second

\* What a create answered is what every read gives, but for half a second at most
\* of its two times, if its fields fit their columns or MySQL is strict.
KeptIfItFits ==
  \A c \in Creates : step[c] = "answered" =>
    \E r \in rows :
      /\ r.id = c
      /\ strict \/ InColumns(record[c]) => r.num = record[c].num /\ r.len = record[c].len
      /\ Close(r.created, record[c].created) /\ Close(r.updated, record[c].updated)

\* A record whose create was answered before another create of the same pod began
\* is never read as created after it, whatever the order of their INSERTs, the
\* times the requests give, and the rounding.
CreatedInOrder ==
  \A r, s \in rows : r.id \in earlier[s.id] => r.created <= s.created
=============================================================================
