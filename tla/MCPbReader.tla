------------------------------ MODULE MCPbReader ------------------------------
(***************************************************************************)
(* Inputs of PbReader for TLC.  A word has 15 bits, so that a varint has   *)
(* at most three bytes, the last of which gives one bit, as the tenth byte *)
(* of a real one does; an int32 has 8.                                     *)
(***************************************************************************)
EXTENDS PbReader

MCTimes == {<<>>, <<8, 1>>}

Pointers(S) == {<<>>} \cup {<<s>> : s \in S}

Strings == {<<>>, <<10, 16>>}
Numbers == {0, 200, -1}

MCRecords ==
  [ID : Strings, TheNum : Numbers, TheStr : {<<>>, <<255>>},
   CreatedAt : Pointers(MCTimes), UpdatedAt : Pointers({<<8, 1>>})]

SomeRecords ==
  {New.Record,
   [ID |-> <<10, 16>>, TheNum |-> -1, TheStr |-> <<>>, CreatedAt |-> <<>>, UpdatedAt |-> << <<8, 1>> >>],
   [ID |-> <<>>, TheNum |-> 200, TheStr |-> <<255>>, CreatedAt |-> << <<>> >>, UpdatedAt |-> <<>>]}

Samples ==
  [Record |-> MCRecords,
   HealthReq |-> {<<>>}, HealthRes |-> [Ok : BOOLEAN],
   ConfigReq |-> {<<>>},
   ConfigRes |-> [Enable : BOOLEAN, Num : Numbers, Str : Strings],
   CreateRecordReq |-> [TheNum : Numbers, TheStr : Strings, CreatedAt : Pointers(MCTimes)],
   CreateRecordRes |-> [Record : Pointers(SomeRecords)],
   GetRecordReq |-> [ID : Strings], GetRecordRes |-> [Record : Pointers(SomeRecords)],
   ListRecordReq |-> [PageSize : Strings, Page : Strings],
   ListRecordRes |-> [Records : BoundedSeq(SomeRecords, 2)]]

Token(tag, num, data, depth) == [tag |-> tag, num |-> num, data |-> data, depth |-> depth]

\* Fields no message has: a varint, a string, a group with a number in it, a
\* fixed64, a fixed32, and a field number that needs two bytes.
Unknown ==
  {<<>>, <<Token(56, 200, <<>>, 0)>>, <<Token(58, 0, <<10, 12>>, 0)>>,
   <<Token(59, 0, <<>>, 1), Token(8, 1, <<>>, 1), Token(60, 0, <<>>, 0)>>,
   <<Token(57, 0, [i \in 1..8 |-> 0], 0)>>, <<Token(61, 0, <<0, 0, 0, 0>>, 0)>>,
   <<Token(130, 0, <<128>>, 0)>>}

\* Two messages, one after the other, an unknown field between them.
Joined(t, S, U) ==
  {[type |-> t, bytes |-> Marshal(t, a) \o FieldBytes(u) \o Marshal(t, b),
    of |-> <<a, b>>, between |-> u] : a, b \in S, u \in U}

\* The proper prefixes of one message.
CutOf(t) ==
  UNION {{[type |-> t, bytes |-> SubSeq(Marshal(t, a), 1, n), of |-> <<a>>, between |-> <<>>] :
            n \in 0..Len(Marshal(t, a)) - 1} : a \in Samples[t]}

MCWritten ==
  Joined("Record", MCRecords, {<<>>}) \cup Joined("Record", SomeRecords, Unknown)
    \cup UNION {Joined(t, Samples[t], Unknown) : t \in Messages \ {"Record"}}
    \cup UNION {CutOf(t) : t \in Messages}

\* Any bytes: tags of every wire type, of fields with and without a case, small
\* lengths, and bytes that go on into the next.
Bytes == {0, 1, 10, 12, 16, 34, 58, 59, 60, 61, 127, 128, 255}

MCAnyBytes ==
  {[type |-> t, bytes |-> d, of |-> <<>>, between |-> <<>>] :
     t \in {"Record", "GetRecordRes"}, d \in BoundedSeq(Bytes, 4)}

MCInputs == MCWritten \cup MCAnyBytes
=============================================================================
