------------------------------ MODULE PbMessages ------------------------------
(***************************************************************************)
(* The eleven messages of pkg/pb/rpc.pb.go and the functions generated for *)
(* each: Size, MarshalToSizedBuffer, Equal, and Unmarshal.  Of the last    *)
(* this module has the cases, the name and kind of each field by number;   *)
(* the loops around them are the same in every message: module PbReader.   *)
(*                                                                         *)
(* A byte is a number below 256 and a string the sequence of its bytes.  A *)
(* pointer is a sequence of length at most one, <<>> for nil, so that a    *)
(* pointer to a message and a list of messages have the same shape.  A     *)
(* time.Time is the sequence of bytes StdTimeMarshal writes for it.        *)
(***************************************************************************)
EXTENDS Integers, Sequences, SequencesExt

CONSTANTS Word,     \* the number of values of a uint64
          TagWord,  \* the number of values of an int32
          Times     \* the encodings of the times in use

Byte == 0..255

\* Every tag of a field below is a byte.
ASSUME WordAssumption == /\ Word \in Nat /\ Word >= 256 /\ Word % 2 = 0
                         /\ TagWord \in Nat /\ TagWord >= 64 /\ TagWord % 2 = 0
ASSUME TimesAssumption == Times \subseteq Seq(Byte)

-----------------------------------------------------------------------------
(* Numbers: a conversion to a signed integer of w values keeps the bits. *)

Signed(x, w) == IF x % w < w \div 2 THEN x % w ELSE (x % w) - w

Unsigned(x) == x % Word

\* bits.Len64(x|1): how many bits x has, 1 for zero
BitLen[x \in Nat] == IF x < 2 THEN 1 ELSE 1 + BitLen[x \div 2]

sovRpc(x) == (BitLen[x] + 6) \div 7

\* Seven bits to a byte, the lowest first, the high bit set on all but the last.
encodeVarintRpc[v \in Nat] ==
  IF v < 128 THEN <<v>> ELSE <<128 + (v % 128)>> \o encodeVarintRpc[v \div 128]

-----------------------------------------------------------------------------
(* Fields.  A zero field is left out, a pointer only when it is nil. *)

StrSize(str)  == IF str = <<>> THEN 0 ELSE 1 + Len(str) + sovRpc(Len(str))
NumSize(num)  == IF num = 0 THEN 0 ELSE 1 + sovRpc(Unsigned(num))
BoolSize(b)   == IF b THEN 2 ELSE 0
PtrSize(size) == 1 + size + sovRpc(size)

StrBytes(tag, str) ==
  IF str = <<>> THEN <<>> ELSE <<tag>> \o encodeVarintRpc[Len(str)] \o str
NumBytes(tag, num) ==
  IF num = 0 THEN <<>> ELSE <<tag>> \o encodeVarintRpc[Unsigned(num)]
BoolBytes(tag, b)  == IF b THEN <<tag, 1>> ELSE <<>>
PtrBytes(tag, bytes) == <<tag>> \o encodeVarintRpc[Len(bytes)] \o bytes

TimeSize(t)       == IF t = <<>> THEN 0 ELSE PtrSize(Len(t[1]))
TimeBytes(tag, t) == IF t = <<>> THEN <<>> ELSE PtrBytes(tag, t[1])

Same(a, b) == IF a = b THEN "equal" ELSE "differ"

\* this.CreatedAt.Equal(*that.CreatedAt) dereferences a nil receiver.
SameTime(a, b) == IF b # <<>> /\ a = <<>> THEN "panic" ELSE Same(a, b)

\* Equal returns at the first field that differs.
Verdict(fields) ==
  IF \A i \in DOMAIN fields : fields[i] = "equal" THEN "equal"
  ELSE fields[CHOOSE i \in DOMAIN fields :
                 fields[i] # "equal" /\ \A j \in 1..i - 1 : fields[j] = "equal"]

Field(name, kind) == [name |-> name, kind |-> kind]

\* The values of fields.
Text       == Seq(Byte)
Int64      == -(Word \div 2) .. (Word \div 2) - 1
Pointer(S) == {s \in Seq(S) : Len(s) <= 1}

-----------------------------------------------------------------------------
(* Record *)

Record == [ID : Text, TheNum : Int64, TheStr : Text,
           CreatedAt : Pointer(Times), UpdatedAt : Pointer(Times)]

SizeRecord(m) ==
  StrSize(m.ID) + NumSize(m.TheNum) + StrSize(m.TheStr)
    + TimeSize(m.CreatedAt) + TimeSize(m.UpdatedAt)

MarshalRecord(m) ==
  StrBytes(10, m.ID) \o NumBytes(16, m.TheNum) \o StrBytes(26, m.TheStr)
    \o TimeBytes(34, m.CreatedAt) \o TimeBytes(42, m.UpdatedAt)

\* Mutant: the field added last is forgotten.
EqualRecordButUpdated(a, b) ==
  Verdict(<<Same(a.ID, b.ID), Same(a.TheNum, b.TheNum), Same(a.TheStr, b.TheStr),
            SameTime(a.CreatedAt, b.CreatedAt)>>)

EqualRecord(a, b) ==
  Verdict(<<Same(a.ID, b.ID), Same(a.TheNum, b.TheNum), Same(a.TheStr, b.TheStr),
            SameTime(a.CreatedAt, b.CreatedAt), SameTime(a.UpdatedAt, b.UpdatedAt)>>)

UnmarshalRecord ==
  <<Field("ID", "string"), Field("TheNum", "int"), Field("TheStr", "string"),
    Field("CreatedAt", "time"), Field("UpdatedAt", "time")>>

\* Pointers to a record.
RecordPtrSize(p)       == IF p = <<>> THEN 0 ELSE PtrSize(SizeRecord(p[1]))
RecordPtrBytes(tag, p) == IF p = <<>> THEN <<>> ELSE PtrBytes(tag, MarshalRecord(p[1]))
SameRecord(p, q) ==
  IF p = <<>> \/ q = <<>> THEN Same(p = <<>>, q = <<>>) ELSE EqualRecord(p[1], q[1])

-----------------------------------------------------------------------------
(* Health *)

SizeHealthReq(m)     == 0
MarshalHealthReq(m)  == <<>>
EqualHealthReq(a, b) == "equal"
UnmarshalHealthReq   == <<>>

SizeHealthRes(m)     == BoolSize(m.Ok)
MarshalHealthRes(m)  == BoolBytes(8, m.Ok)
EqualHealthRes(a, b) == Same(a.Ok, b.Ok)
UnmarshalHealthRes   == <<Field("Ok", "bool")>>

-----------------------------------------------------------------------------
(* Config *)

SizeConfigReq(m)     == 0
MarshalConfigReq(m)  == <<>>
EqualConfigReq(a, b) == "equal"
UnmarshalConfigReq   == <<>>

SizeConfigRes(m) == BoolSize(m.Enable) + NumSize(m.Num) + StrSize(m.Str)
MarshalConfigRes(m) ==
  BoolBytes(8, m.Enable) \o NumBytes(16, m.Num) \o StrBytes(26, m.Str)
EqualConfigRes(a, b) ==
  Verdict(<<Same(a.Enable, b.Enable), Same(a.Num, b.Num), Same(a.Str, b.Str)>>)
UnmarshalConfigRes ==
  <<Field("Enable", "bool"), Field("Num", "int"), Field("Str", "string")>>

-----------------------------------------------------------------------------
(* CreateRecord *)

SizeCreateRecordReq(m) ==
  NumSize(m.TheNum) + StrSize(m.TheStr) + TimeSize(m.CreatedAt)
MarshalCreateRecordReq(m) ==
  NumBytes(8, m.TheNum) \o StrBytes(18, m.TheStr) \o TimeBytes(26, m.CreatedAt)
EqualCreateRecordReq(a, b) ==
  Verdict(<<Same(a.TheNum, b.TheNum), Same(a.TheStr, b.TheStr),
            SameTime(a.CreatedAt, b.CreatedAt)>>)
UnmarshalCreateRecordReq ==
  <<Field("TheNum", "int"), Field("TheStr", "string"), Field("CreatedAt", "time")>>

SizeCreateRecordRes(m)     == RecordPtrSize(m.Record)
MarshalCreateRecordRes(m)  == RecordPtrBytes(10, m.Record)
EqualCreateRecordRes(a, b) == SameRecord(a.Record, b.Record)
UnmarshalCreateRecordRes   == <<Field("Record", "message")>>

-----------------------------------------------------------------------------
(* GetRecord *)

SizeGetRecordReq(m)     == StrSize(m.ID)
MarshalGetRecordReq(m)  == StrBytes(10, m.ID)
EqualGetRecordReq(a, b) == Same(a.ID, b.ID)
UnmarshalGetRecordReq   == <<Field("ID", "string")>>

SizeGetRecordRes(m)     == RecordPtrSize(m.Record)
MarshalGetRecordRes(m)  == RecordPtrBytes(10, m.Record)
EqualGetRecordRes(a, b) == SameRecord(a.Record, b.Record)
UnmarshalGetRecordRes   == <<Field("Record", "message")>>

-----------------------------------------------------------------------------
(* ListRecord *)

SizeListRecordReq(m)     == StrSize(m.PageSize) + StrSize(m.Page)
MarshalListRecordReq(m)  == StrBytes(10, m.PageSize) \o StrBytes(18, m.Page)
EqualListRecordReq(a, b) == Verdict(<<Same(a.PageSize, b.PageSize), Same(a.Page, b.Page)>>)
UnmarshalListRecordReq   == <<Field("PageSize", "string"), Field("Page", "string")>>

\* The loop over the records, by the records it has seen.
SizeOfFirst(records) ==
  LET n[i \in 0..Len(records)] ==
        IF i = 0 THEN 0 ELSE n[i - 1] + PtrSize(SizeRecord(records[i]))
  IN  n

SizeListRecordRes(m) == SizeOfFirst(m.Records)[Len(m.Records)]
MarshalListRecordRes(m) ==
  FlattenSeq([i \in DOMAIN m.Records |-> PtrBytes(10, MarshalRecord(m.Records[i]))])
EqualListRecordRes(a, b) ==
  IF Len(a.Records) # Len(b.Records) THEN "differ"
  ELSE Verdict([i \in DOMAIN a.Records |-> EqualRecord(a.Records[i], b.Records[i])])
UnmarshalListRecordRes   == <<Field("Records", "messages")>>

-----------------------------------------------------------------------------
(* By the name of the message *)

\* The zero value of each struct, what Reset assigns.
New ==
  [Record |-> [ID |-> <<>>, TheNum |-> 0, TheStr |-> <<>>,
               CreatedAt |-> <<>>, UpdatedAt |-> <<>>],
   HealthReq |-> <<>>, HealthRes |-> [Ok |-> FALSE],
   ConfigReq |-> <<>>, ConfigRes |-> [Enable |-> FALSE, Num |-> 0, Str |-> <<>>],
   CreateRecordReq |-> [TheNum |-> 0, TheStr |-> <<>>, CreatedAt |-> <<>>],
   CreateRecordRes |-> [Record |-> <<>>],
   GetRecordReq |-> [ID |-> <<>>], GetRecordRes |-> [Record |-> <<>>],
   ListRecordReq |-> [PageSize |-> <<>>, Page |-> <<>>],
   ListRecordRes |-> [Records |-> <<>>]]

Messages == DOMAIN New

\* The values of each struct.
Message ==
  [Record |-> Record,
   HealthReq |-> {<<>>}, HealthRes |-> [Ok : BOOLEAN],
   ConfigReq |-> {<<>>}, ConfigRes |-> [Enable : BOOLEAN, Num : Int64, Str : Text],
   CreateRecordReq |-> [TheNum : Int64, TheStr : Text, CreatedAt : Pointer(Times)],
   CreateRecordRes |-> [Record : Pointer(Record)],
   GetRecordReq |-> [ID : Text], GetRecordRes |-> [Record : Pointer(Record)],
   ListRecordReq |-> [PageSize : Text, Page : Text],
   ListRecordRes |-> [Records : Seq(Record)]]

Cases ==
  [Record |-> UnmarshalRecord,
   HealthReq |-> UnmarshalHealthReq, HealthRes |-> UnmarshalHealthRes,
   ConfigReq |-> UnmarshalConfigReq, ConfigRes |-> UnmarshalConfigRes,
   CreateRecordReq |-> UnmarshalCreateRecordReq,
   CreateRecordRes |-> UnmarshalCreateRecordRes,
   GetRecordReq |-> UnmarshalGetRecordReq, GetRecordRes |-> UnmarshalGetRecordRes,
   ListRecordReq |-> UnmarshalListRecordReq, ListRecordRes |-> UnmarshalListRecordRes]

Size(type, m) ==
  CASE type = "Record"          -> SizeRecord(m)
    [] type = "HealthReq"       -> SizeHealthReq(m)
    [] type = "HealthRes"       -> SizeHealthRes(m)
    [] type = "ConfigReq"       -> SizeConfigReq(m)
    [] type = "ConfigRes"       -> SizeConfigRes(m)
    [] type = "CreateRecordReq" -> SizeCreateRecordReq(m)
    [] type = "CreateRecordRes" -> SizeCreateRecordRes(m)
    [] type = "GetRecordReq"    -> SizeGetRecordReq(m)
    [] type = "GetRecordRes"    -> SizeGetRecordRes(m)
    [] type = "ListRecordReq"   -> SizeListRecordReq(m)
    [] type = "ListRecordRes"   -> SizeListRecordRes(m)

MarshalToSizedBuffer(type, m) ==
  CASE type = "Record"          -> MarshalRecord(m)
    [] type = "HealthReq"       -> MarshalHealthReq(m)
    [] type = "HealthRes"       -> MarshalHealthRes(m)
    [] type = "ConfigReq"       -> MarshalConfigReq(m)
    [] type = "ConfigRes"       -> MarshalConfigRes(m)
    [] type = "CreateRecordReq" -> MarshalCreateRecordReq(m)
    [] type = "CreateRecordRes" -> MarshalCreateRecordRes(m)
    [] type = "GetRecordReq"    -> MarshalGetRecordReq(m)
    [] type = "GetRecordRes"    -> MarshalGetRecordRes(m)
    [] type = "ListRecordReq"   -> MarshalListRecordReq(m)
    [] type = "ListRecordRes"   -> MarshalListRecordRes(m)

\* The message is written from the end of a buffer of its Size, and the first
\* n bytes of the buffer are returned, n being what was written.
Marshal(type, m) ==
  LET written == MarshalToSizedBuffer(type, m)
      unused  == Size(type, m) - Len(written)
  IN  IF unused < 0 THEN <<"index out of range">>
      ELSE SubSeq([i \in 1..unused |-> 0] \o written, 1, Len(written))

Equal(type, a, b) ==
  CASE type = "Record"          -> EqualRecord(a, b)
    [] type = "HealthReq"       -> EqualHealthReq(a, b)
    [] type = "HealthRes"       -> EqualHealthRes(a, b)
    [] type = "ConfigReq"       -> EqualConfigReq(a, b)
    [] type = "ConfigRes"       -> EqualConfigRes(a, b)
    [] type = "CreateRecordReq" -> EqualCreateRecordReq(a, b)
    [] type = "CreateRecordRes" -> EqualCreateRecordRes(a, b)
    [] type = "GetRecordReq"    -> EqualGetRecordReq(a, b)
    [] type = "GetRecordRes"    -> EqualGetRecordRes(a, b)
    [] type = "ListRecordReq"   -> EqualListRecordReq(a, b)
    [] type = "ListRecordRes"   -> EqualListRecordRes(a, b)
=============================================================================
