------------------------------- MODULE PbReader -------------------------------
(***************************************************************************)
(* Unmarshal, as it reads a byte slice: the loop over the fields that is   *)
(* generated for each message, the loop over the bytes of a varint, the    *)
(* call into an embedded record, and skipRpc for a field the message does  *)
(* not have.  Each call has a frame; iNdEx of the code is `at', and a      *)
(* slice or an index out of range is the panic of the Go runtime.          *)
(***************************************************************************)
EXTENDS PbMessages

\* The slices read, each with the message that reads it and with what is known
\* of the bytes: nothing (of = <<>>), that they are the first of the message
\* <<a>>, or that they are the messages <<a, b>>, one after the other, with a
\* field of a later version of the message between them.
CONSTANT Inputs

\* A field is a tag and what its wire type says; a group has fields in between.
\* It is given as its tokens, each with the number of groups open after it.
Payload(k) ==
  CASE k.tag % 8 = 0 -> encodeVarintRpc[k.num]
    [] k.tag % 8 = 2 -> encodeVarintRpc[Len(k.data)] \o k.data
    [] k.tag % 8 \in {1, 5} -> k.data
    [] OTHER -> <<>>

TokenBytes(k) == encodeVarintRpc[k.tag] \o Payload(k)

FieldBytes(tokens) == FlattenSeq([j \in DOMAIN tokens |-> TokenBytes(tokens[j])])

IsUnknownField(type, tokens) ==
  LET before(j) == IF j = 1 THEN 0 ELSE tokens[j - 1].depth
      number    == Signed(tokens[1].tag \div 8, TagWord)
  IN  /\ tokens \in Seq([tag : 0..Word - 1, num : 0..Word - 1, data : Seq(Byte), depth : Nat])
      /\ tokens # <<>> =>
           /\ number > 0 /\ number \notin DOMAIN Cases[type] /\ tokens[1].tag % 8 # 4
           /\ tokens[Len(tokens)].depth = 0
      /\ \A j \in DOMAIN tokens :
           /\ tokens[j].tag % 8 \in 0..5
           /\ tokens[j].tag % 8 = 1 => Len(tokens[j].data) = 8
           /\ tokens[j].tag % 8 = 5 => Len(tokens[j].data) = 4
           /\ tokens[j].depth = CASE tokens[j].tag % 8 = 3 -> before(j) + 1
                                  [] tokens[j].tag % 8 = 4 -> before(j) - 1
                                  [] OTHER -> before(j)
           /\ j < Len(tokens) => tokens[j].depth > 0

ASSUME InputsAssumption ==
  \A i \in Inputs :
    /\ i.type \in Messages
    /\ i.bytes \in Seq(Byte) /\ Len(i.bytes) < Word \div 2
    /\ i.of \in Seq(Message[i.type]) /\ Len(i.of) \in 0..2
    /\ Len(i.of) = 1 =>
         /\ Len(Marshal(i.type, i.of[1])) < Word \div 2
         /\ IsPrefix(i.bytes, Marshal(i.type, i.of[1]))
    /\ Len(i.of) = 2 =>
         /\ IsUnknownField(i.type, i.between)
         /\ i.bytes = Marshal(i.type, i.of[1]) \o FieldBytes(i.between)
                        \o Marshal(i.type, i.of[2])

VARIABLES input,    \* the slice read
          stack,    \* the calls under way, the running one last
          varint,   \* the varint being read: its value and the weight of its next bits
          pc,       \* where the running call is
          outcome   \* "reading", "ok", "error" or "panic"

vars == <<input, stack, varint, pc, outcome>>

Frame(fn, d, m) ==
  [fn |-> fn, d |-> d, at |-> 0, pre |-> 0, field |-> 0, depth |-> 0, m |-> m]

NoBits == [acc |-> 0, weight |-> 1]

Init ==
  /\ input \in Inputs
  /\ stack = <<Frame(input.type, input.bytes, New[input.type])>>
  /\ varint = NoBits
  /\ pc = "loop"
  /\ outcome = "reading"

top == stack[Len(stack)]

Skipping == top.fn = "skipRpc"

InRange(d, lo, hi) == 0 <= lo /\ lo <= hi /\ hi <= Len(d)

Finish(o) == outcome' = o /\ pc' = "done" /\ UNCHANGED <<input, stack, varint>>

Continue(frames, at) ==
  stack' = frames /\ pc' = at /\ UNCHANGED <<input, varint, outcome>>

\* The running call goes on as frame f.
Become(f, at) == Continue([stack EXCEPT ![Len(stack)] = f], at)

ReadVarint(f, for) ==
  /\ stack' = [stack EXCEPT ![Len(stack)] = f]
  /\ varint' = NoBits
  /\ pc' = for
  /\ UNCHANGED <<input, outcome>>

-----------------------------------------------------------------------------
(* for iNdEx < l *)

StartField ==
  /\ pc = "loop"
  /\ top.at < Len(top.d)
  /\ ReadVarint([top EXCEPT !.pre = top.at], "tag")

\* The field of the caller that an embedded record r is read for.
WithRecord(caller, r) ==
  LET case == Cases[caller.fn][caller.field]
      old  == caller.m[case.name]
      new  == IF case.kind = "messages" THEN Append(old, r) ELSE <<r>>
  IN  [caller EXCEPT !.m = [@ EXCEPT ![case.name] = new]]

EndOfSlice ==
  /\ pc = "loop"
  /\ top.at >= Len(top.d)
  /\ IF Skipping \/ top.at > Len(top.d) THEN Finish("error")
     ELSE IF Len(stack) = 1 THEN Finish("ok")
     ELSE LET n == Len(stack) - 1
          IN  Continue([SubSeq(stack, 1, n) EXCEPT ![n] = WithRecord(@, top.m)], "loop")

-----------------------------------------------------------------------------
(* The loop over the bytes of a varint: a tag, a length or a number. *)

Then == [tag |-> "tagged", len |-> "measured", num |-> "counted"]

ReadByte ==
  /\ pc \in DOMAIN Then
  /\ varint.weight < Word
  /\ top.at < Len(top.d)
  /\ IF top.at < 0 THEN Finish("panic")
     ELSE LET b == top.d[top.at + 1]
          IN  /\ stack' = [stack EXCEPT ![Len(stack)].at = @ + 1]
              /\ varint' = [acc |-> (varint.acc + (b % 128) * varint.weight) % Word,
                            weight |-> varint.weight * 128]
              /\ pc' = IF b < 128 THEN Then[pc] ELSE pc
              /\ UNCHANGED <<input, outcome>>

\* ErrIntOverflowRpc and io.ErrUnexpectedEOF
VarintFails ==
  /\ pc \in DOMAIN Then
  /\ varint.weight >= Word \/ top.at >= Len(top.d)
  /\ Finish("error")

-----------------------------------------------------------------------------
(* switch fieldNum *)

fieldNum == Signed(varint.acc \div 8, TagWord)
wireType == varint.acc % 8

KnownField == fieldNum \in DOMAIN Cases[top.fn]

WireTypeOf(kind) == IF kind \in {"int", "bool"} THEN 0 ELSE 2

GoodTag == wireType # 4 /\ fieldNum > 0

BadTag ==
  /\ pc = "tagged"
  /\ ~Skipping
  /\ ~GoodTag
  /\ Finish("error")

EnterField ==
  /\ pc = "tagged"
  /\ ~Skipping
  /\ GoodTag
  /\ KnownField
  /\ IF wireType # WireTypeOf(Cases[top.fn][fieldNum].kind) THEN Finish("error")
     ELSE ReadVarint([top EXCEPT !.field = fieldNum],
                     IF wireType = 0 THEN "num" ELSE "len")

\* iNdEx = preIndex; skipRpc(dAtA[iNdEx:])
SkipField ==
  /\ pc = "tagged"
  /\ ~Skipping
  /\ GoodTag
  /\ ~KnownField
  /\ Continue(Append([stack EXCEPT ![Len(stack)].at = top.pre],
                     Frame("skipRpc", SubSeq(top.d, top.pre + 1, Len(top.d)), <<>>)),
              "loop")

field == Cases[top.fn][top.field]

TakeNumber ==
  /\ pc = "counted"
  /\ ~Skipping
  /\ LET v == Signed(varint.acc, Word)
     IN  Become([top EXCEPT !.m = [@ EXCEPT ![field.name] =
                                     IF field.kind = "bool" THEN v # 0 ELSE v]], "loop")

length == Signed(varint.acc, Word)

\* Mutant: a length beyond the end is taken to mean the rest.
postIndexClamped ==
  IF top.at + length > Len(top.d) THEN Len(top.d) ELSE top.at + length

postIndex == Signed(top.at + length, Word)

\* Mutant: the sum is not checked for having wrapped around.
BadLengthUnwrapped == length < 0 \/ postIndex > Len(top.d)

BadLength == length < 0 \/ postIndex < 0 \/ postIndex > Len(top.d)

LengthFails ==
  /\ pc = "measured"
  /\ ~Skipping
  /\ BadLength
  /\ Finish("error")

\* dAtA[iNdEx:postIndex] is there for field kinds K.
Sliced(K) ==
  /\ pc = "measured"
  /\ ~Skipping
  /\ ~BadLength
  /\ field.kind \in K

slice == SubSeq(top.d, top.at + 1, postIndex)

TakeBytes ==
  /\ Sliced({"string", "time"})
  /\ IF ~InRange(top.d, top.at, postIndex) THEN Finish("panic")
     ELSE \E v \in IF field.kind = "string" THEN {slice}
                   ELSE {<<t>> : t \in IF slice \in Times THEN {slice} ELSE Times} :
            Become([top EXCEPT !.m = [@ EXCEPT ![field.name] = v], !.at = postIndex], "loop")

\* StdTimeUnmarshal refuses what is no time; other encodings of a time than the
\* one Marshal writes are left open by both actions.
TimeFails ==
  /\ Sliced({"time"})
  /\ InRange(top.d, top.at, postIndex)
  /\ slice \notin Times
  /\ Finish("error")

\* Mutant: an embedded record is read into a new one each time.
EnterRecordAfresh ==
  /\ Sliced({"message", "messages"})
  /\ Continue(Append([stack EXCEPT ![Len(stack)].at = postIndex],
                     Frame("Record", slice, New.Record)), "loop")

\* An embedded record is read into the one already there, if there is one; an
\* element of a list into a new one.
EnterRecord ==
  /\ Sliced({"message", "messages"})
  /\ IF ~InRange(top.d, top.at, postIndex) THEN Finish("panic")
     ELSE LET old == top.m[field.name]
              m   == IF field.kind = "message" /\ old # <<>> THEN old[1] ELSE New.Record
          IN  Continue(Append([stack EXCEPT ![Len(stack)].at = postIndex],
                              Frame("Record", slice, m)), "loop")

-----------------------------------------------------------------------------
(* skipRpc *)

\* Mutant: the caller goes back to the field and does not move on.
SkipNothing(skippy) == Continue(SubSeq(stack, 1, Len(stack) - 1), "loop")

\* The caller moves on by skippy bytes.
Skip(skippy) ==
  LET n    == Len(stack) - 1
      next == Signed(stack[n].at + skippy, Word)
  IN  IF next < 0 \/ next > Len(stack[n].d) THEN Finish("error")
      ELSE Continue([SubSeq(stack, 1, n) EXCEPT ![n].at = next], "loop")

\* Mutant: the new position is not checked for having wrapped around.
SkipToUnchecked(at, depth) ==
  IF depth = 0 THEN Skip(at)
  ELSE Become([top EXCEPT !.at = at, !.depth = depth], "loop")

\* The end of the loop: out of every group the skipped field ends here.
SkipTo(at, depth) ==
  IF at < 0 THEN Finish("error")
  ELSE IF depth = 0 THEN Skip(at)
  ELSE Become([top EXCEPT !.at = at, !.depth = depth], "loop")

SkipVarint == pc = "tagged" /\ Skipping /\ wireType = 0 /\ ReadVarint(top, "num")
SkipFixed  == pc = "tagged" /\ Skipping /\ wireType \in {1, 5}
                /\ SkipTo(Signed(top.at + (IF wireType = 1 THEN 8 ELSE 4), Word), top.depth)
SkipBytes  == pc = "tagged" /\ Skipping /\ wireType = 2 /\ ReadVarint(top, "len")
SkipGroup  == pc = "tagged" /\ Skipping /\ wireType = 3 /\ SkipTo(top.at, top.depth + 1)
SkipEnd    == pc = "tagged" /\ Skipping /\ wireType = 4
                /\ IF top.depth = 0 THEN Finish("error") ELSE SkipTo(top.at, top.depth - 1)
SkipFails  == pc = "tagged" /\ Skipping /\ wireType \in {6, 7} /\ Finish("error")

SkipNumber == pc = "counted" /\ Skipping /\ SkipTo(top.at, top.depth)
SkipSlice  == pc = "measured" /\ Skipping
                /\ IF length < 0 THEN Finish("error")
                   ELSE SkipTo(Signed(top.at + length, Word), top.depth)

skipRpc ==
  \/ SkipVarint \/ SkipFixed \/ SkipBytes \/ SkipGroup \/ SkipEnd \/ SkipFails
  \/ SkipNumber \/ SkipSlice

-----------------------------------------------------------------------------
Next ==
  \/ StartField \/ EndOfSlice
  \/ ReadByte \/ VarintFails
  \/ BadTag \/ EnterField \/ SkipField
  \/ TakeNumber \/ LengthFails \/ TakeBytes \/ TimeFails \/ EnterRecord
  \/ skipRpc

Spec == Init /\ [][Next]_vars

FairSpec == Spec /\ WF_vars(Next)

-----------------------------------------------------------------------------
(* Properties *)

\* The calls are two deep at most, an embedded record and a skip within it, and
\* no read position is negative.
TypeOK ==
  /\ Len(stack) \in 1..3
  /\ \A n \in DOMAIN stack : /\ stack[n].fn \in Messages \cup {"skipRpc"}
                             /\ stack[n].d \in Seq(Byte)
                             /\ stack[n].at \in Nat /\ stack[n].pre \in Nat
  /\ varint.acc \in 0..Word - 1 /\ varint.weight \in Nat
  /\ pc \in {"loop", "tag", "len", "num", "tagged", "measured", "counted", "done"}
  /\ outcome \in {"reading", "ok", "error", "panic"}

result == stack[1].m

\* No slice of bytes, however damaged, takes Unmarshal out of its bounds: every
\* length is checked after it wrapped around, not before.
NeverPanics == outcome # "panic"

\* What Unmarshal makes of message a with message b read over it.
Merge(type, a, b) ==
  [f \in DOMAIN a |->
     LET case == CHOOSE i \in DOMAIN Cases[type] : Cases[type][i].name = f
         list == Cases[type][case].kind = "messages"
     IN  IF list THEN a[f] \o b[f]
         ELSE IF b[f] = New[type][f] THEN a[f] ELSE b[f]]

MergeAll(type, a, b) ==
  IF type \in {"CreateRecordRes", "GetRecordRes"} /\ a.Record # <<>> /\ b.Record # <<>>
  THEN [Record |-> <<Merge("Record", a.Record[1], b.Record[1])>>]
  ELSE Merge(type, a, b)

\* Marshal and Unmarshal are inverse: what was written is read back, fields of
\* a later version of the message between two are skipped, and two messages
\* one after the other are read as their merge (a record embedded twice too).
ReadsAsMerged ==
  outcome # "reading" /\ Len(input.of) = 2 =>
    outcome = "ok" /\ result = MergeAll(input.type, input.of[1], input.of[2])

\* A message cut off is refused or, at the end of a field, read as exactly the
\* fields that arrived: writing the result gives the bytes read.
CutIsNoOther ==
  outcome = "ok" /\ Len(input.of) = 1 =>
    Marshal(input.type, result) = input.bytes

\* Equal tells messages apart that are written differently, and only those,
\* unless it panics (a nil time of its receiver against one that is set).
EqualIsSameBytes ==
  outcome = "ok" =>
    \A i \in DOMAIN input.of :
      LET e == Equal(input.type, result, input.of[i])
          same == Marshal(input.type, result) = Marshal(input.type, input.of[i])
      IN  e = "panic" \/ (e = "equal") = same

\* Unmarshal returns, whatever the bytes: each round of each loop moves on.
Ends == <>(outcome # "reading")
=============================================================================
