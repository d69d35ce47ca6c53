---------------------------- MODULE PbReader_proofs ----------------------------
(***************************************************************************)
(* Proofs about PbReader for every slice of bytes, every message and every *)
(* width of a word.                                                        *)
(*                                                                         *)
(* Unmarshal reads inside its slice.  The bytes of a slice are fewer than  *)
(* half the numbers of a word, so that the sum of a position and a length  *)
(* wraps around at most once, and then is below zero, where the code looks *)
(* for it (Inv, NeverPanicsAlways).                                        *)
(*                                                                         *)
(* Size is exact: Marshal fills its buffer (MarshalFillsItsBuffer).        *)
(*                                                                         *)
(* Unmarshal reads what Marshal wrote (ReadsAsMergedAlways), and a message *)
(* cut off as the fields that arrived (CutIsNoOtherAlways).  What is left  *)
(* of a slice at each field, with the message as far as it is read by      *)
(* then, is a way through the slice (Plan); whatever Marshal writes has    *)
(* one (Reads, AllReadOver), and every step of Unmarshal stays on it       *)
(* (Through).                                                              *)
(*                                                                         *)
(* Equal says of two messages what the bytes Marshal writes for them say   *)
(* (EqualIsSame): every field begins with its tag and, but for a number,   *)
(* with its length, so that equal bytes have equal fields (MarshalSame).   *)
(***************************************************************************)
EXTENDS PbReader, SequenceTheorems, WellFoundedInduction, TLAPS

Half == Word \div 2

-----------------------------------------------------------------------------
(* Numbers *)

LEMMA ModRange ==
  ASSUME NEW x \in Int, NEW w \in Nat \ {0}
  PROVE  x % w \in 0..w - 1
OBVIOUS

LEMMA ModSame ==
  ASSUME NEW x \in Nat, NEW w \in Nat \ {0}, x < w
  PROVE  x % w = x
OBVIOUS

LEMMA HalfOfWord == Half \in Nat \ {0} /\ Word = 2 * Half
BY WordAssumption DEF Half

\* A signed number is below half a word.
LEMMA SignedBelow ==
  ASSUME NEW x \in Int
  PROVE  Signed(x, Word) \in Int /\ Signed(x, Word) < Half
<1>1. x % Word \in 0..Word - 1
  BY ModRange, WordAssumption
<1> QED BY <1>1, HalfOfWord DEF Signed, Half

\* A number that fits a word is itself below half a word, and negative above.
LEMMA SignedOfWord ==
  ASSUME NEW x \in 0..Word - 1
  PROVE  Signed(x, Word) = IF x < Half THEN x ELSE x - Word
<1>1. x % Word = x
  BY ModSame, WordAssumption
<1> QED BY <1>1 DEF Signed, Half

-----------------------------------------------------------------------------
(* Sequences, of whatever elements *)

IsSeq(s) == \E S : s \in Seq(S)

LEMMA PushedSeq ==
  ASSUME NEW s, IsSeq(s), NEW e
  PROVE  /\ IsSeq(Append(s, e)) /\ Len(Append(s, e)) = Len(s) + 1
         /\ Append(s, e)[Len(s) + 1] = e
         /\ \A n \in 1..Len(s) : Append(s, e)[n] = s[n]
<1>1. PICK S : s \in Seq(S)
  BY DEF IsSeq
<1>2. s \in Seq(S \cup {e}) /\ e \in S \cup {e}
  BY <1>1
<1> QED BY <1>2, AppendProperties DEF IsSeq

LEMMA ChangedSeq ==
  ASSUME NEW s, IsSeq(s), NEW k \in 1..Len(s), NEW e
  PROVE  /\ IsSeq([s EXCEPT ![k] = e]) /\ Len([s EXCEPT ![k] = e]) = Len(s)
         /\ [s EXCEPT ![k] = e][k] = e
         /\ \A n \in 1..Len(s) \ {k} : [s EXCEPT ![k] = e][n] = s[n]
<1>1. PICK S : s \in Seq(S)
  BY DEF IsSeq
<1>2. [s EXCEPT ![k] = e] \in Seq(S \cup {e})
  BY <1>1
<1> QED BY <1>1, <1>2 DEF IsSeq

LEMMA CutSeq ==
  ASSUME NEW s, IsSeq(s), NEW k \in 0..Len(s)
  PROVE  /\ IsSeq(SubSeq(s, 1, k)) /\ Len(SubSeq(s, 1, k)) = k
         /\ \A n \in 1..k : SubSeq(s, 1, k)[n] = s[n]
<1>1. PICK S : s \in Seq(S)
  BY DEF IsSeq
<1>2. Len(s) \in Nat /\ \A i \in 1..k : s[i] \in S
  BY <1>1, ElementOfSeq
<1>3. /\ SubSeq(s, 1, k) \in Seq(S)
      /\ Len(SubSeq(s, 1, k)) = IF 1 <= k THEN k - 1 + 1 ELSE 0
      /\ \A i \in 1..k - 1 + 1 : SubSeq(s, 1, k)[i] = s[1 + i - 1]
  BY <1>2, SubSeqProperties
<1> QED BY <1>2, <1>3 DEF IsSeq

\* A slice of a slice.
LEMMA SliceOfBytes ==
  ASSUME NEW d \in Seq(Byte), NEW lo \in Nat, NEW hi \in Nat, hi <= Len(d)
  PROVE  SubSeq(d, lo + 1, hi) \in Seq(Byte) /\ Len(SubSeq(d, lo + 1, hi)) <= Len(d)
<1>1. \A i \in lo + 1..hi : d[i] \in Byte
  BY ElementOfSeq
<1>2. /\ SubSeq(d, lo + 1, hi) \in Seq(Byte)
      /\ Len(SubSeq(d, lo + 1, hi)) = IF lo + 1 <= hi THEN hi - (lo + 1) + 1 ELSE 0
  BY <1>1, SubSeqProperties
<1> QED BY <1>2

-----------------------------------------------------------------------------
(* The calls under way *)

Reading == {"num", "len", "counted", "measured"}

\* A call reads fewer bytes than half a word counts; that of a message is never
\* past them, skipRpc may be.
FrameOK(f) ==
  /\ f = [fn |-> f.fn, d |-> f.d, at |-> f.at, pre |-> f.pre, field |-> f.field,
          depth |-> f.depth, m |-> f.m]
  /\ f.fn \in Messages \cup {"skipRpc"}
  /\ f.d \in Seq(Byte) /\ Len(f.d) < Half
  /\ f.at \in Nat /\ f.at < Half
  /\ f.pre \in Nat /\ f.pre <= Len(f.d)
  /\ f.fn # "skipRpc" => f.at <= Len(f.d)

\* A message, within it a record, and within either a skip.
StackOK(s) ==
  /\ IsSeq(s) /\ Len(s) \in 1..3
  /\ \A n \in 1..Len(s) : FrameOK(s[n])
  /\ s[1].fn \in Messages
  /\ \A n \in 2..Len(s) : s[n].fn \in {"Record", "skipRpc"}
  /\ \A n \in 1..Len(s) : s[n].fn = "skipRpc" => n = Len(s)
  /\ Len(s) = 3 => s[3].fn = "skipRpc"

LEMMA NoSkipMessage == "skipRpc" \notin Messages
BY DEF Messages, New

\* A record holds no record.
LEMMA NoRecordInRecord ==
  ASSUME NEW i \in DOMAIN Cases["Record"]
  PROVE  Cases["Record"][i].kind \in {"string", "int", "time"}
<1>1. Cases["Record"] = UnmarshalRecord
  BY DEF Cases
<1> QED BY <1>1 DEF UnmarshalRecord, Field

LEMMA ReplaceTop ==
  ASSUME NEW s, StackOK(s), NEW f, FrameOK(f), f.fn = s[Len(s)].fn
  PROVE  LET r == [s EXCEPT ![Len(s)] = f]
         IN  StackOK(r) /\ Len(r) = Len(s) /\ r[Len(s)] = f
<1>1. IsSeq(s) /\ Len(s) \in 1..Len(s)
  BY DEF StackOK
<1> DEFINE r == [s EXCEPT ![Len(s)] = f]
<1>2. /\ IsSeq(r) /\ Len(r) = Len(s) /\ r[Len(s)] = f
      /\ \A n \in 1..Len(s) \ {Len(s)} : r[n] = s[n]
  BY <1>1, ChangedSeq
<1> HIDE DEF r
<1>3. \A n \in 1..Len(s) : FrameOK(r[n]) /\ r[n].fn = s[n].fn
  BY <1>2 DEF StackOK
<1>4. StackOK(r)
  BY <1>2, <1>3, 1 \in 1..Len(s) DEF StackOK
<1> QED BY <1>2, <1>4 DEF r

LEMMA PushFrame ==
  ASSUME NEW s, StackOK(s), s[Len(s)].fn # "skipRpc", NEW g, FrameOK(g),
         \/ g.fn = "skipRpc"
         \/ g.fn = "Record" /\ s[Len(s)].fn # "Record"
  PROVE  StackOK(Append(s, g)) /\ Append(s, g)[Len(Append(s, g))] = g
<1> DEFINE r == Append(s, g)
<1>1. /\ IsSeq(r) /\ Len(r) = Len(s) + 1 /\ r[Len(s) + 1] = g
      /\ \A n \in 1..Len(s) : r[n] = s[n]
  BY PushedSeq DEF StackOK
<1> HIDE DEF r
<1>2. Len(s) \in {1, 2} /\ (Len(s) = 2 => g.fn = "skipRpc")
  <2>1. Len(s) \in 1..3 /\ Len(s) # 3 /\ (Len(s) = 2 => s[2].fn \in {"Record", "skipRpc"})
    BY DEF StackOK
  <2> QED BY <2>1
<1>3. \A n \in 1..Len(r) : FrameOK(r[n])
  BY <1>1, <1>2 DEF StackOK
<1>4. \A n \in 2..Len(r) : r[n].fn \in {"Record", "skipRpc"}
  BY <1>1, <1>2 DEF StackOK
<1>5. \A n \in 1..Len(r) : r[n].fn = "skipRpc" => n = Len(r)
  BY <1>1, <1>2 DEF StackOK
<1>6. r[1].fn \in Messages /\ Len(r) \in 1..3
  BY <1>1, <1>2 DEF StackOK
<1>7. Len(r) = 3 => r[3].fn = "skipRpc"
  BY <1>1, <1>2
<1>8. StackOK(r)
  BY <1>1, <1>3, <1>4, <1>5, <1>6, <1>7 DEF StackOK
<1> QED BY <1>1, <1>8 DEF r

LEMMA PopFrame ==
  ASSUME NEW s, StackOK(s), Len(s) # 1, NEW k, k = Len(s) - 1,
         NEW f, FrameOK(f), f.fn = s[k].fn
  PROVE  StackOK([SubSeq(s, 1, k) EXCEPT ![k] = f])
<1> DEFINE q == SubSeq(s, 1, k)
           r == [q EXCEPT ![k] = f]
<1>1. k \in {1, 2} /\ k \in 0..Len(s) /\ Len(s) = k + 1 /\ IsSeq(s)
  BY DEF StackOK
<1>2. IsSeq(q) /\ Len(q) = k /\ \A n \in 1..k : q[n] = s[n]
  BY <1>1, CutSeq
<1> HIDE DEF q
<1>3. /\ IsSeq(r) /\ Len(r) = k /\ r[k] = f
      /\ \A n \in 1..k \ {k} : r[n] = q[n]
  <2>1. k \in 1..Len(q)
    BY <1>1, <1>2
  <2> QED BY <1>2, <2>1, ChangedSeq
<1> HIDE DEF r
<1>4. \A n \in 1..k : FrameOK(r[n]) /\ r[n].fn = s[n].fn /\ s[n].fn # "skipRpc"
  <2> TAKE n \in 1..k
  <2>1. FrameOK(s[n]) /\ (s[n].fn = "skipRpc" => n = Len(s))
    BY <1>1 DEF StackOK
  <2>2. CASE n = k
    BY <1>1, <1>3, <2>1, <2>2
  <2>3. CASE n # k
    BY <1>1, <1>2, <1>3, <2>1, <2>3
  <2> QED BY <2>2, <2>3
<1>5. StackOK(r)
  BY <1>1, <1>3, <1>4 DEF StackOK
<1> QED BY <1>5 DEF q, r

-----------------------------------------------------------------------------
(* The invariant *)

Inv ==
  /\ StackOK(stack)
  /\ varint.acc \in 0..Word - 1 /\ varint.weight \in Nat
  /\ pc \in {"loop", "tag", "len", "num", "tagged", "measured", "counted", "done"}
  /\ outcome \in {"reading", "ok", "error"}
  /\ pc \in Reading /\ ~Skipping => top.field \in DOMAIN Cases[top.fn]

LEMMA TopOK == Inv => FrameOK(top) /\ Len(stack) \in 1..3 /\ Half > 0
BY HalfOfWord DEF Inv, StackOK, top

LEMMA NewFrame ==
  ASSUME NEW fn \in Messages \cup {"skipRpc"}, NEW d \in Seq(Byte), Len(d) < Half, NEW m
  PROVE  FrameOK(Frame(fn, d, m)) /\ Frame(fn, d, m).fn = fn
BY HalfOfWord DEF FrameOK, Frame

LEMMA MovedFrame ==
  ASSUME NEW f, FrameOK(f), NEW x \in Nat, x < Half, f.fn # "skipRpc" => x <= Len(f.d)
  PROVE  FrameOK([f EXCEPT !.at = x]) /\ [f EXCEPT !.at = x].fn = f.fn
<1>1. [f EXCEPT !.at = x] = [fn |-> f.fn, d |-> f.d, at |-> x, pre |-> f.pre,
                             field |-> f.field, depth |-> f.depth, m |-> f.m]
  BY DEF FrameOK
<1> QED BY <1>1 DEF FrameOK

LEMMA MovedWith ==
  ASSUME NEW f, FrameOK(f), NEW x, NEW y
  PROVE  /\ [f EXCEPT !.m = y, !.at = x] =
              [fn |-> f.fn, d |-> f.d, at |-> x, pre |-> f.pre,
               field |-> f.field, depth |-> f.depth, m |-> y]
         /\ [f EXCEPT !.at = x, !.depth = y] =
              [fn |-> f.fn, d |-> f.d, at |-> x, pre |-> f.pre,
               field |-> f.field, depth |-> y, m |-> f.m]
<1> DEFINE g == [f EXCEPT !.m = y]
           h == [f EXCEPT !.at = x]
<1>1. /\ g = [fn |-> f.fn, d |-> f.d, at |-> f.at, pre |-> f.pre,
              field |-> f.field, depth |-> f.depth, m |-> y]
      /\ h = [fn |-> f.fn, d |-> f.d, at |-> x, pre |-> f.pre,
              field |-> f.field, depth |-> f.depth, m |-> f.m]
  BY DEF FrameOK
<1>2. /\ [f EXCEPT !.m = y, !.at = x] = [g EXCEPT !.at = x]
      /\ [f EXCEPT !.at = x, !.depth = y] = [h EXCEPT !.depth = y]
  OBVIOUS
<1> HIDE DEF g, h
<1>3. [g EXCEPT !.at = x] = [fn |-> f.fn, d |-> f.d, at |-> x, pre |-> f.pre,
                             field |-> f.field, depth |-> f.depth, m |-> y]
  BY <1>1
<1>4. [h EXCEPT !.depth = y] = [fn |-> f.fn, d |-> f.d, at |-> x, pre |-> f.pre,
                                field |-> f.field, depth |-> y, m |-> f.m]
  BY <1>1
<1> QED BY <1>2, <1>3, <1>4

\* What a position and a length add up to, where the sum did not wrap around.
LEMMA SumOfTwo ==
  ASSUME NEW x \in Nat, NEW y \in Nat, x < Half, y < Half, Signed(x + y, Word) >= 0
  PROVE  Signed(x + y, Word) = x + y
<1>1. x + y \in 0..Word - 1
  BY HalfOfWord
<1>2. PICK z \in 0..Word - 1 : z = x + y
  BY <1>1
<1>3. Signed(z, Word) = IF z < Half THEN z ELSE z - Word
  BY SignedOfWord
<1> QED BY <1>2, <1>3, HalfOfWord

LEMMA FinishKeeps ==
  ASSUME Inv, NEW o \in {"ok", "error"}, Finish(o)
  PROVE  Inv'
BY DEF Inv, Finish, Reading

LEMMA ContinueKeeps ==
  ASSUME Inv, NEW s, StackOK(s), Continue(s, "loop")
  PROVE  Inv'
BY DEF Inv, Continue, Reading

LEMMA BecomeKeeps ==
  ASSUME Inv, NEW f, FrameOK(f), f.fn = top.fn, Become(f, "loop")
  PROVE  Inv'
<1>1. StackOK([stack EXCEPT ![Len(stack)] = f])
  BY ReplaceTop DEF Inv, top
<1> QED BY <1>1, ContinueKeeps DEF Become

LEMMA ReadVarintKeeps ==
  ASSUME Inv, NEW f, FrameOK(f), f.fn = top.fn, NEW at \in {"tag", "num", "len"},
         at = "tag" \/ f.fn = "skipRpc" \/ f.field \in DOMAIN Cases[f.fn],
         ReadVarint(f, at)
  PROVE  Inv'
<1> DEFINE r == [stack EXCEPT ![Len(stack)] = f]
<1>1. StackOK(r) /\ r[Len(r)] = f
  BY ReplaceTop DEF Inv, top
<1> HIDE DEF r
<1>2. /\ stack' = r /\ varint' = [acc |-> 0, weight |-> 1] /\ pc' = at
      /\ outcome' = outcome
  BY DEF ReadVarint, NoBits, r
<1>3. varint'.acc \in 0..Word - 1 /\ varint'.weight \in Nat
  BY <1>2, HalfOfWord
<1>4. top' = f
  BY <1>1, <1>2 DEF top
<1>5. pc' \in Reading /\ ~Skipping' => top'.field \in DOMAIN Cases[top'.fn]
  BY <1>2, <1>4 DEF Skipping, Reading
<1> QED BY <1>1, <1>2, <1>3, <1>5 DEF Inv

-----------------------------------------------------------------------------
(* The loop over the fields, and the loop over the bytes of a varint *)

LEMMA StartFieldKeeps == Inv /\ StartField => Inv'
<1> SUFFICES ASSUME Inv, StartField PROVE Inv'
  OBVIOUS
<1> DEFINE f == [top EXCEPT !.pre = top.at]
<1>1. f = [fn |-> top.fn, d |-> top.d, at |-> top.at, pre |-> top.at,
           field |-> top.field, depth |-> top.depth, m |-> top.m]
  BY TopOK DEF FrameOK
<1>2. top.at < Len(top.d) /\ ReadVarint(f, "tag")
  BY DEF StartField
<1>3. FrameOK(f) /\ f.fn = top.fn
  BY <1>1, <1>2, TopOK DEF FrameOK
<1> QED BY <1>2, <1>3, ReadVarintKeeps

LEMMA EndOfSliceKeeps == Inv /\ EndOfSlice => Inv'
<1> SUFFICES ASSUME Inv, EndOfSlice PROVE Inv'
  OBVIOUS
<1>1. CASE Finish("error") \/ Finish("ok")
  BY <1>1, FinishKeeps
<1>2. CASE /\ Len(stack) # 1
           /\ Continue([SubSeq(stack, 1, Len(stack) - 1) EXCEPT
                          ![Len(stack) - 1] = WithRecord(@, top.m)], "loop")
  <2>1. PICK k \in 1..2 : k = Len(stack) - 1 /\ Len(stack) = k + 1
    BY <1>2, TopOK
  <2> DEFINE q == SubSeq(stack, 1, k)
             f == WithRecord(stack[k], top.m)
  <2>2. StackOK(stack) /\ FrameOK(stack[k]) /\ IsSeq(stack) /\ k \in 0..Len(stack)
    BY <2>1 DEF Inv, StackOK
  <2>3. q[k] = stack[k]
    BY <2>2, CutSeq
  <2>4. PICK x : f = [stack[k] EXCEPT !.m = x]
    BY DEF WithRecord
  <2>5. f = [fn |-> stack[k].fn, d |-> stack[k].d, at |-> stack[k].at, pre |-> stack[k].pre,
             field |-> stack[k].field, depth |-> stack[k].depth, m |-> x]
    BY <2>2, <2>4 DEF FrameOK
  <2>6. FrameOK(f) /\ f.fn = stack[k].fn
    BY <2>2, <2>5 DEF FrameOK
  <2>7. StackOK([q EXCEPT ![k] = f])
    BY <1>2, <2>1, <2>2, <2>6, PopFrame
  <2>8. [q EXCEPT ![k] = WithRecord(@, top.m)] = [q EXCEPT ![k] = f]
    BY <2>3
  <2> QED BY <1>2, <2>1, <2>7, <2>8, ContinueKeeps
<1> QED BY <1>1, <1>2 DEF EndOfSlice

LEMMA ReadByteKeeps == Inv /\ ReadByte => Inv'
<1> SUFFICES ASSUME Inv, ReadByte PROVE Inv'
  OBVIOUS
<1>1. FrameOK(top) /\ ~(top.at < 0)
  BY TopOK DEF FrameOK
<1> DEFINE b == top.d[top.at + 1]
           f == [top EXCEPT !.at = @ + 1]
           r == [stack EXCEPT ![Len(stack)] = f]
<1>2. /\ pc \in DOMAIN Then /\ top.at < Len(top.d)
      /\ stack' = [stack EXCEPT ![Len(stack)].at = @ + 1]
      /\ varint' = [acc |-> (varint.acc + (b % 128) * varint.weight) % Word,
                    weight |-> varint.weight * 128]
      /\ pc' = IF b < 128 THEN Then[pc] ELSE pc
      /\ outcome' = outcome
  BY <1>1 DEF ReadByte, Finish
<1>3. FrameOK(f) /\ f.fn = top.fn
  <2>1. top.at + 1 \in Nat /\ top.at + 1 <= Len(top.d) /\ top.at + 1 < Half
    BY <1>1, <1>2, HalfOfWord DEF FrameOK
  <2> QED BY <1>1, <2>1, MovedFrame
<1>4. f.field = top.field
  BY <1>1 DEF FrameOK
<1>5. stack' = r
  BY <1>2 DEF top
<1> HIDE DEF f
<1>6. StackOK(r) /\ r[Len(r)] = f
  BY <1>3, ReplaceTop DEF Inv, top
<1> HIDE DEF r
<1>7. top' = f
  BY <1>6, <1>5 DEF top
<1>8. varint'.acc \in 0..Word - 1 /\ varint'.weight \in Nat
  <2>1. b \in Byte
    BY <1>1, <1>2, ElementOfSeq DEF FrameOK
  <2>2. b % 128 \in Nat
    BY <2>1 DEF Byte
  <2>3. (b % 128) * varint.weight \in Int /\ varint.weight * 128 \in Nat
    BY <2>2 DEF Inv
  <2>4. varint.acc + (b % 128) * varint.weight \in Int
    BY <2>3 DEF Inv
  <2> HIDE DEF b
  <2>5. (varint.acc + (b % 128) * varint.weight) % Word \in 0..Word - 1
    <3>1. Word \in Nat \ {0}
      BY WordAssumption
    <3> QED BY <2>4, <3>1, ModRange
  <2> QED BY <1>2, <2>3, <2>5
<1>9. /\ pc' \in {"loop", "tag", "len", "num", "tagged", "measured", "counted", "done"}
      /\ pc' \in Reading => pc \in Reading
  BY <1>2 DEF Then, Reading
<1>10. pc' \in Reading /\ ~Skipping' => top'.field \in DOMAIN Cases[top'.fn]
  BY <1>3, <1>4, <1>7, <1>9 DEF Inv, Skipping
<1> QED BY <1>2, <1>6, <1>5, <1>8, <1>9, <1>10 DEF Inv

-----------------------------------------------------------------------------
(* The fields *)

LEMMA EnterFieldKeeps == Inv /\ EnterField => Inv'
<1> SUFFICES ASSUME Inv, EnterField PROVE Inv'
  OBVIOUS
<1>1. CASE Finish("error")
  BY <1>1, FinishKeeps
<1>2. CASE ReadVarint([top EXCEPT !.field = fieldNum], IF wireType = 0 THEN "num" ELSE "len")
  <2> DEFINE f == [top EXCEPT !.field = fieldNum]
             at == IF wireType = 0 THEN "num" ELSE "len"
  <2>1. f = [fn |-> top.fn, d |-> top.d, at |-> top.at, pre |-> top.pre,
             field |-> fieldNum, depth |-> top.depth, m |-> top.m]
    BY TopOK DEF FrameOK
  <2>2. FrameOK(f) /\ f.fn = top.fn
    BY <2>1, TopOK DEF FrameOK
  <2>3. f.field \in DOMAIN Cases[f.fn]
    BY <2>1 DEF EnterField, KnownField
  <2>4. at \in {"tag", "num", "len"}
    OBVIOUS
  <2>5. ReadVarint(f, at)
    BY <1>2
  <2> HIDE DEF f, at
  <2> QED BY <2>2, <2>3, <2>4, <2>5, ReadVarintKeeps
<1> QED BY <1>1, <1>2 DEF EnterField

LEMMA SkipFieldKeeps == Inv /\ SkipField => Inv'
<1> SUFFICES ASSUME Inv, SkipField PROVE Inv'
  OBVIOUS
<1> DEFINE f == [top EXCEPT !.at = top.pre]
           r == [stack EXCEPT ![Len(stack)] = f]
           d == SubSeq(top.d, top.pre + 1, Len(top.d))
           g == Frame("skipRpc", d, <<>>)
<1>1. top.fn # "skipRpc" /\ FrameOK(top)
  BY TopOK DEF SkipField, Skipping
<1>2. FrameOK(f) /\ f.fn = top.fn
  <2>1. top.pre \in Nat /\ top.pre <= Len(top.d) /\ top.pre < Half
    BY <1>1, HalfOfWord DEF FrameOK
  <2> QED BY <1>1, <2>1, MovedFrame
<1>3. FrameOK(g) /\ g.fn = "skipRpc"
  <2>1. d \in Seq(Byte) /\ Len(d) <= Len(top.d)
    BY <1>1, SliceOfBytes DEF FrameOK
  <2>2. Len(d) < Half
    BY <1>1, <2>1, HalfOfWord DEF FrameOK
  <2> QED BY <2>1, <2>2, NewFrame
<1>4. Continue(Append([stack EXCEPT ![Len(stack)].at = top.pre], g), "loop")
  BY DEF SkipField
<1>5. [stack EXCEPT ![Len(stack)].at = top.pre] = r
  BY DEF top
<1> HIDE DEF f, g
<1>6. StackOK(r) /\ r[Len(r)] = f
  BY <1>2, ReplaceTop DEF Inv, top
<1> HIDE DEF r
<1>7. StackOK(Append(r, g))
  BY <1>1, <1>2, <1>3, <1>6, PushFrame
<1> QED BY <1>4, <1>5, <1>7, ContinueKeeps

LEMMA TakeNumberKeeps == Inv /\ TakeNumber => Inv'
<1> SUFFICES ASSUME Inv, TakeNumber PROVE Inv'
  OBVIOUS
<1>1. PICK x : Become([top EXCEPT !.m = x], "loop")
  BY DEF TakeNumber
<1> DEFINE f == [top EXCEPT !.m = x]
<1>2. f = [fn |-> top.fn, d |-> top.d, at |-> top.at, pre |-> top.pre,
           field |-> top.field, depth |-> top.depth, m |-> x]
  BY TopOK DEF FrameOK
<1>3. FrameOK(f) /\ f.fn = top.fn
  BY <1>2, TopOK DEF FrameOK
<1> QED BY <1>1, <1>3, BecomeKeeps

\* Where the code goes on, the slice it takes is inside the one it reads.
LEMMA SliceInRange ==
  ASSUME Inv, ~Skipping, ~BadLength
  PROVE  /\ postIndex \in Nat /\ postIndex < Half
         /\ top.at <= postIndex /\ postIndex <= Len(top.d)
<1>1. FrameOK(top)
  BY TopOK
<1>2. varint.acc \in Int
  BY HalfOfWord DEF Inv
<1>3. length \in Int /\ length < Half
  BY <1>2, SignedBelow DEF length
<1>4. ~(length < 0) /\ ~(postIndex < 0) /\ ~(postIndex > Len(top.d))
  BY DEF BadLength
<1>5. top.at \in Nat /\ top.at < Half /\ length \in Nat
  BY <1>1, <1>3, <1>4 DEF FrameOK
<1>6. postIndex \in Int /\ postIndex < Half
  BY <1>5, SignedBelow DEF postIndex
<1>7. Signed(top.at + length, Word) >= 0
  BY <1>4, <1>6 DEF postIndex
<1>8. postIndex = top.at + length
  BY <1>3, <1>5, <1>7, SumOfTwo DEF postIndex
<1>9. Len(top.d) \in Nat
  BY <1>1 DEF FrameOK
<1> QED BY <1>4, <1>5, <1>6, <1>8, <1>9

LEMMA TakeBytesKeeps == Inv /\ TakeBytes => Inv'
<1> SUFFICES ASSUME Inv, TakeBytes PROVE Inv'
  OBVIOUS
<1>1. /\ postIndex \in Nat /\ postIndex < Half
      /\ top.at <= postIndex /\ postIndex <= Len(top.d)
  BY SliceInRange DEF TakeBytes, Sliced
<1>2. InRange(top.d, top.at, postIndex)
  BY <1>1, TopOK DEF InRange, FrameOK
<1>3. PICK x : Become([top EXCEPT !.m = x, !.at = postIndex], "loop")
  BY <1>2 DEF TakeBytes
<1> DEFINE f == [top EXCEPT !.m = x, !.at = postIndex]
<1>4. f = [fn |-> top.fn, d |-> top.d, at |-> postIndex, pre |-> top.pre,
           field |-> top.field, depth |-> top.depth, m |-> x]
  BY TopOK, MovedWith
<1>5. FrameOK(f) /\ f.fn = top.fn
  BY <1>1, <1>4, TopOK DEF FrameOK
<1> QED BY <1>3, <1>5, BecomeKeeps

LEMMA EnterRecordKeeps == Inv /\ EnterRecord => Inv'
<1> SUFFICES ASSUME Inv, EnterRecord PROVE Inv'
  OBVIOUS
<1>1. /\ postIndex \in Nat /\ postIndex < Half
      /\ top.at <= postIndex /\ postIndex <= Len(top.d)
  BY SliceInRange DEF EnterRecord, Sliced
<1>2. InRange(top.d, top.at, postIndex)
  BY <1>1, TopOK DEF InRange, FrameOK
<1>3. FrameOK(top) /\ top.fn \notin {"skipRpc", "Record"}
  <2>1. ~Skipping /\ top.field \in DOMAIN Cases[top.fn] /\ field.kind \in {"message", "messages"}
    BY DEF EnterRecord, Sliced, Inv, Reading
  <2>2. ASSUME top.fn = "Record" PROVE FALSE
    BY <2>1, <2>2, NoRecordInRecord DEF field
  <2> QED BY <2>1, <2>2, TopOK DEF Skipping
<1> DEFINE f == [top EXCEPT !.at = postIndex]
           r == [stack EXCEPT ![Len(stack)] = f]
<1>4. PICK m : Continue(Append([stack EXCEPT ![Len(stack)].at = postIndex],
                               Frame("Record", slice, m)), "loop")
  BY <1>2 DEF EnterRecord
<1> DEFINE g == Frame("Record", slice, m)
<1>5. FrameOK(f) /\ f.fn = top.fn
  BY <1>1, <1>3, MovedFrame
<1>6. FrameOK(g) /\ g.fn = "Record"
  <2>1. slice \in Seq(Byte) /\ Len(slice) <= Len(top.d)
    BY <1>1, <1>3, SliceOfBytes DEF FrameOK, slice
  <2>2. Len(slice) < Half
    BY <1>3, <2>1, HalfOfWord DEF FrameOK
  <2>3. "Record" \in Messages
    BY DEF Messages, New
  <2> QED BY <2>1, <2>2, <2>3, NewFrame
<1>7. [stack EXCEPT ![Len(stack)].at = postIndex] = r
  BY DEF top
<1> HIDE DEF f, g
<1>8. StackOK(r) /\ r[Len(r)] = f
  BY <1>5, ReplaceTop DEF Inv, top
<1> HIDE DEF r
<1>9. StackOK(Append(r, g))
  BY <1>3, <1>5, <1>6, <1>8, PushFrame
<1> QED BY <1>4, <1>7, <1>9, ContinueKeeps DEF g

-----------------------------------------------------------------------------
(* skipRpc *)

\* The caller never moves past its slice.
LEMMA SkipKeeps ==
  ASSUME Inv, Skipping, NEW x \in Int, Skip(x)
  PROVE  Inv'
<1>1. CASE Finish("error")
  BY <1>1, FinishKeeps
<1>2. CASE ~Finish("error")
  <2>1. Len(stack) # 1 /\ StackOK(stack) /\ Len(stack) \in 1..3
    BY NoSkipMessage, TopOK DEF Inv, StackOK, Skipping, top
  <2>2. PICK k \in 1..2 : k = Len(stack) - 1 /\ Len(stack) = k + 1
    BY <2>1
  <2>3. FrameOK(stack[k]) /\ IsSeq(stack) /\ k \in 0..Len(stack)
    BY <2>1, <2>2 DEF StackOK
  <2> DEFINE next == Signed(stack[k].at + x, Word)
             q == SubSeq(stack, 1, k)
             f == [stack[k] EXCEPT !.at = next]
  <2>4. /\ ~(next < 0) /\ ~(next > Len(stack[k].d))
        /\ Continue([q EXCEPT ![k].at = next], "loop")
    BY <1>2, <2>2 DEF Skip
  <2>5. stack[k].at + x \in Int /\ Len(stack[k].d) \in Nat /\ Len(stack[k].d) < Half
    BY <2>3 DEF FrameOK
  <2>6. next \in Int
    BY <2>5, SignedBelow
  <2> HIDE DEF next
  <2>7. next >= 0 /\ next <= Len(stack[k].d)
    BY <2>4, <2>5, <2>6
  <2>8. next \in Nat /\ next <= Len(stack[k].d) /\ next < Half
    BY <2>5, <2>7, <2>6, HalfOfWord
  <2>9. FrameOK(f) /\ f.fn = stack[k].fn
    BY <2>3, <2>8, MovedFrame
  <2>10. q[k] = stack[k]
    BY <2>3, CutSeq
  <2>11. [q EXCEPT ![k].at = next] = [q EXCEPT ![k] = f]
    BY <2>10
  <2>12. StackOK([q EXCEPT ![k] = f])
    BY <2>1, <2>2, <2>9, PopFrame
  <2> QED BY <2>4, <2>11, <2>12, ContinueKeeps
<1> QED BY <1>1, <1>2

LEMMA SkipToKeeps ==
  ASSUME Inv, Skipping, NEW x \in Int, x < Half, NEW depth, SkipTo(x, depth)
  PROVE  Inv'
<1>1. CASE Finish("error")
  BY <1>1, FinishKeeps
<1>2. CASE Skip(x)
  BY <1>2, SkipKeeps
<1>3. CASE ~(x < 0) /\ Become([top EXCEPT !.at = x, !.depth = depth], "loop")
  <2> DEFINE f == [top EXCEPT !.at = x, !.depth = depth]
  <2>1. f = [fn |-> top.fn, d |-> top.d, at |-> x, pre |-> top.pre,
             field |-> top.field, depth |-> depth, m |-> top.m]
    BY TopOK, MovedWith
  <2>2. FrameOK(f) /\ f.fn = top.fn
    BY <1>3, <2>1, TopOK DEF FrameOK, Skipping
  <2> QED BY <1>3, <2>2, BecomeKeeps
<1> QED BY <1>1, <1>2, <1>3 DEF SkipTo

LEMMA skipRpcKeeps == Inv /\ skipRpc => Inv'
<1> SUFFICES ASSUME Inv, skipRpc PROVE Inv'
  OBVIOUS
<1> USE DEF skipRpc
<1>1. FrameOK(top) /\ top.at \in Int /\ top.at < Half
  BY TopOK DEF FrameOK
<1>2. CASE SkipVarint
  BY <1>1, <1>2, ReadVarintKeeps DEF SkipVarint, Skipping
<1>3. CASE SkipBytes
  BY <1>1, <1>3, ReadVarintKeeps DEF SkipBytes, Skipping
<1>4. CASE SkipFixed
  <2> DEFINE n == IF wireType = 1 THEN 8 ELSE 4
             x == Signed(top.at + n, Word)
  <2>1. top.at + n \in Int
    BY <1>1
  <2>2. x \in Int /\ x < Half
    BY <2>1, SignedBelow
  <2>3. Skipping /\ SkipTo(x, top.depth)
    BY <1>4 DEF SkipFixed
  <2> HIDE DEF x
  <2> QED BY <2>2, <2>3, SkipToKeeps
<1>5. CASE SkipGroup
  BY <1>1, <1>5, SkipToKeeps DEF SkipGroup
<1>6. CASE SkipEnd
  <2>1. CASE Finish("error")
    BY <2>1, FinishKeeps
  <2>2. CASE SkipTo(top.at, top.depth - 1)
    BY <1>1, <1>6, <2>2, SkipToKeeps DEF SkipEnd
  <2> QED BY <1>6, <2>1, <2>2 DEF SkipEnd
<1>7. CASE SkipFails
  BY <1>7, FinishKeeps DEF SkipFails
<1>8. CASE SkipNumber
  BY <1>1, <1>8, SkipToKeeps DEF SkipNumber
<1>9. CASE SkipSlice
  <2>1. CASE Finish("error")
    BY <2>1, FinishKeeps
  <2>2. CASE SkipTo(Signed(top.at + length, Word), top.depth)
    <3>1. varint.acc \in Int
      BY HalfOfWord DEF Inv
    <3>2. length \in Int
      BY <3>1, SignedBelow DEF length
    <3>3. top.at + length \in Int
      BY <1>1, <3>2
    <3>4. Signed(top.at + length, Word) \in Int /\ Signed(top.at + length, Word) < Half
      BY <3>3, SignedBelow
    <3> QED BY <1>9, <2>2, <3>4, SkipToKeeps DEF SkipSlice
  <2> QED BY <1>9, <2>1, <2>2 DEF SkipSlice
<1> QED BY <1>2, <1>3, <1>4, <1>5, <1>6, <1>7, <1>8, <1>9

-----------------------------------------------------------------------------
(* The theorems about where it reads *)

LEMMA InitHolds == Init => Inv
<1> SUFFICES ASSUME Init PROVE Inv
  OBVIOUS
<1> DEFINE f == Frame(input.type, input.bytes, New[input.type])
<1>1. /\ input.type \in Messages /\ input.bytes \in Seq(Byte)
      /\ Len(input.bytes) < Half
  BY InputsAssumption DEF Init, Half
<1>2. FrameOK(f) /\ f.fn = input.type
  BY <1>1, NewFrame
<1> HIDE DEF f
<1>3. stack = <<f>>
  BY DEF Init, f
<1>4. stack \in Seq({f}) /\ Len(stack) = 1 /\ stack[1] = f
  BY <1>3
<1>5. StackOK(stack)
  BY <1>1, <1>2, <1>4, NoSkipMessage DEF StackOK, IsSeq
<1>6. varint.acc \in 0..Word - 1 /\ varint.weight \in Nat
  BY HalfOfWord DEF Init, NoBits
<1> QED BY <1>5, <1>6 DEF Init, Inv, Reading

LEMMA NextHolds == Inv /\ [Next]_vars => Inv'
<1> SUFFICES ASSUME Inv, [Next]_vars PROVE Inv'
  OBVIOUS
<1>1. CASE StartField
  BY <1>1, StartFieldKeeps
<1>2. CASE EndOfSlice
  BY <1>2, EndOfSliceKeeps
<1>3. CASE ReadByte
  BY <1>3, ReadByteKeeps
<1>4. CASE VarintFails
  BY <1>4, FinishKeeps DEF VarintFails
<1>5. CASE BadTag
  BY <1>5, FinishKeeps DEF BadTag
<1>6. CASE EnterField
  BY <1>6, EnterFieldKeeps
<1>7. CASE SkipField
  BY <1>7, SkipFieldKeeps
<1>8. CASE TakeNumber
  BY <1>8, TakeNumberKeeps
<1>9. CASE LengthFails
  BY <1>9, FinishKeeps DEF LengthFails
<1>10. CASE TakeBytes
  BY <1>10, TakeBytesKeeps
<1>11. CASE TimeFails
  BY <1>11, FinishKeeps DEF TimeFails
<1>12. CASE EnterRecord
  BY <1>12, EnterRecordKeeps
<1>13. CASE skipRpc
  BY <1>13, skipRpcKeeps
<1>14. CASE UNCHANGED vars
  BY <1>14 DEF vars, Inv, Skipping, top
<1> QED BY <1>1, <1>2, <1>3, <1>4, <1>5, <1>6, <1>7, <1>8, <1>9, <1>10, <1>11, <1>12,
           <1>13, <1>14 DEF Next

LEMMA Invariant == Spec => []Inv
BY InitHolds, NextHolds, PTL DEF Spec

\* Whatever is read, the calls are two deep at most and no read position is
\* negative: an embedded message holds none, and a sum that wrapped is refused.
THEOREM TypeCorrect == Spec => []TypeOK
<1>1. Inv => TypeOK
  <2> SUFFICES ASSUME Inv PROVE TypeOK
    OBVIOUS
  <2>1. DOMAIN stack = 1..Len(stack) /\ Len(stack) \in 1..3
    BY DEF Inv, StackOK, IsSeq
  <2>2. \A n \in 1..Len(stack) : FrameOK(stack[n])
    BY DEF Inv, StackOK
  <2> QED BY <2>1, <2>2 DEF Inv, TypeOK, FrameOK
<1> QED BY <1>1, Invariant, PTL

\* No slice of bytes makes Unmarshal slice or index out of range.
THEOREM NeverPanicsAlways == Spec => []NeverPanics
<1>1. Inv => NeverPanics
  BY DEF Inv, NeverPanics
<1> QED BY <1>1, Invariant, PTL

-----------------------------------------------------------------------------
(* Induction over data, from the library's theorem on minimal elements: a set
   takes the place of the property, and a graph of values that of a recursion *)

LEMMA NatIsWellFounded == IsWellFoundedOn(OpToRel(<, Nat), Nat)
BY NatLessThanWellFounded

LEMMA LessRelation == \A x, y \in Nat : x < y => <<x, y>> \in OpToRel(<, Nat)
BY DEF OpToRel

\* Induction, the property being membership in a set.
LEMMA SetInduction ==
  ASSUME NEW S, 0 \in S, \A n \in Nat \cap S : n + 1 \in S
  PROVE  Nat \subseteq S
<1> SUFFICES ASSUME Nat \ S # {} PROVE FALSE
  OBVIOUS
<1> DEFINE T == Nat \ S
<1>1. PICK x \in T : \A y \in T : ~ (<<y, x>> \in OpToRel(<, Nat))
  BY NatIsWellFounded, WFMin
<1>2. x - 1 \in Nat /\ x - 1 < x /\ x \in Nat
  OBVIOUS
<1>3. <<x - 1, x>> \in OpToRel(<, Nat)
  BY <1>2, LessRelation
<1>4. x - 1 \in S
  BY <1>1, <1>2, <1>3
<1> QED BY <1>4, <1>2

\* The same, where all smaller numbers may be used.
LEMMA StrongInduction ==
  ASSUME NEW S, \A n \in Nat : (\A m \in Nat : m < n => m \in S) => n \in S
  PROVE  Nat \subseteq S
<1> SUFFICES ASSUME Nat \ S # {} PROVE FALSE
  OBVIOUS
<1> DEFINE T == Nat \ S
<1>1. PICK x \in T : \A y \in T : ~ (<<y, x>> \in OpToRel(<, Nat))
  BY NatIsWellFounded, WFMin
<1>2. \A m \in Nat : m < x => m \in S
  BY <1>1, LessRelation
<1> QED BY <1>2

\* A function on numbers that is defined by its value for a smaller number.
IsRecursion(R, Stop, down, base, step) ==
  /\ Stop \in SUBSET Nat /\ down \in [Nat -> Nat]
  /\ base \in [Nat -> R] /\ step \in [Nat \X R -> R]
  /\ \A n \in Nat \ Stop : down[n] < n

Solves(f, Stop, down, base, step) ==
  \A n \in Nat : f[n] = IF n \in Stop THEN base[n] ELSE step[<<n, f[down[n]]>>]

LEMMA Recursion ==
  ASSUME NEW R, NEW Stop, NEW down, NEW base, NEW step, IsRecursion(R, Stop, down, base, step)
  PROVE  \E f \in [Nat -> R] : Solves(f, Stop, down, base, step)
<1> USE DEF IsRecursion
<1> DEFINE Rhs(f, n) == IF n \in Stop THEN base[n] ELSE step[<<n, f[down[n]]>>]
           Upto(f, n) == \A m \in 0..n : f[m] = Rhs(f, m)
<1>1. ASSUME NEW f \in [Nat -> R], NEW n \in Nat
      PROVE  Rhs(f, n) \in R
  <2>1. f[down[n]] \in R /\ <<n, f[down[n]]>> \in Nat \X R
    OBVIOUS
  <2> QED BY <2>1
<1>2. ASSUME NEW f \in [Nat -> R], NEW g \in [Nat -> R], NEW n \in Nat, f[down[n]] = g[down[n]] \/ n \in Stop
      PROVE  Rhs(f, n) = Rhs(g, n)
  BY <1>2
<1>3. ASSUME NEW n \in Nat PROVE \E f \in [Nat -> R] : Upto(f, n)
  <2> DEFINE S == {k \in Nat : \E f \in [Nat -> R] : Upto(f, k)}
  <2>1. ASSUME NEW f \in [Nat -> R], NEW k \in Nat, \A m \in 0..k - 1 : f[m] = Rhs(f, m)
        PROVE  \E g \in [Nat -> R] : Upto(g, k)
    <3> DEFINE g == [m \in Nat |-> IF m = k THEN Rhs(f, k) ELSE f[m]]
    <3>1. Rhs(f, k) \in R
      BY <1>1
    <3>2. g \in [Nat -> R] /\ g[k] = Rhs(f, k) /\ \A m \in Nat : m # k => g[m] = f[m]
      BY <3>1
    <3> HIDE DEF g
    <3>3. ASSUME NEW m \in 0..k PROVE g[m] = Rhs(g, m)
      <4>1. m \in Nat /\ (m \notin Stop => down[m] \in Nat /\ down[m] # k)
        OBVIOUS
      <4>2. Rhs(f, m) = Rhs(g, m)
        BY <1>2, <3>2, <4>1
      <4>3. CASE m = k
        BY <3>2, <4>2, <4>3
      <4>4. CASE m # k
        <5>1. m \in 0..k - 1
          BY <4>4
        <5>2. f[m] = Rhs(f, m)
          BY <5>1, <2>1
        <5> QED BY <3>2, <4>1, <4>2, <4>4, <5>2
      <4> QED BY <4>3, <4>4
    <3> QED BY <3>2, <3>3
  <2>2. 0 \in S
    <3>1. \A m \in 0..0 - 1 : base[m] = Rhs(base, m)
      OBVIOUS
    <3>2. \E g \in [Nat -> R] : Upto(g, 0)
      BY <2>1, <3>1
    <3> QED BY <3>2
  <2>3. ASSUME NEW k \in Nat \cap S PROVE k + 1 \in S
    <3>1. PICK f \in [Nat -> R] : Upto(f, k)
      OBVIOUS
    <3>2. \A m \in 0..(k + 1) - 1 : f[m] = Rhs(f, m)
      BY <3>1
    <3>3. \E g \in [Nat -> R] : Upto(g, k + 1)
      <4>1. k + 1 \in Nat
        OBVIOUS
      <4> HIDE DEF Rhs
      <4> QED BY <2>1, <3>2, <4>1
    <3> QED BY <3>3
  <2>4. Nat \subseteq S
    <3> HIDE DEF S
    <3> QED BY <2>2, <2>3, SetInduction
  <2> QED BY <2>4
<1>4. ASSUME NEW f \in [Nat -> R], NEW g \in [Nat -> R], NEW n \in Nat, Upto(f, n), Upto(g, n)
      PROVE  \A m \in 0..n : f[m] = g[m]
  <2> DEFINE S == {m \in Nat : m <= n => f[m] = g[m]}
  <2>1. ASSUME NEW k \in Nat, \A m \in Nat : m < k => m \in S PROVE k \in S
    <3> SUFFICES ASSUME k <= n PROVE f[k] = g[k]
      OBVIOUS
    <3>1. f[k] = Rhs(f, k) /\ g[k] = Rhs(g, k)
      <4> HIDE DEF Rhs
      <4> QED BY <1>4
    <3>2. k \notin Stop => f[down[k]] = g[down[k]]
      BY <2>1
    <3>3. Rhs(f, k) = Rhs(g, k)
      BY <1>2, <3>2
    <3> QED BY <3>1, <3>3
  <2>2. Nat \subseteq S
    <3> HIDE DEF S
    <3> QED BY <2>1, StrongInduction
  <2> QED BY <2>2
<1> DEFINE F(n) == CHOOSE f \in [Nat -> R] : Upto(f, n)
           h == [n \in Nat |-> F(n)[n]]
<1>5. \A n \in Nat : F(n) \in [Nat -> R] /\ Upto(F(n), n)
  BY <1>3
<1>6. h \in [Nat -> R]
  <2> HIDE DEF F
  <2> QED BY <1>5
<1>7. ASSUME NEW n \in Nat PROVE h[n] = Rhs(h, n)
  <2>1. h[n] = F(n)[n] /\ F(n) \in [Nat -> R] /\ Upto(F(n), n) /\ n \in 0..n
    <3> HIDE DEF F, Upto
    <3> QED BY <1>5
  <2>2. F(n)[n] = Rhs(F(n), n)
    <3> HIDE DEF F, Rhs, h
    <3> QED BY <2>1
  <2>3. CASE n \in Stop
    <3> HIDE DEF F, h
    <3> QED BY <1>2, <1>6, <2>1, <2>2, <2>3
  <2>4. CASE n \notin Stop
    <3> DEFINE d == down[n]
    <3>1. d \in Nat /\ d < n /\ d \in 0..d
      BY <2>4
    <3>2. F(d) \in [Nat -> R] /\ Upto(F(d), d) /\ h[d] = F(d)[d]
      <4> HIDE DEF F, Upto, d
      <4> QED BY <1>5, <3>1
    <3>3. Upto(F(n), d)
      <4> HIDE DEF F, Rhs, d
      <4> QED BY <2>1, <3>1
    <3>4. F(n)[d] = F(d)[d]
      <4> HIDE DEF F, Upto, d
      <4> QED BY <1>4, <2>1, <3>1, <3>2, <3>3
    <3>5. Rhs(h, n) = Rhs(F(n), n)
      <4> HIDE DEF F, h
      <4> QED BY <1>2, <1>6, <2>1, <3>2, <3>4
    <3> HIDE DEF F, Rhs, h
    <3> QED BY <2>1, <2>2, <3>5
  <2> QED BY <2>3, <2>4
<1>8. \A n \in Nat : h[n] = Rhs(h, n)
  <2> HIDE DEF Rhs, h
  <2> QED BY <1>7
<1> HIDE DEF h
<1> QED BY <1>6, <1>8 DEF Solves

-----------------------------------------------------------------------------
(* Varints: what the two recursive functions compute, and the size of a varint *)

LEMMA HalfSmaller == \A x \in Nat : x \div 2 \in Nat /\ (x >= 2 => x \div 2 < x)
OBVIOUS

LEMMA SeventhSmaller == \A x \in Nat : x \div 128 \in Nat /\ (x >= 128 => x \div 128 < x /\ x \div 128 >= 1)
OBVIOUS

LEMMA BitLenDef ==
  /\ BitLen \in [Nat -> Nat]
  /\ \A x \in Nat : BitLen[x] = IF x < 2 THEN 1 ELSE 1 + BitLen[x \div 2]
<1> DEFINE Stop == {0, 1}
           down == [x \in Nat |-> x \div 2]
           base == [x \in Nat |-> 1]
           step == [p \in Nat \X Nat |-> 1 + p[2]]
<1>1. /\ Stop \in SUBSET Nat /\ down \in [Nat -> Nat] /\ base \in [Nat -> Nat]
      /\ step \in [Nat \X Nat -> Nat] /\ \A n \in Nat \ Stop : down[n] < n
  BY HalfSmaller
<1>2. PICK f \in [Nat -> Nat] :
         Solves(f, Stop, down, base, step)
  <2>1. IsRecursion(Nat, Stop, down, base, step)
    BY <1>1 DEF IsRecursion
  <2> HIDE DEF Stop, down, base, step
  <2> QED BY <2>1, Recursion
<1>3. f = [x \in Nat |-> IF x < 2 THEN 1 ELSE 1 + f[x \div 2]]
  <2>1. ASSUME NEW n \in Nat
        PROVE  (IF n \in Stop THEN base[n] ELSE step[<<n, f[down[n]]>>])
                 = IF n < 2 THEN 1 ELSE 1 + f[n \div 2]
    <3>1. down[n] = n \div 2 /\ f[n \div 2] \in Nat /\ <<n, f[n \div 2]>> \in Nat \X Nat
      BY HalfSmaller
    <3>2. step[<<n, f[n \div 2]>>] = 1 + f[n \div 2]
      BY <3>1
    <3> QED BY <3>1, <3>2
  <2>2. ASSUME NEW n \in Nat
        PROVE  f[n] = IF n < 2 THEN 1 ELSE 1 + f[n \div 2]
    <3> HIDE DEF Stop, down, base, step
    <3>1. f[n] = IF n \in Stop THEN base[n] ELSE step[<<n, f[down[n]]>>]
      BY <1>2 DEF Solves
    <3> QED BY <3>1, <2>1, Zenon
  <2> QED BY <2>2
<1>4. BitLen = [x \in Nat |-> IF x < 2 THEN 1 ELSE 1 + BitLen[x \div 2]]
  BY <1>3 DEF BitLen
<1>5. BitLen = f
  <2> DEFINE S == {x \in Nat : BitLen[x] = f[x]}
  <2>1. ASSUME NEW x \in Nat, \A m \in Nat : m < x => m \in S PROVE x \in S
    <3>1. BitLen[x] = IF x < 2 THEN 1 ELSE 1 + BitLen[x \div 2]
      BY <1>4
    <3>2. f[x] = IF x < 2 THEN 1 ELSE 1 + f[x \div 2]
      BY <1>3
    <3>3. x >= 2 => x \div 2 \in S
      BY <2>1, HalfSmaller
    <3> QED BY <3>1, <3>2, <3>3
  <2>2. Nat \subseteq S
    <3> HIDE DEF S
    <3> QED BY <2>1, StrongInduction
  <2>3. \A x \in Nat : BitLen[x] = f[x]
    BY <2>2
  <2> QED BY <1>3, <1>4, <2>3
<1> QED BY <1>4, <1>5

LEMMA encodeDef ==
  /\ encodeVarintRpc \in [Nat -> Seq(Byte)]
  /\ \A v \in Nat : encodeVarintRpc[v] =
       IF v < 128 THEN <<v>> ELSE <<128 + (v % 128)>> \o encodeVarintRpc[v \div 128]
<1> DEFINE R == Seq(Byte)
           Stop == 0..127
           down == [x \in Nat |-> x \div 128]
           base == [x \in Nat |-> <<x % 128>>]
           step == [p \in Nat \X R |-> <<128 + (p[1] % 128)>> \o p[2]]
           Fun(f) == [v \in Nat |-> IF v < 128 THEN <<v>> ELSE <<128 + (v % 128)>> \o f[v \div 128]]
<1>1. /\ Stop \in SUBSET Nat /\ down \in [Nat -> Nat] /\ \A n \in Nat \ Stop : down[n] < n
  BY SeventhSmaller
<1>2. base \in [Nat -> R]
  BY DEF Byte
<1>3. step \in [Nat \X R -> R]
  <2> SUFFICES ASSUME NEW x \in Nat, NEW r \in R PROVE <<128 + (x % 128)>> \o r \in R
    OBVIOUS
  <2>1. 128 + (x % 128) \in Byte
    BY DEF Byte
  <2>2. <<128 + (x % 128)>> \in R
    BY <2>1
  <2> QED BY <2>2, ConcatProperties
<1>4. PICK f \in [Nat -> R] :
         Solves(f, Stop, down, base, step)
  <2> HIDE DEF R, Stop, down, base, step
  <2>1. IsRecursion(R, Stop, down, base, step)
    BY <1>1, <1>2, <1>3 DEF IsRecursion
  <2> QED BY <2>1, Recursion
<1>5. f = Fun(f)
  <2>1. ASSUME NEW n \in Nat
        PROVE  (IF n \in Stop THEN base[n] ELSE step[<<n, f[down[n]]>>])
                 = IF n < 128 THEN <<n>> ELSE <<128 + (n % 128)>> \o f[n \div 128]
    <3>1. CASE n < 128
      <4>1. n \in Stop /\ n % 128 = n
        BY <3>1
      <4>2. base[n] = <<n % 128>>
        OBVIOUS
      <4> QED BY <3>1, <4>1, <4>2
    <3>2. CASE n >= 128
      <4>1. n \notin Stop /\ down[n] = n \div 128 /\ n \div 128 \in Nat /\ ~(n < 128)
        BY <3>2, SeventhSmaller
      <4> DEFINE d == n \div 128
      <4>2. f[d] \in R /\ <<n, f[d]>> \in Nat \X R
        BY <4>1
      <4>3. step[<<n, f[d]>>] = <<128 + (n % 128)>> \o f[d]
        <5> HIDE DEF R, d
        <5> QED BY <4>2
      <4> QED BY <4>1, <4>3
    <3> QED BY <3>1, <3>2
  <2>2. f \in [Nat -> R] /\ \A n \in Nat : f[n] = IF n < 128 THEN <<n>> ELSE <<128 + (n % 128)>> \o f[n \div 128]
    <3> HIDE DEF Stop, down, base, step, R
    <3> QED BY <1>4, <2>1 DEF Solves
  <2> QED BY <2>2
<1>6. encodeVarintRpc = Fun(encodeVarintRpc)
  BY <1>5 DEF encodeVarintRpc
<1>7. encodeVarintRpc = f
  <2> DEFINE S == {x \in Nat : encodeVarintRpc[x] = f[x]}
  <2>1. ASSUME NEW x \in Nat, \A m \in Nat : m < x => m \in S PROVE x \in S
    <3>1. encodeVarintRpc[x] = IF x < 128 THEN <<x>> ELSE <<128 + (x % 128)>> \o encodeVarintRpc[x \div 128]
      BY <1>6
    <3>2. f[x] = IF x < 128 THEN <<x>> ELSE <<128 + (x % 128)>> \o f[x \div 128]
      BY <1>5
    <3>3. x >= 128 => encodeVarintRpc[x \div 128] = f[x \div 128]
      BY <2>1, SeventhSmaller
    <3>4. encodeVarintRpc[x] = f[x]
      <4> HIDE DEF Fun, S
      <4>1. CASE x < 128
        BY <3>1, <3>2, <4>1
      <4>2. CASE x >= 128
        <5>1. ~(x < 128)
          BY <4>2
        <5> QED BY <3>1, <3>2, <3>3, <4>2, <5>1
      <4> QED BY <4>1, <4>2
    <3> QED BY <3>4
  <2>2. Nat \subseteq S
    <3> HIDE DEF S
    <3> QED BY <2>1, StrongInduction
  <2>3. \A x \in Nat : encodeVarintRpc[x] = f[x]
    BY <2>2
  <2> QED BY <1>5, <1>6, <2>3
<1> QED BY <1>6, <1>7

\* Seven bits, one byte.
LEMMA sovStep ==
  ASSUME NEW x \in Nat
  PROVE  /\ x < 128 => sovRpc(x) = 1
         /\ x >= 128 => sovRpc(x) = 1 + sovRpc(x \div 128)
<1> DEFINE B(n) == BitLen[n]
           h(n) == n \div 2
<1>1. \A n \in Nat : B(n) \in Nat /\ h(n) \in Nat /\ (B(n) = IF n < 2 THEN 1 ELSE 1 + B(h(n)))
  BY BitLenDef, HalfSmaller
<1>2. CASE x < 128
  <2> DEFINE x1 == h(x)  x2 == h(x1)  x3 == h(x2)  x4 == h(x3)  x5 == h(x4)  x6 == h(x5)
  <2>1. x1 \in Nat /\ x2 \in Nat /\ x3 \in Nat /\ x4 \in Nat /\ x5 \in Nat /\ x6 \in Nat
    OBVIOUS
  <2>2. x1 < 64 /\ x2 < 32 /\ x3 < 16 /\ x4 < 8 /\ x5 < 4 /\ x6 < 2
    BY <1>2
  <2> HIDE DEF x1, x2, x3, x4, x5, x6, B, h
  <2>3. /\ B(x6) = 1 /\ B(x5) \in 1..2 /\ B(x4) \in 1..3 /\ B(x3) \in 1..4
        /\ B(x2) \in 1..5 /\ B(x1) \in 1..6 /\ B(x) \in 1..7
    BY <1>1, <2>1, <2>2 DEF x1, x2, x3, x4, x5, x6
  <2> QED BY <1>2, <2>3 DEF sovRpc, B
<1>3. CASE x >= 128
  <2> DEFINE x1 == h(x)  x2 == h(x1)  x3 == h(x2)  x4 == h(x3)  x5 == h(x4)  x6 == h(x5)  x7 == h(x6)
  <2>1. x1 \in Nat /\ x2 \in Nat /\ x3 \in Nat /\ x4 \in Nat /\ x5 \in Nat /\ x6 \in Nat /\ x7 \in Nat
    OBVIOUS
  <2>2. x1 >= 64 /\ x2 >= 32 /\ x3 >= 16 /\ x4 >= 8 /\ x5 >= 4 /\ x6 >= 2 /\ x7 = x \div 128
    BY <1>3
  <2> HIDE DEF x1, x2, x3, x4, x5, x6, x7, B, h
  <2>3. B(x) = 7 + B(x7) /\ B(x7) \in Nat
    BY <1>1, <1>3, <2>1, <2>2 DEF x1, x2, x3, x4, x5, x6, x7
  <2>4. (B(x7) + 7 + 6) \div 7 = 1 + ((B(x7) + 6) \div 7)
    BY <2>3
  <2> QED BY <1>3, <2>2, <2>3, <2>4 DEF sovRpc, B
<1> QED BY <1>2, <1>3

\* The bytes a number is written in are as many as are made room for.
LEMMA VarintSize == \A v \in Nat : Len(encodeVarintRpc[v]) = sovRpc(v) /\ sovRpc(v) \in Nat
<1> DEFINE S == {v \in Nat : Len(encodeVarintRpc[v]) = sovRpc(v) /\ sovRpc(v) \in Nat}
<1>1. ASSUME NEW v \in Nat, \A m \in Nat : m < v => m \in S PROVE v \in S
  <2>1. CASE v < 128
    <3>1. encodeVarintRpc[v] = <<v>> /\ sovRpc(v) = 1
      BY <2>1, encodeDef, sovStep
    <3> QED BY <3>1
  <2>2. CASE v >= 128
    <3> DEFINE w == v \div 128
    <3>1. w \in Nat /\ w < v /\ ~(v < 128)
      BY <2>2, SeventhSmaller
    <3>2. Len(encodeVarintRpc[w]) = sovRpc(w) /\ sovRpc(w) \in Nat /\ encodeVarintRpc[w] \in Seq(Byte)
      BY <1>1, <3>1, encodeDef
    <3>3. sovRpc(v) = 1 + sovRpc(w)
      BY <2>2, sovStep
    <3>4. encodeVarintRpc[v] = <<128 + (v % 128)>> \o encodeVarintRpc[w]
      BY <3>1, encodeDef
    <3>5. 128 + (v % 128) \in Byte
      BY DEF Byte
    <3>6. <<128 + (v % 128)>> \in Seq(Byte) /\ Len(<<128 + (v % 128)>>) = 1
      BY <3>5
    <3> HIDE DEF w
    <3>7. Len(<<128 + (v % 128)>> \o encodeVarintRpc[w]) = 1 + sovRpc(w)
      BY <3>2, <3>6, ConcatProperties
    <3> QED BY <3>2, <3>3, <3>4, <3>7
  <2> QED BY <2>1, <2>2
<1>2. Nat \subseteq S
  <2> HIDE DEF S
  <2> QED BY <1>1, StrongInduction
<1> QED BY <1>2

-----------------------------------------------------------------------------
(* The byte sequences of a list, one after the other *)

\* The first so many of a sequence of byte sequences, one after the other.
LEMMA FirstOnes ==
  ASSUME NEW n \in Nat, NEW c \in [1..n -> Seq(Byte)]
  PROVE  \E F \in [Nat -> Seq(Byte)] :
           F[0] = <<>> /\ \A k \in 1..n : F[k] = F[k - 1] \o c[k]
<1> DEFINE R == Seq(Byte)
           C(k) == IF k \in 1..n THEN c[k] ELSE <<>>
           Stop == {0}
           down == [k \in Nat |-> IF k = 0 THEN 0 ELSE k - 1]
           base == [k \in Nat |-> <<>>]
           step == [p \in Nat \X R |-> p[2] \o C(p[1])]
<1>1. /\ Stop \in SUBSET Nat /\ down \in [Nat -> Nat] /\ \A k \in Nat \ Stop : down[k] < k
  OBVIOUS
<1>2. base \in [Nat -> R]
  OBVIOUS
<1>3. step \in [Nat \X R -> R]
  <2> SUFFICES ASSUME NEW k \in Nat, NEW r \in R PROVE r \o C(k) \in R
    OBVIOUS
  <2>1. C(k) \in R
    OBVIOUS
  <2> QED BY <2>1, ConcatProperties
<1>4. PICK f \in [Nat -> R] : Solves(f, Stop, down, base, step)
  <2> HIDE DEF R, Stop, down, base, step
  <2>1. IsRecursion(R, Stop, down, base, step)
    BY <1>1, <1>2, <1>3 DEF IsRecursion
  <2> QED BY <2>1, Recursion
<1>5. \A k \in Nat : f[k] = IF k \in Stop THEN base[k] ELSE step[<<k, f[down[k]]>>]
  <2> HIDE DEF R, Stop, down, base, step
  <2> QED BY <1>4 DEF Solves
<1>6. f[0] = <<>>
  <2>1. f[0] = base[0]
    <3> HIDE DEF base, step
    <3> QED BY <1>5
  <2> QED BY <2>1
<1>7. ASSUME NEW k \in 1..n PROVE f[k] = f[k - 1] \o c[k]
  <2>1. k \in Nat /\ k \notin Stop /\ down[k] = k - 1 /\ k - 1 \in Nat
    OBVIOUS
  <2>2. f[k] = step[<<k, f[k - 1]>>]
    <3> HIDE DEF base, step, Stop, down
    <3> QED BY <1>5, <2>1
  <2>3. <<k, f[k - 1]>> \in Nat \X R
    BY <2>1
  <2>4. step[<<k, f[k - 1]>>] = f[k - 1] \o C(k)
    <3> HIDE DEF R, C
    <3> QED BY <2>3
  <2> QED BY <2>2, <2>4
<1> QED BY <1>6, <1>7

LEMMA FlattenDef ==
  ASSUME NEW s \in Seq(Seq(Byte)), NEW F \in [Nat -> Seq(Byte)],
         F[0] = <<>>, \A k \in 1..Len(s) : F[k] = F[k - 1] \o s[k]
  PROVE  FlattenSeq(s) = F[Len(s)]
<1> DEFINE n == Len(s)
           Fun(g) == [i \in 1..n |-> IF i = 1 THEN s[i] ELSE g[i - 1] \o s[i]]
           flatten == CHOOSE g : g = Fun(g)
<1>1. CASE n = 0
  <2>1. s = <<>>
    BY <1>1
  <2> QED BY <1>1, <2>1 DEF FlattenSeq
<1>2. CASE n # 0
  <2> DEFINE g == [i \in 1..n |-> F[i]]
  <2>0. n \in Nat
    BY LenProperties
  <2> HIDE DEF n
  <2>1. n \in Nat /\ n >= 1
    BY <1>2, <2>0
  <2>2. g = Fun(g)
    <3>1. ASSUME NEW i \in 1..n
          PROVE  F[i] = IF i = 1 THEN s[i] ELSE g[i - 1] \o s[i]
      <4>1. F[i] = F[i - 1] \o s[i]
        BY DEF n
      <4>2. CASE i = 1
        <5>1. s[1] \in Seq(Byte)
          BY <4>2, ElementOfSeq DEF n
        <5>2. <<>> \o s[1] = s[1]
          BY <5>1, ConcatEmptySeq
        <5>3. i - 1 = 0
          BY <4>2
        <5> QED BY <4>1, <4>2, <5>2, <5>3
      <4>3. CASE i # 1
        <5>1. i - 1 \in 1..n
          BY <2>1, <4>3
        <5>2. g[i - 1] = F[i - 1]
          BY <5>1
        <5> QED BY <4>1, <4>3, <5>2
      <4> QED BY <4>2, <4>3
    <3> QED BY <3>1
  <2>3. flatten = Fun(flatten)
    <3> HIDE DEF Fun, g
    <3> QED BY <2>2
  <2>4. \A i \in 1..n : flatten[i] = IF i = 1 THEN s[i] ELSE flatten[i - 1] \o s[i]
    <3> HIDE DEF flatten
    <3> QED BY <2>3
  <2> HIDE DEF flatten
  <2>5. \A i \in 1..n : g[i] = IF i = 1 THEN s[i] ELSE g[i - 1] \o s[i]
    <3> HIDE DEF g
    <3> QED BY <2>2
  <2> DEFINE S == {i \in Nat : i \in 1..n => flatten[i] = g[i]}
  <2>6. 0 \in S
    OBVIOUS
  <2>7. ASSUME NEW i \in Nat \cap S PROVE i + 1 \in S
    <3> SUFFICES ASSUME i + 1 \in 1..n PROVE flatten[i + 1] = g[i + 1]
      OBVIOUS
    <3> HIDE DEF g
    <3>1. CASE i = 0
      <4>1. i + 1 = 1
        BY <3>1
      <4> QED BY <4>1, <2>4, <2>5
    <3>2. CASE i # 0
      <4>1. i \in 1..n /\ (i + 1) - 1 = i /\ i + 1 # 1
        BY <3>2, <2>1
      <4>2. flatten[i] = g[i]
        BY <4>1
      <4> HIDE DEF S
      <4>3. flatten[i + 1] = flatten[i] \o s[i + 1]
        BY <4>1, <2>4
      <4>4. g[i + 1] = g[i] \o s[i + 1]
        BY <4>1, <2>5
      <4> QED BY <4>2, <4>3, <4>4
    <3> QED BY <3>1, <3>2
  <2>8. Nat \subseteq S
    <3> HIDE DEF S
    <3> QED BY <2>6, <2>7, SetInduction
  <2>9. flatten[n] = F[n]
    <3>1. n \in 1..n
      BY <2>1
    <3>2. n \in S
      <4> HIDE DEF S
      <4> QED BY <2>1, <2>8
    <3> QED BY <3>1, <3>2
  <2>10. FlattenSeq(s) = flatten[n]
    BY <1>2 DEF FlattenSeq, n, flatten
  <2> QED BY <2>9, <2>10 DEF n
<1> QED BY <1>1, <1>2

-----------------------------------------------------------------------------
(* Size is exact, field by field *)

LEMMA OneByte == \A b \in Byte : <<b>> \in Seq(Byte) /\ Len(<<b>>) = 1
OBVIOUS

\* Two parts of a slice, and the bytes they have.
LEMMA TwoParts ==
  ASSUME NEW s \in Seq(Byte), NEW t \in Seq(Byte)
  PROVE  s \o t \in Seq(Byte) /\ Len(s \o t) = Len(s) + Len(t)
BY ConcatProperties

LEMMA UnsignedInWord == \A x \in Int : Unsigned(x) \in Nat /\ Unsigned(x) \in 0..Word - 1
<1> SUFFICES ASSUME NEW x \in Int PROVE Unsigned(x) \in 0..Word - 1
  OBVIOUS
<1>1. Word \in Nat \ {0}
  BY WordAssumption
<1> QED BY <1>1, ModRange DEF Unsigned

LEMMA PtrBytesSize ==
  ASSUME NEW tag \in Byte, NEW bytes \in Seq(Byte)
  PROVE  /\ PtrBytes(tag, bytes) \in Seq(Byte)
         /\ Len(PtrBytes(tag, bytes)) = PtrSize(Len(bytes)) /\ PtrSize(Len(bytes)) \in Nat
<1> DEFINE e == encodeVarintRpc[Len(bytes)]
<1>1. e \in Seq(Byte) /\ Len(e) = sovRpc(Len(bytes)) /\ sovRpc(Len(bytes)) \in Nat
  BY encodeDef, VarintSize
<1>2. <<tag>> \in Seq(Byte) /\ Len(<<tag>>) = 1
  BY OneByte
<1> HIDE DEF e
<1>3. <<tag>> \o e \in Seq(Byte) /\ Len(<<tag>> \o e) = 1 + Len(e)
  BY <1>1, <1>2, TwoParts
<1>4. /\ (<<tag>> \o e) \o bytes \in Seq(Byte)
      /\ Len((<<tag>> \o e) \o bytes) = 1 + Len(e) + Len(bytes)
  BY <1>3, TwoParts
<1>5. PtrBytes(tag, bytes) = (<<tag>> \o e) \o bytes
  BY DEF PtrBytes, e
<1> QED BY <1>1, <1>4, <1>5 DEF PtrSize

LEMMA StrBytesSize ==
  ASSUME NEW tag \in Byte, NEW str \in Text
  PROVE  /\ StrBytes(tag, str) \in Seq(Byte)
         /\ Len(StrBytes(tag, str)) = StrSize(str) /\ StrSize(str) \in Nat
<1>1. CASE str = <<>>
  BY <1>1 DEF StrBytes, StrSize
<1>2. CASE str # <<>>
  <2>1. StrBytes(tag, str) = PtrBytes(tag, str) /\ StrSize(str) = PtrSize(Len(str))
    BY <1>2 DEF StrBytes, StrSize, PtrBytes, PtrSize
  <2> QED BY <2>1, PtrBytesSize DEF Text
<1> QED BY <1>1, <1>2

LEMMA NumBytesSize ==
  ASSUME NEW tag \in Byte, NEW num \in Int
  PROVE  /\ NumBytes(tag, num) \in Seq(Byte)
         /\ Len(NumBytes(tag, num)) = NumSize(num) /\ NumSize(num) \in Nat
<1>1. CASE num = 0
  BY <1>1 DEF NumBytes, NumSize
<1>2. CASE num # 0
  <2> DEFINE e == encodeVarintRpc[Unsigned(num)]
  <2>1. e \in Seq(Byte) /\ Len(e) = sovRpc(Unsigned(num)) /\ sovRpc(Unsigned(num)) \in Nat
    BY encodeDef, VarintSize, UnsignedInWord
  <2>2. <<tag>> \in Seq(Byte) /\ Len(<<tag>>) = 1
    BY OneByte
  <2> HIDE DEF e
  <2>3. <<tag>> \o e \in Seq(Byte) /\ Len(<<tag>> \o e) = 1 + Len(e)
    BY <2>1, <2>2, TwoParts
  <2>4. NumBytes(tag, num) = <<tag>> \o e /\ NumSize(num) = 1 + sovRpc(Unsigned(num))
    BY <1>2 DEF NumBytes, NumSize, e
  <2> QED BY <2>1, <2>3, <2>4
<1> QED BY <1>1, <1>2

LEMMA BoolBytesSize ==
  ASSUME NEW tag \in Byte, NEW b \in BOOLEAN
  PROVE  /\ BoolBytes(tag, b) \in Seq(Byte)
         /\ Len(BoolBytes(tag, b)) = BoolSize(b) /\ BoolSize(b) \in Nat
<1>1. <<tag, 1>> \in Seq(Byte) /\ Len(<<tag, 1>>) = 2
  BY DEF Byte
<1> QED BY <1>1 DEF BoolBytes, BoolSize

LEMMA PointerCases ==
  ASSUME NEW S, NEW p \in Pointer(S), p # <<>>
  PROVE  p[1] \in S /\ p = <<p[1]>>
<1>1. p \in Seq(S) /\ Len(p) <= 1
  BY DEF Pointer
<1>2. Len(p) \in Nat /\ Len(p) # 0
  BY <1>1
<1>3. Len(p) = 1
  <2> DEFINE n == Len(p)
  <2>1. n \in Nat /\ n # 0 /\ n <= 1
    BY <1>1, <1>2
  <2> HIDE DEF n
  <2>2. n = 1
    BY <2>1
  <2> QED BY <2>2 DEF n
<1>4. p[1] \in S
  BY <1>1, <1>3, ElementOfSeq
<1>5. <<p[1]>> \in Seq(S) /\ Len(<<p[1]>>) = 1 /\ <<p[1]>>[1] = p[1]
  BY <1>4
<1>6. \A i \in 1..Len(p) : p[i] = <<p[1]>>[i]
  BY <1>3, <1>5
<1>7. p = <<p[1]>>
  BY <1>1, <1>3, <1>5, <1>6, SeqEqual
<1> QED BY <1>4, <1>7

LEMMA TimeBytesSize ==
  ASSUME NEW tag \in Byte, NEW t \in Pointer(Times)
  PROVE  /\ TimeBytes(tag, t) \in Seq(Byte)
         /\ Len(TimeBytes(tag, t)) = TimeSize(t) /\ TimeSize(t) \in Nat
<1>1. CASE t = <<>>
  BY <1>1 DEF TimeBytes, TimeSize
<1>2. CASE t # <<>>
  <2>1. t[1] \in Seq(Byte)
    BY <1>2, PointerCases, TimesAssumption
  <2>2. TimeBytes(tag, t) = PtrBytes(tag, t[1]) /\ TimeSize(t) = PtrSize(Len(t[1]))
    BY <1>2 DEF TimeBytes, TimeSize
  <2> QED BY <2>1, <2>2, PtrBytesSize
<1> QED BY <1>1, <1>2

LEMMA NumIsInt == Int64 \subseteq Int
BY WordAssumption DEF Int64

LEMMA RecordSize ==
  ASSUME NEW m \in Record
  PROVE  /\ MarshalRecord(m) \in Seq(Byte)
         /\ Len(MarshalRecord(m)) = SizeRecord(m) /\ SizeRecord(m) \in Nat
<1> DEFINE a == StrBytes(10, m.ID)
           b == NumBytes(16, m.TheNum)
           c == StrBytes(26, m.TheStr)
           d == TimeBytes(34, m.CreatedAt)
           e == TimeBytes(42, m.UpdatedAt)
<1>1. /\ m.ID \in Text /\ m.TheNum \in Int /\ m.TheStr \in Text
      /\ m.CreatedAt \in Pointer(Times) /\ m.UpdatedAt \in Pointer(Times)
  BY NumIsInt DEF Record
<1>2. 10 \in Byte /\ 16 \in Byte /\ 26 \in Byte /\ 34 \in Byte /\ 42 \in Byte
  BY DEF Byte
<1>3. /\ a \in Seq(Byte) /\ Len(a) = StrSize(m.ID) /\ StrSize(m.ID) \in Nat
      /\ b \in Seq(Byte) /\ Len(b) = NumSize(m.TheNum) /\ NumSize(m.TheNum) \in Nat
  BY <1>1, <1>2, StrBytesSize, NumBytesSize
<1>4. /\ c \in Seq(Byte) /\ Len(c) = StrSize(m.TheStr) /\ StrSize(m.TheStr) \in Nat
      /\ d \in Seq(Byte) /\ Len(d) = TimeSize(m.CreatedAt) /\ TimeSize(m.CreatedAt) \in Nat
      /\ e \in Seq(Byte) /\ Len(e) = TimeSize(m.UpdatedAt) /\ TimeSize(m.UpdatedAt) \in Nat
  BY <1>1, <1>2, StrBytesSize, TimeBytesSize
<1> HIDE DEF a, b, c, d, e
<1>5. a \o b \in Seq(Byte) /\ Len(a \o b) = Len(a) + Len(b)
  BY <1>3, TwoParts
<1>6. (a \o b) \o c \in Seq(Byte) /\ Len((a \o b) \o c) = Len(a) + Len(b) + Len(c)
  BY <1>3, <1>4, <1>5, TwoParts
<1>7. /\ ((a \o b) \o c) \o d \in Seq(Byte)
      /\ Len(((a \o b) \o c) \o d) = Len(a) + Len(b) + Len(c) + Len(d)
  BY <1>3, <1>4, <1>6, TwoParts
<1>8. /\ (((a \o b) \o c) \o d) \o e \in Seq(Byte)
      /\ Len((((a \o b) \o c) \o d) \o e) = Len(a) + Len(b) + Len(c) + Len(d) + Len(e)
  BY <1>3, <1>4, <1>7, TwoParts
<1>9. MarshalRecord(m) = (((a \o b) \o c) \o d) \o e
  BY DEF MarshalRecord, a, b, c, d, e
<1> QED BY <1>3, <1>4, <1>8, <1>9 DEF SizeRecord

LEMMA RecordPtrBytesSize ==
  ASSUME NEW tag \in Byte, NEW p \in Pointer(Record)
  PROVE  /\ RecordPtrBytes(tag, p) \in Seq(Byte)
         /\ Len(RecordPtrBytes(tag, p)) = RecordPtrSize(p) /\ RecordPtrSize(p) \in Nat
<1>1. CASE p = <<>>
  BY <1>1 DEF RecordPtrBytes, RecordPtrSize
<1>2. CASE p # <<>>
  <2>1. p[1] \in Record
    BY <1>2, PointerCases
  <2>2. MarshalRecord(p[1]) \in Seq(Byte) /\ Len(MarshalRecord(p[1])) = SizeRecord(p[1])
    BY <2>1, RecordSize
  <2>3. RecordPtrBytes(tag, p) = PtrBytes(tag, MarshalRecord(p[1])) /\ RecordPtrSize(p) = PtrSize(SizeRecord(p[1]))
    BY <1>2 DEF RecordPtrBytes, RecordPtrSize
  <2> QED BY <2>2, <2>3, PtrBytesSize
<1> QED BY <1>1, <1>2

\* The records of a list, each with its tag and size.
Elements(records) == [i \in DOMAIN records |-> PtrBytes(10, MarshalRecord(records[i]))]

LEMMA ElementsSeq ==
  ASSUME NEW records \in Seq(Record)
  PROVE  /\ Elements(records) \in Seq(Seq(Byte)) /\ Len(Elements(records)) = Len(records)
         /\ \A i \in 1..Len(records) :
              /\ records[i] \in Record
              /\ Elements(records)[i] = PtrBytes(10, MarshalRecord(records[i]))
              /\ Elements(records)[i] \in Seq(Byte)
              /\ Len(Elements(records)[i]) = PtrSize(SizeRecord(records[i]))
<1> DEFINE n == Len(records)
<1>1. n \in Nat /\ DOMAIN records = 1..n /\ \A i \in 1..n : records[i] \in Record
  BY LenProperties, ElementOfSeq
<1>2. ASSUME NEW i \in 1..n
      PROVE  /\ PtrBytes(10, MarshalRecord(records[i])) \in Seq(Byte)
             /\ Len(PtrBytes(10, MarshalRecord(records[i]))) = PtrSize(SizeRecord(records[i]))
  <2>1. records[i] \in Record
    BY <1>1
  <2>2. 10 \in Byte
    BY DEF Byte
  <2>3. MarshalRecord(records[i]) \in Seq(Byte) /\ Len(MarshalRecord(records[i])) = SizeRecord(records[i])
    BY <2>1, RecordSize
  <2> QED BY <2>2, <2>3, PtrBytesSize
<1> HIDE DEF n
<1>3. /\ Elements(records) = [i \in 1..n |-> PtrBytes(10, MarshalRecord(records[i]))]
      /\ \A i \in 1..n : Elements(records)[i] = PtrBytes(10, MarshalRecord(records[i]))
  BY <1>1 DEF Elements
<1>4. Elements(records) \in [1..n -> Seq(Byte)]
  BY <1>2, <1>3
<1>5. Elements(records) \in Seq(Seq(Byte)) /\ Len(Elements(records)) = n
  BY <1>1, <1>4, IsASeq, LenProperties
<1> QED BY <1>1, <1>2, <1>3, <1>5 DEF n

LEMMA ListSize ==
  ASSUME NEW records \in Seq(Record)
  PROVE  /\ FlattenSeq(Elements(records)) \in Seq(Byte)
         /\ Len(FlattenSeq(Elements(records))) = SizeOfFirst(records)[Len(records)]
<1> DEFINE n == Len(records)
           c == Elements(records)
           Fun(g) == [i \in 0..n |-> IF i = 0 THEN 0 ELSE g[i - 1] + PtrSize(SizeRecord(records[i]))]
           sizes == CHOOSE g : g = Fun(g)
<1>1. n \in Nat
  BY LenProperties
<1>2. /\ c \in Seq(Seq(Byte)) /\ Len(c) = n /\ c \in [1..n -> Seq(Byte)]
      /\ \A i \in 1..n : c[i] \in Seq(Byte) /\ Len(c[i]) = PtrSize(SizeRecord(records[i]))
  BY ElementsSeq, LenProperties
<1>3. SizeOfFirst(records) = sizes
  BY DEF SizeOfFirst
<1> HIDE DEF n, c
<1>4. PICK F \in [Nat -> Seq(Byte)] : F[0] = <<>> /\ \A k \in 1..n : F[k] = F[k - 1] \o c[k]
  BY <1>1, <1>2, FirstOnes
<1>5. FlattenSeq(c) = F[n]
  BY <1>2, <1>4, FlattenDef
<1> DEFINE g == [i \in 0..n |-> Len(F[i])]
<1>6. \A i \in 1..n : i - 1 \in 0..n /\ Len(F[i]) = Len(F[i - 1]) + PtrSize(SizeRecord(records[i]))
  <2> SUFFICES ASSUME NEW i \in 1..n
               PROVE  i - 1 \in 0..n /\ Len(F[i]) = Len(F[i - 1]) + PtrSize(SizeRecord(records[i]))
    OBVIOUS
  <2>1. i - 1 \in 0..n /\ i - 1 \in Nat
    BY <1>1
  <2>2. F[i - 1] \in Seq(Byte) /\ c[i] \in Seq(Byte) /\ F[i] = F[i - 1] \o c[i]
    BY <1>2, <1>4, <2>1
  <2>3. Len(F[i]) = Len(F[i - 1]) + Len(c[i])
    BY <2>2, TwoParts
  <2> QED BY <1>2, <2>1, <2>3
<1>7. g = Fun(g)
  <2>1. ASSUME NEW i \in 0..n
        PROVE  Len(F[i]) = IF i = 0 THEN 0 ELSE g[i - 1] + PtrSize(SizeRecord(records[i]))
    <3>1. CASE i = 0
      BY <3>1, <1>4
    <3>2. CASE i # 0
      <4>1. i \in 1..n
        BY <1>1, <3>2
      <4>2. g[i - 1] = Len(F[i - 1])
        BY <4>1, <1>6
      <4> QED BY <3>2, <4>1, <4>2, <1>6
    <3> QED BY <3>1, <3>2
  <2> QED BY <2>1
<1>8. sizes = Fun(sizes)
  <2> HIDE DEF Fun, g
  <2> QED BY <1>7
<1> HIDE DEF sizes
<1>9. \A i \in 0..n : /\ sizes[i] = IF i = 0 THEN 0 ELSE sizes[i - 1] + PtrSize(SizeRecord(records[i]))
                      /\ g[i] = IF i = 0 THEN 0 ELSE g[i - 1] + PtrSize(SizeRecord(records[i]))
  <2>1. ASSUME NEW i \in 0..n
        PROVE  sizes[i] = IF i = 0 THEN 0 ELSE sizes[i - 1] + PtrSize(SizeRecord(records[i]))
    BY <1>8
  <2>2. ASSUME NEW i \in 0..n
        PROVE  g[i] = IF i = 0 THEN 0 ELSE g[i - 1] + PtrSize(SizeRecord(records[i]))
    <3> HIDE DEF g
    <3> QED BY <1>7
  <2> QED BY <2>1, <2>2
<1> DEFINE S == {i \in Nat : i \in 0..n => sizes[i] = g[i]}
<1>10. Nat \subseteq S
  <2> HIDE DEF g
  <2>1. 0 \in S
    <3>1. 0 \in 0..n
      BY <1>1
    <3> QED BY <3>1, <1>9
  <2>2. ASSUME NEW i \in Nat \cap S PROVE i + 1 \in S
    <3> SUFFICES ASSUME i + 1 \in 0..n PROVE sizes[i + 1] = g[i + 1]
      OBVIOUS
    <3>1. i \in 0..n /\ (i + 1) - 1 = i /\ i + 1 # 0
      BY <1>1
    <3>2. sizes[i] = g[i]
      BY <3>1
    <3> HIDE DEF S
    <3>3. /\ sizes[i + 1] = sizes[i] + PtrSize(SizeRecord(records[i + 1]))
          /\ g[i + 1] = g[i] + PtrSize(SizeRecord(records[i + 1]))
      BY <1>9, <3>1
    <3> QED BY <3>2, <3>3
  <2> HIDE DEF S
  <2> QED BY <2>1, <2>2, SetInduction
<1>11. sizes[n] = Len(F[n]) /\ F[n] \in Seq(Byte)
  <2>1. n \in 0..n /\ n \in Nat
    BY <1>1
  <2>2. sizes[n] = g[n]
    <3> HIDE DEF g
    <3> QED BY <1>10, <2>1
  <2> QED BY <1>4, <2>1, <2>2
<1> QED BY <1>3, <1>5, <1>11 DEF n, c

-----------------------------------------------------------------------------
(* Size is exact, message by message *)

LEMMA TypesAre ==
  Messages = {"Record", "HealthReq", "HealthRes", "ConfigReq", "ConfigRes", "CreateRecordReq",
              "CreateRecordRes", "GetRecordReq", "GetRecordRes", "ListRecordReq", "ListRecordRes"}
BY DEF Messages, New

\* The bytes MarshalToSizedBuffer writes are as many as Size made room for.
LEMMA SizeExact ==
  ASSUME NEW type \in Messages, NEW m \in Message[type]
  PROVE  /\ MarshalToSizedBuffer(type, m) \in Seq(Byte)
         /\ Len(MarshalToSizedBuffer(type, m)) = Size(type, m)
<1>1. 8 \in Byte /\ 10 \in Byte /\ 16 \in Byte /\ 18 \in Byte /\ 26 \in Byte
  BY DEF Byte
<1>2. CASE type = "Record"
  <2>1. m \in Record
    BY <1>2 DEF Message
  <2> QED BY <1>2, <2>1, RecordSize DEF MarshalToSizedBuffer, Size
<1>3. CASE type \in {"HealthReq", "ConfigReq"}
  BY <1>3 DEF MarshalToSizedBuffer, Size, MarshalHealthReq, SizeHealthReq, MarshalConfigReq, SizeConfigReq
<1>4. CASE type = "HealthRes"
  <2>1. m.Ok \in BOOLEAN
    BY <1>4 DEF Message
  <2> QED BY <1>1, <1>4, <2>1, BoolBytesSize DEF MarshalToSizedBuffer, Size, MarshalHealthRes, SizeHealthRes
<1>5. CASE type = "ConfigRes"
  <2> DEFINE a == BoolBytes(8, m.Enable)
             b == NumBytes(16, m.Num)
             c == StrBytes(26, m.Str)
  <2>1. m.Enable \in BOOLEAN /\ m.Num \in Int /\ m.Str \in Text
    BY <1>5, NumIsInt DEF Message
  <2>2. /\ a \in Seq(Byte) /\ Len(a) = BoolSize(m.Enable) /\ BoolSize(m.Enable) \in Nat
        /\ b \in Seq(Byte) /\ Len(b) = NumSize(m.Num) /\ NumSize(m.Num) \in Nat
        /\ c \in Seq(Byte) /\ Len(c) = StrSize(m.Str) /\ StrSize(m.Str) \in Nat
    BY <1>1, <2>1, BoolBytesSize, NumBytesSize, StrBytesSize
  <2> HIDE DEF a, b, c
  <2>3. a \o b \in Seq(Byte) /\ Len(a \o b) = Len(a) + Len(b)
    BY <2>2, TwoParts
  <2>4. (a \o b) \o c \in Seq(Byte) /\ Len((a \o b) \o c) = Len(a) + Len(b) + Len(c)
    BY <2>2, <2>3, TwoParts
  <2>5. MarshalToSizedBuffer(type, m) = (a \o b) \o c /\ Size(type, m) = SizeConfigRes(m)
    BY <1>5 DEF MarshalToSizedBuffer, Size, MarshalConfigRes, a, b, c
  <2> QED BY <2>2, <2>4, <2>5 DEF SizeConfigRes
<1>6. CASE type = "CreateRecordReq"
  <2> DEFINE a == NumBytes(8, m.TheNum)
             b == StrBytes(18, m.TheStr)
             c == TimeBytes(26, m.CreatedAt)
  <2>1. m.TheNum \in Int /\ m.TheStr \in Text /\ m.CreatedAt \in Pointer(Times)
    BY <1>6, NumIsInt DEF Message
  <2>2. /\ a \in Seq(Byte) /\ Len(a) = NumSize(m.TheNum) /\ NumSize(m.TheNum) \in Nat
        /\ b \in Seq(Byte) /\ Len(b) = StrSize(m.TheStr) /\ StrSize(m.TheStr) \in Nat
        /\ c \in Seq(Byte) /\ Len(c) = TimeSize(m.CreatedAt) /\ TimeSize(m.CreatedAt) \in Nat
    BY <1>1, <2>1, NumBytesSize, StrBytesSize, TimeBytesSize
  <2> HIDE DEF a, b, c
  <2>3. a \o b \in Seq(Byte) /\ Len(a \o b) = Len(a) + Len(b)
    BY <2>2, TwoParts
  <2>4. (a \o b) \o c \in Seq(Byte) /\ Len((a \o b) \o c) = Len(a) + Len(b) + Len(c)
    BY <2>2, <2>3, TwoParts
  <2>5. MarshalToSizedBuffer(type, m) = (a \o b) \o c /\ Size(type, m) = SizeCreateRecordReq(m)
    BY <1>6 DEF MarshalToSizedBuffer, Size, MarshalCreateRecordReq, a, b, c
  <2> QED BY <2>2, <2>4, <2>5 DEF SizeCreateRecordReq
<1>7. CASE type \in {"CreateRecordRes", "GetRecordRes"}
  <2>1. m.Record \in Pointer(Record)
    <3>1. Message["CreateRecordRes"] = [Record : Pointer(Record)]
      BY DEF Message
    <3>2. Message["GetRecordRes"] = [Record : Pointer(Record)]
      BY DEF Message
    <3>3. m \in [Record : Pointer(Record)]
      BY <1>7, <3>1, <3>2
    <3> QED BY <3>3
  <2>2. /\ MarshalToSizedBuffer(type, m) = RecordPtrBytes(10, m.Record)
        /\ Size(type, m) = RecordPtrSize(m.Record)
    BY <1>7 DEF MarshalToSizedBuffer, Size, MarshalCreateRecordRes, SizeCreateRecordRes,
                MarshalGetRecordRes, SizeGetRecordRes
  <2> QED BY <1>1, <2>1, <2>2, RecordPtrBytesSize
<1>8. CASE type = "GetRecordReq"
  <2>1. m.ID \in Text
    BY <1>8 DEF Message
  <2> QED BY <1>1, <1>8, <2>1, StrBytesSize DEF MarshalToSizedBuffer, Size, MarshalGetRecordReq, SizeGetRecordReq
<1>9. CASE type = "ListRecordReq"
  <2> DEFINE a == StrBytes(10, m.PageSize)
             b == StrBytes(18, m.Page)
  <2>1. m.PageSize \in Text /\ m.Page \in Text
    BY <1>9 DEF Message
  <2>2. /\ a \in Seq(Byte) /\ Len(a) = StrSize(m.PageSize) /\ StrSize(m.PageSize) \in Nat
        /\ b \in Seq(Byte) /\ Len(b) = StrSize(m.Page) /\ StrSize(m.Page) \in Nat
    BY <1>1, <2>1, StrBytesSize
  <2> HIDE DEF a, b
  <2>3. a \o b \in Seq(Byte) /\ Len(a \o b) = Len(a) + Len(b)
    BY <2>2, TwoParts
  <2>4. MarshalToSizedBuffer(type, m) = a \o b /\ Size(type, m) = SizeListRecordReq(m)
    BY <1>9 DEF MarshalToSizedBuffer, Size, MarshalListRecordReq, a, b
  <2> QED BY <2>2, <2>3, <2>4 DEF SizeListRecordReq
<1>10. CASE type = "ListRecordRes"
  <2>1. m.Records \in Seq(Record)
    BY <1>10 DEF Message
  <2>2. MarshalToSizedBuffer(type, m) = FlattenSeq(Elements(m.Records)) /\ Size(type, m) = SizeListRecordRes(m)
    BY <1>10 DEF MarshalToSizedBuffer, Size, MarshalListRecordRes, Elements
  <2> QED BY <2>1, <2>2, ListSize DEF SizeListRecordRes
<1> QED BY <1>2, <1>3, <1>4, <1>5, <1>6, <1>7, <1>8, <1>9, <1>10, TypesAre

\* Size is exact: for every message, Marshal returns the bytes MarshalToSizedBuffer
\* writes, all of them; no write is out of range and no byte before them is left.
THEOREM MarshalFillsItsBuffer ==
  \A type \in Messages : \A m \in Message[type] :
    /\ Len(MarshalToSizedBuffer(type, m)) = Size(type, m)
    /\ Marshal(type, m) = MarshalToSizedBuffer(type, m)
    /\ Marshal(type, m) \in Seq(Byte)
<1> SUFFICES ASSUME NEW type \in Messages, NEW m \in Message[type]
             PROVE  /\ Len(MarshalToSizedBuffer(type, m)) = Size(type, m)
                    /\ Marshal(type, m) = MarshalToSizedBuffer(type, m)
                    /\ Marshal(type, m) \in Seq(Byte)
  OBVIOUS
<1> DEFINE written == MarshalToSizedBuffer(type, m)
           unused  == Size(type, m) - Len(written)
           zeros   == [i \in 1..unused |-> 0]
<1>1. written \in Seq(Byte) /\ Len(written) = Size(type, m)
  BY SizeExact
<1>2. Len(written) \in Nat
  BY <1>1, LenProperties
<1>3. unused = 0
  BY <1>1, <1>2
<1>4. zeros = <<>>
  BY <1>3
<1>5. Marshal(type, m) = SubSeq(zeros \o written, 1, Len(written))
  <2>1. ~(unused < 0)
    BY <1>3
  <2> QED BY <2>1 DEF Marshal
<1> HIDE DEF written, zeros
<1>6. zeros \o written = written
  BY <1>1, <1>4, ConcatEmptySeq
<1>7. Marshal(type, m) = written
  BY <1>1, <1>5, <1>6, SubSeqFull
<1> QED BY <1>1, <1>7 DEF written

-----------------------------------------------------------------------------
(* What a slice has from a position on, and what is left of a varint *)

\* From position at on, the bytes of F are s.
Ahead(F, at, s) ==
  /\ at \in Nat /\ s \in Seq(Byte) /\ Len(F) = at + Len(s)
  /\ \A i \in 1..Len(s) : F[at + i] = s[i]

LEMMA AheadAtStart == \A F \in Seq(Byte) : Ahead(F, 0, F)
BY DEF Ahead

LEMMA AheadBytes ==
  ASSUME NEW F \in Seq(Byte), NEW at \in Nat, NEW s \in Seq(Byte), NEW t \in Seq(Byte),
         Ahead(F, at, s \o t), NEW i \in 1..Len(s)
  PROVE  F[at + i] = s[i]
<1>1. /\ s \o t \in Seq(Byte) /\ Len(s \o t) = Len(s) + Len(t)
      /\ \A j \in 1..Len(s) + Len(t) : (s \o t)[j] = IF j <= Len(s) THEN s[j] ELSE t[j - Len(s)]
  BY ConcatProperties
<1>2. \A j \in 1..Len(s) + Len(t) : F[at + j] = (s \o t)[j]
  BY <1>1 DEF Ahead
<1>3. i \in 1..Len(s) + Len(t) /\ i <= Len(s)
  OBVIOUS
<1> QED BY <1>1, <1>2, <1>3

LEMMA AheadAfter ==
  ASSUME NEW F \in Seq(Byte), NEW at, NEW s \in Seq(Byte), NEW t \in Seq(Byte), Ahead(F, at, s \o t)
  PROVE  Ahead(F, at + Len(s), t)
<1>1. /\ s \o t \in Seq(Byte) /\ Len(s \o t) = Len(s) + Len(t)
      /\ \A i \in 1..Len(s) + Len(t) : (s \o t)[i] = IF i <= Len(s) THEN s[i] ELSE t[i - Len(s)]
  BY ConcatProperties
<1>2. /\ Len(s) \in Nat /\ Len(t) \in Nat /\ at \in Nat /\ Len(F) = at + (Len(s) + Len(t))
      /\ \A i \in 1..Len(s) + Len(t) : F[at + i] = (s \o t)[i]
  BY <1>1 DEF Ahead
<1>4. ASSUME NEW i \in 1..Len(t) PROVE F[(at + Len(s)) + i] = t[i]
  <2> DEFINE j == Len(s) + i
  <2>1. j \in 1..Len(s) + Len(t) /\ ~(j <= Len(s)) /\ j - Len(s) = i /\ (at + Len(s)) + i = at + j
    BY <1>2
  <2> HIDE DEF j
  <2>2. F[at + j] = t[j - Len(s)]
    BY <1>1, <1>2, <2>1
  <2> QED BY <2>1, <2>2
<1>5. at + Len(s) \in Nat /\ Len(F) = (at + Len(s)) + Len(t)
  BY <1>2
<1> QED BY <1>4, <1>5 DEF Ahead

LEMMA AheadByte ==
  ASSUME NEW F \in Seq(Byte), NEW at, NEW b \in Byte, NEW t \in Seq(Byte), Ahead(F, at, <<b>> \o t)
  PROVE  Ahead(F, at + 1, t) /\ F[at + 1] = b /\ at < Len(F)
<1> DEFINE u == <<b>>
<1>1. u \in Seq(Byte) /\ Len(u) = 1 /\ u[1] = b /\ 1 \in 1..Len(u) /\ Ahead(F, at, u \o t)
  BY OneByte
<1> HIDE DEF u
<1>2. Ahead(F, at + Len(u), t)
  BY <1>1, AheadAfter
<1>3. F[at + 1] = u[1]
  <2>1. at \in Nat
    BY DEF Ahead
  <2> QED BY <1>1, <2>1, AheadBytes
<1>4. at < Len(F)
  <2>1. at \in Nat /\ Len(F) = (at + 1) + Len(t)
    BY <1>1, <1>2 DEF Ahead
  <2> QED BY <2>1
<1> QED BY <1>1, <1>2, <1>3, <1>4

LEMMA AheadSame ==
  ASSUME NEW F, NEW at, NEW s, NEW t, Ahead(F, at, s), Ahead(F, at, t)
  PROVE  s = t
<1>1. s \in Seq(Byte) /\ t \in Seq(Byte) /\ Len(s) = Len(t) /\ \A i \in 1..Len(s) : s[i] = t[i]
  BY DEF Ahead
<1> QED BY <1>1, SeqEqual

\* A slice of d that ends in time is what was expected there.
LEMMA AheadSlice ==
  ASSUME NEW d \in Seq(Byte), NEW e \in Seq(Byte), NEW at,
         NEW x \in Seq(Byte), NEW t \in Seq(Byte),
         Ahead(d \o e, at, x \o t), at + Len(x) <= Len(d)
  PROVE  SubSeq(d, at + 1, at + Len(x)) = x
<1> DEFINE y == SubSeq(d, at + 1, at + Len(x))
<1>1. at \in Nat /\ Len(x) \in Nat /\ Len(d) \in Nat
  BY DEF Ahead
<1> DEFINE F == d \o e
<1>2. \A i \in 1..Len(x) : F[at + i] = x[i]
  <2> SUFFICES ASSUME NEW i \in 1..Len(x) PROVE F[at + i] = x[i]
    OBVIOUS
  <2>1. Ahead(F, at, x \o t) /\ F \in Seq(Byte)
    BY TwoParts
  <2> HIDE DEF F
  <2> QED BY <1>1, <2>1, AheadBytes
<1>3. \A i \in 1..Len(d) : F[i] = d[i] /\ d[i] \in Byte
  <2>1. \A i \in 1..Len(d) + Len(e) : (d \o e)[i] = IF i <= Len(d) THEN d[i] ELSE e[i - Len(d)]
    BY ConcatProperties
  <2>2. \A i \in 1..Len(d) : i \in 1..Len(d) + Len(e) /\ i <= Len(d)
    OBVIOUS
  <2> QED BY <2>1, <2>2, ElementOfSeq
<1>4. ASSUME NEW i \in 1..Len(x) PROVE d[at + i] = x[i]
  <2>1. at + i \in 1..Len(d)
    BY <1>1
  <2> QED BY <1>2, <1>3, <2>1
<1>5. \A i \in at + 1..at + Len(x) : d[i] \in Byte
  <2>1. \A i \in at + 1..at + Len(x) : i \in 1..Len(d)
    BY <1>1
  <2> QED BY <1>3, <2>1
<1>6. at + 1 \in Int /\ at + Len(x) \in Int /\ (at + Len(x)) - (at + 1) + 1 = Len(x)
  BY <1>1
<1>7. /\ y \in Seq(Byte)
      /\ Len(y) = IF at + 1 <= at + Len(x) THEN (at + Len(x)) - (at + 1) + 1 ELSE 0
      /\ \A i \in 1..(at + Len(x)) - (at + 1) + 1 : y[i] = d[(at + 1) + i - 1]
  <2> HIDE DEF y
  <2> QED BY <1>5, <1>6, SubSeqProperties DEF y
<1> HIDE DEF y
<1>8. Len(y) = Len(x) /\ \A i \in 1..Len(x) : y[i] = d[(at + 1) + i - 1]
  BY <1>1, <1>6, <1>7
<1>9. ASSUME NEW i \in 1..Len(x) PROVE y[i] = x[i]
  <2>1. (at + 1) + i - 1 = at + i
    BY <1>1
  <2> QED BY <1>4, <1>8, <2>1
<1>10. y = x
  BY <1>7, <1>8, <1>9, SeqEqual
<1> QED BY <1>10 DEF y

\* All that is left of a slice.
LEMMA AheadRest ==
  ASSUME NEW d \in Seq(Byte), NEW at, NEW s, Ahead(d, at, s)
  PROVE  SubSeq(d, at + 1, Len(d)) = s
<1>1. /\ s \in Seq(Byte) /\ <<>> \in Seq(Byte) /\ s \o <<>> = s /\ d \o <<>> = d
  BY ConcatEmptySeq DEF Ahead
<1>2. at + Len(s) = Len(d) /\ at + Len(s) <= Len(d)
  BY DEF Ahead
<1>3. SubSeq(d, at + 1, at + Len(s)) = s
  BY <1>1, <1>2, AheadSlice
<1> QED BY <1>2, <1>3

-----------------------------------------------------------------------------
(* Varints *)

\* What is left of varint v when x has been read of it, and s after it.
Left(v, x, F, at, s) ==
  \E w \in Nat :
    /\ x.acc + w * x.weight = v /\ (w = 0 => x.weight = 1)
    /\ Ahead(F, at, encodeVarintRpc[w] \o s)

LEMMA LeftAtStart ==
  ASSUME NEW v \in Nat, NEW F, NEW at, NEW s, Ahead(F, at, encodeVarintRpc[v] \o s)
  PROVE  Left(v, NoBits, F, at, s)
BY DEF Left, NoBits

LEMMA Distribute ==
  ASSUME NEW q \in Nat, NEW r \in Nat, NEW a \in Nat, NEW t \in Nat
  PROVE  a + (128 * q + r) * t = (a + r * t) + q * (t * 128)
<1>1. (128 * q + r) * t = (128 * q) * t + r * t
  OBVIOUS
<1>2. (128 * q) * t = q * (t * 128)
  OBVIOUS
<1>3. (128 * q) * t \in Int /\ r * t \in Int /\ (128 * q + r) * t \in Int /\ q * (t * 128) \in Int
  OBVIOUS
<1> QED BY <1>1, <1>2, <1>3

LEMMA TimesMonotone ==
  ASSUME NEW w \in Nat, NEW t \in Nat, w >= 1
  PROVE  w * t >= t
OBVIOUS

LEMMA TimesNat == \A w, t \in Nat : w * t \in Nat
OBVIOUS

LEMMA Digits ==
  ASSUME NEW w \in Nat
  PROVE  w % 128 \in 0..127 /\ w \div 128 \in Nat /\ w = 128 * (w \div 128) + (w % 128)
<1>1. w \div 128 \in Nat /\ w % 128 \in 0..127
  OBVIOUS
<1>2. \A q, r \in Int : q = w \div 128 /\ r = w % 128 => w = 128 * q + r
  OBVIOUS
<1> QED BY <1>1, <1>2

\* One more byte of a varint of which something is left.
LEMMA LeftByte ==
  ASSUME NEW v \in 0..Word - 1, NEW acc \in Nat, NEW weight \in Nat \ {0},
         NEW F \in Seq(Byte), NEW at, NEW s \in Seq(Byte),
         Left(v, [acc |-> acc, weight |-> weight], F, at, s)
  PROVE  LET b    == F[at + 1]
             acc1 == (acc + (b % 128) * weight) % Word
         IN  /\ weight < Word /\ at \in Nat /\ at < Len(F) /\ b \in Byte
             /\ b < 128 => acc1 = v /\ Ahead(F, at + 1, s)
             /\ b >= 128 => Left(v, [acc |-> acc1, weight |-> weight * 128], F, at + 1, s)
<1> DEFINE b    == F[at + 1]
           acc1 == (acc + (b % 128) * weight) % Word
<1>1. PICK w \in Nat : /\ acc + w * weight = v /\ (w = 0 => weight = 1)
                       /\ Ahead(F, at, encodeVarintRpc[w] \o s)
  BY DEF Left
<1> DEFINE q == w \div 128
           r == w % 128
<1>2. q \in Nat /\ r \in 0..127 /\ w = 128 * q + r
  BY Digits
<1>3. Word \in Nat /\ Word >= 256
  BY WordAssumption
<1>4. at \in Nat
  BY <1>1 DEF Ahead
<1>5. weight < Word
  <2>1. CASE w = 0
    BY <1>1, <1>3, <2>1
  <2>2. CASE w # 0
    <3>1. w * weight >= weight /\ w * weight \in Nat
      BY <2>2, TimesMonotone, TimesNat
    <3> DEFINE p == w * weight
    <3>2. acc + p = v /\ p >= weight /\ p \in Nat
      BY <1>1, <3>1
    <3> HIDE DEF p
    <3> QED BY <1>3, <3>2
  <2> QED BY <2>1, <2>2
<1>6. acc + w * weight = (acc + r * weight) + q * (weight * 128)
  <2> HIDE DEF q, r
  <2> QED BY <1>2, Distribute
<1>7. r * weight \in Nat /\ q * (weight * 128) \in Nat
  <2> HIDE DEF q, r
  <2>1. weight * 128 \in Nat
    OBVIOUS
  <2> QED BY <1>2, <2>1, TimesNat
<1>8. acc + r * weight \in 0..Word - 1 /\ (acc + r * weight) % Word = acc + r * weight
  <2> DEFINE y == r * weight
             z == q * (weight * 128)
  <2>1. (acc + y) + z = v /\ y \in Nat /\ z \in Nat
    BY <1>1, <1>6, <1>7
  <2> HIDE DEF y, z
  <2>2. acc + y \in 0..Word - 1
    BY <1>3, <2>1
  <2>3. (acc + y) % Word = acc + y
    <3>1. acc + y \in Nat /\ Word \in Nat \ {0} /\ acc + y < Word
      BY <1>3, <2>2
    <3> QED BY <3>1, ModSame
  <2> QED BY <2>2, <2>3 DEF y
<1>9. CASE w < 128
  <2>1. q = 0 /\ r = w
    BY <1>2, <1>9
  <2>2. encodeVarintRpc[w] = <<w>> /\ w \in Byte
    <3>1. encodeVarintRpc[w] = <<w>>
      BY <1>9, encodeDef
    <3>2. w \in Byte
      BY <1>9 DEF Byte
    <3> QED BY <3>1, <3>2
  <2>3. b = w /\ Ahead(F, at + 1, s) /\ at < Len(F)
    BY <1>1, <2>2, AheadByte
  <2>4. b % 128 = r
    BY <2>1, <2>3
  <2>5. acc1 = v
    <3> HIDE DEF q, r, b
    <3>1. q * (weight * 128) = 0
      BY <2>1
    <3>2. acc1 = acc + r * weight
      BY <1>8, <2>4
    <3> HIDE DEF acc1
    <3> QED BY <1>1, <1>6, <1>7, <3>1, <3>2
  <2>6. b < 128 /\ ~(b >= 128) /\ b \in Byte
    BY <1>9, <2>2, <2>3
  <2> HIDE DEF b, acc1
  <2>7. b < 128 => acc1 = v /\ Ahead(F, at + 1, s)
    BY <2>3, <2>5
  <2>8. b >= 128 => Left(v, [acc |-> acc1, weight |-> weight * 128], F, at + 1, s)
    BY <2>6
  <2> QED BY <1>4, <1>5, <2>3, <2>6, <2>7, <2>8 DEF b, acc1
<1>10. CASE w >= 128
  <2>1. q >= 1
    BY <1>2, <1>10
  <2> DEFINE c == 128 + r
             e == encodeVarintRpc[q]
  <2>2. ~(w < 128) /\ c \in Byte /\ c >= 128 /\ ~(c < 128) /\ c % 128 = r
    BY <1>2, <1>10 DEF Byte
  <2>3. encodeVarintRpc[w] = <<c>> \o e
    BY <2>2, encodeDef
  <2>4. e \in Seq(Byte) /\ <<c>> \in Seq(Byte)
    BY <1>2, <2>2, encodeDef, OneByte
  <2>5. encodeVarintRpc[w] \o s = <<c>> \o (e \o s) /\ e \o s \in Seq(Byte)
    <3> HIDE DEF c, e
    <3> QED BY <2>3, <2>4, ConcatAssociative, TwoParts
  <2>6. b = c /\ Ahead(F, at + 1, e \o s) /\ at < Len(F)
    <3> HIDE DEF c, e
    <3>1. Ahead(F, at, <<c>> \o (e \o s))
      BY <1>1, <2>5
    <3> QED BY <2>2, <2>5, <3>1, AheadByte
  <2>7. acc1 = acc + r * weight
    <3>1. b % 128 = r
      BY <2>2, <2>6
    <3> HIDE DEF q, r, b
    <3> QED BY <1>8, <3>1
  <2>8. Left(v, [acc |-> acc1, weight |-> weight * 128], F, at + 1, s)
    <3>1. acc1 + q * (weight * 128) = v
      <4> HIDE DEF q, r, acc1
      <4> QED BY <1>1, <1>6, <2>7
    <3>2. q \in Nat /\ q # 0 /\ Ahead(F, at + 1, encodeVarintRpc[q] \o s)
      BY <1>2, <2>1, <2>6
    <3> HIDE DEF q, r, acc1, b, e, c
    <3> QED BY <3>1, <3>2 DEF Left
  <2>9. b \in Byte /\ ~(b < 128)
    BY <2>2, <2>6
  <2> HIDE DEF b, acc1, c, e, q, r
  <2>10. b < 128 => acc1 = v /\ Ahead(F, at + 1, s)
    BY <2>9
  <2> QED BY <1>4, <1>5, <2>6, <2>8, <2>9, <2>10 DEF b, acc1
<1> QED BY <1>9, <1>10

-----------------------------------------------------------------------------
(* What a slice means: tokens, fields, and the ways through them *)

Tokens == [tag : 0..Word - 1, num : 0..Word - 1, data : Seq(Byte), depth : Nat]

number(k) == Signed(k.tag \div 8, TagWord)

With(m, name, value) == [m EXCEPT ![name] = value]

\* Field k takes message m to m1: a field that is no record, and one that is.
Plain(t, k, m, m1) ==
  LET c == Cases[t][number(k)]
  IN  /\ number(k) \in DOMAIN Cases[t]
      /\ k.tag % 8 = WireTypeOf(c.kind)
      /\ \/ c.kind = "bool" /\ m1 = With(m, c.name, (Signed(k.num, Word) # 0))
         \/ c.kind = "int" /\ m1 = With(m, c.name, Signed(k.num, Word))
         \/ c.kind = "string" /\ m1 = With(m, c.name, k.data)
         \/ c.kind = "time" /\ k.data \in Times /\ m1 = With(m, c.name, <<k.data>>)

\* A way through a slice: what is left of it at each field, with the message
\* as far as it is read by then.
RecordPlan(Q, last) ==
  /\ Q \subseteq Seq(Byte) \X Record
  /\ \A p \in Q :
       \/ p = <<<<>>, last>>
       \/ \E k \in Tokens, q \in Q :
            p[1] = TokenBytes(k) \o q[1] /\ Plain("Record", k, p[2], q[2])

Started(m, c) ==
  IF c.kind = "message" /\ m[c.name] # <<>> THEN m[c.name][1] ELSE New.Record

Embedded(t, k, m, m1) ==
  LET c == Cases[t][number(k)]
  IN  /\ number(k) \in DOMAIN Cases[t]
      /\ k.tag % 8 = 2
      /\ c.kind \in {"message", "messages"}
      /\ \E Q, r : /\ RecordPlan(Q, r) /\ <<k.data, Started(m, c)>> \in Q
                   /\ m1 = With(m, c.name,
                                 IF c.kind = "messages" THEN Append(m[c.name], r) ELSE <<r>>)

Known(t, k, m, m1) == Plain(t, k, m, m1) \/ Embedded(t, k, m, m1)

Unknown(t, s, s1) ==
  \E u : IsUnknownField(t, u) /\ u # <<>> /\ s = FieldBytes(u) \o s1

KnownStep(t, R, p)   == \E k \in Tokens, q \in R :
                          p[1] = TokenBytes(k) \o q[1] /\ Known(t, k, p[2], q[2])
UnknownStep(t, R, p) == \E q \in R : Unknown(t, p[1], q[1]) /\ q[2] = p[2]

\* Of a message that may be cut off, whatever is read writes what it was read from.
Writes(t, p, last) == MarshalToSizedBuffer(t, p[2]) \o p[1] = MarshalToSizedBuffer(t, last)

Plan(t, R, last, mode) ==
  /\ R \subseteq Seq(Byte) \X Message[t]
  /\ \A p \in R : \/ p = <<<<>>, last>>
                  \/ KnownStep(t, R, p)
                  \/ mode = "joined" /\ UnknownStep(t, R, p)
  /\ mode = "cut" => \A p \in R : Writes(t, p, last)

Reads(t, s, m, m1, mode) == \E R : Plan(t, R, m1, mode) /\ <<s, m>> \in R /\ <<<<>>, m1>> \in R

LEMMA encodeType == \A v \in Nat : encodeVarintRpc[v] \in Seq(Byte)
BY encodeDef

LEMMA PairIn == \A S, T : \A s \in S, m \in T : <<s, m>> \in S \X T
OBVIOUS

LEMMA EmptyBytes == <<>> \in Seq(Byte)
OBVIOUS

LEMMA TokenBytesSeq ==
  ASSUME NEW k \in Tokens
  PROVE  Payload(k) \in Seq(Byte) /\ TokenBytes(k) \in Seq(Byte)
<1>1. k.tag \in Nat /\ k.num \in Nat /\ k.data \in Seq(Byte) /\ Len(k.data) \in Nat
  BY WordAssumption DEF Tokens
<1>2. /\ encodeVarintRpc[k.tag] \in Seq(Byte) /\ encodeVarintRpc[k.num] \in Seq(Byte)
      /\ encodeVarintRpc[Len(k.data)] \in Seq(Byte)
  BY <1>1, encodeType
<1>3. encodeVarintRpc[Len(k.data)] \o k.data \in Seq(Byte)
  BY <1>1, <1>2, TwoParts
<1>4. Payload(k) \in Seq(Byte)
  <2> DEFINE w == k.tag % 8
  <2>1. Payload(k) = CASE w = 0 -> encodeVarintRpc[k.num]
                       [] w = 2 -> encodeVarintRpc[Len(k.data)] \o k.data
                       [] w \in {1, 5} -> k.data
                       [] OTHER -> <<>>
    BY DEF Payload
  <2>2. w \in 0..7
    BY <1>1
  <2> HIDE DEF w
  <2>3. CASE w = 0
    BY <1>2, <2>1, <2>3
  <2>4. CASE w = 2
    BY <1>3, <2>1, <2>4
  <2>5. CASE w \in {1, 5}
    BY <1>1, <2>1, <2>5
  <2>6. CASE w \in {3, 4, 6, 7}
    <3>1. Payload(k) = <<>>
      BY <2>1, <2>6
    <3> QED BY <3>1
  <2> QED BY <2>2, <2>3, <2>4, <2>5, <2>6
<1> QED BY <1>2, <1>4, TwoParts DEF TokenBytes

\* The message types have the messages they are read into.
LEMMA MarshalIsBytes ==
  ASSUME NEW t \in Messages, NEW m \in Message[t]
  PROVE  MarshalToSizedBuffer(t, m) \in Seq(Byte)
BY SizeExact

LEMMA ReadsNothing ==
  ASSUME NEW t \in Messages, NEW m \in Message[t], NEW mode
  PROVE  Reads(t, <<>>, m, m, mode)
<1> DEFINE q == <<<<>>, m>>
           R == {q}
<1>1. q \in Seq(Byte) \X Message[t]
  BY PairIn, EmptyBytes
<1>2. \A p \in R : p = <<<<>>, m>>
  OBVIOUS
<1>3. Writes(t, <<<<>>, m>>, m)
  BY MarshalIsBytes, ConcatEmptySeq DEF Writes
<1>4. <<<<>>, m>> \in R
  OBVIOUS
<1> HIDE DEF R
<1>5. Plan(t, R, m, mode)
  <2>1. R \subseteq Seq(Byte) \X Message[t]
    BY <1>1, <1>2
  <2> QED BY <1>2, <1>3, <2>1 DEF Plan
<1> QED BY <1>4, <1>5 DEF Reads

LEMMA ReadsField ==
  ASSUME NEW t \in Messages, NEW m \in Message[t], NEW m1 \in Message[t], NEW k \in Tokens,
         NEW mode, Known(t, k, m, m1),
         mode = "cut" => MarshalToSizedBuffer(t, m) \o TokenBytes(k) = MarshalToSizedBuffer(t, m1)
  PROVE  Reads(t, TokenBytes(k), m, m1, mode)
<1> DEFINE p == <<TokenBytes(k), m>>
           q == <<<<>>, m1>>
           R == {p, q}
<1>1. TokenBytes(k) \in Seq(Byte) /\ TokenBytes(k) \o <<>> = TokenBytes(k)
  BY TokenBytesSeq, ConcatEmptySeq
<1>2. p \in Seq(Byte) \X Message[t] /\ q \in Seq(Byte) \X Message[t]
  BY <1>1, PairIn, EmptyBytes
<1>3. KnownStep(t, R, p)
  <2>1. /\ q \in R /\ p[1] = TokenBytes(k) /\ p[2] = m /\ q[1] = <<>> /\ q[2] = m1
    OBVIOUS
  <2> HIDE DEF p, q, R
  <2> QED BY <1>1, <2>1 DEF KnownStep
<1>4. ASSUME mode = "cut" PROVE Writes(t, p, m1) /\ Writes(t, q, m1)
  <2>1. Writes(t, p, m1)
    BY <1>4 DEF Writes
  <2>2. Writes(t, q, m1)
    BY MarshalIsBytes, ConcatEmptySeq DEF Writes
  <2> QED BY <2>1, <2>2
<1>5. p \in R /\ q \in R /\ \A x \in R : x = p \/ x = q
  OBVIOUS
<1> HIDE DEF R
<1>6. Plan(t, R, m1, mode)
  <2>1. \A x \in R : x = <<<<>>, m1>> \/ KnownStep(t, R, x)
    BY <1>3, <1>5
  <2>2. mode = "cut" => \A x \in R : Writes(t, x, m1)
    <3> HIDE DEF p, q
    <3> QED BY <1>4, <1>5
  <2>3. R \subseteq Seq(Byte) \X Message[t]
    <3> HIDE DEF p, q
    <3> QED BY <1>2, <1>5
  <2> QED BY <2>1, <2>2, <2>3 DEF Plan
<1> QED BY <1>5, <1>6 DEF Reads

\* A sequence of byte sequences is flattened to one.
LEMMA FlattenType ==
  ASSUME NEW s \in Seq(Seq(Byte))
  PROVE  FlattenSeq(s) \in Seq(Byte)
<1> DEFINE n == Len(s)
<1>1. n \in Nat /\ s \in [1..n -> Seq(Byte)]
  BY LenProperties
<1> HIDE DEF n
<1>2. PICK F \in [Nat -> Seq(Byte)] : F[0] = <<>> /\ \A k \in 1..n : F[k] = F[k - 1] \o s[k]
  BY <1>1, FirstOnes
<1>3. FlattenSeq(s) = F[n]
  BY <1>2, FlattenDef DEF n
<1> QED BY <1>1, <1>2, <1>3

LEMMA FieldBytesSeq ==
  ASSUME NEW t, NEW u, IsUnknownField(t, u)
  PROVE  /\ FieldBytes(u) \in Seq(Byte) /\ u \in Seq(Tokens)
         /\ [j \in DOMAIN u |-> TokenBytes(u[j])] \in Seq(Seq(Byte))
<1>1. u \in Seq(Tokens)
  BY DEF IsUnknownField, Tokens
<1> DEFINE n == Len(u)
           c == [j \in 1..n |-> TokenBytes(u[j])]
<1>2. n \in Nat /\ DOMAIN u = 1..n /\ \A j \in 1..n : u[j] \in Tokens
  BY <1>1, LenProperties, ElementOfSeq
<1>3. c \in [1..n -> Seq(Byte)]
  BY <1>2, TokenBytesSeq
<1>4. c \in Seq(Seq(Byte))
  <2> HIDE DEF c, n
  <2> QED BY <1>2, <1>3, IsASeq
<1>5. c = [j \in DOMAIN u |-> TokenBytes(u[j])]
  BY <1>2
<1> QED BY <1>1, <1>4, <1>5, FlattenType DEF FieldBytes

LEMMA ReadsUnknown ==
  ASSUME NEW t \in Messages, NEW m \in Message[t], NEW u, IsUnknownField(t, u)
  PROVE  Reads(t, FieldBytes(u), m, m, "joined")
<1>0. FieldBytes(u) \in Seq(Byte)
  BY FieldBytesSeq
<1>1. CASE u = <<>>
  <2>1. FieldBytes(u) = <<>>
    <3>1. DOMAIN u = {} /\ [j \in DOMAIN u |-> TokenBytes(u[j])] = <<>>
      BY <1>1
    <3>2. FlattenSeq(<<>>) = <<>>
      BY DEF FlattenSeq
    <3> QED BY <3>1, <3>2 DEF FieldBytes
  <2> QED BY <2>1, ReadsNothing
<1>2. CASE u # <<>>
  <2> DEFINE p == <<FieldBytes(u), m>>
             q == <<<<>>, m>>
             R == {p, q}
  <2>1. FieldBytes(u) \o <<>> = FieldBytes(u)
    BY <1>0, ConcatEmptySeq
  <2>2. p \in Seq(Byte) \X Message[t] /\ q \in Seq(Byte) \X Message[t]
    BY <1>0, PairIn, EmptyBytes
  <2>3. UnknownStep(t, R, p)
    <3>1. q \in R /\ p[1] = FieldBytes(u) /\ p[2] = m /\ q[1] = <<>> /\ q[2] = m
      OBVIOUS
    <3> HIDE DEF p, q, R
    <3>2. Unknown(t, p[1], q[1])
      BY <1>2, <2>1, <3>1 DEF Unknown
    <3> QED BY <3>1, <3>2 DEF UnknownStep
  <2>4. p \in R /\ q \in R /\ \A x \in R : x = p \/ x = q
    OBVIOUS
  <2> HIDE DEF R
  <2>5. Plan(t, R, m, "joined")
    <3>1. \A x \in R : x = <<<<>>, m>> \/ UnknownStep(t, R, x)
      BY <2>3, <2>4
    <3>2. R \subseteq Seq(Byte) \X Message[t]
      <4> HIDE DEF p, q
      <4> QED BY <2>2, <2>4
    <3> QED BY <3>1, <3>2 DEF Plan
  <2> QED BY <2>4, <2>5 DEF Reads
<1> QED BY <1>1, <1>2

\* One after the other.
LEMMA ReadsBoth ==
  ASSUME NEW t \in Messages, NEW mode, NEW s1 \in Seq(Byte), NEW s2 \in Seq(Byte),
         NEW m, NEW m1, NEW m2, Reads(t, s1, m, m1, mode), Reads(t, s2, m1, m2, mode)
  PROVE  Reads(t, s1 \o s2, m, m2, mode)
<1>1. PICK R1 : Plan(t, R1, m1, mode) /\ <<s1, m>> \in R1 /\ <<<<>>, m1>> \in R1
  BY DEF Reads
<1>2. PICK R2 : Plan(t, R2, m2, mode) /\ <<s2, m1>> \in R2 /\ <<<<>>, m2>> \in R2
  BY DEF Reads
<1> DEFINE On(p) == <<p[1] \o s2, p[2]>>
           R == {On(p) : p \in R1} \cup R2
           SM == Seq(Byte) \X Message[t]
<1>3. /\ \A p \in R1 : p \in SM /\ p[1] \in Seq(Byte) /\ p[2] \in Message[t]
      /\ \A p \in R2 : p \in SM /\ p[1] \in Seq(Byte) /\ p[2] \in Message[t]
  BY <1>1, <1>2 DEF Plan
<1>4. ASSUME NEW p \in R1 PROVE On(p) \in SM /\ On(p)[1] = p[1] \o s2 /\ On(p)[2] = p[2] /\ On(p) \in R
  <2>1. p[1] \o s2 \in Seq(Byte)
    BY <1>3, TwoParts
  <2> QED BY <1>3, <2>1, PairIn
<1>5. R2 \subseteq R /\ \A x \in R : (\E p \in R1 : x = On(p)) \/ x \in R2
  OBVIOUS
<1>6. R \subseteq SM
  <2> HIDE DEF R, On, SM
  <2> QED BY <1>3, <1>4, <1>5
<1>7. ASSUME NEW x \in R2
      PROVE  x = <<<<>>, m2>> \/ KnownStep(t, R, x) \/ (mode = "joined" /\ UnknownStep(t, R, x))
  <2>1. x = <<<<>>, m2>> \/ KnownStep(t, R2, x) \/ (mode = "joined" /\ UnknownStep(t, R2, x))
    BY <1>2 DEF Plan
  <2> HIDE DEF R
  <2> QED BY <1>5, <2>1 DEF KnownStep, UnknownStep
<1>8. ASSUME NEW p \in R1
      PROVE  \/ On(p) = <<<<>>, m2>> \/ KnownStep(t, R, On(p))
             \/ mode = "joined" /\ UnknownStep(t, R, On(p))
  <2>1. p = <<<<>>, m1>> \/ KnownStep(t, R1, p) \/ (mode = "joined" /\ UnknownStep(t, R1, p))
    BY <1>1 DEF Plan
  <2>2. CASE p = <<<<>>, m1>>
    <3>1. p[1] = <<>> /\ p[2] = m1
      BY <2>2
    <3>2. On(p) = <<s2, m1>>
      BY <3>1, ConcatEmptySeq
    <3> HIDE DEF On, R
    <3> QED BY <1>2, <1>7, <3>2
  <2>3. CASE KnownStep(t, R1, p)
    <3>1. PICK k \in Tokens, q \in R1 : p[1] = TokenBytes(k) \o q[1] /\ Known(t, k, p[2], q[2])
      BY <2>3 DEF KnownStep
    <3>2. TokenBytes(k) \in Seq(Byte) /\ q[1] \in Seq(Byte)
      BY <1>3, TokenBytesSeq
    <3>3. p[1] \o s2 = TokenBytes(k) \o (q[1] \o s2)
      <4> DEFINE a == p[1]  b == TokenBytes(k)  c == q[1]
      <4>1. a = b \o c /\ b \in Seq(Byte) /\ c \in Seq(Byte)
        BY <3>1, <3>2
      <4> HIDE DEF a, b, c
      <4>2. a \o s2 = b \o (c \o s2)
        BY <4>1, ConcatAssociative
      <4> QED BY <4>2 DEF a, b, c
    <3>4. On(q) \in R /\ On(p)[1] = TokenBytes(k) \o On(q)[1] /\ Known(t, k, On(p)[2], On(q)[2])
      <4> HIDE DEF On, R
      <4> QED BY <1>4, <3>1, <3>3
    <3> HIDE DEF On, R
    <3> QED BY <3>4 DEF KnownStep
  <2>4. CASE mode = "joined" /\ UnknownStep(t, R1, p)
    <3>1. PICK q \in R1 : Unknown(t, p[1], q[1]) /\ q[2] = p[2]
      BY <2>4 DEF UnknownStep
    <3>2. PICK u : IsUnknownField(t, u) /\ u # <<>> /\ p[1] = FieldBytes(u) \o q[1]
      BY <3>1 DEF Unknown
    <3>3. FieldBytes(u) \in Seq(Byte) /\ q[1] \in Seq(Byte)
      BY <1>3, <3>2, FieldBytesSeq
    <3>4. p[1] \o s2 = FieldBytes(u) \o (q[1] \o s2)
      <4> DEFINE a == p[1]  b == FieldBytes(u)  c == q[1]
      <4>1. a = b \o c /\ b \in Seq(Byte) /\ c \in Seq(Byte)
        BY <3>2, <3>3
      <4> HIDE DEF a, b, c
      <4>2. a \o s2 = b \o (c \o s2)
        BY <4>1, ConcatAssociative
      <4> QED BY <4>2 DEF a, b, c
    <3> HIDE DEF On, R
    <3>5. Unknown(t, On(p)[1], On(q)[1])
      BY <1>4, <3>2, <3>4 DEF Unknown
    <3> QED BY <1>4, <2>4, <3>1, <3>5 DEF UnknownStep
  <2> QED BY <2>1, <2>2, <2>3, <2>4
<1>9. ASSUME mode = "cut", NEW x \in R PROVE Writes(t, x, m2)
  <2>1. CASE x \in R2
    BY <1>2, <1>9, <2>1 DEF Plan
  <2>2. CASE x \notin R2
    <3>1. PICK p \in R1 : x = On(p)
      BY <1>5, <2>2
    <3>2. Writes(t, p, m1) /\ Writes(t, <<s2, m1>>, m2)
      BY <1>1, <1>2, <1>9 DEF Plan
    <3> DEFINE b == MarshalToSizedBuffer(t, p[2])
    <3>3. b \in Seq(Byte) /\ p[1] \in Seq(Byte)
      BY <1>3, MarshalIsBytes
    <3>4. b \o p[1] = MarshalToSizedBuffer(t, m1)
      BY <3>2 DEF Writes
    <3>5. MarshalToSizedBuffer(t, m1) \o s2 = MarshalToSizedBuffer(t, m2)
      BY <3>2 DEF Writes
    <3>6. b \o (p[1] \o s2) = (b \o p[1]) \o s2
      <4> DEFINE a == p[1]
      <4>1. b \in Seq(Byte) /\ a \in Seq(Byte)
        BY <3>3
      <4> HIDE DEF a, b
      <4>2. b \o (a \o s2) = (b \o a) \o s2
        BY <4>1, ConcatAssociative
      <4> QED BY <4>2 DEF a
    <3> HIDE DEF b, On
    <3> QED BY <1>4, <3>1, <3>4, <3>5, <3>6 DEF Writes, b
  <2> QED BY <2>1, <2>2
<1>10. Plan(t, R, m2, mode)
  <2>1. \A x \in R : x = <<<<>>, m2>> \/ KnownStep(t, R, x) \/ (mode = "joined" /\ UnknownStep(t, R, x))
    <3> HIDE DEF R, On
    <3> QED BY <1>5, <1>7, <1>8
  <2> HIDE DEF R
  <2> QED BY <1>6, <1>9, <2>1 DEF Plan
<1>11. <<s1 \o s2, m>> \in R
  <2>1. On(<<s1, m>>) = <<s1 \o s2, m>>
    OBVIOUS
  <2> HIDE DEF On, R
  <2> QED BY <1>1, <1>4, <2>1
<1>12. <<<<>>, m2>> \in R
  BY <1>2
<1> HIDE DEF R
<1> QED BY <1>10, <1>11, <1>12 DEF Reads

FieldToken(tag, num, data) == [tag |-> tag, num |-> num, data |-> data, depth |-> 0]

LEMMA FieldTokenIs ==
  ASSUME NEW tag \in 0..127, NEW num \in 0..Word - 1, NEW data \in Seq(Byte)
  PROVE  /\ FieldToken(tag, num, data) \in Tokens
         /\ encodeVarintRpc[tag] = <<tag>> /\ <<tag>> \in Seq(Byte)
<1>1. tag \in 0..Word - 1 /\ tag < 128 /\ tag \in Nat
  BY WordAssumption
<1>2. tag \in Byte
  BY DEF Byte
<1>3. encodeVarintRpc[tag] = <<tag>>
  BY <1>1, encodeDef
<1>4. FieldToken(tag, num, data) \in Tokens
  BY <1>1 DEF FieldToken, Tokens
<1> QED BY <1>2, <1>3, <1>4, OneByte

LEMMA NumberOfTag ==
  ASSUME NEW n \in 1..5, NEW w \in 0..7, NEW tag, tag = 8 * n + w
  PROVE  tag \in 0..127 /\ tag % 8 = w /\ Signed(tag \div 8, TagWord) = n
<1>1. tag \in 0..127 /\ tag % 8 = w /\ tag \div 8 = n
  OBVIOUS
<1>2. TagWord \in Nat \ {0} /\ n < TagWord \div 2 /\ n < TagWord
  BY WordAssumption
<1>3. n % TagWord = n
  <2>1. n \in Nat
    OBVIOUS
  <2> QED BY <1>2, <2>1, ModSame
<1> QED BY <1>1, <1>2, <1>3 DEF Signed

LEMMA ModNegative ==
  ASSUME NEW x \in Int, NEW w \in Nat \ {0}, -w <= x, x < 0
  PROVE  x % w = x + w
OBVIOUS

LEMMA encodeSmall == \A v \in 0..127 : encodeVarintRpc[v] = <<v>>
<1> SUFFICES ASSUME NEW v \in 0..127 PROVE encodeVarintRpc[v] = <<v>>
  OBVIOUS
<1>1. v \in Nat /\ v < 128
  OBVIOUS
<1> QED BY <1>1, encodeDef

LEMMA TwoBytes ==
  ASSUME NEW b \in Byte, NEW c \in Byte
  PROVE  <<b>> \o <<c>> = <<b, c>>
<1> DEFINE s == <<b>>  t == <<c>>  p == <<b, c>>
<1>1. s \in Seq(Byte) /\ Len(s) = 1 /\ s[1] = b /\ t \in Seq(Byte) /\ Len(t) = 1 /\ t[1] = c
  BY OneByte
<1>2. p \in Seq(Byte) /\ Len(p) = 2 /\ p[1] = b /\ p[2] = c
  OBVIOUS
<1> HIDE DEF s, t, p
<1>3. /\ s \o t \in Seq(Byte) /\ Len(s \o t) = Len(s) + Len(t)
      /\ \A i \in 1..Len(s) + Len(t) : (s \o t)[i] = IF i <= Len(s) THEN s[i] ELSE t[i - Len(s)]
  BY <1>1, ConcatProperties
<1> DEFINE u == s \o t
<1>4. u \in Seq(Byte) /\ Len(u) = 2 /\ \A i \in 1..2 : u[i] = IF i <= 1 THEN s[i] ELSE t[i - 1]
  BY <1>1, <1>3
<1> HIDE DEF u
<1>5. u[1] = b /\ u[2] = c
  <2>1. 1 \in 1..2 /\ 2 \in 1..2 /\ 1 <= 1 /\ ~(2 <= 1) /\ 2 - 1 = 1
    OBVIOUS
  <2>2. u[1] = s[1] /\ u[2] = t[1]
    BY <1>4, <2>1
  <2> QED BY <1>1, <2>2
<1>6. \A i \in 1..2 : u[i] = p[i]
  <2>1. \A i \in 1..2 : i = 1 \/ i = 2
    OBVIOUS
  <2> QED BY <1>2, <1>5, <2>1
<1>7. u = p
  BY <1>2, <1>4, <1>6, SeqEqual
<1> QED BY <1>7 DEF u, s, t, p

\* A number of 64 bits survives being written as one without a sign.
LEMMA SignedUnsigned ==
  ASSUME NEW x \in Int64
  PROVE  Signed(Unsigned(x), Word) = x
<1>1. x \in Int /\ -Half <= x /\ x < Half /\ Word = 2 * Half /\ Half \in Nat \ {0}
  BY HalfOfWord DEF Int64, Half
<1>2. CASE x >= 0
  <2>1. x % Word = x
    <3>1. x \in Nat /\ Word \in Nat \ {0} /\ x < Word
      BY <1>1, <1>2
    <3> QED BY <3>1, ModSame
  <2>2. x \in 0..Word - 1
    BY <1>1, <1>2
  <2>3. Signed(x, Word) = x
    BY <1>1, <2>2, SignedOfWord
  <2> QED BY <2>1, <2>3 DEF Unsigned
<1>3. CASE x < 0
  <2>1. x % Word = x + Word
    <3>1. x \in Int /\ Word \in Nat \ {0} /\ -Word <= x
      BY <1>1
    <3> QED BY <1>3, <3>1, ModNegative
  <2>2. x + Word \in 0..Word - 1 /\ ~(x + Word < Half)
    BY <1>1, <1>3
  <2>3. Signed(x + Word, Word) = (x + Word) - Word
    BY <2>2, SignedOfWord
  <2> QED BY <1>1, <2>1, <2>3 DEF Unsigned
<1> QED BY <1>1, <1>2, <1>3

-----------------------------------------------------------------------------
(* The bytes of each kind of field are those of a token *)

LEMMA PtrToken ==
  ASSUME NEW n \in 1..5, NEW tag, tag = 8 * n + 2, NEW bytes \in Seq(Byte)
  PROVE  LET k == FieldToken(tag, 0, bytes)
         IN  /\ k \in Tokens /\ number(k) = n /\ k.tag % 8 = 2 /\ k.data = bytes
             /\ TokenBytes(k) = PtrBytes(tag, bytes)
<1> DEFINE k == FieldToken(tag, 0, bytes)
           e == encodeVarintRpc[Len(bytes)]
<1>1. tag \in 0..127 /\ tag % 8 = 2 /\ Signed(tag \div 8, TagWord) = n
  <2>1. 2 \in 0..7
    OBVIOUS
  <2> QED BY <2>1, NumberOfTag
<1>2. 0 \in 0..Word - 1
  BY WordAssumption
<1>3. k \in Tokens /\ encodeVarintRpc[tag] = <<tag>> /\ <<tag>> \in Seq(Byte)
  BY <1>1, <1>2, FieldTokenIs
<1>4. k.tag = tag /\ k.data = bytes
  BY DEF FieldToken
<1>5. e \in Seq(Byte)
  BY encodeType
<1> HIDE DEF k, e
<1>6. Payload(k) = e \o bytes
  BY <1>1, <1>4 DEF Payload, e
<1>7. <<tag>> \o (e \o bytes) = (<<tag>> \o e) \o bytes
  BY <1>3, <1>5, ConcatAssociative
<1>8. TokenBytes(k) = PtrBytes(tag, bytes)
  BY <1>3, <1>4, <1>6, <1>7 DEF TokenBytes, PtrBytes, e
<1> QED BY <1>1, <1>3, <1>4, <1>8 DEF number, k

LEMMA NumToken ==
  ASSUME NEW n \in 1..5, NEW tag, tag = 8 * n, NEW num \in 0..Word - 1
  PROVE  LET k == FieldToken(tag, num, <<>>)
         IN  /\ k \in Tokens /\ number(k) = n /\ k.tag % 8 = 0 /\ k.num = num
             /\ TokenBytes(k) = <<tag>> \o encodeVarintRpc[num]
<1> DEFINE k == FieldToken(tag, num, <<>>)
<1>1. tag \in 0..127 /\ tag % 8 = 0 /\ Signed(tag \div 8, TagWord) = n
  <2>1. 0 \in 0..7 /\ tag = 8 * n + 0
    OBVIOUS
  <2> QED BY <2>1, NumberOfTag
<1>2. k \in Tokens /\ encodeVarintRpc[tag] = <<tag>>
  BY <1>1, FieldTokenIs, EmptyBytes
<1>3. k.tag = tag /\ k.num = num
  BY DEF FieldToken
<1> HIDE DEF k
<1>4. Payload(k) = encodeVarintRpc[num]
  BY <1>1, <1>3 DEF Payload
<1>5. TokenBytes(k) = <<tag>> \o encodeVarintRpc[num]
  BY <1>2, <1>3, <1>4 DEF TokenBytes
<1> QED BY <1>1, <1>2, <1>3, <1>5 DEF number, k

-----------------------------------------------------------------------------
(* Each kind of field is read as it is written *)

LEMMA PlainField ==
  ASSUME NEW t, NEW k, NEW m, NEW m1, NEW n, NEW name, NEW kind, NEW value,
         number(k) = n, n \in DOMAIN Cases[t], Cases[t][n] = Field(name, kind),
         k.tag % 8 = WireTypeOf(kind), m1 = With(m, name, value),
         \/ kind = "bool" /\ value = (Signed(k.num, Word) # 0)
         \/ kind = "int" /\ value = Signed(k.num, Word)
         \/ kind = "string" /\ value = k.data
         \/ kind = "time" /\ k.data \in Times /\ value = <<k.data>>
  PROVE  Plain(t, k, m, m1)
<1> DEFINE c == Cases[t][number(k)]
<1>1. c.name = name /\ c.kind = kind
  BY DEF Field
<1>2. m1 = With(m, c.name, value)
  BY <1>1
<1> HIDE DEF c
<1>3. number(k) \in DOMAIN Cases[t] /\ k.tag % 8 = WireTypeOf(c.kind)
  BY <1>1
<1>4. CASE kind = "bool" /\ value = (Signed(k.num, Word) # 0)
  BY <1>1, <1>2, <1>3, <1>4, Zenon DEF Plain, c
<1>5. CASE kind = "int" /\ value = Signed(k.num, Word)
  BY <1>1, <1>2, <1>3, <1>5, Zenon DEF Plain, c
<1>6. CASE kind = "string" /\ value = k.data
  BY <1>1, <1>2, <1>3, <1>6, Zenon DEF Plain, c
<1>7. CASE kind = "time" /\ k.data \in Times /\ value = <<k.data>>
  BY <1>1, <1>2, <1>3, <1>7, Zenon DEF Plain, c
<1> QED BY <1>4, <1>5, <1>6, <1>7

LEMMA WireTypes ==
  /\ WireTypeOf("bool") = 0 /\ WireTypeOf("int") = 0 /\ WireTypeOf("string") = 2
  /\ WireTypeOf("time") = 2 /\ WireTypeOf("message") = 2 /\ WireTypeOf("messages") = 2
BY DEF WireTypeOf

LEMMA StrReads ==
  ASSUME NEW t \in Messages, NEW m \in Message[t], NEW m1 \in Message[t], NEW mode,
         NEW n \in 1..5, NEW tag, tag = 8 * n + 2, NEW name, NEW str \in Text,
         n \in DOMAIN Cases[t], Cases[t][n] = Field(name, "string"),
         m1 = IF str = <<>> THEN m ELSE With(m, name, str),
         mode = "cut" => MarshalToSizedBuffer(t, m) \o StrBytes(tag, str) = MarshalToSizedBuffer(t, m1)
  PROVE  Reads(t, StrBytes(tag, str), m, m1, mode)
<1>1. CASE str = <<>>
  BY <1>1, ReadsNothing DEF StrBytes
<1>2. CASE str # <<>>
  <2> DEFINE k == FieldToken(tag, 0, str)
  <2>1. /\ k \in Tokens /\ number(k) = n /\ k.tag % 8 = 2 /\ k.data = str
        /\ TokenBytes(k) = PtrBytes(tag, str)
    BY PtrToken DEF Text
  <2>2. StrBytes(tag, str) = TokenBytes(k)
    BY <1>2, <2>1 DEF StrBytes, PtrBytes
  <2> HIDE DEF k
  <2>3. Plain(t, k, m, m1)
    BY <1>2, <2>1, PlainField, WireTypes
  <2> QED BY <2>1, <2>2, <2>3, ReadsField DEF Known
<1> QED BY <1>1, <1>2

LEMMA TimeReads ==
  ASSUME NEW t \in Messages, NEW m \in Message[t], NEW m1 \in Message[t], NEW mode,
         NEW n \in 1..5, NEW tag, tag = 8 * n + 2, NEW name, NEW time \in Pointer(Times),
         n \in DOMAIN Cases[t], Cases[t][n] = Field(name, "time"),
         m1 = IF time = <<>> THEN m ELSE With(m, name, time),
         mode = "cut" => MarshalToSizedBuffer(t, m) \o TimeBytes(tag, time) = MarshalToSizedBuffer(t, m1)
  PROVE  Reads(t, TimeBytes(tag, time), m, m1, mode)
<1>1. CASE time = <<>>
  BY <1>1, ReadsNothing DEF TimeBytes
<1>2. CASE time # <<>>
  <2> DEFINE k == FieldToken(tag, 0, time[1])
  <2>1. time[1] \in Times /\ time = <<time[1]>> /\ time[1] \in Seq(Byte)
    BY <1>2, PointerCases, TimesAssumption
  <2>2. /\ k \in Tokens /\ number(k) = n /\ k.tag % 8 = 2 /\ k.data = time[1]
        /\ TokenBytes(k) = PtrBytes(tag, time[1])
    BY <2>1, PtrToken
  <2>3. TimeBytes(tag, time) = TokenBytes(k)
    BY <1>2, <2>2 DEF TimeBytes
  <2> HIDE DEF k
  <2>4. m1 = With(m, name, <<k.data>>) /\ k.data \in Times
    BY <1>2, <2>1, <2>2
  <2>5. Plain(t, k, m, m1)
    BY <2>2, <2>4, PlainField, WireTypes
  <2> QED BY <2>2, <2>3, <2>5, ReadsField DEF Known
<1> QED BY <1>1, <1>2

LEMMA NumReads ==
  ASSUME NEW t \in Messages, NEW m \in Message[t], NEW m1 \in Message[t], NEW mode,
         NEW n \in 1..5, NEW tag, tag = 8 * n, NEW name, NEW num \in Int64,
         n \in DOMAIN Cases[t], Cases[t][n] = Field(name, "int"),
         m1 = IF num = 0 THEN m ELSE With(m, name, num),
         mode = "cut" => MarshalToSizedBuffer(t, m) \o NumBytes(tag, num) = MarshalToSizedBuffer(t, m1)
  PROVE  Reads(t, NumBytes(tag, num), m, m1, mode)
<1>1. CASE num = 0
  BY <1>1, ReadsNothing DEF NumBytes
<1>2. CASE num # 0
  <2> DEFINE k == FieldToken(tag, Unsigned(num), <<>>)
  <2>1. Unsigned(num) \in 0..Word - 1
    BY NumIsInt, UnsignedInWord
  <2>2. /\ k \in Tokens /\ number(k) = n /\ k.tag % 8 = 0 /\ k.num = Unsigned(num)
        /\ TokenBytes(k) = <<tag>> \o encodeVarintRpc[Unsigned(num)]
    BY <2>1, NumToken
  <2>3. NumBytes(tag, num) = TokenBytes(k)
    BY <1>2, <2>2 DEF NumBytes
  <2> HIDE DEF k
  <2>4. m1 = With(m, name, Signed(k.num, Word))
    BY <1>2, <2>2, SignedUnsigned
  <2>5. Plain(t, k, m, m1)
    BY <2>2, <2>4, PlainField, WireTypes
  <2> QED BY <2>2, <2>3, <2>5, ReadsField DEF Known
<1> QED BY <1>1, <1>2

LEMMA BoolReads ==
  ASSUME NEW t \in Messages, NEW m \in Message[t], NEW m1 \in Message[t], NEW mode,
         NEW n \in 1..5, NEW tag, tag = 8 * n, NEW name, NEW b \in BOOLEAN,
         n \in DOMAIN Cases[t], Cases[t][n] = Field(name, "bool"),
         m1 = IF b THEN With(m, name, TRUE) ELSE m,
         mode = "cut" => MarshalToSizedBuffer(t, m) \o BoolBytes(tag, b) = MarshalToSizedBuffer(t, m1)
  PROVE  Reads(t, BoolBytes(tag, b), m, m1, mode)
<1>1. CASE ~b
  BY <1>1, ReadsNothing DEF BoolBytes
<1>2. CASE b
  <2> DEFINE k == FieldToken(tag, 1, <<>>)
  <2>1. 1 \in 0..Word - 1 /\ Signed(1, Word) = 1
    <3>1. 1 \in 0..Word - 1 /\ 1 < Half
      BY WordAssumption DEF Half
    <3> QED BY <3>1, SignedOfWord
  <2>2. /\ k \in Tokens /\ number(k) = n /\ k.tag % 8 = 0 /\ k.num = 1
        /\ TokenBytes(k) = <<tag>> \o encodeVarintRpc[1]
    BY <2>1, NumToken
  <2>3. BoolBytes(tag, b) = TokenBytes(k)
    <3>1. encodeVarintRpc[1] = <<1>>
      <4>1. 1 \in 0..127
        OBVIOUS
      <4> QED BY <4>1, encodeSmall
    <3>2. tag \in Byte /\ 1 \in Byte
      BY DEF Byte
    <3>3. <<tag>> \o <<1>> = <<tag, 1>>
      BY <3>2, TwoBytes
    <3> QED BY <1>2, <2>2, <3>1, <3>3 DEF BoolBytes
  <2> HIDE DEF k
  <2>4. m1 = With(m, name, (Signed(k.num, Word) # 0))
    <3>1. (Signed(k.num, Word) # 0) = TRUE
      BY <2>1, <2>2
    <3> QED BY <1>2, <3>1
  <2>5. Plain(t, k, m, m1)
    BY <2>2, <2>4, PlainField, WireTypes
  <2> QED BY <2>2, <2>3, <2>5, ReadsField DEF Known
<1> QED BY <1>1, <1>2

Over(old, new, zero) == IF new = zero THEN old ELSE new

LEMMA NoBytes ==
  ASSUME NEW s \in Seq(Byte)
  PROVE  s \o <<>> = s /\ <<>> \o s = s
BY ConcatEmptySeq

LEMMA ZeroFields ==
  \A tag : /\ StrBytes(tag, <<>>) = <<>> /\ NumBytes(tag, 0) = <<>> /\ BoolBytes(tag, FALSE) = <<>>
           /\ TimeBytes(tag, <<>>) = <<>> /\ RecordPtrBytes(tag, <<>>) = <<>>
BY DEF StrBytes, NumBytes, BoolBytes, TimeBytes, RecordPtrBytes

LEMMA OverTypes ==
  /\ \A x, y \in Text : Over(x, y, <<>>) \in Text /\ Over(<<>>, y, <<>>) = y
  /\ \A x, y \in Int64 : Over(x, y, 0) \in Int64 /\ Over(0, y, 0) = y
  /\ \A x, y \in BOOLEAN : Over(x, y, FALSE) \in BOOLEAN /\ Over(FALSE, y, FALSE) = y
  /\ \A S : \A x, y \in Pointer(S) : Over(x, y, <<>>) \in Pointer(S) /\ Over(<<>>, y, <<>>) = y
BY DEF Over

LEMMA ZeroTypes == <<>> \in Text /\ 0 \in Int64 /\ \A S : <<>> \in Pointer(S)
<1>1. 0 \in Int64
  BY HalfOfWord DEF Int64, Half
<1> QED BY <1>1 DEF Text, Pointer

-----------------------------------------------------------------------------
(* Record *)

RecordOf(i, n, s, c, u) ==
  [ID |-> i, TheNum |-> n, TheStr |-> s, CreatedAt |-> c, UpdatedAt |-> u]

LEMMA RecordIs ==
  ASSUME NEW m \in Record
  PROVE  /\ m = RecordOf(m.ID, m.TheNum, m.TheStr, m.CreatedAt, m.UpdatedAt)
         /\ m.ID \in Text /\ m.TheNum \in Int64 /\ m.TheStr \in Text
         /\ m.CreatedAt \in Pointer(Times) /\ m.UpdatedAt \in Pointer(Times)
BY DEF Record, RecordOf

LEMMA RecordOfIn ==
  ASSUME NEW i \in Text, NEW n \in Int64, NEW s \in Text,
         NEW c \in Pointer(Times), NEW u \in Pointer(Times)
  PROVE  RecordOf(i, n, s, c, u) \in Record
BY DEF Record, RecordOf

LEMMA RecordWith ==
  ASSUME NEW i, NEW n, NEW s, NEW c, NEW u, NEW v
  PROVE  /\ With(RecordOf(i, n, s, c, u), "ID", v) = RecordOf(v, n, s, c, u)
         /\ With(RecordOf(i, n, s, c, u), "TheNum", v) = RecordOf(i, v, s, c, u)
         /\ With(RecordOf(i, n, s, c, u), "TheStr", v) = RecordOf(i, n, v, c, u)
         /\ With(RecordOf(i, n, s, c, u), "CreatedAt", v) = RecordOf(i, n, s, v, u)
         /\ With(RecordOf(i, n, s, c, u), "UpdatedAt", v) = RecordOf(i, n, s, c, v)
<1>1. With(RecordOf(i, n, s, c, u), "ID", v) = RecordOf(v, n, s, c, u)
  BY DEF RecordOf, With
<1>2. With(RecordOf(i, n, s, c, u), "TheNum", v) = RecordOf(i, v, s, c, u)
  BY DEF RecordOf, With
<1>3. With(RecordOf(i, n, s, c, u), "TheStr", v) = RecordOf(i, n, v, c, u)
  BY DEF RecordOf, With
<1>4. With(RecordOf(i, n, s, c, u), "CreatedAt", v) = RecordOf(i, n, s, v, u)
  BY DEF RecordOf, With
<1>5. With(RecordOf(i, n, s, c, u), "UpdatedAt", v) = RecordOf(i, n, s, c, v)
  BY DEF RecordOf, With
<1> QED BY <1>1, <1>2, <1>3, <1>4, <1>5

LEMMA RecordCases ==
  /\ DOMAIN Cases["Record"] = 1..5
  /\ Cases["Record"][1] = Field("ID", "string") /\ Cases["Record"][2] = Field("TheNum", "int")
  /\ Cases["Record"][3] = Field("TheStr", "string") /\ Cases["Record"][4] = Field("CreatedAt", "time")
  /\ Cases["Record"][5] = Field("UpdatedAt", "time")
<1>1. Cases["Record"] = UnmarshalRecord
  BY DEF Cases
<1> QED BY <1>1 DEF UnmarshalRecord

\* What a record writes, by its fields.
LEMMA RecordWrites ==
  ASSUME NEW i, NEW n, NEW s, NEW c, NEW u
  PROVE  MarshalToSizedBuffer("Record", RecordOf(i, n, s, c, u)) =
           (((StrBytes(10, i) \o NumBytes(16, n)) \o StrBytes(26, s)) \o TimeBytes(34, c)) \o TimeBytes(42, u)
BY DEF MarshalToSizedBuffer, MarshalRecord, RecordOf

\* Each field in turn writes what a record writes beyond one without it.
RecordWritesInTurn(i, n, s, c, u) ==
  LET W(x) == MarshalToSizedBuffer("Record", x)
      m0 == RecordOf(<<>>, 0, <<>>, <<>>, <<>>)
      m1 == RecordOf(i, 0, <<>>, <<>>, <<>>)
      m2 == RecordOf(i, n, <<>>, <<>>, <<>>)
      m3 == RecordOf(i, n, s, <<>>, <<>>)
      m4 == RecordOf(i, n, s, c, <<>>)
      m5 == RecordOf(i, n, s, c, u)
  IN  /\ W(m0) \o StrBytes(10, i) = W(m1) /\ W(m1) \o NumBytes(16, n) = W(m2)
      /\ W(m2) \o StrBytes(26, s) = W(m3) /\ W(m3) \o TimeBytes(34, c) = W(m4)
      /\ W(m4) \o TimeBytes(42, u) = W(m5)

LEMMA RecordWritesFirst ==
  ASSUME NEW i \in Text, NEW n \in Int64, NEW s \in Text,
         NEW c \in Pointer(Times), NEW u \in Pointer(Times)
  PROVE  RecordWritesInTurn(i, n, s, c, u)
<1> DEFINE W(x) == MarshalToSizedBuffer("Record", x)
           m0 == RecordOf(<<>>, 0, <<>>, <<>>, <<>>)
           m1 == RecordOf(i, 0, <<>>, <<>>, <<>>)
           m2 == RecordOf(i, n, <<>>, <<>>, <<>>)
           m3 == RecordOf(i, n, s, <<>>, <<>>)
           m4 == RecordOf(i, n, s, c, <<>>)
           m5 == RecordOf(i, n, s, c, u)
           b1 == StrBytes(10, i)
           b2 == NumBytes(16, n)
           b3 == StrBytes(26, s)
           b4 == TimeBytes(34, c)
           b5 == TimeBytes(42, u)
           e == <<>>
<1>1. /\ b1 \in Seq(Byte) /\ b2 \in Seq(Byte) /\ b3 \in Seq(Byte) /\ b4 \in Seq(Byte) /\ b5 \in Seq(Byte)
  <2>1. 10 \in Byte /\ 16 \in Byte /\ 26 \in Byte /\ 34 \in Byte /\ 42 \in Byte
    BY DEF Byte
  <2> QED BY <2>1, NumIsInt, StrBytesSize, NumBytesSize, TimeBytesSize
<1>2. /\ NumBytes(16, 0) = e /\ StrBytes(10, e) = e /\ StrBytes(26, e) = e
      /\ TimeBytes(34, e) = e /\ TimeBytes(42, e) = e
  BY ZeroFields
<1> HIDE DEF e
<1>3. W(m0) = (((StrBytes(10, e) \o NumBytes(16, 0)) \o StrBytes(26, e)) \o TimeBytes(34, e)) \o TimeBytes(42, e)
  BY RecordWrites DEF e
<1>4. W(m1) = (((b1 \o NumBytes(16, 0)) \o StrBytes(26, e)) \o TimeBytes(34, e)) \o TimeBytes(42, e)
  BY RecordWrites DEF e
<1>5. W(m2) = (((b1 \o b2) \o StrBytes(26, e)) \o TimeBytes(34, e)) \o TimeBytes(42, e)
  BY RecordWrites DEF e
<1>6. W(m3) = (((b1 \o b2) \o b3) \o TimeBytes(34, e)) \o TimeBytes(42, e)
  BY RecordWrites DEF e
<1>7a. W(m4) = (((b1 \o b2) \o b3) \o b4) \o TimeBytes(42, e)
  BY RecordWrites DEF e
<1>7. W(m5) = (((b1 \o b2) \o b3) \o b4) \o b5
  BY RecordWrites
<1> HIDE DEF b1, b2, b3, b4, b5, m0, m1, m2, m3, m4, m5, W
<1>8. e \in Seq(Byte) /\ \A x \in Seq(Byte) : x \o e = x /\ e \o x = x
  BY EmptyBytes, NoBytes DEF e
<1>9. b1 \o b2 \in Seq(Byte) /\ (b1 \o b2) \o b3 \in Seq(Byte) /\ ((b1 \o b2) \o b3) \o b4 \in Seq(Byte)
  <2>1. b1 \o b2 \in Seq(Byte)
    BY <1>1, TwoParts
  <2>2. (b1 \o b2) \o b3 \in Seq(Byte)
    BY <1>1, <2>1, TwoParts
  <2> QED BY <1>1, <2>1, <2>2, TwoParts
<1>10. W(m0) = e
  BY <1>2, <1>3, <1>8
<1>11. W(m1) = b1
  BY <1>1, <1>2, <1>4, <1>8
<1>12. W(m2) = b1 \o b2
  <2> DEFINE x == b1 \o b2
  <2>1. x \in Seq(Byte) /\ W(m2) = ((x \o e) \o e) \o e
    BY <1>2, <1>5, <1>9
  <2> HIDE DEF x
  <2> QED BY <1>8, <2>1 DEF x
<1>13. W(m3) = (b1 \o b2) \o b3
  <2> DEFINE x == (b1 \o b2) \o b3
  <2>1. x \in Seq(Byte) /\ W(m3) = (x \o e) \o e
    BY <1>2, <1>6, <1>9
  <2> HIDE DEF x
  <2>2. W(m3) = x
    BY <1>8, <2>1
  <2> QED BY <2>2 DEF x
<1>14. W(m4) = ((b1 \o b2) \o b3) \o b4
  <2> DEFINE x == ((b1 \o b2) \o b3) \o b4
  <2>1. x \in Seq(Byte) /\ W(m4) = x \o e
    BY <1>2, <1>7a, <1>9
  <2> HIDE DEF x
  <2>2. W(m4) = x
    BY <1>8, <2>1
  <2> QED BY <2>2 DEF x
<1>15. W(m0) \o b1 = W(m1)
  BY <1>1, <1>8, <1>10, <1>11
<1>16. W(m1) \o b2 = W(m2) /\ W(m2) \o b3 = W(m3) /\ W(m3) \o b4 = W(m4) /\ W(m4) \o b5 = W(m5)
  BY <1>7, <1>11, <1>12, <1>13, <1>14, Zenon
<1> QED BY <1>15, <1>16 DEF RecordWritesInTurn, W, m0, m1, m2, m3, m4, m5, b1, b2, b3, b4, b5, e

OverRecord(m, a) ==
  RecordOf(Over(m.ID, a.ID, <<>>), Over(m.TheNum, a.TheNum, 0), Over(m.TheStr, a.TheStr, <<>>),
           Over(m.CreatedAt, a.CreatedAt, <<>>), Over(m.UpdatedAt, a.UpdatedAt, <<>>))

LEMMA RecordReads ==
  ASSUME NEW m \in Record, NEW a \in Record, NEW mode, mode = "cut" => m = New.Record
  PROVE  /\ OverRecord(m, a) \in Record
         /\ Reads("Record", MarshalRecord(a), m, OverRecord(m, a), mode)
<1> DEFINE i == Over(m.ID, a.ID, <<>>)
           n == Over(m.TheNum, a.TheNum, 0)
           s == Over(m.TheStr, a.TheStr, <<>>)
           c == Over(m.CreatedAt, a.CreatedAt, <<>>)
           u == Over(m.UpdatedAt, a.UpdatedAt, <<>>)
           m0 == RecordOf(m.ID, m.TheNum, m.TheStr, m.CreatedAt, m.UpdatedAt)
           m1 == RecordOf(i, m.TheNum, m.TheStr, m.CreatedAt, m.UpdatedAt)
           m2 == RecordOf(i, n, m.TheStr, m.CreatedAt, m.UpdatedAt)
           m3 == RecordOf(i, n, s, m.CreatedAt, m.UpdatedAt)
           m4 == RecordOf(i, n, s, c, m.UpdatedAt)
           m5 == RecordOf(i, n, s, c, u)
           b1 == StrBytes(10, a.ID)
           b2 == NumBytes(16, a.TheNum)
           b3 == StrBytes(26, a.TheStr)
           b4 == TimeBytes(34, a.CreatedAt)
           b5 == TimeBytes(42, a.UpdatedAt)
           W(x) == MarshalToSizedBuffer("Record", x)
<1>1. /\ m.ID \in Text /\ m.TheNum \in Int64 /\ m.TheStr \in Text
      /\ m.CreatedAt \in Pointer(Times) /\ m.UpdatedAt \in Pointer(Times)
      /\ a.ID \in Text /\ a.TheNum \in Int64 /\ a.TheStr \in Text
      /\ a.CreatedAt \in Pointer(Times) /\ a.UpdatedAt \in Pointer(Times)
  BY RecordIs
<1>2. i \in Text /\ n \in Int64 /\ s \in Text /\ c \in Pointer(Times) /\ u \in Pointer(Times)
  BY <1>1, OverTypes
<1>3. /\ b1 \in Seq(Byte) /\ b2 \in Seq(Byte) /\ b3 \in Seq(Byte) /\ b4 \in Seq(Byte) /\ b5 \in Seq(Byte)
  <2>1. 10 \in Byte /\ 16 \in Byte /\ 26 \in Byte /\ 34 \in Byte /\ 42 \in Byte
    BY DEF Byte
  <2> QED BY <1>1, <2>1, NumIsInt, StrBytesSize, NumBytesSize, TimeBytesSize
<1>4. /\ m0 \in Record /\ m1 \in Record /\ m2 \in Record /\ m3 \in Record /\ m4 \in Record /\ m5 \in Record
  <2> HIDE DEF i, n, s, c, u
  <2> QED BY <1>1, <1>2, RecordOfIn
<1>5. "Record" \in Messages /\ Message["Record"] = Record
  BY TypesAre DEF Message
<1>6. ASSUME mode = "cut"
      PROVE  /\ W(m0) \o b1 = W(m1) /\ W(m1) \o b2 = W(m2) /\ W(m2) \o b3 = W(m3)
             /\ W(m3) \o b4 = W(m4) /\ W(m4) \o b5 = W(m5)
  <2>1. /\ m.ID = <<>> /\ m.TheNum = 0 /\ m.TheStr = <<>> /\ m.CreatedAt = <<>> /\ m.UpdatedAt = <<>>
    BY <1>6 DEF New
  <2>2. i = a.ID /\ n = a.TheNum /\ s = a.TheStr /\ c = a.CreatedAt /\ u = a.UpdatedAt
    BY <1>1, <2>1, OverTypes
  <2>3. /\ m0 = RecordOf(<<>>, 0, <<>>, <<>>, <<>>) /\ m1 = RecordOf(a.ID, 0, <<>>, <<>>, <<>>)
        /\ m2 = RecordOf(a.ID, a.TheNum, <<>>, <<>>, <<>>)
        /\ m3 = RecordOf(a.ID, a.TheNum, a.TheStr, <<>>, <<>>)
        /\ m4 = RecordOf(a.ID, a.TheNum, a.TheStr, a.CreatedAt, <<>>)
        /\ m5 = RecordOf(a.ID, a.TheNum, a.TheStr, a.CreatedAt, a.UpdatedAt)
    <3> HIDE DEF i, n, s, c, u
    <3> QED BY <2>1, <2>2
  <2> DEFINE n0 == RecordOf(<<>>, 0, <<>>, <<>>, <<>>)
             n1 == RecordOf(a.ID, 0, <<>>, <<>>, <<>>)
             n2 == RecordOf(a.ID, a.TheNum, <<>>, <<>>, <<>>)
             n3 == RecordOf(a.ID, a.TheNum, a.TheStr, <<>>, <<>>)
             n4 == RecordOf(a.ID, a.TheNum, a.TheStr, a.CreatedAt, <<>>)
             n5 == RecordOf(a.ID, a.TheNum, a.TheStr, a.CreatedAt, a.UpdatedAt)
  <2>4. /\ W(n0) \o b1 = W(n1) /\ W(n1) \o b2 = W(n2) /\ W(n2) \o b3 = W(n3)
        /\ W(n3) \o b4 = W(n4) /\ W(n4) \o b5 = W(n5)
    <3>1. RecordWritesInTurn(a.ID, a.TheNum, a.TheStr, a.CreatedAt, a.UpdatedAt)
      BY <1>1, RecordWritesFirst
    <3> QED BY <3>1, Zenon DEF RecordWritesInTurn
  <2>5. m0 = n0 /\ m1 = n1 /\ m2 = n2 /\ m3 = n3 /\ m4 = n4 /\ m5 = n5
    BY <2>3, Zenon
  <2> HIDE DEF n0, n1, n2, n3, n4, n5, m0, m1, m2, m3, m4, m5, W, b1, b2, b3, b4, b5
  <2> QED BY <2>4, <2>5
<1> HIDE DEF W
<1>7. Reads("Record", b1, m0, m1, mode)
  <2>1. m1 = IF a.ID = <<>> THEN m0 ELSE With(m0, "ID", a.ID)
    BY RecordWith DEF Over
  <2>2. 1 \in 1..5 /\ 10 = 8 * 1 + 2
    OBVIOUS
  <2> HIDE DEF m0, m1, b1
  <2> QED BY <1>1, <1>4, <1>5, <1>6, <2>1, <2>2, RecordCases, StrReads DEF W, b1
<1>8. Reads("Record", b2, m1, m2, mode)
  <2>1. m2 = IF a.TheNum = 0 THEN m1 ELSE With(m1, "TheNum", a.TheNum)
    BY RecordWith DEF Over
  <2>2. 2 \in 1..5 /\ 16 = 8 * 2
    OBVIOUS
  <2> HIDE DEF m1, m2, b2
  <2> QED BY <1>1, <1>4, <1>5, <1>6, <2>1, <2>2, RecordCases, NumReads DEF W, b2
<1>9. Reads("Record", b3, m2, m3, mode)
  <2>1. m3 = IF a.TheStr = <<>> THEN m2 ELSE With(m2, "TheStr", a.TheStr)
    BY RecordWith DEF Over
  <2>2. 3 \in 1..5 /\ 26 = 8 * 3 + 2
    OBVIOUS
  <2> HIDE DEF m2, m3, b3
  <2> QED BY <1>1, <1>4, <1>5, <1>6, <2>1, <2>2, RecordCases, StrReads DEF W, b3
<1>10. Reads("Record", b4, m3, m4, mode)
  <2>1. m4 = IF a.CreatedAt = <<>> THEN m3 ELSE With(m3, "CreatedAt", a.CreatedAt)
    BY RecordWith DEF Over
  <2>2. 4 \in 1..5 /\ 34 = 8 * 4 + 2
    OBVIOUS
  <2> HIDE DEF m3, m4, b4
  <2> QED BY <1>1, <1>4, <1>5, <1>6, <2>1, <2>2, RecordCases, TimeReads DEF W, b4
<1>11. Reads("Record", b5, m4, m5, mode)
  <2>1. m5 = IF a.UpdatedAt = <<>> THEN m4 ELSE With(m4, "UpdatedAt", a.UpdatedAt)
    BY RecordWith DEF Over
  <2>2. 5 \in 1..5 /\ 42 = 8 * 5 + 2
    OBVIOUS
  <2> HIDE DEF m4, m5, b5
  <2> QED BY <1>1, <1>4, <1>5, <1>6, <2>1, <2>2, RecordCases, TimeReads DEF W, b5
<1>12. m = m0 /\ MarshalRecord(a) = (((b1 \o b2) \o b3) \o b4) \o b5 /\ m5 = OverRecord(m, a)
  BY RecordIs DEF MarshalRecord, OverRecord
<1> HIDE DEF m0, m1, m2, m3, m4, m5, b1, b2, b3, b4, b5
<1>13. b1 \o b2 \in Seq(Byte) /\ Reads("Record", b1 \o b2, m0, m2, mode)
  BY <1>3, <1>5, <1>7, <1>8, TwoParts, ReadsBoth
<1>14. (b1 \o b2) \o b3 \in Seq(Byte) /\ Reads("Record", (b1 \o b2) \o b3, m0, m3, mode)
  BY <1>3, <1>5, <1>9, <1>13, TwoParts, ReadsBoth
<1>15. /\ ((b1 \o b2) \o b3) \o b4 \in Seq(Byte)
       /\ Reads("Record", ((b1 \o b2) \o b3) \o b4, m0, m4, mode)
  BY <1>3, <1>5, <1>10, <1>14, TwoParts, ReadsBoth
<1>16. Reads("Record", (((b1 \o b2) \o b3) \o b4) \o b5, m0, m5, mode)
  BY <1>3, <1>5, <1>11, <1>15, ReadsBoth
<1> QED BY <1>4, <1>12, <1>16

-----------------------------------------------------------------------------
(* An embedded record, and the merge of two messages *)

\* The way through a record is one through an embedded record.
LEMMA RecordPlanOf ==
  ASSUME NEW R, NEW r, Plan("Record", R, r, "record")
  PROVE  RecordPlan(R, r)
<1>1. R \subseteq Seq(Byte) \X Record
  <2>1. Message["Record"] = Record
    BY TypesAre DEF Message
  <2> QED BY <2>1 DEF Plan
<1>2. ASSUME NEW p \in R
      PROVE  \/ p = <<<<>>, r>>
             \/ \E k \in Tokens, q \in R :
                  p[1] = TokenBytes(k) \o q[1] /\ Plain("Record", k, p[2], q[2])
  <2>1. p = <<<<>>, r>> \/ KnownStep("Record", R, p)
    BY DEF Plan
  <2>2. CASE KnownStep("Record", R, p)
    <3>1. PICK k \in Tokens, q \in R : p[1] = TokenBytes(k) \o q[1] /\ Known("Record", k, p[2], q[2])
      BY <2>2 DEF KnownStep
    <3>2. ~Embedded("Record", k, p[2], q[2])
      <4> DEFINE c == Cases["Record"][number(k)]
      <4>1. SUFFICES ASSUME number(k) \in DOMAIN Cases["Record"], c.kind \in {"message", "messages"}
                     PROVE  FALSE
        BY DEF Embedded
      <4>2. c.kind \in {"string", "int", "time"}
        BY <4>1, NoRecordInRecord
      <4> QED BY <4>1, <4>2
    <3> QED BY <3>1, <3>2 DEF Known
  <2> QED BY <2>1, <2>2
<1> QED BY <1>1, <1>2 DEF RecordPlan

LEMMA RecordEmbeds ==
  ASSUME NEW t \in Messages, NEW m \in Message[t], NEW m1 \in Message[t], NEW mode,
         NEW n \in 1..5, NEW tag, tag = 8 * n + 2, NEW name, NEW kind \in {"message", "messages"},
         n \in DOMAIN Cases[t], Cases[t][n] = Field(name, kind),
         NEW a \in Record, NEW start \in Record, start = Started(m, Field(name, kind)),
         m1 = With(m, name, IF kind = "messages" THEN Append(m[name], OverRecord(start, a))
                            ELSE <<OverRecord(start, a)>>),
         mode = "cut" =>
           MarshalToSizedBuffer(t, m) \o PtrBytes(tag, MarshalRecord(a)) = MarshalToSizedBuffer(t, m1)
  PROVE  Reads(t, PtrBytes(tag, MarshalRecord(a)), m, m1, mode)
<1> DEFINE s == MarshalRecord(a)
           r == OverRecord(start, a)
           k == FieldToken(tag, 0, s)
<1>1. s \in Seq(Byte)
  <2>1. "Record" \in Messages /\ Message["Record"] = Record
    BY TypesAre DEF Message
  <2>2. MarshalToSizedBuffer("Record", a) = s
    BY DEF MarshalToSizedBuffer
  <2> QED BY <2>1, <2>2, MarshalIsBytes
<1>2. /\ k \in Tokens /\ number(k) = n /\ k.tag % 8 = 2 /\ k.data = s
      /\ TokenBytes(k) = PtrBytes(tag, s)
  BY <1>1, PtrToken
<1>3. Reads("Record", s, start, r, "record")
  BY RecordReads
<1>4. PICK R : Plan("Record", R, r, "record") /\ <<s, start>> \in R
  BY <1>3 DEF Reads
<1>5. RecordPlan(R, r)
  BY <1>4, RecordPlanOf
<1> HIDE DEF k, r, s
<1>6. Embedded(t, k, m, m1)
  <2> DEFINE c == Cases[t][number(k)]
  <2>1. c = Field(name, kind) /\ c.name = name /\ c.kind = kind
    BY <1>2 DEF Field
  <2>2. <<k.data, Started(m, c)>> \in R
    BY <1>2, <1>4, <2>1
  <2>3. m1 = With(m, c.name, IF c.kind = "messages" THEN Append(m[c.name], r) ELSE <<r>>)
    BY <2>1 DEF r
  <2>4. c.kind \in {"message", "messages"} /\ number(k) \in DOMAIN Cases[t]
    BY <1>2, <2>1
  <2> HIDE DEF c
  <2> QED BY <1>2, <1>5, <2>2, <2>3, <2>4 DEF Embedded, c
<1> QED BY <1>2, <1>6, ReadsField DEF Known, s

\* Of messages that hold no list, the merge is field by field.
LEMMA MergeFields ==
  ASSUME NEW t \in Messages, NEW a, NEW b,
         \A f \in DOMAIN a : \E i \in DOMAIN Cases[t] : Cases[t][i].name = f,
         \A i \in DOMAIN Cases[t] : Cases[t][i].kind # "messages"
  PROVE  Merge(t, a, b) = [f \in DOMAIN a |-> Over(a[f], b[f], New[t][f])]
<1>1. ASSUME NEW f \in DOMAIN a
      PROVE  Cases[t][CHOOSE i \in DOMAIN Cases[t] : Cases[t][i].name = f].kind # "messages"
  <2> DEFINE i == CHOOSE i \in DOMAIN Cases[t] : Cases[t][i].name = f
  <2>1. i \in DOMAIN Cases[t]
    OBVIOUS
  <2> HIDE DEF i
  <2>2. Cases[t][i].kind # "messages"
    BY <2>1
  <2> QED BY <2>2 DEF i
<1> QED BY <1>1 DEF Merge, Over

-----------------------------------------------------------------------------
(* A message read over another: the messages of at most one field *)

\* A message a is read over m as their merge.
ReadsOver(t, m, a, mode) ==
  /\ MergeAll(t, m, a) \in Message[t]
  /\ Reads(t, MarshalToSizedBuffer(t, a), m, MergeAll(t, m, a), mode)
  /\ m = New[t] => MergeAll(t, m, a) = a

LEMMA RecordReadsOver ==
  ASSUME NEW m \in Record, NEW a \in Record, NEW mode, mode = "cut" => m = New.Record
  PROVE  ReadsOver("Record", m, a, mode) /\ Merge("Record", m, a) = OverRecord(m, a)
<1> DEFINE t == "Record"
<1>1. t \in Messages /\ Message[t] = Record /\ MarshalToSizedBuffer(t, a) = MarshalRecord(a)
  BY TypesAre DEF Message, MarshalToSizedBuffer
<1>2. MergeAll(t, m, a) = Merge(t, m, a)
  BY DEF MergeAll
<1>3. Merge(t, m, a) = [f \in DOMAIN m |-> Over(m[f], a[f], New[t][f])]
  <2>1. DOMAIN m = {"ID", "TheNum", "TheStr", "CreatedAt", "UpdatedAt"}
    BY DEF Record
  <2>2. ASSUME NEW f \in DOMAIN m PROVE \E i \in DOMAIN Cases[t] : Cases[t][i].name = f
    <3>1. 1 \in 1..5 /\ 2 \in 1..5 /\ 3 \in 1..5 /\ 4 \in 1..5 /\ 5 \in 1..5
      OBVIOUS
    <3> QED BY <2>1, <3>1, RecordCases DEF Field
  <2>3. ASSUME NEW i \in DOMAIN Cases[t] PROVE Cases[t][i].kind # "messages"
    BY NoRecordInRecord
  <2> QED BY <1>1, <2>2, <2>3, MergeFields
<1>4. Merge(t, m, a) = OverRecord(m, a)
  BY <1>3 DEF OverRecord, RecordOf, New, Record
<1>5. m = New[t] => OverRecord(m, a) = a
  <2> SUFFICES ASSUME m = New[t] PROVE OverRecord(m, a) = a
    OBVIOUS
  <2>1. /\ m.ID = <<>> /\ m.TheNum = 0 /\ m.TheStr = <<>> /\ m.CreatedAt = <<>> /\ m.UpdatedAt = <<>>
    BY DEF New
  <2>2. /\ a.ID \in Text /\ a.TheNum \in Int64 /\ a.TheStr \in Text
        /\ a.CreatedAt \in Pointer(Times) /\ a.UpdatedAt \in Pointer(Times)
        /\ a = RecordOf(a.ID, a.TheNum, a.TheStr, a.CreatedAt, a.UpdatedAt)
    BY RecordIs
  <2>3. OverRecord(m, a) = RecordOf(a.ID, a.TheNum, a.TheStr, a.CreatedAt, a.UpdatedAt)
    BY <2>1, <2>2, OverTypes DEF OverRecord
  <2> QED BY <2>2, <2>3
<1> QED BY <1>1, <1>2, <1>4, <1>5, RecordReads DEF ReadsOver

LEMMA EmptyReadsOver ==
  ASSUME NEW t \in {"HealthReq", "ConfigReq"}, NEW m \in Message[t], NEW a \in Message[t], NEW mode
  PROVE  ReadsOver(t, m, a, mode)
<1>1. t \in Messages /\ Message[t] = {<<>>} /\ MarshalToSizedBuffer(t, a) = <<>>
  BY TypesAre DEF Message, MarshalToSizedBuffer, MarshalHealthReq, MarshalConfigReq
<1>2. m = <<>> /\ a = <<>>
  BY <1>1
<1>3. MergeAll(t, m, a) = <<>>
  <2>1. MergeAll(t, m, a) = Merge(t, m, a) /\ DOMAIN m = {}
    BY <1>2 DEF MergeAll
  <2> QED BY <2>1 DEF Merge
<1> QED BY <1>1, <1>2, <1>3, ReadsNothing DEF ReadsOver

LEMMA OneField ==
  \A x, v : /\ With([Ok |-> x], "Ok", v) = [Ok |-> v]
            /\ With([ID |-> x], "ID", v) = [ID |-> v]
            /\ With([Record |-> x], "Record", v) = [Record |-> v]
            /\ With([Records |-> x], "Records", v) = [Records |-> v]
<1> TAKE x, v
<1>1. With([Ok |-> x], "Ok", v) = [Ok |-> v]
  BY DEF With
<1>2. With([ID |-> x], "ID", v) = [ID |-> v]
  BY DEF With
<1>3. With([Record |-> x], "Record", v) = [Record |-> v]
  BY DEF With
<1>4. With([Records |-> x], "Records", v) = [Records |-> v]
  BY DEF With
<1> QED BY <1>1, <1>2, <1>3, <1>4

LEMMA HealthResReadsOver ==
  ASSUME NEW m \in [Ok : BOOLEAN], NEW a \in [Ok : BOOLEAN], NEW mode,
         mode = "cut" => m = New.HealthRes
  PROVE  ReadsOver("HealthRes", m, a, mode)
<1> DEFINE t == "HealthRes"
           m1 == [Ok |-> Over(m.Ok, a.Ok, FALSE)]
<1>1. t \in Messages /\ Message[t] = [Ok : BOOLEAN]
  BY TypesAre DEF Message
<1>2. \A x : MarshalToSizedBuffer(t, x) = BoolBytes(8, x.Ok)
  BY DEF MarshalToSizedBuffer, MarshalHealthRes
<1>3. Cases[t] = UnmarshalHealthRes
  BY DEF Cases
<1>4. DOMAIN Cases[t] = 1..1 /\ Cases[t][1] = Field("Ok", "bool")
  BY <1>3 DEF UnmarshalHealthRes
<1>5. MergeAll(t, m, a) = m1
  <2>1. MergeAll(t, m, a) = Merge(t, m, a) /\ DOMAIN m = {"Ok"}
    BY DEF MergeAll
  <2>2. Merge(t, m, a) = [f \in DOMAIN m |-> Over(m[f], a[f], New[t][f])]
    <3>1. \A f \in DOMAIN m : \E i \in DOMAIN Cases[t] : Cases[t][i].name = f
      BY <1>4, <2>1, 1 \in 1..1 DEF Field
    <3>2. \A i \in DOMAIN Cases[t] : Cases[t][i].kind # "messages"
      BY <1>4 DEF Field
    <3> QED BY <1>1, <3>1, <3>2, MergeFields
  <2>3. New[t].Ok = FALSE
    BY DEF New
  <2> QED BY <2>1, <2>2, <2>3
<1>6. m1 \in Message[t] /\ (m = New[t] => m1 = a /\ m.Ok = FALSE)
  <2>1. m.Ok \in BOOLEAN /\ a.Ok \in BOOLEAN /\ a = [Ok |-> a.Ok]
    OBVIOUS
  <2>2. m = New[t] => m.Ok = FALSE
    BY DEF New
  <2> QED BY <1>1, <2>1, <2>2 DEF Over
<1>7. Reads(t, BoolBytes(8, a.Ok), m, m1, mode)
  <2>1. m1 = IF a.Ok THEN With(m, "Ok", TRUE) ELSE m
    <3>1. m = [Ok |-> m.Ok] /\ a.Ok \in BOOLEAN
      OBVIOUS
    <3>2. With(m, "Ok", TRUE) = [Ok |-> TRUE]
      BY <3>1, OneField
    <3> QED BY <3>1, <3>2 DEF Over
  <2>2. mode = "cut" =>
          MarshalToSizedBuffer(t, m) \o BoolBytes(8, a.Ok) = MarshalToSizedBuffer(t, m1)
    <3> SUFFICES ASSUME mode = "cut"
                 PROVE  MarshalToSizedBuffer(t, m) \o BoolBytes(8, a.Ok) = MarshalToSizedBuffer(t, m1)
      OBVIOUS
    <3>1. m1 = a /\ MarshalToSizedBuffer(t, m) = <<>>
      BY <1>2, <1>6, ZeroFields
    <3>2. BoolBytes(8, a.Ok) \in Seq(Byte)
      BY <1>1, <1>2, MarshalIsBytes
    <3> QED BY <1>2, <3>1, <3>2, NoBytes
  <2>3. 1 \in 1..5 /\ 1 \in 1..1 /\ 8 = 8 * 1 /\ a.Ok \in BOOLEAN
    OBVIOUS
  <2> HIDE DEF m1, t
  <2> QED BY <1>1, <1>4, <1>6, <2>1, <2>2, <2>3, BoolReads
<1> QED BY <1>2, <1>5, <1>6, <1>7 DEF ReadsOver

LEMMA GetRecordReqReadsOver ==
  ASSUME NEW m \in [ID : Text], NEW a \in [ID : Text], NEW mode,
         mode = "cut" => m = New.GetRecordReq
  PROVE  ReadsOver("GetRecordReq", m, a, mode)
<1> DEFINE t == "GetRecordReq"
           m1 == [ID |-> Over(m.ID, a.ID, <<>>)]
<1>1. t \in Messages /\ Message[t] = [ID : Text]
  BY TypesAre DEF Message
<1>2. \A x : MarshalToSizedBuffer(t, x) = StrBytes(10, x.ID)
  BY DEF MarshalToSizedBuffer, MarshalGetRecordReq
<1>3. Cases[t] = UnmarshalGetRecordReq
  BY DEF Cases
<1>4. DOMAIN Cases[t] = 1..1 /\ Cases[t][1] = Field("ID", "string")
  BY <1>3 DEF UnmarshalGetRecordReq
<1>5. MergeAll(t, m, a) = m1
  <2>1. MergeAll(t, m, a) = Merge(t, m, a) /\ DOMAIN m = {"ID"}
    BY DEF MergeAll
  <2>2. Merge(t, m, a) = [f \in DOMAIN m |-> Over(m[f], a[f], New[t][f])]
    <3>1. \A f \in DOMAIN m : \E i \in DOMAIN Cases[t] : Cases[t][i].name = f
      BY <1>4, <2>1, 1 \in 1..1 DEF Field
    <3>2. \A i \in DOMAIN Cases[t] : Cases[t][i].kind # "messages"
      BY <1>4 DEF Field
    <3> QED BY <1>1, <3>1, <3>2, MergeFields
  <2>3. New[t].ID = <<>>
    BY DEF New
  <2> QED BY <2>1, <2>2, <2>3
<1>6. m1 \in Message[t] /\ (m = New[t] => m1 = a /\ m.ID = <<>>)
  <2>1. m.ID \in Text /\ a.ID \in Text /\ a = [ID |-> a.ID]
    OBVIOUS
  <2>2. m = New[t] => m.ID = <<>>
    BY DEF New
  <2> QED BY <1>1, <2>1, <2>2 DEF Over
<1>7. Reads(t, StrBytes(10, a.ID), m, m1, mode)
  <2>1. m1 = IF a.ID = <<>> THEN m ELSE With(m, "ID", a.ID)
    <3>1. m = [ID |-> m.ID]
      OBVIOUS
    <3>2. With(m, "ID", a.ID) = [ID |-> a.ID]
      BY <3>1, OneField
    <3> QED BY <3>1, <3>2 DEF Over
  <2>2. mode = "cut" =>
          MarshalToSizedBuffer(t, m) \o StrBytes(10, a.ID) = MarshalToSizedBuffer(t, m1)
    <3> SUFFICES ASSUME mode = "cut"
                 PROVE  MarshalToSizedBuffer(t, m) \o StrBytes(10, a.ID) = MarshalToSizedBuffer(t, m1)
      OBVIOUS
    <3>1. m1 = a /\ MarshalToSizedBuffer(t, m) = <<>>
      BY <1>2, <1>6, ZeroFields
    <3>2. StrBytes(10, a.ID) \in Seq(Byte)
      BY <1>1, <1>2, MarshalIsBytes
    <3> QED BY <1>2, <3>1, <3>2, NoBytes
  <2>3. 1 \in 1..5 /\ 1 \in 1..1 /\ 10 = 8 * 1 + 2 /\ a.ID \in Text
    OBVIOUS
  <2> HIDE DEF m1, t
  <2> QED BY <1>1, <1>4, <1>6, <2>1, <2>2, <2>3, StrReads
<1> QED BY <1>2, <1>5, <1>6, <1>7 DEF ReadsOver

-----------------------------------------------------------------------------
(* ListRecordReq *)

ListRecordReqOf(x, y) == [PageSize |-> x, Page |-> y]

LEMMA ListRecordReqWith ==
  ASSUME NEW x, NEW y, NEW v
  PROVE  /\ With(ListRecordReqOf(x, y), "PageSize", v) = ListRecordReqOf(v, y)
         /\ With(ListRecordReqOf(x, y), "Page", v) = ListRecordReqOf(x, v)
<1>1. With(ListRecordReqOf(x, y), "PageSize", v) = ListRecordReqOf(v, y)
  BY DEF ListRecordReqOf, With
<1>2. With(ListRecordReqOf(x, y), "Page", v) = ListRecordReqOf(x, v)
  BY DEF ListRecordReqOf, With
<1> QED BY <1>1, <1>2

LEMMA ListRecordReqWrites ==
  ASSUME NEW x, NEW y
  PROVE  MarshalToSizedBuffer("ListRecordReq", ListRecordReqOf(x, y)) =
           StrBytes(10, x) \o StrBytes(18, y)
BY DEF MarshalToSizedBuffer, MarshalListRecordReq, ListRecordReqOf

ListRecordReqWritesInTurn(x, y) ==
  LET W(m) == MarshalToSizedBuffer("ListRecordReq", m)
      m0 == ListRecordReqOf(<<>>, <<>>)
      m1 == ListRecordReqOf(x, <<>>)
      m2 == ListRecordReqOf(x, y)
  IN  /\ W(m0) \o StrBytes(10, x) = W(m1)
      /\ W(m1) \o StrBytes(18, y) = W(m2)

LEMMA ListRecordReqWritesFirst ==
  ASSUME NEW x \in Text, NEW y \in Text
  PROVE  ListRecordReqWritesInTurn(x, y)
<1> DEFINE W(m) == MarshalToSizedBuffer("ListRecordReq", m)
           m0 == ListRecordReqOf(<<>>, <<>>)
           m1 == ListRecordReqOf(x, <<>>)
           m2 == ListRecordReqOf(x, y)
           b1 == StrBytes(10, x)
           b2 == StrBytes(18, y)
           e == <<>>
<1>1. b1 \in Seq(Byte) /\ b2 \in Seq(Byte)
  <2>1. 10 \in Byte /\ 18 \in Byte
    BY DEF Byte
  <2> QED BY <2>1, NumIsInt, StrBytesSize, NumBytesSize, TimeBytesSize, BoolBytesSize
<1>2. e \in Seq(Byte) /\ StrBytes(10, e) = e /\ StrBytes(18, e) = e
  BY ZeroFields, EmptyBytes
<1>3. \A s \in Seq(Byte) : s \o e = s /\ e \o s = s
  BY NoBytes
<1> HIDE DEF e
<1>4. W(m0) = StrBytes(10, e) \o StrBytes(18, e)
  BY ListRecordReqWrites DEF e
<1>5. W(m1) = b1 \o StrBytes(18, e)
  BY ListRecordReqWrites DEF e
<1>6. W(m2) = b1 \o b2
  BY ListRecordReqWrites DEF e
<1> HIDE DEF b1, b2, m0, m1, m2, W
<1>7. W(m0) = e
  BY <1>2, <1>3, <1>4
<1>8. W(m1) = b1
  BY <1>1, <1>2, <1>3, <1>5
<1>9. W(m0) \o b1 = W(m1)
  BY <1>1, <1>3, <1>7, <1>8
<1>10. W(m1) \o b2 = W(m2)
  BY <1>8, <1>6, Zenon
<1> QED BY <1>9, <1>10 DEF ListRecordReqWritesInTurn, W, m0, m1, m2, b1, b2, e

LEMMA ListRecordReqReadsOver ==
  ASSUME NEW m \in Message["ListRecordReq"], NEW a \in Message["ListRecordReq"], NEW mode,
         mode = "cut" => m = New["ListRecordReq"]
  PROVE  ReadsOver("ListRecordReq", m, a, mode)
<1> DEFINE t == "ListRecordReq"
           x == Over(m.PageSize, a.PageSize, <<>>)
           y == Over(m.Page, a.Page, <<>>)
           m0 == ListRecordReqOf(m.PageSize, m.Page)
           m1 == ListRecordReqOf(x, m.Page)
           m2 == ListRecordReqOf(x, y)
           b1 == StrBytes(10, a.PageSize)
           b2 == StrBytes(18, a.Page)
           W(r) == MarshalToSizedBuffer(t, r)
<1>1. t \in Messages /\ Message[t] = [PageSize : Text, Page : Text]
  BY TypesAre DEF Message
<1>2. /\ m.PageSize \in Text /\ m.Page \in Text
      /\ a.PageSize \in Text /\ a.Page \in Text
  BY <1>1
<1>3. x \in Text /\ y \in Text
  BY <1>2, OverTypes
<1>4. m0 \in Message[t] /\ m1 \in Message[t] /\ m2 \in Message[t]
  <2> HIDE DEF x, y
  <2> QED BY <1>1, <1>2, <1>3 DEF ListRecordReqOf
<1>5. m = m0 /\ a = ListRecordReqOf(a.PageSize, a.Page)
  BY <1>1 DEF ListRecordReqOf
<1>6. Cases[t] = UnmarshalListRecordReq
  BY DEF Cases
<1>7. DOMAIN Cases[t] = 1..2 /\ Cases[t][1] = Field("PageSize", "string") /\ Cases[t][2] = Field("Page", "string")
  BY <1>6 DEF UnmarshalListRecordReq
<1>8. MergeAll(t, m, a) = m2
  <2>1. MergeAll(t, m, a) = Merge(t, m, a) /\ DOMAIN m = {"PageSize", "Page"}
    BY <1>1 DEF MergeAll
  <2>2. Merge(t, m, a) = [f \in DOMAIN m |-> Over(m[f], a[f], New[t][f])]
    <3>1. \A f \in DOMAIN m : \E i \in DOMAIN Cases[t] : Cases[t][i].name = f
      BY <1>7, <2>1, 1 \in 1..2, 2 \in 1..2 DEF Field
    <3>2. \A i \in DOMAIN Cases[t] : Cases[t][i].kind # "messages"
      BY <1>7 DEF Field
    <3> QED BY <1>1, <3>1, <3>2, MergeFields
  <2>3. New[t].PageSize = <<>> /\ New[t].Page = <<>>
    BY DEF New
  <2> QED BY <2>1, <2>2, <2>3 DEF ListRecordReqOf
<1>9. ASSUME m = New[t]
      PROVE  m.PageSize = <<>> /\ x = a.PageSize /\ m.Page = <<>> /\ y = a.Page
  <2>1. m.PageSize = <<>> /\ m.Page = <<>>
    BY <1>9 DEF New
  <2> QED BY <1>2, <2>1, OverTypes
<1>10. m = New[t] => m2 = a
  BY <1>5, <1>9, Zenon
<1>11. ASSUME mode = "cut" PROVE W(m0) \o b1 = W(m1) /\ W(m1) \o b2 = W(m2)
  <2> DEFINE n0 == ListRecordReqOf(<<>>, <<>>)
             n1 == ListRecordReqOf(a.PageSize, <<>>)
             n2 == ListRecordReqOf(a.PageSize, a.Page)
  <2>1. W(n0) \o b1 = W(n1) /\ W(n1) \o b2 = W(n2)
    <3>1. ListRecordReqWritesInTurn(a.PageSize, a.Page)
      BY <1>2, ListRecordReqWritesFirst
    <3> QED BY <3>1, Zenon DEF ListRecordReqWritesInTurn
  <2>2. m0 = n0 /\ m1 = n1 /\ m2 = n2
    <3> HIDE DEF x, y
    <3> QED BY <1>9, <1>11
  <2> HIDE DEF n0, n1, n2, m0, m1, m2, W, b1, b2
  <2> QED BY <2>1, <2>2
<1> HIDE DEF W
<1>12. Reads(t, b1, m0, m1, mode)
  <2>1. m1 = IF a.PageSize = <<>> THEN m0 ELSE With(m0, "PageSize", a.PageSize)
    BY ListRecordReqWith DEF Over
  <2>2. 1 \in 1..5 /\ 1 \in 1..2 /\ 10 = 8 * 1 + 2
    OBVIOUS
  <2> HIDE DEF m0, m1, b1, t
  <2> QED BY <1>1, <1>2, <1>4, <1>7, <1>11, <2>1, <2>2, StrReads DEF W, b1
<1>13. Reads(t, b2, m1, m2, mode)
  <2>1. m2 = IF a.Page = <<>> THEN m1 ELSE With(m1, "Page", a.Page)
    BY ListRecordReqWith DEF Over
  <2>2. 2 \in 1..5 /\ 2 \in 1..2 /\ 18 = 8 * 2 + 2
    OBVIOUS
  <2> HIDE DEF m1, m2, b2, t
  <2> QED BY <1>1, <1>2, <1>4, <1>7, <1>11, <2>1, <2>2, StrReads DEF W, b2
<1>14. MarshalToSizedBuffer(t, a) = b1 \o b2
  BY <1>5, ListRecordReqWrites
<1>15. b1 \in Seq(Byte) /\ b2 \in Seq(Byte)
  <2>1. 10 \in Byte /\ 18 \in Byte
    BY DEF Byte
  <2> QED BY <1>2, <2>1, NumIsInt, StrBytesSize, NumBytesSize, TimeBytesSize, BoolBytesSize
<1> HIDE DEF m0, m1, m2, b1, b2
<1>16. b1 \o b2 \in Seq(Byte) /\ Reads(t, b1 \o b2, m0, m2, mode)
  BY <1>1, <1>15, <1>12, <1>13, TwoParts, ReadsBoth
<1> QED BY <1>4, <1>5, <1>8, <1>10, <1>14, <1>16 DEF ReadsOver

-----------------------------------------------------------------------------
(* ConfigRes *)

ConfigResOf(x, y, z) == [Enable |-> x, Num |-> y, Str |-> z]

LEMMA ConfigResWith ==
  ASSUME NEW x, NEW y, NEW z, NEW v
  PROVE  /\ With(ConfigResOf(x, y, z), "Enable", v) = ConfigResOf(v, y, z)
         /\ With(ConfigResOf(x, y, z), "Num", v) = ConfigResOf(x, v, z)
         /\ With(ConfigResOf(x, y, z), "Str", v) = ConfigResOf(x, y, v)
<1>1. With(ConfigResOf(x, y, z), "Enable", v) = ConfigResOf(v, y, z)
  BY DEF ConfigResOf, With
<1>2. With(ConfigResOf(x, y, z), "Num", v) = ConfigResOf(x, v, z)
  BY DEF ConfigResOf, With
<1>3. With(ConfigResOf(x, y, z), "Str", v) = ConfigResOf(x, y, v)
  BY DEF ConfigResOf, With
<1> QED BY <1>1, <1>2, <1>3

LEMMA ConfigResWrites ==
  ASSUME NEW x, NEW y, NEW z
  PROVE  MarshalToSizedBuffer("ConfigRes", ConfigResOf(x, y, z)) =
           (BoolBytes(8, x) \o NumBytes(16, y)) \o StrBytes(26, z)
BY DEF MarshalToSizedBuffer, MarshalConfigRes, ConfigResOf

ConfigResWritesInTurn(x, y, z) ==
  LET W(m) == MarshalToSizedBuffer("ConfigRes", m)
      m0 == ConfigResOf(FALSE, 0, <<>>)
      m1 == ConfigResOf(x, 0, <<>>)
      m2 == ConfigResOf(x, y, <<>>)
      m3 == ConfigResOf(x, y, z)
  IN  /\ W(m0) \o BoolBytes(8, x) = W(m1)
      /\ W(m1) \o NumBytes(16, y) = W(m2)
      /\ W(m2) \o StrBytes(26, z) = W(m3)

LEMMA ConfigResWritesFirst ==
  ASSUME NEW x \in BOOLEAN, NEW y \in Int64, NEW z \in Text
  PROVE  ConfigResWritesInTurn(x, y, z)
<1> DEFINE W(m) == MarshalToSizedBuffer("ConfigRes", m)
           m0 == ConfigResOf(FALSE, 0, <<>>)
           m1 == ConfigResOf(x, 0, <<>>)
           m2 == ConfigResOf(x, y, <<>>)
           m3 == ConfigResOf(x, y, z)
           b1 == BoolBytes(8, x)
           b2 == NumBytes(16, y)
           b3 == StrBytes(26, z)
           e == <<>>
<1>1. b1 \in Seq(Byte) /\ b2 \in Seq(Byte) /\ b3 \in Seq(Byte)
  <2>1. 8 \in Byte /\ 16 \in Byte /\ 26 \in Byte
    BY DEF Byte
  <2> QED BY <2>1, NumIsInt, StrBytesSize, NumBytesSize, TimeBytesSize, BoolBytesSize
<1>2. e \in Seq(Byte) /\ BoolBytes(8, FALSE) = e /\ NumBytes(16, 0) = e /\ StrBytes(26, e) = e
  BY ZeroFields, EmptyBytes
<1>3. \A s \in Seq(Byte) : s \o e = s /\ e \o s = s
  BY NoBytes
<1> HIDE DEF e
<1>4. W(m0) = (BoolBytes(8, FALSE) \o NumBytes(16, 0)) \o StrBytes(26, e)
  BY ConfigResWrites DEF e
<1>5. W(m1) = (b1 \o NumBytes(16, 0)) \o StrBytes(26, e)
  BY ConfigResWrites DEF e
<1>6. W(m2) = (b1 \o b2) \o StrBytes(26, e)
  BY ConfigResWrites DEF e
<1>7. W(m3) = (b1 \o b2) \o b3
  BY ConfigResWrites DEF e
<1> HIDE DEF b1, b2, b3, m0, m1, m2, m3, W
<1>8. W(m0) = e
  BY <1>2, <1>3, <1>4
<1>9. W(m1) = b1
  BY <1>1, <1>2, <1>3, <1>5
<1>10. W(m2) = b1 \o b2
  <2> DEFINE s == b1 \o b2
  <2>1. s \in Seq(Byte) /\ W(m2) = s \o e
    BY <1>1, <1>2, <1>6, TwoParts
  <2> HIDE DEF s
  <2>2. W(m2) = s
    BY <1>3, <2>1
  <2> QED BY <2>2 DEF s
<1>11. W(m0) \o b1 = W(m1)
  BY <1>1, <1>3, <1>8, <1>9
<1>12. W(m1) \o b2 = W(m2) /\ W(m2) \o b3 = W(m3)
  BY <1>9, <1>10, <1>7, Zenon
<1> QED BY <1>11, <1>12 DEF ConfigResWritesInTurn, W, m0, m1, m2, m3, b1, b2, b3, e

LEMMA ConfigResReadsOver ==
  ASSUME NEW m \in Message["ConfigRes"], NEW a \in Message["ConfigRes"], NEW mode,
         mode = "cut" => m = New["ConfigRes"]
  PROVE  ReadsOver("ConfigRes", m, a, mode)
<1> DEFINE t == "ConfigRes"
           x == Over(m.Enable, a.Enable, FALSE)
           y == Over(m.Num, a.Num, 0)
           z == Over(m.Str, a.Str, <<>>)
           m0 == ConfigResOf(m.Enable, m.Num, m.Str)
           m1 == ConfigResOf(x, m.Num, m.Str)
           m2 == ConfigResOf(x, y, m.Str)
           m3 == ConfigResOf(x, y, z)
           b1 == BoolBytes(8, a.Enable)
           b2 == NumBytes(16, a.Num)
           b3 == StrBytes(26, a.Str)
           W(r) == MarshalToSizedBuffer(t, r)
<1>1. t \in Messages /\ Message[t] = [Enable : BOOLEAN, Num : Int64, Str : Text]
  BY TypesAre DEF Message
<1>2. /\ m.Enable \in BOOLEAN /\ m.Num \in Int64 /\ m.Str \in Text
      /\ a.Enable \in BOOLEAN /\ a.Num \in Int64 /\ a.Str \in Text
  BY <1>1
<1>3. x \in BOOLEAN /\ y \in Int64 /\ z \in Text
  BY <1>2, OverTypes
<1>4. m0 \in Message[t] /\ m1 \in Message[t] /\ m2 \in Message[t] /\ m3 \in Message[t]
  <2> HIDE DEF x, y, z
  <2> QED BY <1>1, <1>2, <1>3 DEF ConfigResOf
<1>5. m = m0 /\ a = ConfigResOf(a.Enable, a.Num, a.Str)
  BY <1>1 DEF ConfigResOf
<1>6. Cases[t] = UnmarshalConfigRes
  BY DEF Cases
<1>7. DOMAIN Cases[t] = 1..3 /\ Cases[t][1] = Field("Enable", "bool") /\ Cases[t][2] = Field("Num", "int") /\ Cases[t][3] = Field("Str", "string")
  BY <1>6 DEF UnmarshalConfigRes
<1>8. MergeAll(t, m, a) = m3
  <2>1. MergeAll(t, m, a) = Merge(t, m, a) /\ DOMAIN m = {"Enable", "Num", "Str"}
    BY <1>1 DEF MergeAll
  <2>2. Merge(t, m, a) = [f \in DOMAIN m |-> Over(m[f], a[f], New[t][f])]
    <3>1. \A f \in DOMAIN m : \E i \in DOMAIN Cases[t] : Cases[t][i].name = f
      BY <1>7, <2>1, 1 \in 1..3, 2 \in 1..3, 3 \in 1..3 DEF Field
    <3>2. \A i \in DOMAIN Cases[t] : Cases[t][i].kind # "messages"
      BY <1>7 DEF Field
    <3> QED BY <1>1, <3>1, <3>2, MergeFields
  <2>3. New[t].Enable = FALSE /\ New[t].Num = 0 /\ New[t].Str = <<>>
    BY DEF New
  <2> QED BY <2>1, <2>2, <2>3 DEF ConfigResOf
<1>9. ASSUME m = New[t]
      PROVE  m.Enable = FALSE /\ x = a.Enable /\ m.Num = 0 /\ y = a.Num /\ m.Str = <<>> /\ z = a.Str
  <2>1. m.Enable = FALSE /\ m.Num = 0 /\ m.Str = <<>>
    BY <1>9 DEF New
  <2> QED BY <1>2, <2>1, OverTypes
<1>10. m = New[t] => m3 = a
  BY <1>5, <1>9, Zenon
<1>11. ASSUME mode = "cut" PROVE W(m0) \o b1 = W(m1) /\ W(m1) \o b2 = W(m2) /\ W(m2) \o b3 = W(m3)
  <2> DEFINE n0 == ConfigResOf(FALSE, 0, <<>>)
             n1 == ConfigResOf(a.Enable, 0, <<>>)
             n2 == ConfigResOf(a.Enable, a.Num, <<>>)
             n3 == ConfigResOf(a.Enable, a.Num, a.Str)
  <2>1. W(n0) \o b1 = W(n1) /\ W(n1) \o b2 = W(n2) /\ W(n2) \o b3 = W(n3)
    <3>1. ConfigResWritesInTurn(a.Enable, a.Num, a.Str)
      BY <1>2, ConfigResWritesFirst
    <3> QED BY <3>1, Zenon DEF ConfigResWritesInTurn
  <2>2. m0 = n0 /\ m1 = n1 /\ m2 = n2 /\ m3 = n3
    <3> HIDE DEF x, y, z
    <3> QED BY <1>9, <1>11
  <2> HIDE DEF n0, n1, n2, n3, m0, m1, m2, m3, W, b1, b2, b3
  <2> QED BY <2>1, <2>2
<1> HIDE DEF W
<1>12. Reads(t, b1, m0, m1, mode)
  <2>1. m1 = IF a.Enable THEN With(m0, "Enable", TRUE) ELSE m0
    <3>1. x = IF a.Enable THEN TRUE ELSE m.Enable
      BY <1>2 DEF Over
    <3>2. With(m0, "Enable", TRUE) = ConfigResOf(TRUE, m.Num, m.Str)
      <4>1. \A v : With(m0, "Enable", v) = ConfigResOf(v, m.Num, m.Str)
        BY ConfigResWith
      <4> QED BY <4>1, Zenon
    <3>3. CASE a.Enable
      BY <3>1, <3>2, <3>3
    <3>4. CASE ~a.Enable
      BY <3>1, <3>4
    <3> QED BY <3>3, <3>4
  <2>2. 1 \in 1..5 /\ 1 \in 1..3 /\ 8 = 8 * 1
    OBVIOUS
  <2> HIDE DEF m0, m1, b1, t
  <2> QED BY <1>1, <1>2, <1>4, <1>7, <1>11, <2>1, <2>2, BoolReads DEF W, b1
<1>13. Reads(t, b2, m1, m2, mode)
  <2>1. m2 = IF a.Num = 0 THEN m1 ELSE With(m1, "Num", a.Num)
    BY ConfigResWith DEF Over
  <2>2. 2 \in 1..5 /\ 2 \in 1..3 /\ 16 = 8 * 2
    OBVIOUS
  <2> HIDE DEF m1, m2, b2, t
  <2> QED BY <1>1, <1>2, <1>4, <1>7, <1>11, <2>1, <2>2, NumReads DEF W, b2
<1>14. Reads(t, b3, m2, m3, mode)
  <2>1. m3 = IF a.Str = <<>> THEN m2 ELSE With(m2, "Str", a.Str)
    BY ConfigResWith DEF Over
  <2>2. 3 \in 1..5 /\ 3 \in 1..3 /\ 26 = 8 * 3 + 2
    OBVIOUS
  <2> HIDE DEF m2, m3, b3, t
  <2> QED BY <1>1, <1>2, <1>4, <1>7, <1>11, <2>1, <2>2, StrReads DEF W, b3
<1>15. MarshalToSizedBuffer(t, a) = (b1 \o b2) \o b3
  BY <1>5, ConfigResWrites
<1>16. b1 \in Seq(Byte) /\ b2 \in Seq(Byte) /\ b3 \in Seq(Byte)
  <2>1. 8 \in Byte /\ 16 \in Byte /\ 26 \in Byte
    BY DEF Byte
  <2> QED BY <1>2, <2>1, NumIsInt, StrBytesSize, NumBytesSize, TimeBytesSize, BoolBytesSize
<1> HIDE DEF m0, m1, m2, m3, b1, b2, b3
<1>17. b1 \o b2 \in Seq(Byte) /\ Reads(t, b1 \o b2, m0, m2, mode)
  BY <1>1, <1>16, <1>12, <1>13, TwoParts, ReadsBoth
<1>18. (b1 \o b2) \o b3 \in Seq(Byte) /\ Reads(t, (b1 \o b2) \o b3, m0, m3, mode)
  BY <1>1, <1>16, <1>17, <1>14, TwoParts, ReadsBoth
<1> QED BY <1>4, <1>5, <1>8, <1>10, <1>15, <1>18 DEF ReadsOver

-----------------------------------------------------------------------------
(* CreateRecordReq *)

CreateRecordReqOf(x, y, z) == [TheNum |-> x, TheStr |-> y, CreatedAt |-> z]

LEMMA CreateRecordReqWith ==
  ASSUME NEW x, NEW y, NEW z, NEW v
  PROVE  /\ With(CreateRecordReqOf(x, y, z), "TheNum", v) = CreateRecordReqOf(v, y, z)
         /\ With(CreateRecordReqOf(x, y, z), "TheStr", v) = CreateRecordReqOf(x, v, z)
         /\ With(CreateRecordReqOf(x, y, z), "CreatedAt", v) = CreateRecordReqOf(x, y, v)
<1>1. With(CreateRecordReqOf(x, y, z), "TheNum", v) = CreateRecordReqOf(v, y, z)
  BY DEF CreateRecordReqOf, With
<1>2. With(CreateRecordReqOf(x, y, z), "TheStr", v) = CreateRecordReqOf(x, v, z)
  BY DEF CreateRecordReqOf, With
<1>3. With(CreateRecordReqOf(x, y, z), "CreatedAt", v) = CreateRecordReqOf(x, y, v)
  BY DEF CreateRecordReqOf, With
<1> QED BY <1>1, <1>2, <1>3

LEMMA CreateRecordReqWrites ==
  ASSUME NEW x, NEW y, NEW z
  PROVE  MarshalToSizedBuffer("CreateRecordReq", CreateRecordReqOf(x, y, z)) =
           (NumBytes(8, x) \o StrBytes(18, y)) \o TimeBytes(26, z)
BY DEF MarshalToSizedBuffer, MarshalCreateRecordReq, CreateRecordReqOf

CreateRecordReqWritesInTurn(x, y, z) ==
  LET W(m) == MarshalToSizedBuffer("CreateRecordReq", m)
      m0 == CreateRecordReqOf(0, <<>>, <<>>)
      m1 == CreateRecordReqOf(x, <<>>, <<>>)
      m2 == CreateRecordReqOf(x, y, <<>>)
      m3 == CreateRecordReqOf(x, y, z)
  IN  /\ W(m0) \o NumBytes(8, x) = W(m1)
      /\ W(m1) \o StrBytes(18, y) = W(m2)
      /\ W(m2) \o TimeBytes(26, z) = W(m3)

LEMMA CreateRecordReqWritesFirst ==
  ASSUME NEW x \in Int64, NEW y \in Text, NEW z \in Pointer(Times)
  PROVE  CreateRecordReqWritesInTurn(x, y, z)
<1> DEFINE W(m) == MarshalToSizedBuffer("CreateRecordReq", m)
           m0 == CreateRecordReqOf(0, <<>>, <<>>)
           m1 == CreateRecordReqOf(x, <<>>, <<>>)
           m2 == CreateRecordReqOf(x, y, <<>>)
           m3 == CreateRecordReqOf(x, y, z)
           b1 == NumBytes(8, x)
           b2 == StrBytes(18, y)
           b3 == TimeBytes(26, z)
           e == <<>>
<1>1. b1 \in Seq(Byte) /\ b2 \in Seq(Byte) /\ b3 \in Seq(Byte)
  <2>1. 8 \in Byte /\ 18 \in Byte /\ 26 \in Byte
    BY DEF Byte
  <2> QED BY <2>1, NumIsInt, StrBytesSize, NumBytesSize, TimeBytesSize, BoolBytesSize
<1>2. e \in Seq(Byte) /\ NumBytes(8, 0) = e /\ StrBytes(18, e) = e /\ TimeBytes(26, e) = e
  BY ZeroFields, EmptyBytes
<1>3. \A s \in Seq(Byte) : s \o e = s /\ e \o s = s
  BY NoBytes
<1> HIDE DEF e
<1>4. W(m0) = (NumBytes(8, 0) \o StrBytes(18, e)) \o TimeBytes(26, e)
  BY CreateRecordReqWrites DEF e
<1>5. W(m1) = (b1 \o StrBytes(18, e)) \o TimeBytes(26, e)
  BY CreateRecordReqWrites DEF e
<1>6. W(m2) = (b1 \o b2) \o TimeBytes(26, e)
  BY CreateRecordReqWrites DEF e
<1>7. W(m3) = (b1 \o b2) \o b3
  BY CreateRecordReqWrites DEF e
<1> HIDE DEF b1, b2, b3, m0, m1, m2, m3, W
<1>8. W(m0) = e
  BY <1>2, <1>3, <1>4
<1>9. W(m1) = b1
  BY <1>1, <1>2, <1>3, <1>5
<1>10. W(m2) = b1 \o b2
  <2> DEFINE s == b1 \o b2
  <2>1. s \in Seq(Byte) /\ W(m2) = s \o e
    BY <1>1, <1>2, <1>6, TwoParts
  <2> HIDE DEF s
  <2>2. W(m2) = s
    BY <1>3, <2>1
  <2> QED BY <2>2 DEF s
<1>11. W(m0) \o b1 = W(m1)
  BY <1>1, <1>3, <1>8, <1>9
<1>12. W(m1) \o b2 = W(m2) /\ W(m2) \o b3 = W(m3)
  BY <1>9, <1>10, <1>7, Zenon
<1> QED BY <1>11, <1>12 DEF CreateRecordReqWritesInTurn, W, m0, m1, m2, m3, b1, b2, b3, e

LEMMA CreateRecordReqReadsOver ==
  ASSUME NEW m \in Message["CreateRecordReq"], NEW a \in Message["CreateRecordReq"], NEW mode,
         mode = "cut" => m = New["CreateRecordReq"]
  PROVE  ReadsOver("CreateRecordReq", m, a, mode)
<1> DEFINE t == "CreateRecordReq"
           x == Over(m.TheNum, a.TheNum, 0)
           y == Over(m.TheStr, a.TheStr, <<>>)
           z == Over(m.CreatedAt, a.CreatedAt, <<>>)
           m0 == CreateRecordReqOf(m.TheNum, m.TheStr, m.CreatedAt)
           m1 == CreateRecordReqOf(x, m.TheStr, m.CreatedAt)
           m2 == CreateRecordReqOf(x, y, m.CreatedAt)
           m3 == CreateRecordReqOf(x, y, z)
           b1 == NumBytes(8, a.TheNum)
           b2 == StrBytes(18, a.TheStr)
           b3 == TimeBytes(26, a.CreatedAt)
           W(r) == MarshalToSizedBuffer(t, r)
<1>1. t \in Messages /\ Message[t] = [TheNum : Int64, TheStr : Text, CreatedAt : Pointer(Times)]
  BY TypesAre DEF Message
<1>2. /\ m.TheNum \in Int64 /\ m.TheStr \in Text /\ m.CreatedAt \in Pointer(Times)
      /\ a.TheNum \in Int64 /\ a.TheStr \in Text /\ a.CreatedAt \in Pointer(Times)
  BY <1>1
<1>3. x \in Int64 /\ y \in Text /\ z \in Pointer(Times)
  BY <1>2, OverTypes
<1>4. m0 \in Message[t] /\ m1 \in Message[t] /\ m2 \in Message[t] /\ m3 \in Message[t]
  <2> HIDE DEF x, y, z
  <2> QED BY <1>1, <1>2, <1>3 DEF CreateRecordReqOf
<1>5. m = m0 /\ a = CreateRecordReqOf(a.TheNum, a.TheStr, a.CreatedAt)
  BY <1>1 DEF CreateRecordReqOf
<1>6. Cases[t] = UnmarshalCreateRecordReq
  BY DEF Cases
<1>7. DOMAIN Cases[t] = 1..3 /\ Cases[t][1] = Field("TheNum", "int") /\ Cases[t][2] = Field("TheStr", "string") /\ Cases[t][3] = Field("CreatedAt", "time")
  BY <1>6 DEF UnmarshalCreateRecordReq
<1>8. MergeAll(t, m, a) = m3
  <2>1. MergeAll(t, m, a) = Merge(t, m, a) /\ DOMAIN m = {"TheNum", "TheStr", "CreatedAt"}
    BY <1>1 DEF MergeAll
  <2>2. Merge(t, m, a) = [f \in DOMAIN m |-> Over(m[f], a[f], New[t][f])]
    <3>1. \A f \in DOMAIN m : \E i \in DOMAIN Cases[t] : Cases[t][i].name = f
      BY <1>7, <2>1, 1 \in 1..3, 2 \in 1..3, 3 \in 1..3 DEF Field
    <3>2. \A i \in DOMAIN Cases[t] : Cases[t][i].kind # "messages"
      BY <1>7 DEF Field
    <3> QED BY <1>1, <3>1, <3>2, MergeFields
  <2>3. New[t].TheNum = 0 /\ New[t].TheStr = <<>> /\ New[t].CreatedAt = <<>>
    BY DEF New
  <2> QED BY <2>1, <2>2, <2>3 DEF CreateRecordReqOf
<1>9. ASSUME m = New[t]
      PROVE  m.TheNum = 0 /\ x = a.TheNum /\ m.TheStr = <<>> /\ y = a.TheStr /\ m.CreatedAt = <<>> /\ z = a.CreatedAt
  <2>1. m.TheNum = 0 /\ m.TheStr = <<>> /\ m.CreatedAt = <<>>
    BY <1>9 DEF New
  <2> QED BY <1>2, <2>1, OverTypes
<1>10. m = New[t] => m3 = a
  BY <1>5, <1>9, Zenon
<1>11. ASSUME mode = "cut" PROVE W(m0) \o b1 = W(m1) /\ W(m1) \o b2 = W(m2) /\ W(m2) \o b3 = W(m3)
  <2> DEFINE n0 == CreateRecordReqOf(0, <<>>, <<>>)
             n1 == CreateRecordReqOf(a.TheNum, <<>>, <<>>)
             n2 == CreateRecordReqOf(a.TheNum, a.TheStr, <<>>)
             n3 == CreateRecordReqOf(a.TheNum, a.TheStr, a.CreatedAt)
  <2>1. W(n0) \o b1 = W(n1) /\ W(n1) \o b2 = W(n2) /\ W(n2) \o b3 = W(n3)
    <3>1. CreateRecordReqWritesInTurn(a.TheNum, a.TheStr, a.CreatedAt)
      BY <1>2, CreateRecordReqWritesFirst
    <3> QED BY <3>1, Zenon DEF CreateRecordReqWritesInTurn
  <2>2. m0 = n0 /\ m1 = n1 /\ m2 = n2 /\ m3 = n3
    <3> HIDE DEF x, y, z
    <3> QED BY <1>9, <1>11
  <2> HIDE DEF n0, n1, n2, n3, m0, m1, m2, m3, W, b1, b2, b3
  <2> QED BY <2>1, <2>2
<1> HIDE DEF W
<1>12. Reads(t, b1, m0, m1, mode)
  <2>1. m1 = IF a.TheNum = 0 THEN m0 ELSE With(m0, "TheNum", a.TheNum)
    BY CreateRecordReqWith DEF Over
  <2>2. 1 \in 1..5 /\ 1 \in 1..3 /\ 8 = 8 * 1
    OBVIOUS
  <2> HIDE DEF m0, m1, b1, t
  <2> QED BY <1>1, <1>2, <1>4, <1>7, <1>11, <2>1, <2>2, NumReads DEF W, b1
<1>13. Reads(t, b2, m1, m2, mode)
  <2>1. m2 = IF a.TheStr = <<>> THEN m1 ELSE With(m1, "TheStr", a.TheStr)
    BY CreateRecordReqWith DEF Over
  <2>2. 2 \in 1..5 /\ 2 \in 1..3 /\ 18 = 8 * 2 + 2
    OBVIOUS
  <2> HIDE DEF m1, m2, b2, t
  <2> QED BY <1>1, <1>2, <1>4, <1>7, <1>11, <2>1, <2>2, StrReads DEF W, b2
<1>14. Reads(t, b3, m2, m3, mode)
  <2>1. m3 = IF a.CreatedAt = <<>> THEN m2 ELSE With(m2, "CreatedAt", a.CreatedAt)
    BY CreateRecordReqWith DEF Over
  <2>2. 3 \in 1..5 /\ 3 \in 1..3 /\ 26 = 8 * 3 + 2
    OBVIOUS
  <2> HIDE DEF m2, m3, b3, t
  <2> QED BY <1>1, <1>2, <1>4, <1>7, <1>11, <2>1, <2>2, TimeReads DEF W, b3
<1>15. MarshalToSizedBuffer(t, a) = (b1 \o b2) \o b3
  BY <1>5, CreateRecordReqWrites
<1>16. b1 \in Seq(Byte) /\ b2 \in Seq(Byte) /\ b3 \in Seq(Byte)
  <2>1. 8 \in Byte /\ 18 \in Byte /\ 26 \in Byte
    BY DEF Byte
  <2> QED BY <1>2, <2>1, NumIsInt, StrBytesSize, NumBytesSize, TimeBytesSize, BoolBytesSize
<1> HIDE DEF m0, m1, m2, m3, b1, b2, b3
<1>17. b1 \o b2 \in Seq(Byte) /\ Reads(t, b1 \o b2, m0, m2, mode)
  BY <1>1, <1>16, <1>12, <1>13, TwoParts, ReadsBoth
<1>18. (b1 \o b2) \o b3 \in Seq(Byte) /\ Reads(t, (b1 \o b2) \o b3, m0, m3, mode)
  BY <1>1, <1>16, <1>17, <1>14, TwoParts, ReadsBoth
<1> QED BY <1>4, <1>5, <1>8, <1>10, <1>15, <1>18 DEF ReadsOver

-----------------------------------------------------------------------------
(* A pointer to a record *)

LEMMA OverNew ==
  /\ New.Record \in Record
  /\ \A r \in Record : OverRecord(New.Record, r) = r
<1>1. New.Record \in Record
  BY ZeroTypes DEF New, Record
<1>2. ASSUME NEW r \in Record PROVE OverRecord(New.Record, r) = r
  <2>1. ReadsOver("Record", New.Record, r, "joined")
    BY <1>1, RecordReadsOver
  <2>2. MergeAll("Record", New.Record, r) = r
    <3>1. New["Record"] = New.Record
      OBVIOUS
    <3> QED BY <2>1, <3>1 DEF ReadsOver
  <2>3. MergeAll("Record", New.Record, r) = Merge("Record", New.Record, r)
    BY DEF MergeAll
  <2> QED BY <1>1, <2>2, <2>3, RecordReadsOver
<1> QED BY <1>1, <1>2

LEMMA RecordPtrReadsOver ==
  ASSUME NEW t \in {"CreateRecordRes", "GetRecordRes"},
         NEW m \in [Record : Pointer(Record)], NEW a \in [Record : Pointer(Record)], NEW mode,
         mode = "cut" => m = New[t]
  PROVE  ReadsOver(t, m, a, mode)
<1>1. t \in Messages /\ Message[t] = [Record : Pointer(Record)]
  <2>1. CASE t = "CreateRecordRes"
    BY <2>1, TypesAre DEF Message
  <2>2. CASE t = "GetRecordRes"
    BY <2>2, TypesAre DEF Message
  <2> QED BY <2>1, <2>2
<1>2. \A x : MarshalToSizedBuffer(t, x) = RecordPtrBytes(10, x.Record)
  BY DEF MarshalToSizedBuffer, MarshalCreateRecordRes, MarshalGetRecordRes
<1>3. DOMAIN Cases[t] = 1..1 /\ Cases[t][1] = Field("Record", "message")
  <2>1. Cases[t] = <<Field("Record", "message")>>
    BY DEF Cases, UnmarshalCreateRecordRes, UnmarshalGetRecordRes
  <2> QED BY <2>1
<1>4. New[t] = [Record |-> <<>>]
  BY DEF New
<1>5. /\ m = [Record |-> m.Record] /\ m.Record \in Pointer(Record)
      /\ a = [Record |-> a.Record] /\ a.Record \in Pointer(Record)
  OBVIOUS
<1>6. Merge(t, m, a) = [Record |-> Over(m.Record, a.Record, <<>>)]
  <2>1. DOMAIN m = {"Record"}
    OBVIOUS
  <2>2. Merge(t, m, a) = [f \in DOMAIN m |-> Over(m[f], a[f], New[t][f])]
    <3>1. \A f \in DOMAIN m : \E i \in DOMAIN Cases[t] : Cases[t][i].name = f
      BY <1>3, <2>1, 1 \in 1..1 DEF Field
    <3>2. \A i \in DOMAIN Cases[t] : Cases[t][i].kind # "messages"
      BY <1>3 DEF Field
    <3> QED BY <1>1, <3>1, <3>2, MergeFields
  <2> QED BY <1>4, <2>1, <2>2
<1>7. CASE a.Record = <<>>
  <2>1. MergeAll(t, m, a) = m
    <3>1. MergeAll(t, m, a) = Merge(t, m, a)
      BY <1>7 DEF MergeAll
    <3> QED BY <1>5, <1>6, <1>7, <3>1 DEF Over
  <2>2. MarshalToSizedBuffer(t, a) = <<>>
    BY <1>2, <1>7, ZeroFields
  <2>3. m = New[t] => m = a
    BY <1>4, <1>5, <1>7
  <2> QED BY <1>1, <2>1, <2>2, <2>3, ReadsNothing DEF ReadsOver
<1>8. CASE a.Record # <<>>
  <2> DEFINE r == a.Record[1]
             start == Started(m, Field("Record", "message"))
             o == OverRecord(start, r)
             m1 == [Record |-> <<o>>]
  <2>1. r \in Record /\ a.Record = <<r>>
    BY <1>5, <1>8, PointerCases
  <2> HIDE DEF r
  <2>2. start = IF m.Record # <<>> THEN m.Record[1] ELSE New.Record
    BY DEF Started, Field
  <2>3. start \in Record
    BY <1>5, <2>2, PointerCases, OverNew
  <2>4. o \in Record
    <3> HIDE DEF start
    <3>1. "joined" # "cut"
      OBVIOUS
    <3> QED BY <2>1, <2>3, <3>1, RecordReads
  <2>5. m1 \in Message[t]
    <3>1. <<o>> \in Pointer(Record)
      <4> HIDE DEF o
      <4> QED BY <2>4 DEF Pointer
    <3> QED BY <1>1, <3>1
  <2>6. MergeAll(t, m, a) = m1
    <3>1. CASE m.Record # <<>>
      <4>1. MergeAll(t, m, a) = [Record |-> <<Merge("Record", m.Record[1], a.Record[1])>>]
        BY <1>8, <3>1 DEF MergeAll
      <4>2. start = m.Record[1]
        BY <2>2, <3>1
      <4>3. Merge("Record", start, r) = o
        <5> HIDE DEF start
        <5> QED BY <2>1, <2>3, RecordReadsOver
      <4> QED BY <4>1, <4>2, <4>3 DEF r
    <3>2. CASE m.Record = <<>>
      <4>1. MergeAll(t, m, a) = Merge(t, m, a)
        BY <3>2 DEF MergeAll
      <4>2. Over(m.Record, a.Record, <<>>) = <<r>>
        BY <1>8, <2>1 DEF Over
      <4>3. o = r
        BY <2>1, <2>2, <3>2, OverNew
      <4> HIDE DEF o
      <4> QED BY <1>6, <4>1, <4>2, <4>3
    <3> QED BY <3>1, <3>2
  <2>7. m = New[t] => m1 = a
    <3> SUFFICES ASSUME m = New[t] PROVE m1 = a
      OBVIOUS
    <3>1. start = New.Record
      BY <1>4, <2>2
    <3>2. o = r
      BY <2>1, <3>1, OverNew
    <3> HIDE DEF o
    <3> QED BY <1>5, <2>1, <3>2
  <2>8. MarshalToSizedBuffer(t, a) = PtrBytes(10, MarshalRecord(r))
    <3>1. MarshalToSizedBuffer(t, a) = RecordPtrBytes(10, <<r>>)
      BY <1>2, <2>1
    <3> QED BY <3>1 DEF RecordPtrBytes
  <2>9. mode = "cut" =>
          MarshalToSizedBuffer(t, m) \o PtrBytes(10, MarshalRecord(r)) = MarshalToSizedBuffer(t, m1)
    <3> SUFFICES ASSUME mode = "cut"
                 PROVE  MarshalToSizedBuffer(t, m) \o PtrBytes(10, MarshalRecord(r)) =
                          MarshalToSizedBuffer(t, m1)
      OBVIOUS
    <3>1. m1 = a /\ m.Record = <<>>
      BY <1>4, <2>7
    <3>2. MarshalToSizedBuffer(t, m) = <<>>
      BY <1>2, <3>1, ZeroFields
    <3>3. MarshalToSizedBuffer(t, a) \in Seq(Byte)
      BY <1>1, MarshalIsBytes
    <3> HIDE DEF m1
    <3> QED BY <2>8, <3>1, <3>2, <3>3, NoBytes
  <2>10. m1 = With(m, "Record", <<o>>)
    <3> HIDE DEF o
    <3> QED BY <1>5, OneField
  <2>11. Reads(t, PtrBytes(10, MarshalRecord(r)), m, m1, mode)
    <3>1. 1 \in 1..5 /\ 1 \in 1..1 /\ 10 = 8 * 1 + 2 /\ "message" \in {"message", "messages"}
      OBVIOUS
    <3>2. m1 = With(m, "Record", IF "message" = "messages" THEN Append(m["Record"], o) ELSE <<o>>)
      BY <2>10
    <3>3. m \in Message[t] /\ start = Started(m, Field("Record", "message"))
      BY <1>1
    <3>4. Cases[t][1] = Field("Record", "message") /\ 1 \in DOMAIN Cases[t]
      BY <1>3
    <3> DEFINE kind == "message"
    <3>5. /\ kind \in {"message", "messages"} /\ Cases[t][1] = Field("Record", kind)
          /\ start = Started(m, Field("Record", kind))
          /\ m1 = With(m, "Record", IF kind = "messages" THEN Append(m["Record"], o) ELSE <<o>>)
      BY <3>1, <3>2, <3>3, <3>4
    <3> HIDE DEF m1, start, kind
    <3> QED BY <1>1, <2>1, <2>3, <2>5, <2>9, <3>1, <3>3, <3>4, <3>5, RecordEmbeds
  <2> HIDE DEF m1, r
  <2> QED BY <2>5, <2>6, <2>7, <2>8, <2>11 DEF ReadsOver
<1> QED BY <1>7, <1>8

-----------------------------------------------------------------------------
(* A list of records *)

ListOf(records) == [Records |-> records]

ListBytes(records) == MarshalToSizedBuffer("ListRecordRes", ListOf(records))

LEMMA ListBytesFlatten == \A records : ListBytes(records) = FlattenSeq(Elements(records))
BY DEF ListBytes, ListOf, MarshalToSizedBuffer, MarshalListRecordRes, Elements

LEMMA ListBytesEmpty == ListBytes(<<>>) = <<>>
<1>1. Elements(<<>>) = <<>>
  BY DEF Elements
<1>2. FlattenSeq(<<>>) = <<>>
  BY DEF FlattenSeq
<1> QED BY <1>1, <1>2, ListBytesFlatten

\* One more record is written after the others.
LEMMA ListBytesAppend ==
  ASSUME NEW s \in Seq(Record), NEW r \in Record
  PROVE  ListBytes(Append(s, r)) = ListBytes(s) \o PtrBytes(10, MarshalRecord(r))
<1> DEFINE u == Append(s, r)
           n == Len(s)
           d == Elements(u)
           c == Elements(s)
<1>1. /\ n \in Nat /\ u \in Seq(Record) /\ Len(u) = n + 1 /\ u[n + 1] = r
      /\ \A i \in 1..n : u[i] = s[i]
  BY AppendProperties, LenProperties
<1>2. /\ d \in Seq(Seq(Byte)) /\ Len(d) = n + 1
      /\ \A i \in 1..n + 1 : d[i] = PtrBytes(10, MarshalRecord(u[i]))
  <2> HIDE DEF u, n
  <2> QED BY <1>1, ElementsSeq
<1>3. /\ c \in Seq(Seq(Byte)) /\ Len(c) = n
      /\ \A i \in 1..n : c[i] = PtrBytes(10, MarshalRecord(s[i]))
  BY ElementsSeq
<1> HIDE DEF c, d, n
<1>4. \A i \in 1..n : d[i] = c[i]
  BY <1>1, <1>2, <1>3
<1>5. d[n + 1] = PtrBytes(10, MarshalRecord(r))
  BY <1>1, <1>2
<1>6. PICK F \in [Nat -> Seq(Byte)] : F[0] = <<>> /\ \A k \in 1..n + 1 : F[k] = F[k - 1] \o d[k]
  <2>1. n + 1 \in Nat /\ d \in [1..n + 1 -> Seq(Byte)]
    BY <1>1, <1>2, LenProperties
  <2> QED BY <2>1, FirstOnes
<1>7. FlattenSeq(d) = F[n + 1]
  BY <1>2, <1>6, FlattenDef
<1>8. FlattenSeq(c) = F[n]
  <2>1. \A k \in 1..n : F[k] = F[k - 1] \o c[k]
    <3> SUFFICES ASSUME NEW k \in 1..n PROVE F[k] = F[k - 1] \o c[k]
      OBVIOUS
    <3>1. k \in 1..n + 1
      BY <1>1
    <3>2. F[k] = F[k - 1] \o d[k] /\ d[k] = c[k]
      BY <1>4, <1>6, <3>1
    <3> QED BY <3>2
  <2> QED BY <1>3, <1>6, <2>1, FlattenDef
<1>9. F[n + 1] = F[n] \o d[n + 1]
  <2>1. n + 1 \in 1..n + 1 /\ (n + 1) - 1 = n
    BY <1>1
  <2> QED BY <1>6, <2>1
<1> QED BY <1>5, <1>7, <1>8, <1>9, ListBytesFlatten DEF c, d

LEMMA FirstAndNext ==
  ASSUME NEW S, NEW s \in Seq(S), NEW k \in 0..Len(s) - 1
  PROVE  /\ SubSeq(s, 1, k) \in Seq(S) /\ s[k + 1] \in S
         /\ SubSeq(s, 1, k + 1) = Append(SubSeq(s, 1, k), s[k + 1])
<1>1. Len(s) \in Nat /\ k \in Nat /\ k + 1 \in 1..Len(s)
  OBVIOUS
<1>2. \A i \in 1..Len(s) : s[i] \in S
  BY ElementOfSeq
<1> DEFINE x == SubSeq(s, 1, k)
           y == SubSeq(s, 1, k + 1)
<1>3. x \in Seq(S) /\ Len(x) = k /\ \A i \in 1..k : x[i] = s[i]
  <2>1. \A i \in 1..k : s[i] \in S
    BY <1>1, <1>2
  <2>2. /\ x \in Seq(S) /\ Len(x) = IF 1 <= k THEN k - 1 + 1 ELSE 0
        /\ \A i \in 1..k - 1 + 1 : x[i] = s[1 + i - 1]
    BY <1>1, <2>1, SubSeqProperties
  <2> QED BY <1>1, <2>2
<1>4. y \in Seq(S) /\ Len(y) = k + 1 /\ \A i \in 1..k + 1 : y[i] = s[i]
  <2>1. \A i \in 1..k + 1 : s[i] \in S
    BY <1>1, <1>2
  <2>2. /\ y \in Seq(S) /\ Len(y) = IF 1 <= k + 1 THEN (k + 1) - 1 + 1 ELSE 0
        /\ \A i \in 1..(k + 1) - 1 + 1 : y[i] = s[1 + i - 1]
    BY <1>1, <2>1, SubSeqProperties
  <2> QED BY <1>1, <2>2
<1> HIDE DEF x, y
<1> DEFINE z == Append(x, s[k + 1])
<1>5. /\ z \in Seq(S) /\ Len(z) = k + 1 /\ z[k + 1] = s[k + 1]
      /\ \A i \in 1..k : z[i] = x[i]
  BY <1>1, <1>2, <1>3, AppendProperties
<1> HIDE DEF z
<1>6. \A i \in 1..k + 1 : y[i] = z[i]
  <2>1. \A i \in 1..k + 1 : i \in 1..k \/ i = k + 1
    BY <1>1
  <2> QED BY <1>3, <1>4, <1>5, <2>1
<1>7. y = z
  BY <1>4, <1>5, <1>6, SeqEqual
<1> QED BY <1>1, <1>2, <1>3, <1>7 DEF x, y, z

LEMMA ConcatAppend ==
  ASSUME NEW S, NEW s \in Seq(S), NEW t \in Seq(S), NEW e \in S
  PROVE  s \o Append(t, e) = Append(s \o t, e) /\ s \o t \in Seq(S)
<1> DEFINE u == <<e>>
<1>1. u \in Seq(S) /\ s \o t \in Seq(S)
  BY ConcatProperties
<1>2. Append(t, e) = t \o u /\ Append(s \o t, e) = (s \o t) \o u
  BY <1>1, AppendIsConcat
<1> HIDE DEF u
<1> QED BY <1>1, <1>2, ConcatAssociative

LEMMA ListReadsOver ==
  ASSUME NEW m \in [Records : Seq(Record)], NEW a \in [Records : Seq(Record)], NEW mode
  PROVE  ReadsOver("ListRecordRes", m, a, mode)
<1> DEFINE t == "ListRecordRes"
           old == m.Records
           new == a.Records
           n == Len(new)
           First(k) == SubSeq(new, 1, k)
           Upto(k) == ListOf(old \o First(k))
           S == {k \in Nat : k <= n => Reads(t, ListBytes(First(k)), m, Upto(k), mode)}
<1>1. t \in Messages /\ Message[t] = [Records : Seq(Record)]
  BY TypesAre DEF Message
<1>2. /\ old \in Seq(Record) /\ new \in Seq(Record) /\ n \in Nat
      /\ m = ListOf(old) /\ a = ListOf(new)
  BY LenProperties DEF ListOf
<1>3. DOMAIN Cases[t] = 1..1 /\ Cases[t][1] = Field("Records", "messages")
  <2>1. Cases[t] = <<Field("Records", "messages")>>
    BY DEF Cases, UnmarshalListRecordRes
  <2> QED BY <2>1
<1>4. \A s \in Seq(Record) : ListOf(s) \in Message[t]
  BY <1>1 DEF ListOf
<1> HIDE DEF old, new, n
<1>5. 0 \in S
  <2>1. First(0) = <<>> /\ old \o <<>> = old
    BY <1>2, SubSeqEmpty, ConcatEmptySeq
  <2>2. ListBytes(First(0)) = <<>> /\ Upto(0) = m
    BY <1>2, <2>1, ListBytesEmpty
  <2>3. Reads(t, <<>>, m, m, mode)
    BY <1>1, ReadsNothing
  <2> QED BY <2>2, <2>3
<1>6. ASSUME NEW k \in Nat \cap S PROVE k + 1 \in S
  <2> SUFFICES ASSUME k + 1 <= n PROVE Reads(t, ListBytes(First(k + 1)), m, Upto(k + 1), mode)
    OBVIOUS
  <2> DEFINE s == First(k)
             r == new[k + 1]
             m0 == Upto(k)
             m1 == Upto(k + 1)
             b == PtrBytes(10, MarshalRecord(r))
  <2>1. k \in 0..n - 1
    BY <1>2
  <2>2. s \in Seq(Record) /\ r \in Record /\ First(k + 1) = Append(s, r)
    BY <1>2, <2>1, FirstAndNext DEF n
  <2>3. Reads(t, ListBytes(s), m, m0, mode)
    BY <2>1, <1>2
  <2> HIDE DEF S, s, r
  <2>4. old \o s \in Seq(Record) /\ old \o Append(s, r) = Append(old \o s, r)
    BY <1>2, <2>2, ConcatAppend
  <2>5. m0 = ListOf(old \o s) /\ m1 = ListOf(Append(old \o s, r))
    BY <2>2, <2>4 DEF s
  <2>6. Append(old \o s, r) \in Seq(Record)
    BY <2>2, <2>4, AppendProperties
  <2>7. m0 \in Message[t] /\ m1 \in Message[t]
    BY <1>4, <2>4, <2>5, <2>6
  <2>8. OverRecord(New.Record, r) = r /\ New.Record \in Record
    BY <2>2, OverNew
  <2>9. MarshalToSizedBuffer(t, m0) \o b = MarshalToSizedBuffer(t, m1)
    BY <2>2, <2>4, <2>5, ListBytesAppend DEF ListBytes
  <2>10. m1 = With(m0, "Records", Append(m0["Records"], r))
    <3> DEFINE q == old \o s
    <3>1. m0 = [Records |-> q] /\ m1 = [Records |-> Append(q, r)] /\ m0["Records"] = q
      BY <2>5 DEF ListOf
    <3> HIDE DEF q, m0, m1
    <3> QED BY <3>1, OneField
  <2>11. Reads(t, b, m0, m1, mode)
    <3> DEFINE kind == "messages"
               start == New.Record
    <3>1. 1 \in 1..5 /\ 1 \in 1..1 /\ 10 = 8 * 1 + 2
      OBVIOUS
    <3>2. start = Started(m0, Field("Records", kind))
      BY DEF Started, Field
    <3>3. m1 = With(m0, "Records", IF kind = "messages" THEN Append(m0["Records"], OverRecord(start, r))
                                   ELSE <<OverRecord(start, r)>>)
      BY <2>8, <2>10
    <3>4. kind \in {"message", "messages"} /\ Cases[t][1] = Field("Records", kind) /\ 1 \in DOMAIN Cases[t]
      BY <1>3
    <3>5. start \in Record
      BY <2>8
    <3> HIDE DEF kind, start, m0, m1
    <3> QED BY <1>1, <2>2, <2>7, <2>9, <3>1, <3>2, <3>3, <3>4, <3>5, RecordEmbeds
  <2>12. ListBytes(s) \in Seq(Byte) /\ b \in Seq(Byte)
    <3>1. ListBytes(s) \in Seq(Byte)
      BY <1>1, <1>4, <2>2, MarshalIsBytes DEF ListBytes
    <3>2. <<r>> \in Pointer(Record) /\ RecordPtrBytes(10, <<r>>) = b
      BY <2>2 DEF Pointer, RecordPtrBytes
    <3>3. 10 \in Byte
      BY DEF Byte
    <3> HIDE DEF b
    <3> QED BY <3>1, <3>2, <3>3, RecordPtrBytesSize
  <2>13. ListBytes(First(k + 1)) = ListBytes(s) \o b
    BY <2>2, ListBytesAppend
  <2> HIDE DEF b, m0, m1
  <2>14. Reads(t, ListBytes(s) \o b, m, m1, mode)
    BY <1>1, <2>3, <2>11, <2>12, ReadsBoth
  <2> QED BY <2>13, <2>14 DEF m1
<1>7. n \in S
  <2> HIDE DEF S
  <2>1. Nat \subseteq S
    BY <1>5, <1>6, SetInduction
  <2> QED BY <1>2, <2>1
<1>8. First(n) = new
  <2>1. Len(new) \in Nat /\ \A i \in 1..n : new[i] \in Record
    BY <1>2, ElementOfSeq DEF n
  <2>2. /\ First(n) \in Seq(Record) /\ Len(First(n)) = IF 1 <= n THEN n - 1 + 1 ELSE 0
        /\ \A i \in 1..n - 1 + 1 : First(n)[i] = new[1 + i - 1]
    BY <1>2, <2>1, SubSeqProperties
  <2>3. Len(First(n)) = Len(new) /\ \A i \in 1..Len(First(n)) : First(n)[i] = new[i]
    BY <1>2, <2>1, <2>2 DEF n
  <2> HIDE DEF First
  <2> QED BY <1>2, <2>2, <2>3, SeqEqual
<1>9. Reads(t, MarshalToSizedBuffer(t, a), m, ListOf(old \o new), mode)
  <2>1. Reads(t, ListBytes(First(n)), m, Upto(n), mode)
    BY <1>2, <1>7
  <2> QED BY <1>2, <1>8, <2>1 DEF ListBytes
<1>10. MergeAll(t, m, a) = ListOf(old \o new)
  <2>1. MergeAll(t, m, a) = Merge(t, m, a) /\ DOMAIN m = {"Records"}
    BY DEF MergeAll
  <2>2. Cases[t][CHOOSE i \in DOMAIN Cases[t] : Cases[t][i].name = "Records"].kind = "messages"
    <3> DEFINE c == CHOOSE i \in DOMAIN Cases[t] : Cases[t][i].name = "Records"
    <3>1. 1 \in DOMAIN Cases[t] /\ Cases[t][1].name = "Records"
      BY <1>3 DEF Field
    <3>2. c \in DOMAIN Cases[t]
      BY <3>1
    <3> HIDE DEF c
    <3>3. Cases[t][c].kind = "messages"
      BY <1>3, <3>2 DEF Field
    <3> QED BY <3>3 DEF c
  <2>4. Merge(t, m, a) = [f \in {"Records"} |-> m[f] \o a[f]]
    <3>1. ASSUME NEW f \in {"Records"}
          PROVE  Cases[t][CHOOSE i \in DOMAIN Cases[t] : Cases[t][i].name = f].kind = "messages"
      BY <2>2
    <3> HIDE DEF t
    <3>2. Merge(t, m, a) = [f \in DOMAIN m |-> m[f] \o a[f]]
      BY <2>1, <3>1 DEF Merge
    <3> QED BY <2>1, <3>2
  <2> QED BY <2>1, <2>4 DEF ListOf, old, new
<1>11. old \o new \in Seq(Record) /\ (m = New[t] => old \o new = new)
  <2>1. m = New[t] => old = <<>>
    BY DEF New, old
  <2> QED BY <1>2, <2>1, ConcatProperties, ConcatEmptySeq
<1> QED BY <1>2, <1>4, <1>9, <1>10, <1>11 DEF ReadsOver

-----------------------------------------------------------------------------
(* Every message is read as it was written *)

LEMMA NewIsMessage ==
  ASSUME NEW t \in Messages
  PROVE  New[t] \in Message[t]
<1> USE ZeroTypes DEF New, Message
<1>1. CASE t \in {"Record", "CreateRecordRes", "GetRecordRes"}
  <2>1. New.Record \in Record /\ <<>> \in Pointer(Record)
    BY OverNew
  <2>2. CASE t = "Record"
    BY <2>1, <2>2
  <2>3. CASE t = "CreateRecordRes"
    BY <2>1, <2>3
  <2>4. CASE t = "GetRecordRes"
    BY <2>1, <2>4
  <2> QED BY <1>1, <2>2, <2>3, <2>4
<1>2. CASE t = "HealthReq"
  BY <1>2
<1>3. CASE t = "HealthRes"
  BY <1>3
<1>4. CASE t = "ConfigReq"
  BY <1>4
<1>5. CASE t = "ConfigRes"
  BY <1>5
<1>6. CASE t = "CreateRecordReq"
  BY <1>6
<1>7. CASE t = "GetRecordReq"
  BY <1>7
<1>8. CASE t = "ListRecordReq"
  BY <1>8
<1>9. CASE t = "ListRecordRes"
  BY <1>9
<1> QED BY <1>1, <1>2, <1>3, <1>4, <1>5, <1>6, <1>7, <1>8, <1>9, TypesAre

LEMMA AllReadOver ==
  ASSUME NEW t \in Messages, NEW m \in Message[t], NEW a \in Message[t], NEW mode,
         mode = "cut" => m = New[t]
  PROVE  ReadsOver(t, m, a, mode)
<1>1. CASE t = "Record"
  <2>1. Message[t] = Record
    BY <1>1 DEF Message
  <2> QED BY <1>1, <2>1, RecordReadsOver
<1>2. CASE t = "HealthReq" \/ t = "ConfigReq"
  BY <1>2, EmptyReadsOver
<1>3. CASE t = "HealthRes"
  <2>1. Message[t] = [Ok : BOOLEAN]
    BY <1>3 DEF Message
  <2> QED BY <1>3, <2>1, HealthResReadsOver
<1>4. CASE t = "ConfigRes"
  BY <1>4, ConfigResReadsOver
<1>5. CASE t = "CreateRecordReq"
  BY <1>5, CreateRecordReqReadsOver
<1>6. CASE t = "CreateRecordRes" \/ t = "GetRecordRes"
  <2>1. Message[t] = [Record : Pointer(Record)]
    <3>1. CASE t = "CreateRecordRes"
      BY <3>1 DEF Message
    <3>2. CASE t = "GetRecordRes"
      BY <3>2 DEF Message
    <3> QED BY <1>6, <3>1, <3>2
  <2> QED BY <1>6, <2>1, RecordPtrReadsOver
<1>7. CASE t = "GetRecordReq"
  <2>1. Message[t] = [ID : Text]
    BY <1>7 DEF Message
  <2> QED BY <1>7, <2>1, GetRecordReqReadsOver
<1>8. CASE t = "ListRecordReq"
  BY <1>8, ListRecordReqReadsOver
<1>9. CASE t = "ListRecordRes"
  <2>1. Message[t] = [Records : Seq(Record)]
    BY <1>9 DEF Message
  <2> QED BY <1>9, <2>1, ListReadsOver
<1> QED BY <1>1, <1>2, <1>3, <1>4, <1>5, <1>6, <1>7, <1>8, <1>9, TypesAre

LEMMA MarshalIs ==
  ASSUME NEW t \in Messages, NEW a \in Message[t]
  PROVE  Marshal(t, a) = MarshalToSizedBuffer(t, a) /\ Marshal(t, a) \in Seq(Byte)
BY MarshalFillsItsBuffer

LEMMA CutReads ==
  ASSUME NEW t \in Messages, NEW a \in Message[t]
  PROVE  Reads(t, Marshal(t, a), New[t], a, "cut")
<1>1. ReadsOver(t, New[t], a, "cut")
  BY NewIsMessage, AllReadOver
<1> QED BY <1>1, MarshalIs DEF ReadsOver

LEMMA JoinedReads ==
  ASSUME NEW t \in Messages, NEW a \in Message[t], NEW b \in Message[t],
         NEW u, IsUnknownField(t, u)
  PROVE  Reads(t, Marshal(t, a) \o FieldBytes(u) \o Marshal(t, b), New[t], MergeAll(t, a, b), "joined")
<1>1. Reads(t, Marshal(t, a), New[t], a, "joined")
  <2>1. ReadsOver(t, New[t], a, "joined")
    BY NewIsMessage, AllReadOver
  <2> QED BY <2>1, MarshalIs DEF ReadsOver
<1>2. Reads(t, FieldBytes(u), a, a, "joined")
  BY ReadsUnknown
<1>3. Reads(t, Marshal(t, b), a, MergeAll(t, a, b), "joined")
  <2>1. ReadsOver(t, a, b, "joined")
    BY AllReadOver
  <2> QED BY <2>1, MarshalIs DEF ReadsOver
<1> DEFINE x == Marshal(t, a)
           y == FieldBytes(u)
           z == Marshal(t, b)
<1>4. x \in Seq(Byte) /\ y \in Seq(Byte) /\ z \in Seq(Byte)
  BY MarshalIs, FieldBytesSeq
<1> HIDE DEF x, y, z
<1>5. Reads(t, x \o y, New[t], a, "joined")
  BY <1>1, <1>2, <1>4, ReadsBoth DEF x, y
<1>6. x \o y \in Seq(Byte)
  BY <1>4, TwoParts
<1> QED BY <1>3, <1>4, <1>5, <1>6, ReadsBoth DEF x, y, z

-----------------------------------------------------------------------------
(* The last so many of a sequence of byte sequences, with tail after them *)

LEMMA LastOnes ==
  ASSUME NEW n \in Nat, NEW c \in [1..n -> Seq(Byte)], NEW tail \in Seq(Byte)
  PROVE  \E H \in [0..n -> Seq(Byte)] :
           H[n] = tail /\ \A i \in 1..n : H[i - 1] = c[i] \o H[i]
<1> DEFINE R == Seq(Byte)
           C(k) == IF n - k + 1 \in 1..n THEN c[n - k + 1] ELSE <<>>
           Stop == {0}
           down == [k \in Nat |-> IF k = 0 THEN 0 ELSE k - 1]
           base == [k \in Nat |-> tail]
           step == [p \in Nat \X R |-> C(p[1]) \o p[2]]
<1>1. /\ Stop \in SUBSET Nat /\ down \in [Nat -> Nat] /\ \A k \in Nat \ Stop : down[k] < k
  OBVIOUS
<1>2. base \in [Nat -> R]
  OBVIOUS
<1>3. step \in [Nat \X R -> R]
  <2> SUFFICES ASSUME NEW k \in Nat, NEW r \in R PROVE C(k) \o r \in R
    OBVIOUS
  <2>1. C(k) \in R
    OBVIOUS
  <2> QED BY <2>1, ConcatProperties
<1>4. PICK f \in [Nat -> R] : Solves(f, Stop, down, base, step)
  <2> HIDE DEF R, Stop, down, base, step
  <2>1. IsRecursion(R, Stop, down, base, step)
    BY <1>1, <1>2, <1>3 DEF IsRecursion
  <2> QED BY <2>1, Recursion
<1>5. \A k \in Nat : f[k] = IF k \in Stop THEN base[k] ELSE step[<<k, f[down[k]]>>]
  <2> HIDE DEF R, Stop, down, base, step
  <2> QED BY <1>4 DEF Solves
<1>6. f[0] = tail
  <2>1. f[0] = base[0]
    <3> HIDE DEF base, step
    <3> QED BY <1>5
  <2> QED BY <2>1
<1>7. ASSUME NEW k \in 1..n PROVE f[k] = c[n - k + 1] \o f[k - 1]
  <2>1. k \in Nat /\ k \notin Stop /\ down[k] = k - 1 /\ k - 1 \in Nat
    OBVIOUS
  <2>2. f[k] = step[<<k, f[k - 1]>>]
    <3> HIDE DEF base, step, Stop, down
    <3> QED BY <1>5, <2>1
  <2>3. <<k, f[k - 1]>> \in Nat \X R
    BY <2>1
  <2>4. step[<<k, f[k - 1]>>] = C(k) \o f[k - 1]
    <3> HIDE DEF R, C
    <3> QED BY <2>3
  <2>5. n - k + 1 \in 1..n
    OBVIOUS
  <2> QED BY <2>2, <2>4, <2>5
<1> DEFINE H == [i \in 0..n |-> f[n - i]]
<1>8. H \in [0..n -> Seq(Byte)]
  <2> SUFFICES ASSUME NEW i \in 0..n PROVE f[n - i] \in Seq(Byte)
    OBVIOUS
  <2>1. n - i \in Nat
    OBVIOUS
  <2> QED BY <2>1
<1>9. H[n] = tail
  <2>1. n \in 0..n /\ n - n = 0
    OBVIOUS
  <2> QED BY <1>6, <2>1
<1>10. ASSUME NEW i \in 1..n PROVE H[i - 1] = c[i] \o H[i]
  <2> DEFINE k == n - i + 1
  <2>1. k \in 1..n /\ n - k + 1 = i /\ k - 1 = n - i /\ n - (i - 1) = k /\ i \in 0..n /\ i - 1 \in 0..n
    OBVIOUS
  <2>2. H[i - 1] = f[k] /\ H[i] = f[k - 1]
    BY <2>1
  <2> HIDE DEF k, H
  <2>3. f[k] = c[n - k + 1] \o f[k - 1]
    BY <1>7, <2>1
  <2> QED BY <2>1, <2>2, <2>3
<1> HIDE DEF H
<1> QED BY <1>8, <1>9, <1>10

LEMMA ThreeParts ==
  \A x, y, z \in Seq(Byte) : (x \o y) \o z = x \o (y \o z)
BY ConcatAssociative

\* All of them are those that are left before the first.
LEMMA FlattenIsFirst ==
  ASSUME NEW s \in Seq(Seq(Byte)), NEW tail \in Seq(Byte), NEW H \in [0..Len(s) -> Seq(Byte)],
         H[Len(s)] = tail, \A i \in 1..Len(s) : H[i - 1] = s[i] \o H[i]
  PROVE  FlattenSeq(s) \o tail = H[0]
<1> DEFINE n == Len(s)
<1>1. n \in Nat /\ s \in [1..n -> Seq(Byte)]
  BY LenProperties
<1>2. PICK F \in [Nat -> Seq(Byte)] : F[0] = <<>> /\ \A k \in 1..n : F[k] = F[k - 1] \o s[k]
  <2> HIDE DEF n
  <2> QED BY <1>1, FirstOnes
<1>3. FlattenSeq(s) = F[n]
  BY <1>2, FlattenDef
<1> DEFINE Good == {i \in Nat : i <= n => F[i] \o H[i] = H[0]}
<1> HIDE DEF n
<1>4. H \in [0..n -> Seq(Byte)] /\ H[n] = tail /\ \A i \in 1..n : H[i - 1] = s[i] \o H[i]
  BY DEF n
<1>5. 0 \in Good
  <2>1. H[0] \in Seq(Byte)
    BY <1>1, <1>4
  <2> QED BY <1>2, <2>1, ConcatEmptySeq
<1>6. ASSUME NEW i \in Nat \cap Good PROVE i + 1 \in Good
  <2> SUFFICES ASSUME i + 1 <= n PROVE F[i + 1] \o H[i + 1] = H[0]
    <3>1. i + 1 \in Nat
      OBVIOUS
    <3> QED BY <3>1
  <2>1. i + 1 \in 1..n /\ (i + 1) - 1 = i /\ i <= n /\ i \in 0..n /\ i + 1 \in 0..n
    BY <1>1
  <2>2. F[i + 1] = F[i] \o s[i + 1] /\ H[i] = s[i + 1] \o H[i + 1] /\ F[i] \o H[i] = H[0]
    BY <1>2, <1>4, <2>1
  <2>3. F[i] \in Seq(Byte) /\ s[i + 1] \in Seq(Byte) /\ H[i + 1] \in Seq(Byte)
    BY <1>1, <1>4, <2>1
  <2>4. (F[i] \o s[i + 1]) \o H[i + 1] = F[i] \o (s[i + 1] \o H[i + 1])
    BY <2>3, ThreeParts
  <2> QED BY <2>2, <2>4
<1>7. n \in Good
  <2> HIDE DEF Good
  <2>1. Nat \subseteq Good
    BY <1>5, <1>6, SetInduction
  <2> QED BY <1>1, <2>1
<1>8. F[n] \o H[n] = H[0]
  <2>1. n <= n
    BY <1>1
  <2> QED BY <1>7, <2>1
<1> QED BY <1>3, <1>4, <1>8

-----------------------------------------------------------------------------
(* A way through a field that is skipped: what is left of the slice at each *)
(* token, with the number of groups open before it; tail comes after it.    *)

Skippable(k, before) ==
  /\ k.tag % 8 \in 0..5
  /\ k.tag % 8 = 1 => Len(k.data) = 8
  /\ k.tag % 8 = 5 => Len(k.data) = 4
  /\ k.depth = CASE k.tag % 8 = 3 -> before + 1
                 [] k.tag % 8 = 4 -> before - 1
                 [] OTHER -> before

SkipPlan(Q, tail) ==
  /\ Q \subseteq Seq(Byte) \X Nat
  /\ \A p \in Q : \E k \in Tokens, s \in Seq(Byte) :
       /\ p[1] = TokenBytes(k) \o s /\ Skippable(k, p[2])
       /\ IF k.depth = 0 THEN s = tail ELSE <<s, k.depth>> \in Q

\* The token a skipped field begins with.
FirstUnknown(t, k) ==
  /\ k \in Tokens /\ number(k) > 0 /\ number(k) \notin DOMAIN Cases[t] /\ k.tag % 8 # 4

StartsUnknown(t, s) ==
  \E k : \E rest \in Seq(Byte) : FirstUnknown(t, k) /\ s = TokenBytes(k) \o rest

CanSkip(s, tail) == \E Q : SkipPlan(Q, tail) /\ <<s, 0>> \in Q

\* The tokens of a field of a later version are a way through it.
LEMMA UnknownPlan ==
  ASSUME NEW t, NEW u, IsUnknownField(t, u), u # <<>>, NEW tail \in Seq(Byte)
  PROVE  CanSkip(FieldBytes(u) \o tail, tail) /\ StartsUnknown(t, FieldBytes(u) \o tail)
<1> DEFINE n == Len(u)
           c == [j \in DOMAIN u |-> TokenBytes(u[j])]
           d(i) == IF i = 0 THEN 0 ELSE u[i].depth
<1>1. /\ u \in Seq(Tokens) /\ c \in Seq(Seq(Byte)) /\ FieldBytes(u) = FlattenSeq(c)
  BY FieldBytesSeq DEF FieldBytes
<1>2. /\ n \in Nat \ {0} /\ DOMAIN u = 1..n /\ Len(c) = n /\ \A j \in 1..n : u[j] \in Tokens
  <2>1. n \in Nat /\ n # 0 /\ DOMAIN u = 1..n /\ \A j \in 1..n : u[j] \in Tokens
    BY <1>1, LenProperties, ElementOfSeq
  <2>2. DOMAIN c = 1..n /\ DOMAIN c = 1..Len(c) /\ Len(c) \in Nat
    BY <1>1, <2>1, LenProperties
  <2> HIDE DEF c, n
  <2> QED BY <2>1, <2>2
<1>3. /\ \A j \in 1..n : u[j].tag % 8 \in 0..5
      /\ \A j \in 1..n : u[j].tag % 8 = 1 => Len(u[j].data) = 8
      /\ \A j \in 1..n : u[j].tag % 8 = 5 => Len(u[j].data) = 4
      /\ \A j \in 1..n : u[j].depth = CASE u[j].tag % 8 = 3 -> (IF j = 1 THEN 0 ELSE u[j - 1].depth) + 1
                                        [] u[j].tag % 8 = 4 -> (IF j = 1 THEN 0 ELSE u[j - 1].depth) - 1
                                        [] OTHER -> (IF j = 1 THEN 0 ELSE u[j - 1].depth)
      /\ \A j \in 1..n : j < n => u[j].depth > 0
      /\ u[n].depth = 0
      /\ Signed(u[1].tag \div 8, TagWord) > 0
      /\ Signed(u[1].tag \div 8, TagWord) \notin DOMAIN Cases[t] /\ u[1].tag % 8 # 4
  BY <1>2 DEF IsUnknownField
<1>4. \A j \in 1..n : c[j] = TokenBytes(u[j]) /\ c[j] \in Seq(Byte)
  BY <1>2, TokenBytesSeq
<1>5. c \in [1..n -> Seq(Byte)]
  BY <1>1, <1>2, LenProperties
<1> HIDE DEF n, c
<1>6. PICK H \in [0..n -> Seq(Byte)] : H[n] = tail /\ \A i \in 1..n : H[i - 1] = c[i] \o H[i]
  <2>1. n \in Nat
    BY <1>2
  <2> QED BY <1>5, <2>1, LastOnes
<1>7. FieldBytes(u) \o tail = H[0]
  <2>1. H \in [0..Len(c) -> Seq(Byte)] /\ H[Len(c)] = tail /\ \A i \in 1..Len(c) : H[i - 1] = c[i] \o H[i]
    BY <1>2, <1>6
  <2> QED BY <1>1, <2>1, FlattenIsFirst
<1> DEFINE Q == {<<H[i], d(i)>> : i \in 0..n - 1}
<1>8. ASSUME NEW i \in 0..n - 1
      PROVE  /\ i + 1 \in 1..n /\ (i + 1) - 1 = i /\ H[i] \in Seq(Byte) /\ H[i + 1] \in Seq(Byte)
             /\ d(i) \in Nat /\ u[i + 1] \in Tokens
             /\ H[i] = TokenBytes(u[i + 1]) \o H[i + 1]
             /\ Skippable(u[i + 1], d(i))
  <2>1. i + 1 \in 1..n /\ (i + 1) - 1 = i /\ i \in 0..n /\ i + 1 \in 0..n
    BY <1>2
  <2>2. H[i] = TokenBytes(u[i + 1]) \o H[i + 1]
    BY <1>4, <1>6, <2>1
  <2>3. d(i) \in Nat
    <3>1. CASE i = 0
      BY <3>1
    <3>2. CASE i # 0
      <4>1. i \in 1..n
        BY <2>1, <3>2
      <4> QED BY <1>2, <3>2, <4>1 DEF Tokens
    <3> QED BY <3>1, <3>2
  <2>4. d(i) = IF i + 1 = 1 THEN 0 ELSE u[(i + 1) - 1].depth
    BY <2>1
  <2> DEFINE j == i + 1
  <2> HIDE DEF d
  <2>5. /\ u[j].tag % 8 \in 0..5
        /\ u[j].tag % 8 = 1 => Len(u[j].data) = 8
        /\ u[j].tag % 8 = 5 => Len(u[j].data) = 4
    BY <1>3, <2>1
  <2>6. u[j].depth = CASE u[j].tag % 8 = 3 -> d(i) + 1
                       [] u[j].tag % 8 = 4 -> d(i) - 1
                       [] OTHER -> d(i)
    <3>1. j \in 1..n /\ d(i) = IF j = 1 THEN 0 ELSE u[j - 1].depth
      BY <2>1, <2>4
    <3> HIDE DEF j
    <3> QED BY <1>3, <3>1
  <2>7. Skippable(u[j], d(i))
    BY <2>5, <2>6 DEF Skippable
  <2> QED BY <1>2, <1>6, <2>1, <2>2, <2>3, <2>7
<1>9. Q \subseteq Seq(Byte) \X Nat
  <2> HIDE DEF d
  <2>1. \A i \in 0..n - 1 : <<H[i], d(i)>> \in Seq(Byte) \X Nat
    BY <1>8
  <2> QED BY <2>1
<1>10. ASSUME NEW p \in Q
       PROVE  \E k \in Tokens, s \in Seq(Byte) :
                /\ p[1] = TokenBytes(k) \o s /\ Skippable(k, p[2])
                /\ IF k.depth = 0 THEN s = tail ELSE <<s, k.depth>> \in Q
  <2>1. PICK i \in 0..n - 1 : p = <<H[i], d(i)>>
    OBVIOUS
  <2> DEFINE k == u[i + 1]
             s == H[i + 1]
  <2>2. k \in Tokens /\ s \in Seq(Byte) /\ p[1] = TokenBytes(k) \o s /\ Skippable(k, p[2]) /\ i + 1 \in 1..n
    <3> HIDE DEF d
    <3>1. p[1] = H[i] /\ p[2] = d(i)
      BY <2>1
    <3> QED BY <1>8, <3>1
  <2>3. k.depth = 0 => s = tail
    <3> SUFFICES ASSUME k.depth = 0 PROVE s = tail
      OBVIOUS
    <3>1. ~(i + 1 < n)
      BY <1>3, <2>2
    <3>2. i + 1 = n
      BY <1>2, <2>2, <3>1
    <3> QED BY <1>6, <3>2
  <2>4. k.depth # 0 => <<s, k.depth>> \in Q
    <3> SUFFICES ASSUME k.depth # 0 PROVE <<s, k.depth>> \in Q
      OBVIOUS
    <3>1. i + 1 # n
      BY <1>3
    <3>2. i + 1 \in 0..n - 1 /\ i + 1 # 0
      BY <1>2, <2>2, <3>1
    <3>3. d(i + 1) = k.depth
      BY <3>2
    <3> QED BY <3>2, <3>3
  <2> HIDE DEF k, s, Q
  <2> QED BY <2>2, <2>3, <2>4
<1>11. 0 \in 0..n - 1 /\ 1 \in 1..n /\ 0 + 1 = 1
  BY <1>2
<1>12. <<H[0], 0>> \in Q
  <2>1. d(0) = 0
    OBVIOUS
  <2> QED BY <1>11, <2>1
<1>13. FirstUnknown(t, u[1]) /\ H[1] \in Seq(Byte) /\ H[0] = TokenBytes(u[1]) \o H[1]
  <2>1. H[0] = TokenBytes(u[1]) \o H[1] /\ H[1] \in Seq(Byte)
    <3> HIDE DEF d
    <3> QED BY <1>8, <1>11
  <2>2. u[1] \in Tokens
    BY <1>2, <1>11
  <2> QED BY <1>3, <2>1, <2>2 DEF FirstUnknown, number
<1>14. SkipPlan(Q, tail)
  <2> HIDE DEF Q
  <2> QED BY <1>9, <1>10 DEF SkipPlan
<1> HIDE DEF Q
<1> QED BY <1>7, <1>12, <1>13, <1>14 DEF CanSkip, StartsUnknown

-----------------------------------------------------------------------------
(* What comes next on a way through a slice *)

NextField(t, R, mode, p, k, tail) ==
  /\ k \in Tokens /\ tail \in Seq(Byte) /\ p[1] = TokenBytes(k) \o tail
  /\ \/ \E q \in R : tail = q[1] /\ Known(t, k, p[2], q[2])
     \/ mode = "joined" /\ FirstUnknown(t, k) /\ UnknownStep(t, R, p)

LEMMA HasNext ==
  ASSUME NEW t, NEW R, NEW last, NEW mode, Plan(t, R, last, mode), NEW p \in R, p # <<<<>>, last>>
  PROVE  \E k, tail : NextField(t, R, mode, p, k, tail)
<1>1. /\ KnownStep(t, R, p) \/ (mode = "joined" /\ UnknownStep(t, R, p))
      /\ R \subseteq Seq(Byte) \X Message[t]
  BY DEF Plan
<1>2. CASE KnownStep(t, R, p)
  <2>1. PICK k \in Tokens, q \in R : p[1] = TokenBytes(k) \o q[1] /\ Known(t, k, p[2], q[2])
    BY <1>2 DEF KnownStep
  <2>2. q[1] \in Seq(Byte)
    BY <1>1
  <2> QED BY <2>1, <2>2 DEF NextField
<1>3. CASE mode = "joined" /\ UnknownStep(t, R, p)
  <2>1. PICK q \in R : Unknown(t, p[1], q[1]) /\ q[2] = p[2]
    BY <1>3 DEF UnknownStep
  <2>2. PICK u : IsUnknownField(t, u) /\ u # <<>> /\ p[1] = FieldBytes(u) \o q[1]
    BY <2>1 DEF Unknown
  <2>3. q[1] \in Seq(Byte)
    BY <1>1
  <2>4. StartsUnknown(t, p[1])
    <3> DEFINE tail == q[1]
    <3>1. tail \in Seq(Byte) /\ p[1] = FieldBytes(u) \o tail
      BY <2>2, <2>3
    <3> HIDE DEF tail
    <3>2. StartsUnknown(t, FieldBytes(u) \o tail)
      BY <2>2, <3>1, UnknownPlan
    <3> QED BY <3>1, <3>2
  <2>5. PICK k, s : FirstUnknown(t, k) /\ s \in Seq(Byte) /\ p[1] = TokenBytes(k) \o s
    BY <2>4 DEF StartsUnknown
  <2>6. k \in Tokens
    BY <2>5 DEF FirstUnknown
  <2> QED BY <1>3, <2>5, <2>6 DEF NextField
<1> QED BY <1>1, <1>2, <1>3

-----------------------------------------------------------------------------
(* Where a call is on its way *)

\* Varint v is being read, or has been, and s comes after it.
Got(half, v, x, F, pos, s) ==
  /\ x.acc \in Nat /\ x.weight \in Nat \ {0}
  /\ half => Left(v, x, F, pos, s)
  /\ ~half => x.acc = v /\ Ahead(F, pos, s)

Half1(at) == at \in {"tag", "len", "num"}

PlaceLoop(f, at, F, R) ==
  at = "loop" /\ \E p \in R : p[2] = f.m /\ Ahead(F, f.at, p[1])

PlaceTag(f, at, x, F, t, R, mode) ==
  /\ at \in {"tag", "tagged"}
  /\ \E p \in R : \E k, tail :
       /\ NextField(t, R, mode, p, k, tail) /\ p[2] = f.m /\ Ahead(F, f.pre, p[1])
       /\ Got(Half1(at), k.tag, x, F, f.at, Payload(k) \o tail)

PlaceLen(f, at, x, F, t, R) ==
  /\ at \in {"len", "measured"}
  /\ \E p, q \in R, k \in Tokens :
       /\ Known(t, k, p[2], q[2]) /\ p[2] = f.m /\ f.field = number(k) /\ k.tag % 8 = 2
       /\ Len(k.data) < Half /\ Got(Half1(at), Len(k.data), x, F, f.at, k.data \o q[1])

PlaceNum(f, at, x, F, t, R) ==
  /\ at \in {"num", "counted"}
  /\ \E p, q \in R, k \in Tokens :
       /\ Known(t, k, p[2], q[2]) /\ p[2] = f.m /\ f.field = number(k) /\ k.tag % 8 = 0
       /\ Got(Half1(at), k.num, x, F, f.at, q[1])

Place(f, at, x, F, t, R, mode) ==
  \/ PlaceLoop(f, at, F, R)
  \/ PlaceTag(f, at, x, F, t, R, mode)
  \/ PlaceLen(f, at, x, F, t, R)
  \/ PlaceNum(f, at, x, F, t, R)

\* The slice a call reads is all of F, or what arrived of it.
Covers(d, F, mode) ==
  /\ d \in Seq(Byte) /\ F \in Seq(Byte) /\ Len(F) < Half
  /\ \E e \in Seq(Byte) : F = d \o e /\ (mode # "cut" => e = <<>>)

Way(f, at, x, F, t, R, last, mode) ==
  /\ t \in Messages /\ f.fn = t /\ Covers(f.d, F, mode)
  /\ Plan(t, R, last, mode) /\ Place(f, at, x, F, t, R, mode)

LEMMA CoversBytes ==
  ASSUME NEW d, NEW F, NEW mode, Covers(d, F, mode)
  PROVE  /\ d \in Seq(Byte) /\ F \in Seq(Byte) /\ Len(d) \in Nat /\ Len(F) \in Nat
         /\ Len(d) <= Len(F) /\ Len(F) < Half
         /\ \A i \in 1..Len(d) : d[i] = F[i]
         /\ mode # "cut" => d = F
<1>1. PICK e \in Seq(Byte) : F = d \o e /\ (mode # "cut" => e = <<>>)
  BY DEF Covers
<1>2. d \in Seq(Byte) /\ F \in Seq(Byte) /\ Len(F) < Half /\ Len(d) \in Nat /\ Len(e) \in Nat
  BY DEF Covers
<1>3. /\ Len(d \o e) = Len(d) + Len(e)
      /\ \A i \in 1..Len(d) + Len(e) : (d \o e)[i] = IF i <= Len(d) THEN d[i] ELSE e[i - Len(d)]
  BY <1>1, <1>2, ConcatProperties
<1>4. \A i \in 1..Len(d) : d[i] = F[i]
  <2>1. \A i \in 1..Len(d) : i \in 1..Len(d) + Len(e) /\ i <= Len(d)
    BY <1>2
  <2> QED BY <1>1, <1>3, <2>1
<1>5. mode # "cut" => d = F
  BY <1>1, <1>2, NoBytes
<1>6. Len(F) = Len(d) + Len(e)
  BY <1>1, <1>3
<1> QED BY <1>2, <1>4, <1>5, <1>6

LEMMA GotByte ==
  ASSUME NEW v \in 0..Word - 1, NEW s \in Seq(Byte), NEW F \in Seq(Byte), NEW pos, NEW x,
         Got(TRUE, v, x, F, pos, s), NEW b, b = F[pos + 1], NEW y,
         y = [acc |-> (x.acc + (b % 128) * x.weight) % Word, weight |-> x.weight * 128]
  PROVE  /\ x.weight < Word /\ pos \in Nat /\ pos < Len(F) /\ b \in Byte
         /\ Got(b >= 128, v, y, F, pos + 1, s)
<1> DEFINE acc == x.acc
           weight == x.weight
           acc1 == (acc + (b % 128) * weight) % Word
<1>1. acc \in Nat /\ weight \in Nat \ {0} /\ Left(v, x, F, pos, s)
  BY DEF Got
<1> HIDE DEF acc, weight
<1>2. Left(v, [acc |-> acc, weight |-> weight], F, pos, s)
  BY <1>1 DEF Left, acc, weight
<1>3. /\ weight < Word /\ pos \in Nat /\ pos < Len(F) /\ b \in Byte
      /\ b < 128 => acc1 = v /\ Ahead(F, pos + 1, s)
      /\ b >= 128 => Left(v, [acc |-> acc1, weight |-> weight * 128], F, pos + 1, s)
  BY <1>1, <1>2, LeftByte
<1>4. acc1 \in Nat
  <2>1. (b % 128) * weight \in Nat
    <3>1. b % 128 \in Nat
      BY <1>3 DEF Byte
    <3> DEFINE c == b % 128
    <3> HIDE DEF c
    <3> QED BY <1>1, <3>1, TimesNat DEF c
  <2> DEFINE c == (b % 128) * weight
  <2>2. acc + c \in Int /\ Word \in Nat \ {0}
    BY <1>1, <2>1, WordAssumption
  <2> HIDE DEF c
  <2>3. (acc + c) % Word \in 0..Word - 1
    BY <2>2, ModRange
  <2> QED BY <2>2, <2>3 DEF c
<1> HIDE DEF acc1
<1>5. y = [acc |-> acc1, weight |-> weight * 128]
  BY DEF acc1, acc, weight
<1>6. y.acc = acc1 /\ y.weight = weight * 128 /\ weight * 128 \in Nat \ {0}
  BY <1>1, <1>5
<1>7. b >= 128 => Left(v, y, F, pos + 1, s)
  BY <1>3, <1>5
<1>8. ~(b >= 128) => b < 128
  BY <1>3 DEF Byte
<1>9. Got(b >= 128, v, y, F, pos + 1, s)
  BY <1>3, <1>4, <1>6, <1>7, <1>8 DEF Got
<1> QED BY <1>3, <1>9 DEF weight

LEMMA TokenParts ==
  ASSUME NEW k \in Tokens
  PROVE  /\ k.tag \in 0..Word - 1 /\ k.num \in 0..Word - 1 /\ k.data \in Seq(Byte)
         /\ k.tag \in Nat /\ k.num \in Nat /\ Len(k.data) \in Nat /\ k.depth \in Nat
         /\ encodeVarintRpc[k.tag] \in Seq(Byte) /\ encodeVarintRpc[k.num] \in Seq(Byte)
         /\ encodeVarintRpc[Len(k.data)] \in Seq(Byte) /\ Payload(k) \in Seq(Byte)
<1>1. k.tag \in 0..Word - 1 /\ k.num \in 0..Word - 1 /\ k.data \in Seq(Byte) /\ k.depth \in Nat
  BY DEF Tokens
<1>2. k.tag \in Nat /\ k.num \in Nat /\ Len(k.data) \in Nat
  BY <1>1
<1> QED BY <1>1, <1>2, encodeType, TokenBytesSeq

\* A slice of fewer bytes than half the numbers of a word is as long as a number.
LEMMA LeftLength ==
  ASSUME NEW F \in Seq(Byte), Len(F) < Half, NEW pos, NEW s \in Seq(Byte), NEW x \in Seq(Byte),
         Ahead(F, pos, x \o s)
  PROVE  Len(x) \in 0..Word - 1 /\ pos + Len(x) <= Len(F) /\ Len(x) < Half
<1>1. Ahead(F, pos + Len(x), s)
  BY AheadAfter
<1>2. pos \in Nat /\ Len(x) \in Nat /\ Len(s) \in Nat /\ Len(F) = (pos + Len(x)) + Len(s)
  BY <1>1 DEF Ahead
<1> QED BY <1>2, HalfOfWord

LEMMA PlanTypes ==
  ASSUME NEW t, NEW R, NEW last, NEW mode, Plan(t, R, last, mode), NEW p \in R
  PROVE  p = <<p[1], p[2]>> /\ p[1] \in Seq(Byte) /\ p[2] \in Message[t]
BY DEF Plan

LEMMA ThenIs ==
  /\ DOMAIN Then = {"tag", "len", "num"}
  /\ Then.tag = "tagged" /\ Then.len = "measured" /\ Then.num = "counted"
  /\ \A at \in DOMAIN Then : Half1(at) /\ ~Half1(Then[at])
BY DEF Then, Half1

LEMMA FrameChanges ==
  ASSUME NEW f, FrameOK(f), NEW v
  PROVE  /\ [f EXCEPT !.at = v] = [fn |-> f.fn, d |-> f.d, at |-> v, pre |-> f.pre, field |-> f.field,
                                   depth |-> f.depth, m |-> f.m]
         /\ [f EXCEPT !.pre = v] = [fn |-> f.fn, d |-> f.d, at |-> f.at, pre |-> v, field |-> f.field,
                                    depth |-> f.depth, m |-> f.m]
         /\ [f EXCEPT !.field = v] = [fn |-> f.fn, d |-> f.d, at |-> f.at, pre |-> f.pre, field |-> v,
                                      depth |-> f.depth, m |-> f.m]
         /\ [f EXCEPT !.m = v] = [fn |-> f.fn, d |-> f.d, at |-> f.at, pre |-> f.pre, field |-> f.field,
                                  depth |-> f.depth, m |-> v]
<1>1. [f EXCEPT !.at = v] = [fn |-> f.fn, d |-> f.d, at |-> v, pre |-> f.pre, field |-> f.field,
                             depth |-> f.depth, m |-> f.m]
  BY DEF FrameOK
<1>2. [f EXCEPT !.pre = v] = [fn |-> f.fn, d |-> f.d, at |-> f.at, pre |-> v, field |-> f.field,
                              depth |-> f.depth, m |-> f.m]
  BY DEF FrameOK
<1>3. [f EXCEPT !.field = v] = [fn |-> f.fn, d |-> f.d, at |-> f.at, pre |-> f.pre, field |-> v,
                                depth |-> f.depth, m |-> f.m]
  BY DEF FrameOK
<1>4. [f EXCEPT !.m = v] = [fn |-> f.fn, d |-> f.d, at |-> f.at, pre |-> f.pre, field |-> f.field,
                            depth |-> f.depth, m |-> v]
  BY DEF FrameOK
<1> QED BY <1>1, <1>2, <1>3, <1>4

\* Where the loop over the bytes of a varint goes on after byte b.
LEMMA ThenTo ==
  ASSUME NEW at \in DOMAIN Then, NEW b \in Byte, NEW to, to = IF b < 128 THEN Then[at] ELSE at
  PROVE  /\ Half1(at) /\ (b < 128 => ~Half1(to)) /\ (b >= 128 => Half1(to))
         /\ b < 128 \/ b >= 128
         /\ at = "tag" => to \in {"tag", "tagged"}
         /\ at = "len" => to \in {"len", "measured"}
         /\ at = "num" => to \in {"num", "counted"}
<1>1. b \in Int
  BY DEF Byte
<1>2. Half1(at) /\ ~Half1(Then[at])
  BY ThenIs
<1>3. /\ at = "tag" => Then[at] = "tagged"
      /\ at = "len" => Then[at] = "measured"
      /\ at = "num" => Then[at] = "counted"
  BY ThenIs
<1>4. CASE b < 128
  <2>1. to = Then[at] /\ ~(b >= 128)
    BY <1>1, <1>4
  <2> QED BY <1>2, <1>3, <1>4, <2>1
<1>5. CASE ~(b < 128)
  <2>1. to = at /\ b >= 128
    BY <1>1, <1>5
  <2> QED BY <1>2, <1>5, <2>1
<1> QED BY <1>4, <1>5

\* One more byte of a varint.
LEMMA GotMore ==
  ASSUME NEW F \in Seq(Byte), NEW pos, NEW at \in DOMAIN Then, NEW b \in Byte, b = F[pos + 1],
         NEW to, to = IF b < 128 THEN Then[at] ELSE at, NEW x, NEW y,
         y = [acc |-> (x.acc + (b % 128) * x.weight) % Word, weight |-> x.weight * 128],
         NEW v \in 0..Word - 1, NEW s \in Seq(Byte), Got(Half1(at), v, x, F, pos, s)
  PROVE  Got(Half1(to), v, y, F, pos + 1, s)
<1>1. /\ Half1(at) /\ (b < 128 => ~Half1(to)) /\ (b >= 128 => Half1(to))
      /\ b < 128 \/ b >= 128
  BY ThenTo
<1>2. Got(TRUE, v, x, F, pos, s)
  BY <1>1 DEF Got
<1>3. Got(b >= 128, v, y, F, pos + 1, s)
  BY <1>2, GotByte
<1> QED BY <1>1, <1>3 DEF Got

\* A varint that is read has more bytes, and room for them.
LEMMA GotRoom ==
  ASSUME NEW F \in Seq(Byte), NEW pos, NEW at \in DOMAIN Then, NEW x,
         NEW v \in 0..Word - 1, NEW s \in Seq(Byte), Got(Half1(at), v, x, F, pos, s)
  PROVE  x.weight < Word /\ pos \in Nat /\ pos < Len(F)
<1>1. Half1(at)
  BY ThenIs
<1>2. Got(TRUE, v, x, F, pos, s)
  BY <1>1 DEF Got
<1> DEFINE b == F[pos + 1]
           y == [acc |-> (x.acc + (b % 128) * x.weight) % Word, weight |-> x.weight * 128]
<1> QED BY <1>2, GotByte

LEMMA WayByte ==
  ASSUME NEW f, FrameOK(f), NEW at \in DOMAIN Then, NEW x, NEW F, NEW t, NEW R, NEW last, NEW mode,
         Way(f, at, x, F, t, R, last, mode), f.at < Len(f.d),
         NEW b, b = f.d[f.at + 1], NEW y,
         y = [acc |-> (x.acc + (b % 128) * x.weight) % Word, weight |-> x.weight * 128]
  PROVE  Way([f EXCEPT !.at = f.at + 1], IF b < 128 THEN Then[at] ELSE at, y, F, t, R, last, mode)
<1> DEFINE g == [f EXCEPT !.at = f.at + 1]
           to == IF b < 128 THEN Then[at] ELSE at
           pos == f.at
<1>1. /\ g.fn = f.fn /\ g.d = f.d /\ g.at = pos + 1 /\ g.pre = f.pre /\ g.field = f.field /\ g.m = f.m
  BY FrameChanges
<1>2. Covers(f.d, F, mode) /\ Plan(t, R, last, mode) /\ t \in Messages /\ f.fn = t
  BY DEF Way
<1>3. F \in Seq(Byte) /\ b = F[pos + 1] /\ b \in Byte /\ Len(F) < Half
  <2>1. pos + 1 \in 1..Len(f.d)
    BY DEF FrameOK
  <2>2. f.d[pos + 1] = F[pos + 1] /\ f.d \in Seq(Byte) /\ F \in Seq(Byte) /\ Len(F) < Half
    BY <1>2, <2>1, CoversBytes
  <2> QED BY <2>1, <2>2, ElementOfSeq
<1> HIDE DEF g, to
<1>t. to = IF b < 128 THEN Then[at] ELSE at
  BY DEF to
<1>4. /\ at = "tag" => to \in {"tag", "tagged"}
      /\ at = "len" => to \in {"len", "measured"}
      /\ at = "num" => to \in {"num", "counted"}
  BY <1>3, <1>t, ThenTo
<1>5. ASSUME NEW v \in 0..Word - 1, NEW s \in Seq(Byte), Got(Half1(at), v, x, F, pos, s)
      PROVE  Got(Half1(to), v, y, F, g.at, s)
  <2> HIDE DEF pos
  <2>1. Got(Half1(to), v, y, F, pos + 1, s)
    BY <1>3, <1>5, <1>t, GotMore
  <2> QED BY <1>1, <2>1
<1>6. CASE PlaceTag(f, at, x, F, t, R, mode)
  <2>1. PICK p \in R : \E k, tail :
       /\ NextField(t, R, mode, p, k, tail) /\ p[2] = f.m /\ Ahead(F, f.pre, p[1])
       /\ Got(Half1(at), k.tag, x, F, f.at, Payload(k) \o tail)
    BY <1>6 DEF PlaceTag
  <2>2. PICK k, tail :
       /\ NextField(t, R, mode, p, k, tail) /\ p[2] = f.m /\ Ahead(F, f.pre, p[1])
       /\ Got(Half1(at), k.tag, x, F, f.at, Payload(k) \o tail)
    BY <2>1
  <2>3. k.tag \in 0..Word - 1 /\ Payload(k) \o tail \in Seq(Byte)
    <3>1. k \in Tokens /\ tail \in Seq(Byte)
      BY <2>2 DEF NextField
    <3> QED BY <3>1, TokenParts, TwoParts
  <2>4. Got(Half1(to), k.tag, y, F, g.at, Payload(k) \o tail)
    BY <1>5, <2>2, <2>3
  <2>5. to \in {"tag", "tagged"}
    BY <1>4, <1>6, ThenIs DEF PlaceTag
  <2>6. PlaceTag(g, to, y, F, t, R, mode)
    BY <1>1, <2>2, <2>4, <2>5 DEF PlaceTag
  <2> QED BY <1>1, <1>2, <2>6 DEF Way, Place, g, to
<1>7. CASE PlaceLen(f, at, x, F, t, R)
  <2>1. PICK p \in R, q \in R, k \in Tokens :
       /\ Known(t, k, p[2], q[2]) /\ p[2] = f.m /\ f.field = number(k) /\ k.tag % 8 = 2
       /\ Len(k.data) < Half /\ Got(Half1(at), Len(k.data), x, F, f.at, k.data \o q[1])
    BY <1>7 DEF PlaceLen
  <2>2. q[1] \in Seq(Byte) /\ k.data \in Seq(Byte) /\ Len(k.data) \in Nat
    BY <1>2, PlanTypes, TokenParts
  <2>3. Len(k.data) \in 0..Word - 1 /\ k.data \o q[1] \in Seq(Byte)
    BY <2>1, <2>2, TwoParts, HalfOfWord
  <2>4. Got(Half1(to), Len(k.data), y, F, g.at, k.data \o q[1])
    BY <1>5, <2>1, <2>3
  <2>5. to \in {"len", "measured"}
    BY <1>4, <1>7, ThenIs DEF PlaceLen
  <2>6. PlaceLen(g, to, y, F, t, R)
    BY <1>1, <2>1, <2>4, <2>5 DEF PlaceLen
  <2> QED BY <1>1, <1>2, <2>6 DEF Way, Place, g, to
<1>8. CASE PlaceNum(f, at, x, F, t, R)
  <2>1. PICK p \in R, q \in R, k \in Tokens :
       /\ Known(t, k, p[2], q[2]) /\ p[2] = f.m /\ f.field = number(k) /\ k.tag % 8 = 0
       /\ Got(Half1(at), k.num, x, F, f.at, q[1])
    BY <1>8 DEF PlaceNum
  <2>2. q[1] \in Seq(Byte) /\ k.num \in 0..Word - 1
    BY <1>2, PlanTypes, TokenParts
  <2>4. Got(Half1(to), k.num, y, F, g.at, q[1])
    BY <1>5, <2>1, <2>2
  <2>5. to \in {"num", "counted"}
    BY <1>4, <1>8, ThenIs DEF PlaceNum
  <2>6. PlaceNum(g, to, y, F, t, R)
    BY <1>1, <2>1, <2>4, <2>5 DEF PlaceNum
  <2> QED BY <1>1, <1>2, <2>6 DEF Way, Place, g, to
<1>9. ~PlaceLoop(f, at, F, R)
  BY ThenIs DEF PlaceLoop
<1> QED BY <1>6, <1>7, <1>8, <1>9 DEF Way, Place

\* The start of a field.
LEMMA WayField ==
  ASSUME NEW f, FrameOK(f), NEW x, NEW F, NEW t, NEW R, NEW last, NEW mode,
         Way(f, "loop", x, F, t, R, last, mode), f.at < Len(f.d)
  PROVE  Way([f EXCEPT !.pre = f.at], "tag", NoBits, F, t, R, last, mode)
<1> DEFINE g == [f EXCEPT !.pre = f.at]
<1>1. /\ g.fn = f.fn /\ g.d = f.d /\ g.at = f.at /\ g.pre = f.at /\ g.field = f.field /\ g.m = f.m
  BY FrameChanges
<1>2. Covers(f.d, F, mode) /\ Plan(t, R, last, mode) /\ t \in Messages /\ f.fn = t
  BY DEF Way
<1>3. PICK p \in R : p[2] = f.m /\ Ahead(F, f.at, p[1])
  BY DEF Way, Place, PlaceLoop, PlaceTag, PlaceLen, PlaceNum
<1>4. p # <<<<>>, last>>
  <2>1. Len(F) = f.at + Len(p[1]) /\ Len(f.d) <= Len(F) /\ f.at \in Nat /\ Len(f.d) \in Nat
    BY <1>2, <1>3, CoversBytes DEF Ahead
  <2>2. Len(p[1]) # 0
    BY <2>1
  <2>3. ASSUME p = <<<<>>, last>> PROVE FALSE
    <3>1. p[1] = <<>>
      BY <2>3
    <3> QED BY <2>2, <3>1
  <2> QED BY <2>3
<1>5. PICK k, tail : NextField(t, R, mode, p, k, tail)
  BY <1>2, <1>4, HasNext
<1>6. k \in Tokens /\ tail \in Seq(Byte) /\ p[1] = TokenBytes(k) \o tail
  BY <1>5 DEF NextField
<1>7. p[1] = encodeVarintRpc[k.tag] \o (Payload(k) \o tail)
  BY <1>6, TokenParts, ThreeParts DEF TokenBytes
<1>8. Got(TRUE, k.tag, NoBits, F, f.at, Payload(k) \o tail)
  <2>1. Ahead(F, f.at, encodeVarintRpc[k.tag] \o (Payload(k) \o tail))
    BY <1>3, <1>7
  <2>2. Left(k.tag, NoBits, F, f.at, Payload(k) \o tail)
    BY <1>6, <2>1, TokenParts, LeftAtStart
  <2> QED BY <2>2 DEF Got, NoBits
<1> HIDE DEF g
<1>9. PlaceTag(g, "tag", NoBits, F, t, R, mode)
  BY <1>1, <1>3, <1>5, <1>8 DEF PlaceTag, Half1
<1> QED BY <1>1, <1>2, <1>9 DEF Way, Place, g

LEMMA WayGot ==
  ASSUME NEW f, NEW at \in DOMAIN Then, NEW x, NEW F, NEW t, NEW R, NEW last, NEW mode,
         Way(f, at, x, F, t, R, last, mode)
  PROVE  \E v \in 0..Word - 1, s \in Seq(Byte) : Got(Half1(at), v, x, F, f.at, s)
<1>1. Plan(t, R, last, mode) /\ Place(f, at, x, F, t, R, mode)
  BY DEF Way
<1>2. CASE PlaceTag(f, at, x, F, t, R, mode)
  <2>1. PICK p \in R : \E k, tail :
          NextField(t, R, mode, p, k, tail) /\ Got(Half1(at), k.tag, x, F, f.at, Payload(k) \o tail)
    BY <1>2 DEF PlaceTag
  <2>2. PICK k, tail :
          NextField(t, R, mode, p, k, tail) /\ Got(Half1(at), k.tag, x, F, f.at, Payload(k) \o tail)
    BY <2>1
  <2>3. k \in Tokens /\ tail \in Seq(Byte)
    BY <2>2 DEF NextField
  <2>4. k.tag \in 0..Word - 1 /\ Payload(k) \o tail \in Seq(Byte)
    BY <2>3, TokenParts, TwoParts
  <2> QED BY <2>2, <2>4
<1>3. CASE PlaceLen(f, at, x, F, t, R)
  <2>1. PICK q \in R, k \in Tokens :
          Len(k.data) < Half /\ Got(Half1(at), Len(k.data), x, F, f.at, k.data \o q[1])
    BY <1>3 DEF PlaceLen
  <2>2. q[1] \in Seq(Byte) /\ k.data \in Seq(Byte) /\ Len(k.data) \in Nat
    BY <1>1, PlanTypes, TokenParts
  <2>3. Len(k.data) \in 0..Word - 1 /\ k.data \o q[1] \in Seq(Byte)
    BY <2>1, <2>2, TwoParts, HalfOfWord
  <2> QED BY <2>1, <2>3
<1>4. CASE PlaceNum(f, at, x, F, t, R)
  <2>1. PICK q \in R, k \in Tokens : Got(Half1(at), k.num, x, F, f.at, q[1])
    BY <1>4 DEF PlaceNum
  <2>2. q[1] \in Seq(Byte) /\ k.num \in 0..Word - 1
    BY <1>1, PlanTypes, TokenParts
  <2> QED BY <2>1, <2>2
<1>5. ~PlaceLoop(f, at, F, R)
  BY ThenIs DEF PlaceLoop
<1> QED BY <1>1, <1>2, <1>3, <1>4, <1>5 DEF Place

\* A varint of a whole slice never fails.
LEMMA WayRoom ==
  ASSUME NEW f, NEW at \in DOMAIN Then, NEW x, NEW F, NEW t, NEW R, NEW last, NEW mode,
         Way(f, at, x, F, t, R, last, mode), mode # "cut"
  PROVE  x.weight < Word /\ f.at < Len(f.d) /\ x.weight \in Nat /\ f.at \in Nat
<1>1. Covers(f.d, F, mode)
  BY DEF Way
<1>2. f.d = F /\ F \in Seq(Byte)
  BY <1>1, CoversBytes
<1>3. PICK v \in 0..Word - 1, s \in Seq(Byte) : Got(Half1(at), v, x, F, f.at, s)
  BY WayGot
<1>4. x.weight < Word /\ f.at \in Nat /\ f.at < Len(F)
  BY <1>2, <1>3, GotRoom
<1> QED BY <1>2, <1>3, <1>4 DEF Got

-----------------------------------------------------------------------------
(* A tag *)

LEMMA PayloadIs ==
  ASSUME NEW k
  PROVE  /\ k.tag % 8 = 0 => Payload(k) = encodeVarintRpc[k.num]
         /\ k.tag % 8 = 2 => Payload(k) = encodeVarintRpc[Len(k.data)] \o k.data
         /\ k.tag % 8 \in {1, 5} => Payload(k) = k.data
         /\ k.tag % 8 \in {3, 4} => Payload(k) = <<>>
<1> DEFINE w == k.tag % 8
<1>1. Payload(k) = CASE w = 0 -> encodeVarintRpc[k.num]
                     [] w = 2 -> encodeVarintRpc[Len(k.data)] \o k.data
                     [] w \in {1, 5} -> k.data
                     [] OTHER -> <<>>
  BY DEF Payload
<1> HIDE DEF w
<1>2. w = 0 => Payload(k) = encodeVarintRpc[k.num]
  BY <1>1
<1> DEFINE y == encodeVarintRpc[Len(k.data)] \o k.data
<1>y. Payload(k) = CASE w = 0 -> encodeVarintRpc[k.num] [] w = 2 -> y
                     [] w \in {1, 5} -> k.data [] OTHER -> <<>>
  BY <1>1
<1> HIDE DEF y
<1>3. w = 2 => Payload(k) = y
  BY <1>y
<1>4. w \in {1, 5} => Payload(k) = k.data
  BY <1>1
<1>5. w \in {3, 4} => Payload(k) = <<>>
  BY <1>1
<1> QED BY <1>2, <1>3, <1>4, <1>5 DEF w, y

LEMMA CasesFromOne ==
  ASSUME NEW t \in Messages, NEW n \in DOMAIN Cases[t]
  PROVE  n > 0
<1>1. CASE t \in {"Record", "ConfigRes", "CreateRecordReq", "ListRecordReq"}
  BY <1>1 DEF Cases, UnmarshalRecord, UnmarshalConfigRes, UnmarshalCreateRecordReq, UnmarshalListRecordReq
<1>2. CASE t \in {"HealthReq", "ConfigReq"}
  BY <1>2 DEF Cases, UnmarshalHealthReq, UnmarshalConfigReq
<1>3. CASE t \in {"HealthRes", "CreateRecordRes", "GetRecordReq", "GetRecordRes", "ListRecordRes"}
  BY <1>3 DEF Cases, UnmarshalHealthRes, UnmarshalCreateRecordRes, UnmarshalGetRecordReq,
              UnmarshalGetRecordRes, UnmarshalListRecordRes
<1> QED BY <1>1, <1>2, <1>3, TypesAre

LEMMA KnownIs ==
  ASSUME NEW t, NEW k, NEW m, NEW m1, Known(t, k, m, m1)
  PROVE  /\ number(k) \in DOMAIN Cases[t] /\ k.tag % 8 = WireTypeOf(Cases[t][number(k)].kind)
         /\ k.tag % 8 \in {0, 2}
<1>1. \A kind : WireTypeOf(kind) \in {0, 2}
  BY DEF WireTypeOf
<1>2. CASE Plain(t, k, m, m1)
  BY <1>1, <1>2 DEF Plain
<1>3. CASE Embedded(t, k, m, m1)
  BY <1>3, WireTypes DEF Embedded
<1> QED BY <1>2, <1>3 DEF Known

\* What is known of a field once its tag is read.
Tagged(f, x, F, t, R, mode, p, k, tail) ==
  /\ NextField(t, R, mode, p, k, tail) /\ p[2] = f.m /\ Ahead(F, f.pre, p[1])
  /\ k \in Tokens /\ tail \in Seq(Byte)
  /\ x.acc = k.tag /\ Ahead(F, f.at, Payload(k) \o tail)

LEMMA WayTagged ==
  ASSUME NEW f, NEW x, NEW F, NEW t, NEW R, NEW last, NEW mode,
         Way(f, "tagged", x, F, t, R, last, mode)
  PROVE  \E p \in R : \E k, tail : Tagged(f, x, F, t, R, mode, p, k, tail)
<1>1. PlaceTag(f, "tagged", x, F, t, R, mode)
  BY DEF Way, Place, PlaceLoop, PlaceLen, PlaceNum
<1>2. PICK p \in R : \E k, tail :
       /\ NextField(t, R, mode, p, k, tail) /\ p[2] = f.m /\ Ahead(F, f.pre, p[1])
       /\ Got(Half1("tagged"), k.tag, x, F, f.at, Payload(k) \o tail)
  BY <1>1 DEF PlaceTag
<1>3. PICK k, tail :
       /\ NextField(t, R, mode, p, k, tail) /\ p[2] = f.m /\ Ahead(F, f.pre, p[1])
       /\ Got(Half1("tagged"), k.tag, x, F, f.at, Payload(k) \o tail)
  BY <1>2
<1>4. ~Half1("tagged")
  BY DEF Half1
<1>5. Tagged(f, x, F, t, R, mode, p, k, tail)
  BY <1>3, <1>4 DEF Tagged, Got, NextField
<1> QED BY <1>5

\* A field the message has is entered, and has the wire type of its kind.
LEMMA WayEnters ==
  ASSUME NEW f, FrameOK(f), NEW x, NEW F, NEW t, NEW R, NEW last, NEW mode,
         Way(f, "tagged", x, F, t, R, last, mode), NEW n, n = Signed(x.acc \div 8, TagWord),
         n \in DOMAIN Cases[t]
  PROVE  /\ n > 0 /\ x.acc % 8 = WireTypeOf(Cases[t][n].kind) /\ x.acc % 8 \in {0, 2}
         /\ Way([f EXCEPT !.field = n], IF x.acc % 8 = 0 THEN "num" ELSE "len", NoBits, F, t, R, last, mode)
<1> DEFINE g == [f EXCEPT !.field = n]
<1>1. /\ g.fn = f.fn /\ g.d = f.d /\ g.at = f.at /\ g.pre = f.pre /\ g.field = n /\ g.m = f.m
  BY FrameChanges
<1>2. Covers(f.d, F, mode) /\ Plan(t, R, last, mode) /\ t \in Messages /\ f.fn = t
  BY DEF Way
<1>3. F \in Seq(Byte) /\ Len(F) < Half
  BY <1>2, CoversBytes
<1>p. PICK p \in R : \E k, tail : Tagged(f, x, F, t, R, mode, p, k, tail)
  BY WayTagged
<1>4. PICK k, tail : Tagged(f, x, F, t, R, mode, p, k, tail)
  BY <1>p
<1>5. /\ NextField(t, R, mode, p, k, tail) /\ p[2] = f.m /\ k \in Tokens /\ tail \in Seq(Byte)
      /\ x.acc = k.tag /\ Ahead(F, f.at, Payload(k) \o tail)
  BY <1>4 DEF Tagged
<1>6. number(k) = n
  BY <1>5 DEF number
<1>7. PICK q \in R : tail = q[1] /\ Known(t, k, p[2], q[2])
  BY <1>5, <1>6 DEF NextField, FirstUnknown
<1>8. k.tag % 8 = WireTypeOf(Cases[t][n].kind) /\ k.tag % 8 \in {0, 2}
  BY <1>6, <1>7, KnownIs
<1>9. n > 0
  BY <1>2, CasesFromOne
<1> HIDE DEF g
<1>10. CASE k.tag % 8 = 0
  <2>1. Payload(k) = encodeVarintRpc[k.num]
    BY <1>10, PayloadIs
  <2>2. Ahead(F, f.at, encodeVarintRpc[k.num] \o q[1]) /\ k.num \in Nat
    BY <1>5, <1>7, <2>1, TokenParts
  <2>3. Left(k.num, NoBits, F, f.at, q[1])
    BY <2>2, LeftAtStart
  <2>4. Got(TRUE, k.num, NoBits, F, f.at, q[1])
    BY <2>3 DEF Got, NoBits
  <2>5. PlaceNum(g, "num", NoBits, F, t, R)
    BY <1>1, <1>5, <1>6, <1>7, <1>10, <2>4 DEF PlaceNum, Half1
  <2>6. Way(g, "num", NoBits, F, t, R, last, mode)
    BY <1>1, <1>2, <2>5 DEF Way, Place
  <2> QED BY <1>5, <1>8, <1>9, <1>10, <2>6 DEF g
<1>11. CASE k.tag % 8 = 2
  <2> DEFINE e == encodeVarintRpc[Len(k.data)]
             data == k.data
  <2>1. Payload(k) = e \o data
    BY <1>11, PayloadIs
  <2>2. e \in Seq(Byte) /\ data \in Seq(Byte) /\ Len(data) \in Nat /\ data \o tail \in Seq(Byte)
    BY <1>5, TokenParts, TwoParts
  <2>3. Ahead(F, f.at, e \o (data \o tail))
    <3> HIDE DEF e, data
    <3>1. (e \o data) \o tail = e \o (data \o tail)
      BY <1>5, <2>2, ThreeParts
    <3> QED BY <1>5, <2>1, <3>1
  <2>4. Left(Len(data), NoBits, F, f.at, data \o tail)
    BY <2>2, <2>3, LeftAtStart
  <2>5. Len(data) < Half
    <3> HIDE DEF e, data
    <3>1. Ahead(F, f.at + Len(e), data \o tail)
      BY <1>3, <2>2, <2>3, AheadAfter
    <3> QED BY <1>3, <1>5, <2>2, <3>1, LeftLength
  <2>6. Got(TRUE, Len(data), NoBits, F, f.at, data \o q[1])
    BY <1>7, <2>4 DEF Got, NoBits
  <2>7. PlaceLen(g, "len", NoBits, F, t, R)
    BY <1>1, <1>5, <1>6, <1>7, <1>11, <2>5, <2>6 DEF PlaceLen, Half1
  <2>8. Way(g, "len", NoBits, F, t, R, last, mode)
    BY <1>1, <1>2, <2>7 DEF Way, Place
  <2>9. x.acc % 8 # 0
    BY <1>5, <1>11
  <2> QED BY <1>5, <1>8, <1>9, <2>8, <2>9 DEF g
<1> QED BY <1>8, <1>10, <1>11

\* Any other field is one that can be skipped.
LEMMA WaySkips ==
  ASSUME NEW f, FrameOK(f), NEW x, NEW F, NEW t, NEW R, NEW last, NEW mode,
         Way(f, "tagged", x, F, t, R, last, mode), NEW n, n = Signed(x.acc \div 8, TagWord),
         n \notin DOMAIN Cases[t]
  PROVE  /\ mode = "joined" /\ n > 0 /\ x.acc % 8 # 4
         /\ \E p \in R, q \in R :
              p[2] = f.m /\ q[2] = f.m /\ Ahead(F, f.pre, p[1]) /\ CanSkip(p[1], q[1])
<1>0. PICK p \in R : \E k, tail : Tagged(f, x, F, t, R, mode, p, k, tail)
  BY WayTagged
<1>1. PICK k, tail : Tagged(f, x, F, t, R, mode, p, k, tail)
  BY <1>0
<1>2. /\ NextField(t, R, mode, p, k, tail) /\ p[2] = f.m /\ x.acc = k.tag /\ Ahead(F, f.pre, p[1])
  BY <1>1 DEF Tagged
<1>3. number(k) = n
  BY <1>2 DEF number
<1>4. mode = "joined" /\ FirstUnknown(t, k) /\ UnknownStep(t, R, p)
  <2>1. ASSUME NEW q \in R, Known(t, k, p[2], q[2]) PROVE FALSE
    BY <1>3, <2>1, KnownIs
  <2> QED BY <1>2, <2>1 DEF NextField
<1>5. PICK q \in R : Unknown(t, p[1], q[1]) /\ q[2] = p[2]
  BY <1>4 DEF UnknownStep
<1>6. PICK u : IsUnknownField(t, u) /\ u # <<>> /\ p[1] = FieldBytes(u) \o q[1]
  BY <1>5 DEF Unknown
<1>7. CanSkip(p[1], q[1])
  <2> DEFINE rest == q[1]
  <2>1. rest \in Seq(Byte) /\ p[1] = FieldBytes(u) \o rest
    BY <1>6, PlanTypes DEF Way
  <2> HIDE DEF rest
  <2>2. CanSkip(FieldBytes(u) \o rest, rest)
    BY <1>6, <2>1, UnknownPlan
  <2> QED BY <2>1, <2>2 DEF rest
<1> QED BY <1>2, <1>3, <1>4, <1>5, <1>7 DEF FirstUnknown

-----------------------------------------------------------------------------
(* What a field says *)

\* The next place of a call, past a field that took the message to f.m.
LEMMA WayPast ==
  ASSUME NEW f, NEW F, NEW t, NEW R, NEW last, NEW mode, NEW x,
         t \in Messages, f.fn = t, Covers(f.d, F, mode), Plan(t, R, last, mode),
         NEW q \in R, q[2] = f.m, Ahead(F, f.at, q[1])
  PROVE  Way(f, "loop", x, F, t, R, last, mode)
BY DEF Way, Place, PlaceLoop

LEMMA WayNumber ==
  ASSUME NEW f, FrameOK(f), NEW x, NEW F, NEW t, NEW R, NEW last, NEW mode,
         Way(f, "counted", x, F, t, R, last, mode), NEW c, c = Cases[t][f.field],
         NEW v, v = Signed(x.acc, Word), NEW y,
         y = With(f.m, c.name, IF c.kind = "bool" THEN v # 0 ELSE v)
  PROVE  Way([f EXCEPT !.m = y], "loop", x, F, t, R, last, mode)
<1> DEFINE g == [f EXCEPT !.m = y]
<1>1. g.fn = f.fn /\ g.d = f.d /\ g.at = f.at /\ g.m = y
  BY FrameChanges
<1>2. Covers(f.d, F, mode) /\ Plan(t, R, last, mode) /\ t \in Messages /\ f.fn = t
  BY DEF Way
<1>3. PlaceNum(f, "counted", x, F, t, R)
  BY DEF Way, Place, PlaceLoop, PlaceTag, PlaceLen
<1>4. PICK p \in R, q \in R, k \in Tokens :
       /\ Known(t, k, p[2], q[2]) /\ p[2] = f.m /\ f.field = number(k) /\ k.tag % 8 = 0
       /\ Got(Half1("counted"), k.num, x, F, f.at, q[1])
  BY <1>3 DEF PlaceNum
<1>5. x.acc = k.num /\ Ahead(F, f.at, q[1])
  <2>1. ~Half1("counted")
    BY DEF Half1
  <2> QED BY <1>4, <2>1 DEF Got
<1>6. Plain(t, k, f.m, q[2])
  BY <1>4 DEF Known, Embedded
<1>7. q[2] = y
  <2>1. Cases[t][number(k)] = c /\ Signed(k.num, Word) = v
    BY <1>4, <1>5
  <2>2. WireTypeOf(c.kind) = 0
    BY <1>4, <1>6, <2>1 DEF Plain
  <2>3. c.kind # "string" /\ c.kind # "time"
    BY <2>2, WireTypes
  <2>4. \/ c.kind = "bool" /\ q[2] = With(f.m, c.name, (v # 0))
        \/ c.kind = "int" /\ q[2] = With(f.m, c.name, v)
    BY <1>6, <2>1, <2>3, Zenon DEF Plain
  <2>5. CASE c.kind = "bool" /\ q[2] = With(f.m, c.name, (v # 0))
    <3>1. (IF c.kind = "bool" THEN v # 0 ELSE v) = (v # 0)
      BY <2>5, Zenon
    <3> QED BY <2>5, <3>1, Zenon
  <2>6. CASE c.kind = "int" /\ q[2] = With(f.m, c.name, v)
    <3>1. c.kind # "bool"
      BY <2>6
    <3>2. (IF c.kind = "bool" THEN v # 0 ELSE v) = v
      BY <3>1, Zenon
    <3> QED BY <2>6, <3>2, Zenon
  <2> QED BY <2>4, <2>5, <2>6
<1> HIDE DEF g
<1>8. q[2] = g.m /\ Ahead(F, g.at, q[1]) /\ g.fn = t /\ Covers(g.d, F, mode)
  BY <1>1, <1>2, <1>5, <1>7
<1>9. Way(g, "loop", x, F, t, R, last, mode)
  BY <1>2, <1>8, WayPast
<1> QED BY <1>9 DEF g

\* What is known of a field once its length is read.
Measured(f, x, F, t, R, p, q, k) ==
  /\ Known(t, k, p[2], q[2]) /\ p[2] = f.m /\ f.field = number(k) /\ k.tag % 8 = 2
  /\ k.data \in Seq(Byte) /\ q[1] \in Seq(Byte)
  /\ x.acc = Len(k.data) /\ Len(k.data) < Half
  /\ Ahead(F, f.at, k.data \o q[1])

LEMMA WayMeasured ==
  ASSUME NEW f, NEW x, NEW F, NEW t, NEW R, NEW last, NEW mode,
         Way(f, "measured", x, F, t, R, last, mode)
  PROVE  \E p \in R, q \in R, k \in Tokens : Measured(f, x, F, t, R, p, q, k)
<1>1. PlaceLen(f, "measured", x, F, t, R)
  BY DEF Way, Place, PlaceLoop, PlaceTag, PlaceNum
<1>2. PICK p \in R, q \in R, k \in Tokens :
       /\ Known(t, k, p[2], q[2]) /\ p[2] = f.m /\ f.field = number(k) /\ k.tag % 8 = 2
       /\ Len(k.data) < Half /\ Got(Half1("measured"), Len(k.data), x, F, f.at, k.data \o q[1])
  BY <1>1 DEF PlaceLen
<1>3. ~Half1("measured")
  BY DEF Half1
<1>4. k.data \in Seq(Byte) /\ q[1] \in Seq(Byte)
  BY TokenParts, PlanTypes DEF Way
<1>5. Measured(f, x, F, t, R, p, q, k)
  BY <1>2, <1>3, <1>4 DEF Measured, Got
<1> QED BY <1>5

\* Its length is that of what is written, and if all of it has arrived the
\* slice is what was written.
SliceIs(f, F, mode, k, q, post) ==
  /\ mode # "cut" => post <= Len(f.d)
  /\ post <= Len(f.d) => SubSeq(f.d, f.at + 1, post) = k.data
  /\ Ahead(F, post, q[1])

LEMMA MeasuredSlice ==
  ASSUME NEW f, FrameOK(f), NEW x, NEW F, NEW t, NEW R, NEW mode, NEW p, NEW q, NEW k,
         Measured(f, x, F, t, R, p, q, k), Covers(f.d, F, mode),
         NEW len, len = Signed(x.acc, Word), NEW post, post = Signed(f.at + len, Word)
  PROVE  /\ len \in Nat /\ post \in Nat /\ f.at <= post /\ Len(f.d) \in Nat
         /\ SliceIs(f, F, mode, k, q, post)
<1> DEFINE data == k.data
           rest == q[1]
<1>1. /\ data \in Seq(Byte) /\ rest \in Seq(Byte) /\ x.acc = Len(data) /\ Len(data) < Half
      /\ Ahead(F, f.at, data \o rest) /\ Len(data) \in Nat
  BY DEF Measured
<1> HIDE DEF data, rest
<1>2. F \in Seq(Byte) /\ f.d \in Seq(Byte) /\ Len(F) < Half /\ Len(F) \in Nat /\ Len(f.d) \in Nat
  BY CoversBytes
<1>3. f.at + Len(data) <= Len(F) /\ f.at \in Nat
  BY <1>1, <1>2, LeftLength DEF FrameOK
<1>4. len = Len(data)
  <2>1. x.acc \in 0..Word - 1
    BY <1>1, HalfOfWord
  <2>2. len = IF x.acc < Half THEN x.acc ELSE x.acc - Word
    BY <2>1, SignedOfWord
  <2> QED BY <1>1, <2>2
<1>5. post = f.at + Len(data)
  <2> DEFINE y == f.at + Len(data)
  <2>1. y \in 0..Word - 1 /\ y < Half
    BY <1>1, <1>2, <1>3, HalfOfWord
  <2> HIDE DEF y
  <2>2. Signed(y, Word) = IF y < Half THEN y ELSE y - Word
    BY <2>1, SignedOfWord
  <2>3. Signed(y, Word) = y
    BY <2>1, <2>2
  <2>4. post = Signed(y, Word)
    BY <1>4 DEF y
  <2> QED BY <2>3, <2>4 DEF y
<1>6. Ahead(F, post, rest)
  BY <1>1, <1>2, <1>5, AheadAfter
<1>7. mode # "cut" => post <= Len(f.d)
  <2>1. mode # "cut" => f.d = F
    BY CoversBytes
  <2> QED BY <1>3, <1>5, <2>1
<1>8. post <= Len(f.d) => SubSeq(f.d, f.at + 1, post) = data
  <2> SUFFICES ASSUME post <= Len(f.d) PROVE SubSeq(f.d, f.at + 1, post) = data
    OBVIOUS
  <2>1. PICK e \in Seq(Byte) : F = f.d \o e
    BY DEF Covers
  <2> DEFINE d == f.d
             at == f.at
  <2>2. d \in Seq(Byte) /\ Ahead(d \o e, at, data \o rest) /\ at + Len(data) <= Len(d)
    BY <1>1, <1>2, <1>5, <2>1
  <2> HIDE DEF d, at
  <2>3. SubSeq(d, at + 1, at + Len(data)) = data
    BY <1>1, <2>2, AheadSlice
  <2> QED BY <1>5, <2>3 DEF d, at
<1>9. f.at <= post /\ post \in Nat
  BY <1>1, <1>3, <1>5
<1> QED BY <1>1, <1>2, <1>4, <1>6, <1>7, <1>8, <1>9 DEF data, rest, SliceIs

\* A string or a time is what was written.
LEMMA WayBytes ==
  ASSUME NEW f, FrameOK(f), NEW x, NEW F, NEW t, NEW R, NEW last, NEW mode,
         Way(f, "measured", x, F, t, R, last, mode), NEW c, c = Cases[t][f.field],
         c.kind \in {"string", "time"},
         NEW len, len = Signed(x.acc, Word), NEW post, post = Signed(f.at + len, Word),
         post <= Len(f.d), NEW s, s = SubSeq(f.d, f.at + 1, post), NEW y,
         y = With(f.m, c.name, IF c.kind = "string" THEN s ELSE <<s>>)
  PROVE  /\ c.kind = "time" => s \in Times
         /\ Way([f EXCEPT !.m = y, !.at = post], "loop", x, F, t, R, last, mode)
<1> DEFINE g == [f EXCEPT !.m = y, !.at = post]
<1>1. g.fn = f.fn /\ g.d = f.d /\ g.at = post /\ g.m = y
  BY MovedWith
<1>2. Covers(f.d, F, mode) /\ Plan(t, R, last, mode) /\ t \in Messages /\ f.fn = t
  BY DEF Way
<1>3. PICK p \in R, q \in R, k \in Tokens : Measured(f, x, F, t, R, p, q, k)
  BY WayMeasured
<1>4. s = k.data /\ Ahead(F, post, q[1])
  <2>1. SliceIs(f, F, mode, k, q, post)
    BY <1>2, <1>3, MeasuredSlice
  <2> QED BY <2>1 DEF SliceIs
<1>5. /\ Known(t, k, f.m, q[2]) /\ Cases[t][number(k)] = c
  BY <1>3 DEF Measured
<1>6. Plain(t, k, f.m, q[2])
  BY <1>5 DEF Known, Embedded
<1>7. /\ c.kind = "time" => s \in Times
      /\ q[2] = y
  BY <1>4, <1>5, <1>6 DEF Plain
<1> HIDE DEF g
<1>8. q[2] = g.m /\ Ahead(F, g.at, q[1]) /\ g.fn = t /\ Covers(g.d, F, mode)
  BY <1>1, <1>2, <1>4, <1>7
<1>9. Way(g, "loop", x, F, t, R, last, mode)
  BY <1>2, <1>8, WayPast
<1> QED BY <1>7, <1>9 DEF g

LEMMA PlanOfRecord ==
  ASSUME NEW R, NEW r, RecordPlan(R, r)
  PROVE  Plan("Record", R, r, "record")
<1>1. Message["Record"] = Record
  BY DEF Message
<1>2. R \subseteq Seq(Byte) \X Message["Record"]
  BY <1>1 DEF RecordPlan
<1>3. \A p \in R : p = <<<<>>, r>> \/ KnownStep("Record", R, p)
  BY DEF RecordPlan, KnownStep, Known
<1> QED BY <1>2, <1>3 DEF Plan

\* An embedded record is read over the one it starts from, and its caller goes
\* on with the message the record is put in.
Embeds(f, x, F, R, c, Q, r, post, s) ==
  /\ Plan("Record", Q, r, "record") /\ <<s, Started(f.m, c)>> \in Q
  /\ \E q \in R :
       /\ Ahead(F, post, q[1])
       /\ q[2] = With(f.m, c.name, IF c.kind = "messages" THEN Append(f.m[c.name], r) ELSE <<r>>)

LEMMA WayRecord ==
  ASSUME NEW f, FrameOK(f), NEW x, NEW F, NEW t, NEW R, NEW last, NEW mode,
         Way(f, "measured", x, F, t, R, last, mode), NEW c, c = Cases[t][f.field],
         c.kind \in {"message", "messages"},
         NEW len, len = Signed(x.acc, Word), NEW post, post = Signed(f.at + len, Word),
         post <= Len(f.d), NEW s, s = SubSeq(f.d, f.at + 1, post)
  PROVE  \E Q, r : Embeds(f, x, F, R, c, Q, r, post, s)
<1>2. Covers(f.d, F, mode) /\ Plan(t, R, last, mode) /\ t \in Messages /\ f.fn = t
  BY DEF Way
<1>3. PICK p \in R, q \in R, k \in Tokens : Measured(f, x, F, t, R, p, q, k)
  BY WayMeasured
<1>4. s = k.data /\ Ahead(F, post, q[1])
  <2>1. SliceIs(f, F, mode, k, q, post)
    BY <1>2, <1>3, MeasuredSlice
  <2> QED BY <2>1 DEF SliceIs
<1>5. /\ Known(t, k, f.m, q[2]) /\ Cases[t][number(k)] = c
  BY <1>3 DEF Measured
<1>6. Embedded(t, k, f.m, q[2])
  BY <1>5 DEF Known, Plain
<1>7. PICK Q, r : /\ RecordPlan(Q, r) /\ <<k.data, Started(f.m, c)>> \in Q
                  /\ q[2] = With(f.m, c.name,
                                 IF c.kind = "messages" THEN Append(f.m[c.name], r) ELSE <<r>>)
  BY <1>5, <1>6 DEF Embedded
<1>8. Embeds(f, x, F, R, c, Q, r, post, s)
  BY <1>4, <1>7, PlanOfRecord DEF Embeds
<1> QED BY <1>8

LEMMA TokenNotEmpty ==
  ASSUME NEW k \in Tokens
  PROVE  Len(TokenBytes(k)) > 0
<1> DEFINE v == k.tag
           e == encodeVarintRpc[v]
           y == Payload(k)
<1>1. v \in Nat /\ e \in Seq(Byte) /\ y \in Seq(Byte)
  BY TokenParts
<1>2. TokenBytes(k) = e \o y
  BY DEF TokenBytes
<1> HIDE DEF v, y
<1>3. Len(e) > 0
  <2>1. CASE v < 128
    <3>1. e = <<v>>
      BY <1>1, <2>1, encodeDef
    <3> QED BY <3>1
  <2>2. CASE ~(v < 128)
    <3>1. v \div 128 \in Nat /\ 128 + (v % 128) \in Byte
      BY <1>1 DEF Byte
    <3> DEFINE w == v \div 128
               b == 128 + (v % 128)
    <3>2. e = <<b>> \o encodeVarintRpc[w] /\ encodeVarintRpc[w] \in Seq(Byte)
      BY <1>1, <2>2, <3>1, encodeDef
    <3>3. w \in Nat /\ b \in Byte
      BY <3>1
    <3> HIDE DEF e, w, b
    <3>4. <<b>> \in Seq(Byte) /\ Len(<<b>>) = 1
      BY <3>3
    <3>5. Len(<<b>> \o encodeVarintRpc[w]) = 1 + Len(encodeVarintRpc[w])
      BY <3>2, <3>4, ConcatProperties
    <3> QED BY <3>2, <3>5
  <2> QED BY <2>1, <2>2
<1> HIDE DEF e
<1>4. Len(e \o y) = Len(e) + Len(y) /\ Len(e) \in Nat /\ Len(y) \in Nat
  BY <1>1, ConcatProperties
<1> QED BY <1>2, <1>3, <1>4

\* At the end of a whole slice the message is the last one.
LEMMA WayEnds ==
  ASSUME NEW f, FrameOK(f), NEW x, NEW F, NEW t, NEW R, NEW last, NEW mode,
         Way(f, "loop", x, F, t, R, last, mode), f.at = Len(f.d)
  PROVE  /\ f.m \in Message[t]
         /\ mode # "cut" => f.m = last
         /\ mode = "cut" => \E s : Ahead(F, f.at, s) /\ s \in Seq(Byte) /\
              MarshalToSizedBuffer(t, f.m) \o s = MarshalToSizedBuffer(t, last)
<1>1. Covers(f.d, F, mode) /\ Plan(t, R, last, mode) /\ t \in Messages /\ f.fn = t
  BY DEF Way
<1>2. PICK p \in R : p[2] = f.m /\ Ahead(F, f.at, p[1])
  BY DEF Way, Place, PlaceLoop, PlaceTag, PlaceLen, PlaceNum
<1>3. p[1] \in Seq(Byte) /\ p[2] \in Message[t]
  BY <1>1, PlanTypes
<1>4. ASSUME mode # "cut" PROVE f.m = last
  <2>1. F = f.d
    BY <1>1, <1>4, CoversBytes
  <2>2. Len(p[1]) = 0
    <3> DEFINE a == p[1]
    <3>1. a \in Seq(Byte) /\ Ahead(F, f.at, a)
      BY <1>2, <1>3
    <3> HIDE DEF a
    <3>2. Len(F) = f.at + Len(a) /\ f.at \in Nat /\ f.at = Len(F) /\ Len(a) \in Nat
      BY <2>1, <3>1 DEF Ahead
    <3>3. Len(a) = 0
      BY <3>2
    <3> QED BY <3>3 DEF a
  <2>3. p[1] = <<>>
    BY <1>3, <2>2
  <2>4. CASE p = <<<<>>, last>>
    BY <1>2, <2>4
  <2>5. CASE p # <<<<>>, last>>
    <3>1. PICK k, tail : NextField(t, R, mode, p, k, tail)
      BY <1>1, <2>5, HasNext
    <3>2. k \in Tokens /\ tail \in Seq(Byte) /\ p[1] = TokenBytes(k) \o tail
      BY <3>1 DEF NextField
    <3>3. Len(TokenBytes(k)) > 0
      BY <3>2, TokenNotEmpty
    <3>4. Len(TokenBytes(k) \o tail) = Len(TokenBytes(k)) + Len(tail) /\ Len(tail) \in Nat
      BY <3>2, TokenBytesSeq, ConcatProperties
    <3> QED BY <2>2, <3>2, <3>3, <3>4
  <2> QED BY <2>4, <2>5
<1>5. ASSUME mode = "cut" PROVE MarshalToSizedBuffer(t, f.m) \o p[1] = MarshalToSizedBuffer(t, last)
  BY <1>1, <1>2, <1>5 DEF Plan, Writes
<1> QED BY <1>2, <1>3, <1>4, <1>5

-----------------------------------------------------------------------------
(* Where a call of skipRpc is on its way: tail is what comes after the field *)

NextToken(Q, tail, k, s, before) ==
  /\ k \in Tokens /\ s \in Seq(Byte) /\ Skippable(k, before) /\ before \in Nat
  /\ IF k.depth = 0 THEN s = tail ELSE <<s, k.depth>> \in Q

SkipLoop(f, at, Q) ==
  at = "loop" /\ \E p \in Q : p[2] = f.depth /\ Ahead(f.d, f.at, p[1])

SkipTag(f, at, x, Q, tail) ==
  /\ at \in {"tag", "tagged"}
  /\ \E k, s : NextToken(Q, tail, k, s, f.depth) /\ Got(Half1(at), k.tag, x, f.d, f.at, Payload(k) \o s)

SkipLen(f, at, x, Q, tail) ==
  /\ at \in {"len", "measured"}
  /\ \E k, s : /\ NextToken(Q, tail, k, s, f.depth) /\ k.tag % 8 = 2 /\ Len(k.data) < Half
               /\ Got(Half1(at), Len(k.data), x, f.d, f.at, k.data \o s)

SkipNum(f, at, x, Q, tail) ==
  /\ at \in {"num", "counted"}
  /\ \E k, s : /\ NextToken(Q, tail, k, s, f.depth) /\ k.tag % 8 = 0
               /\ Got(Half1(at), k.num, x, f.d, f.at, s)

SkipPlace(f, at, x, Q, tail) ==
  \/ SkipLoop(f, at, Q) \/ SkipTag(f, at, x, Q, tail)
  \/ SkipLen(f, at, x, Q, tail) \/ SkipNum(f, at, x, Q, tail)

SkipWay(f, at, x, Q, tail) ==
  /\ f.fn = "skipRpc" /\ f.d \in Seq(Byte) /\ Len(f.d) < Half /\ tail \in Seq(Byte)
  /\ SkipPlan(Q, tail) /\ SkipPlace(f, at, x, Q, tail)

LEMMA NextTokenTypes ==
  ASSUME NEW Q, NEW tail, NEW k, NEW s, NEW before, NextToken(Q, tail, k, s, before)
  PROVE  /\ k \in Tokens /\ s \in Seq(Byte) /\ k.data \o s \in Seq(Byte) /\ Payload(k) \o s \in Seq(Byte)
BY TokenParts, TwoParts DEF NextToken

LEMMA SkipGot ==
  ASSUME NEW f, NEW at \in DOMAIN Then, NEW x, NEW Q, NEW tail, SkipWay(f, at, x, Q, tail)
  PROVE  \E v \in 0..Word - 1, s \in Seq(Byte) : Got(Half1(at), v, x, f.d, f.at, s)
<1>1. SkipPlace(f, at, x, Q, tail)
  BY DEF SkipWay
<1>2. CASE SkipTag(f, at, x, Q, tail)
  <2>1. PICK k, s : NextToken(Q, tail, k, s, f.depth) /\ Got(Half1(at), k.tag, x, f.d, f.at, Payload(k) \o s)
    BY <1>2 DEF SkipTag
  <2>2. k.tag \in 0..Word - 1 /\ Payload(k) \o s \in Seq(Byte)
    BY <2>1, NextTokenTypes, TokenParts
  <2> QED BY <2>1, <2>2
<1>3. CASE SkipLen(f, at, x, Q, tail)
  <2>1. PICK k, s : /\ NextToken(Q, tail, k, s, f.depth) /\ Len(k.data) < Half
                    /\ Got(Half1(at), Len(k.data), x, f.d, f.at, k.data \o s)
    BY <1>3 DEF SkipLen
  <2>2. Len(k.data) \in Nat /\ k.data \o s \in Seq(Byte)
    BY <2>1, NextTokenTypes, TokenParts
  <2>3. Len(k.data) \in 0..Word - 1
    BY <2>1, <2>2, HalfOfWord
  <2> QED BY <2>1, <2>2, <2>3
<1>4. CASE SkipNum(f, at, x, Q, tail)
  <2>1. PICK k, s : NextToken(Q, tail, k, s, f.depth) /\ Got(Half1(at), k.num, x, f.d, f.at, s)
    BY <1>4 DEF SkipNum
  <2>2. k.num \in 0..Word - 1 /\ s \in Seq(Byte)
    BY <2>1, NextTokenTypes, TokenParts
  <2> QED BY <2>1, <2>2
<1>5. ~SkipLoop(f, at, Q)
  BY ThenIs DEF SkipLoop
<1> QED BY <1>1, <1>2, <1>3, <1>4, <1>5 DEF SkipPlace

LEMMA SkipRoom ==
  ASSUME NEW f, NEW at \in DOMAIN Then, NEW x, NEW Q, NEW tail, SkipWay(f, at, x, Q, tail)
  PROVE  x.weight < Word /\ f.at < Len(f.d) /\ x.weight \in Nat /\ f.at \in Nat
<1>1. f.d \in Seq(Byte)
  BY DEF SkipWay
<1>2. PICK v \in 0..Word - 1, s \in Seq(Byte) : Got(Half1(at), v, x, f.d, f.at, s)
  BY SkipGot
<1> DEFINE d == f.d
           pos == f.at
<1>3. d \in Seq(Byte) /\ Got(Half1(at), v, x, d, pos, s)
  BY <1>1, <1>2
<1> HIDE DEF d, pos
<1>4. x.weight < Word /\ pos \in Nat /\ pos < Len(d)
  BY <1>3, GotRoom
<1> QED BY <1>2, <1>4 DEF Got, d, pos

LEMMA SkipByte ==
  ASSUME NEW f, FrameOK(f), NEW at \in DOMAIN Then, NEW x, NEW Q, NEW tail,
         SkipWay(f, at, x, Q, tail), f.at < Len(f.d),
         NEW b, b = f.d[f.at + 1], NEW y,
         y = [acc |-> (x.acc + (b % 128) * x.weight) % Word, weight |-> x.weight * 128]
  PROVE  SkipWay([f EXCEPT !.at = f.at + 1], IF b < 128 THEN Then[at] ELSE at, y, Q, tail)
<1> DEFINE g == [f EXCEPT !.at = f.at + 1]
           to == IF b < 128 THEN Then[at] ELSE at
           pos == f.at
           d == f.d
<1>1. g.fn = f.fn /\ g.d = d /\ g.at = pos + 1 /\ g.depth = f.depth
  BY FrameChanges
<1>2. f.fn = "skipRpc" /\ d \in Seq(Byte) /\ Len(d) < Half /\ tail \in Seq(Byte) /\ SkipPlan(Q, tail)
  BY DEF SkipWay
<1>3. b = d[pos + 1] /\ b \in Byte
  <2>1. pos + 1 \in 1..Len(d)
    BY DEF FrameOK
  <2> QED BY <1>2, <2>1, ElementOfSeq
<1> HIDE DEF g, to
<1>t. to = IF b < 128 THEN Then[at] ELSE at
  BY DEF to
<1>4. /\ at = "tag" => to \in {"tag", "tagged"}
      /\ at = "len" => to \in {"len", "measured"}
      /\ at = "num" => to \in {"num", "counted"}
  BY <1>3, <1>t, ThenTo
<1>5. ASSUME NEW v \in 0..Word - 1, NEW s \in Seq(Byte), Got(Half1(at), v, x, d, pos, s)
      PROVE  Got(Half1(to), v, y, g.d, g.at, s)
  <2> HIDE DEF pos, d
  <2>1. Got(Half1(to), v, y, d, pos + 1, s)
    BY <1>2, <1>3, <1>5, <1>t, GotMore
  <2> QED BY <1>1, <2>1
<1>6. CASE SkipTag(f, at, x, Q, tail)
  <2>1. PICK k, s : NextToken(Q, tail, k, s, f.depth) /\ Got(Half1(at), k.tag, x, d, pos, Payload(k) \o s)
    BY <1>6 DEF SkipTag
  <2>2. k.tag \in 0..Word - 1 /\ Payload(k) \o s \in Seq(Byte)
    BY <2>1, NextTokenTypes, TokenParts
  <2>3. Got(Half1(to), k.tag, y, g.d, g.at, Payload(k) \o s)
    BY <1>5, <2>1, <2>2
  <2>4. to \in {"tag", "tagged"}
    BY <1>4, <1>6, ThenIs DEF SkipTag
  <2>5. SkipTag(g, to, y, Q, tail)
    BY <1>1, <2>1, <2>3, <2>4 DEF SkipTag
  <2> QED BY <1>1, <1>2, <2>5 DEF SkipWay, SkipPlace, g, to
<1>7. CASE SkipLen(f, at, x, Q, tail)
  <2>1. PICK k, s : /\ NextToken(Q, tail, k, s, f.depth) /\ k.tag % 8 = 2 /\ Len(k.data) < Half
                    /\ Got(Half1(at), Len(k.data), x, d, pos, k.data \o s)
    BY <1>7 DEF SkipLen
  <2>2. Len(k.data) \in Nat /\ k.data \o s \in Seq(Byte)
    BY <2>1, NextTokenTypes, TokenParts
  <2>3. Len(k.data) \in 0..Word - 1
    BY <2>1, <2>2, HalfOfWord
  <2>4. Got(Half1(to), Len(k.data), y, g.d, g.at, k.data \o s)
    BY <1>5, <2>1, <2>2, <2>3
  <2>5. to \in {"len", "measured"}
    BY <1>4, <1>7, ThenIs DEF SkipLen
  <2>6. SkipLen(g, to, y, Q, tail)
    BY <1>1, <2>1, <2>4, <2>5 DEF SkipLen
  <2> QED BY <1>1, <1>2, <2>6 DEF SkipWay, SkipPlace, g, to
<1>8. CASE SkipNum(f, at, x, Q, tail)
  <2>1. PICK k, s : /\ NextToken(Q, tail, k, s, f.depth) /\ k.tag % 8 = 0
                    /\ Got(Half1(at), k.num, x, d, pos, s)
    BY <1>8 DEF SkipNum
  <2>2. k.num \in 0..Word - 1 /\ s \in Seq(Byte)
    BY <2>1, NextTokenTypes, TokenParts
  <2>3. Got(Half1(to), k.num, y, g.d, g.at, s)
    BY <1>5, <2>1, <2>2
  <2>4. to \in {"num", "counted"}
    BY <1>4, <1>8, ThenIs DEF SkipNum
  <2>5. SkipNum(g, to, y, Q, tail)
    BY <1>1, <2>1, <2>3, <2>4 DEF SkipNum
  <2> QED BY <1>1, <1>2, <2>5 DEF SkipWay, SkipPlace, g, to
<1>9. ~SkipLoop(f, at, Q)
  BY ThenIs DEF SkipLoop
<1> QED BY <1>6, <1>7, <1>8, <1>9 DEF SkipWay, SkipPlace

\* The start of a token; there is one as long as the loop goes on.
LEMMA SkipStarts ==
  ASSUME NEW f, FrameOK(f), NEW x, NEW Q, NEW tail, SkipWay(f, "loop", x, Q, tail)
  PROVE  /\ f.at < Len(f.d)
         /\ SkipWay([f EXCEPT !.pre = f.at], "tag", NoBits, Q, tail)
<1> DEFINE g == [f EXCEPT !.pre = f.at]
<1>1. g.fn = f.fn /\ g.d = f.d /\ g.at = f.at /\ g.depth = f.depth
  BY FrameChanges
<1>2. /\ f.fn = "skipRpc" /\ f.d \in Seq(Byte) /\ Len(f.d) < Half /\ tail \in Seq(Byte)
      /\ SkipPlan(Q, tail)
  BY DEF SkipWay
<1>3. PICK p \in Q : p[2] = f.depth /\ Ahead(f.d, f.at, p[1])
  BY DEF SkipWay, SkipPlace, SkipLoop, SkipTag, SkipLen, SkipNum
<1>4. PICK k \in Tokens, s \in Seq(Byte) :
       /\ p[1] = TokenBytes(k) \o s /\ Skippable(k, p[2])
       /\ IF k.depth = 0 THEN s = tail ELSE <<s, k.depth>> \in Q
  BY <1>2 DEF SkipPlan
<1>5. p[2] \in Nat
  BY <1>2 DEF SkipPlan
<1>6. NextToken(Q, tail, k, s, f.depth)
  BY <1>3, <1>4, <1>5 DEF NextToken
<1>7. Ahead(f.d, f.at, TokenBytes(k) \o s)
  BY <1>3, <1>4
<1>8. f.at < Len(f.d)
  <2> DEFINE d == f.d
             pos == f.at
  <2>1. Ahead(d, pos, TokenBytes(k) \o s) /\ d \in Seq(Byte)
    BY <1>2, <1>7
  <2> HIDE DEF d, pos
  <2>2. Len(TokenBytes(k)) > 0 /\ TokenBytes(k) \in Seq(Byte) /\ Len(TokenBytes(k)) \in Nat
    BY TokenNotEmpty, TokenBytesSeq
  <2>3. Len(TokenBytes(k) \o s) = Len(TokenBytes(k)) + Len(s) /\ Len(s) \in Nat
    BY <2>2, ConcatProperties
  <2>4. Len(d) = pos + Len(TokenBytes(k) \o s) /\ pos \in Nat
    BY <2>1 DEF Ahead
  <2>5. pos < Len(d)
    BY <2>2, <2>3, <2>4
  <2> QED BY <2>5 DEF d, pos
<1>9. TokenBytes(k) \o s = encodeVarintRpc[k.tag] \o (Payload(k) \o s)
  BY TokenParts, ThreeParts DEF TokenBytes
<1>10. Got(TRUE, k.tag, NoBits, f.d, f.at, Payload(k) \o s)
  <2>1. Ahead(f.d, f.at, encodeVarintRpc[k.tag] \o (Payload(k) \o s))
    BY <1>7, <1>9
  <2>2. Left(k.tag, NoBits, f.d, f.at, Payload(k) \o s)
    BY <2>1, TokenParts, LeftAtStart
  <2> QED BY <2>2 DEF Got, NoBits
<1> HIDE DEF g
<1>11. SkipTag(g, "tag", NoBits, Q, tail)
  BY <1>1, <1>6, <1>10 DEF SkipTag, Half1
<1> QED BY <1>1, <1>2, <1>8, <1>11 DEF SkipWay, SkipPlace, g

LEMMA SignedSmall ==
  ASSUME NEW y \in Nat, y < Half
  PROVE  Signed(y, Word) = y
<1>1. y \in 0..Word - 1
  BY HalfOfWord
<1>2. Signed(y, Word) = IF y < Half THEN y ELSE y - Word
  BY <1>1, SignedOfWord
<1> QED BY <1>2

\* A call of skipRpc past a token: at the end of the field, or at its next one.
Skipped(f, a, depth, Q, tail) ==
  /\ a \in Nat /\ a <= Len(f.d) /\ a < Half /\ depth \in Nat
  /\ depth = 0 => Ahead(f.d, a, tail)
  /\ depth # 0 => \A x : SkipWay([f EXCEPT !.at = a, !.depth = depth], "loop", x, Q, tail)

LEMMA TokenSkipped ==
  ASSUME NEW f, FrameOK(f), f.fn = "skipRpc", NEW Q, NEW tail \in Seq(Byte), SkipPlan(Q, tail),
         NEW k, NEW s, NextToken(Q, tail, k, s, f.depth), NEW a, Ahead(f.d, a, s),
         NEW depth, depth = k.depth
  PROVE  Skipped(f, a, depth, Q, tail)
<1>1. f.d \in Seq(Byte) /\ Len(f.d) < Half
  BY DEF FrameOK
<1>2. a \in Nat /\ a <= Len(f.d) /\ a < Half
  <2> DEFINE d == f.d
  <2>1. d \in Seq(Byte) /\ Ahead(d, a, s) /\ Len(d) < Half
    BY <1>1
  <2> HIDE DEF d
  <2>2. a \in Nat /\ Len(s) \in Nat /\ Len(d) = a + Len(s) /\ Len(d) \in Nat
    BY <2>1 DEF Ahead
  <2>3. a <= Len(d) /\ a < Half
    BY <2>1, <2>2, HalfOfWord
  <2> QED BY <2>2, <2>3 DEF d
<1>3. depth \in Nat
  BY TokenParts DEF NextToken
<1>4. depth = 0 => Ahead(f.d, a, tail)
  BY DEF NextToken
<1>5. ASSUME depth # 0, NEW x
      PROVE  SkipWay([f EXCEPT !.at = a, !.depth = depth], "loop", x, Q, tail)
  <2> DEFINE g == [f EXCEPT !.at = a, !.depth = depth]
             p == <<s, depth>>
  <2>1. g.fn = f.fn /\ g.d = f.d /\ g.at = a /\ g.depth = depth
    <3>1. g = [fn |-> f.fn, d |-> f.d, at |-> a, pre |-> f.pre,
               field |-> f.field, depth |-> depth, m |-> f.m]
      BY MovedWith
    <3> HIDE DEF g
    <3> QED BY <3>1
  <2>2. p \in Q /\ p[1] = s /\ p[2] = depth
    BY <1>5 DEF NextToken
  <2> HIDE DEF g, p
  <2>3. SkipLoop(g, "loop", Q)
    BY <2>1, <2>2 DEF SkipLoop
  <2>4. SkipWay(g, "loop", x, Q, tail)
    BY <1>1, <2>1, <2>3 DEF SkipWay, SkipPlace
  <2> QED BY <2>4 DEF g
<1> QED BY <1>2, <1>3, <1>4, <1>5 DEF Skipped

LEMMA SkipTagged ==
  ASSUME NEW f, FrameOK(f), NEW x, NEW Q, NEW tail, SkipWay(f, "tagged", x, Q, tail),
         NEW w, w = x.acc % 8
  PROVE  /\ w \in 0..5
         /\ w = 0 => SkipWay(f, "num", NoBits, Q, tail)
         /\ w = 2 => SkipWay(f, "len", NoBits, Q, tail)
         /\ w = 1 => Skipped(f, f.at + 8, f.depth, Q, tail)
         /\ w = 5 => Skipped(f, f.at + 4, f.depth, Q, tail)
         /\ w = 3 => Skipped(f, f.at, f.depth + 1, Q, tail)
         /\ w = 4 => f.depth # 0 /\ Skipped(f, f.at, f.depth - 1, Q, tail)
<1> DEFINE d == f.d
           pos == f.at
<1>1. f.fn = "skipRpc" /\ d \in Seq(Byte) /\ Len(d) < Half /\ tail \in Seq(Byte) /\ SkipPlan(Q, tail)
  BY DEF SkipWay
<1>2. SkipTag(f, "tagged", x, Q, tail)
  BY DEF SkipWay, SkipPlace, SkipLoop, SkipLen, SkipNum
<1>3. PICK k, s : /\ NextToken(Q, tail, k, s, f.depth)
                  /\ Got(Half1("tagged"), k.tag, x, d, pos, Payload(k) \o s)
  BY <1>2 DEF SkipTag
<1>4. x.acc = k.tag /\ Ahead(d, pos, Payload(k) \o s)
  <2>1. ~Half1("tagged")
    BY DEF Half1
  <2> QED BY <1>3, <2>1 DEF Got
<1>5. k \in Tokens /\ s \in Seq(Byte) /\ k.data \in Seq(Byte) /\ Payload(k) \in Seq(Byte)
  BY <1>3, NextTokenTypes, TokenParts
<1>6. w = k.tag % 8
  BY <1>4
<1>7. Skippable(k, f.depth) /\ f.depth \in Nat
  BY <1>3 DEF NextToken
<1>8. w \in 0..5 /\ (w = 1 => Len(k.data) = 8) /\ (w = 5 => Len(k.data) = 4)
  BY <1>6, <1>7 DEF Skippable
<1>9. /\ w = 3 => k.depth = f.depth + 1
      /\ w = 4 => k.depth = f.depth - 1
      /\ w \in {0, 1, 2, 5} => k.depth = f.depth
  <2>1. k.depth = CASE w = 3 -> f.depth + 1 [] w = 4 -> f.depth - 1 [] OTHER -> f.depth
    BY <1>6, <1>7, Zenon DEF Skippable
  <2> HIDE DEF d, pos
  <2> QED BY <2>1
<1>10. /\ w = 0 => Payload(k) = encodeVarintRpc[k.num]
       /\ w = 2 => Payload(k) = encodeVarintRpc[Len(k.data)] \o k.data
       /\ w \in {1, 5} => Payload(k) = k.data
       /\ w \in {3, 4} => Payload(k) = <<>>
  BY <1>6, PayloadIs
<1>11. ASSUME w = 0 PROVE SkipWay(f, "num", NoBits, Q, tail)
  <2>1. Ahead(d, pos, encodeVarintRpc[k.num] \o s) /\ k.num \in Nat
    BY <1>4, <1>5, <1>10, <1>11, TokenParts
  <2>2. Left(k.num, NoBits, d, pos, s)
    <3> HIDE DEF d, pos
    <3> QED BY <2>1, LeftAtStart
  <2>3. Got(TRUE, k.num, NoBits, d, pos, s)
    BY <2>2 DEF Got, NoBits
  <2>4. SkipNum(f, "num", NoBits, Q, tail)
    BY <1>3, <1>6, <1>11, <2>3 DEF SkipNum, Half1
  <2> QED BY <1>1, <2>4 DEF SkipWay, SkipPlace
<1>12. ASSUME w = 2 PROVE SkipWay(f, "len", NoBits, Q, tail)
  <2> DEFINE e == encodeVarintRpc[Len(k.data)]
             data == k.data
  <2>1. Payload(k) = e \o data
    BY <1>10, <1>12
  <2>2. e \in Seq(Byte) /\ data \in Seq(Byte) /\ Len(data) \in Nat /\ data \o s \in Seq(Byte)
    BY <1>5, TokenParts, TwoParts
  <2> HIDE DEF e, data, d, pos
  <2>3. Ahead(d, pos, e \o (data \o s))
    <3>1. (e \o data) \o s = e \o (data \o s)
      BY <1>5, <2>2, ThreeParts
    <3> QED BY <1>4, <2>1, <3>1
  <2>4. Left(Len(data), NoBits, d, pos, data \o s)
    BY <2>2, <2>3, LeftAtStart DEF e, data
  <2>5. Len(data) < Half
    <3>1. Ahead(d, pos + Len(e), data \o s)
      BY <1>1, <2>2, <2>3, AheadAfter
    <3> QED BY <1>1, <1>5, <2>2, <3>1, LeftLength
  <2>6. Got(TRUE, Len(k.data), NoBits, f.d, f.at, k.data \o s)
    BY <2>4 DEF Got, NoBits, data, d, pos
  <2>7. SkipLen(f, "len", NoBits, Q, tail)
    BY <1>3, <1>6, <1>12, <2>5, <2>6 DEF SkipLen, Half1, data
  <2> QED BY <1>1, <2>7 DEF SkipWay, SkipPlace, d
<1>13. ASSUME NEW a, Ahead(d, a, s), NEW depth, depth = k.depth PROVE Skipped(f, a, depth, Q, tail)
  BY <1>1, <1>3, <1>13, TokenSkipped
<1>14. ASSUME w \in {1, 5} PROVE Ahead(d, pos + Len(k.data), s)
  <2> HIDE DEF d, pos
  <2> QED BY <1>1, <1>4, <1>5, <1>10, <1>14, AheadAfter
<1>15. ASSUME w \in {3, 4} PROVE Ahead(d, pos, s)
  <2>1. <<>> \o s = s
    BY <1>5, ConcatEmptySeq
  <2> QED BY <1>4, <1>10, <1>15, <2>1
<1>16. w = 1 => Skipped(f, f.at + 8, f.depth, Q, tail)
  <2> SUFFICES ASSUME w = 1 PROVE Skipped(f, f.at + 8, f.depth, Q, tail)
    OBVIOUS
  <2>1. Ahead(d, pos + 8, s) /\ f.depth = k.depth
    BY <1>8, <1>9, <1>14
  <2> QED BY <1>13, <2>1
<1>17. w = 5 => Skipped(f, f.at + 4, f.depth, Q, tail)
  <2> SUFFICES ASSUME w = 5 PROVE Skipped(f, f.at + 4, f.depth, Q, tail)
    OBVIOUS
  <2>1. Ahead(d, pos + 4, s) /\ f.depth = k.depth
    BY <1>8, <1>9, <1>14
  <2> QED BY <1>13, <2>1
<1>18. w = 3 => Skipped(f, f.at, f.depth + 1, Q, tail)
  <2> SUFFICES ASSUME w = 3 PROVE Skipped(f, f.at, f.depth + 1, Q, tail)
    OBVIOUS
  <2>1. Ahead(d, pos, s) /\ f.depth + 1 = k.depth
    BY <1>9, <1>15
  <2> QED BY <1>13, <2>1
<1>19. w = 4 => f.depth # 0 /\ Skipped(f, f.at, f.depth - 1, Q, tail)
  <2> SUFFICES ASSUME w = 4 PROVE f.depth # 0 /\ Skipped(f, f.at, f.depth - 1, Q, tail)
    OBVIOUS
  <2>1. Ahead(d, pos, s) /\ f.depth - 1 = k.depth
    BY <1>9, <1>15
  <2>2. k.depth \in Nat
    BY <1>5, TokenParts
  <2>3. f.depth # 0
    BY <1>7, <2>1, <2>2
  <2>4. Skipped(f, f.at, f.depth - 1, Q, tail)
    BY <1>13, <2>1
  <2> QED BY <2>3, <2>4
<1> QED BY <1>8, <1>11, <1>12, <1>16, <1>17, <1>18, <1>19

LEMMA SkipCounted ==
  ASSUME NEW f, FrameOK(f), NEW x, NEW Q, NEW tail, SkipWay(f, "counted", x, Q, tail)
  PROVE  Skipped(f, f.at, f.depth, Q, tail)
<1>1. f.fn = "skipRpc" /\ tail \in Seq(Byte) /\ SkipPlan(Q, tail)
  BY DEF SkipWay
<1>2. SkipNum(f, "counted", x, Q, tail)
  BY DEF SkipWay, SkipPlace, SkipLoop, SkipLen, SkipTag
<1>3. PICK k, s : /\ NextToken(Q, tail, k, s, f.depth) /\ k.tag % 8 = 0
                  /\ Got(Half1("counted"), k.num, x, f.d, f.at, s)
  BY <1>2 DEF SkipNum
<1>4. Ahead(f.d, f.at, s)
  <2>1. ~Half1("counted")
    BY DEF Half1
  <2> QED BY <1>3, <2>1 DEF Got
<1>5. f.depth = k.depth
  BY <1>3 DEF NextToken, Skippable
<1> QED BY <1>1, <1>3, <1>4, <1>5, TokenSkipped

LEMMA SkipMeasured ==
  ASSUME NEW f, FrameOK(f), NEW x, NEW Q, NEW tail, SkipWay(f, "measured", x, Q, tail),
         NEW len, len = Signed(x.acc, Word), NEW a, a = Signed(f.at + len, Word)
  PROVE  len \in Nat /\ Skipped(f, a, f.depth, Q, tail)
<1> DEFINE d == f.d
           pos == f.at
<1>1. f.fn = "skipRpc" /\ d \in Seq(Byte) /\ Len(d) < Half /\ tail \in Seq(Byte) /\ SkipPlan(Q, tail)
  BY DEF SkipWay
<1>2. SkipLen(f, "measured", x, Q, tail)
  BY DEF SkipWay, SkipPlace, SkipLoop, SkipNum, SkipTag
<1>3. PICK k, s : /\ NextToken(Q, tail, k, s, f.depth) /\ k.tag % 8 = 2 /\ Len(k.data) < Half
                  /\ Got(Half1("measured"), Len(k.data), x, d, pos, k.data \o s)
  BY <1>2 DEF SkipLen
<1> DEFINE data == k.data
<1>4. x.acc = Len(data) /\ Ahead(d, pos, data \o s)
  <2>1. ~Half1("measured")
    BY DEF Half1
  <2> QED BY <1>3, <2>1 DEF Got
<1>5. s \in Seq(Byte) /\ data \in Seq(Byte) /\ Len(data) \in Nat /\ Len(data) < Half
  BY <1>3, NextTokenTypes, TokenParts
<1>6. f.depth = k.depth
  BY <1>3 DEF NextToken, Skippable
<1> HIDE DEF data, d, pos
<1>7. len = Len(data)
  BY <1>4, <1>5, SignedSmall
<1>8. pos + Len(data) <= Len(d) /\ pos \in Nat /\ Len(d) \in Nat /\ Ahead(d, pos + Len(data), s)
  <2>1. Ahead(d, pos + Len(data), s)
    BY <1>1, <1>4, <1>5, AheadAfter
  <2>2. pos \in Nat
    BY <1>4 DEF Ahead
  <2> QED BY <1>1, <1>4, <1>5, <2>1, <2>2, LeftLength
<1>9. a = pos + Len(data)
  <2> DEFINE y == pos + Len(data)
  <2>1. y \in Nat /\ y < Half
    BY <1>1, <1>5, <1>8, HalfOfWord
  <2>2. a = Signed(y, Word)
    BY <1>7 DEF pos
  <2> HIDE DEF y
  <2>3. Signed(y, Word) = y
    BY <2>1, SignedSmall
  <2> QED BY <2>2, <2>3 DEF y
<1>10. Ahead(f.d, a, s)
  BY <1>8, <1>9 DEF d
<1> QED BY <1>1, <1>3, <1>5, <1>6, <1>7, <1>10, TokenSkipped

-----------------------------------------------------------------------------
(* Unmarshal on its way through what was written *)

Mode  == IF Len(input.of) = 1 THEN "cut" ELSE "joined"
Meant == IF Len(input.of) = 1 THEN input.of[1]
         ELSE MergeAll(input.type, input.of[1], input.of[2])
Whole == IF Len(input.of) = 1 THEN Marshal(input.type, input.of[1]) ELSE input.bytes

Alone(R) ==
  Len(stack) = 1 /\ Way(stack[1], pc, varint, Whole, input.type, R, Meant, Mode)

\* An embedded record is read, and its caller goes on with what comes of it.
InRecord(R) ==
  /\ Len(stack) = 2
  /\ \E Q, r : /\ Way(stack[2], pc, varint, stack[2].d, "Record", Q, r, "record")
               /\ \E q \in R : Ahead(Whole, stack[1].at, q[1]) /\ q[2] = WithRecord(stack[1], r).m

\* A field is skipped, and the caller goes on with what it had.
InSkip(R) ==
  /\ Len(stack) = 2 /\ Mode = "joined"
  /\ Ahead(Whole, stack[1].at, stack[2].d)
  /\ \E Q, tail : /\ SkipWay(stack[2], pc, varint, Q, tail)
                  /\ \E q \in R : tail = q[1] /\ q[2] = stack[1].m

OnTheWay(R) ==
  Plan(input.type, R, Meant, Mode) /\ (Alone(R) \/ InRecord(R) \/ InSkip(R))

AsMeant ==
  /\ result \in Message[input.type]
  /\ Mode # "cut" => result = Meant
  /\ Mode = "cut" => Marshal(input.type, result) = input.bytes

Alive ==
  /\ stack[1].fn = input.type /\ stack[1].d = input.bytes
  /\ outcome # "reading" => pc = "done"
  /\ outcome = "reading" => \E R : OnTheWay(R)
  /\ outcome = "error" => Mode = "cut"
  /\ outcome = "ok" => AsMeant

Through == input \in Inputs /\ (input.of # <<>> => Alive)

LEMMA PrefixRest ==
  ASSUME NEW b \in Seq(Byte), NEW W \in Seq(Byte), IsPrefix(b, W)
  PROVE  \E e \in Seq(Byte) : W = b \o e
<1>1. Len(b) \in Nat /\ Len(W) \in Nat /\ Len(b) <= Len(W)
  BY DEF IsPrefix
<1> DEFINE n == Len(b)
           e == SubSeq(W, n + 1, Len(W))
<1>2. \A i \in 1..n : b[i] = W[i]
  <2>1. SubSeq(b, 1, n) = SubSeq(W, 1, n)
    BY DEF IsPrefix
  <2>2. \A i \in 1..n : SubSeq(b, 1, n)[i] = b[i] /\ SubSeq(W, 1, n)[i] = W[i]
    BY <1>1, CutSeq DEF IsSeq
  <2> QED BY <2>1, <2>2
<1>3. \A i \in n + 1..Len(W) : W[i] \in Byte
  BY <1>1, ElementOfSeq
<1> HIDE DEF n
<1>4. n \in Nat /\ n <= Len(W) /\ n + 1 \in Int /\ Len(W) \in Int
  BY <1>1 DEF n
<1>5. /\ e \in Seq(Byte)
      /\ Len(e) = IF n + 1 <= Len(W) THEN Len(W) - (n + 1) + 1 ELSE 0
      /\ \A i \in 1..Len(W) - (n + 1) + 1 : e[i] = W[(n + 1) + i - 1]
  BY <1>3, <1>4, SubSeqProperties
<1> HIDE DEF e
<1>6. Len(e) = Len(W) - n
  BY <1>1, <1>4, <1>5
<1>7. /\ Len(b \o e) = n + Len(e) /\ b \o e \in Seq(Byte)
      /\ \A i \in 1..n + Len(e) : (b \o e)[i] = IF i <= n THEN b[i] ELSE e[i - n]
  BY <1>5, ConcatProperties DEF n
<1>8. ASSUME NEW i \in 1..Len(W) PROVE W[i] = (b \o e)[i]
  <2>1. i \in 1..n + Len(e)
    BY <1>4, <1>6
  <2>2. CASE i <= n
    <3>1. i \in 1..n
      BY <1>4, <2>2
    <3> QED BY <1>2, <1>7, <2>1, <2>2, <3>1 DEF n
  <2>3. CASE ~(i <= n)
    <3>1. i - n \in 1..Len(W) - (n + 1) + 1 /\ (n + 1) + (i - n) - 1 = i
      BY <1>4, <2>3
    <3>2. e[i - n] = W[i]
      BY <1>5, <3>1
    <3> QED BY <1>7, <2>1, <2>3, <3>2
  <2> QED BY <2>2, <2>3
<1>9. Len(W) = Len(b \o e)
  BY <1>4, <1>6, <1>7
<1>10. W = b \o e
  BY <1>7, <1>8, <1>9, SeqEqual
<1> QED BY <1>5, <1>10

LEMMA InputIs ==
  ASSUME input \in Inputs, input.of # <<>>
  PROVE  /\ input.type \in Messages /\ Covers(input.bytes, Whole, Mode)
         /\ Mode \in {"cut", "joined"}
         /\ Mode = "cut" => Len(input.of) = 1 /\ input.of[1] \in Message[input.type]
         /\ Mode # "cut" => /\ Len(input.of) = 2
                            /\ input.of[1] \in Message[input.type]
                            /\ input.of[2] \in Message[input.type]
                            /\ Whole = input.bytes
                            /\ IsUnknownField(input.type, input.between)
                            /\ input.bytes = Marshal(input.type, input.of[1])
                                               \o FieldBytes(input.between)
                                               \o Marshal(input.type, input.of[2])
<1>1. /\ input.type \in Messages
      /\ input.bytes \in Seq(Byte) /\ Len(input.bytes) < Half
      /\ input.of \in Seq(Message[input.type]) /\ Len(input.of) \in 0..2
      /\ Len(input.of) = 1 =>
           /\ Len(Marshal(input.type, input.of[1])) < Half
           /\ IsPrefix(input.bytes, Marshal(input.type, input.of[1]))
      /\ Len(input.of) = 2 =>
           /\ IsUnknownField(input.type, input.between)
           /\ input.bytes = Marshal(input.type, input.of[1]) \o FieldBytes(input.between)
                              \o Marshal(input.type, input.of[2])
  BY InputsAssumption DEF Half
<1>2. Len(input.of) \in {1, 2} /\ \A i \in 1..Len(input.of) : input.of[i] \in Message[input.type]
  <2> DEFINE of == input.of
             M == Message[input.type]
  <2>1. of \in Seq(M) /\ Len(of) \in 0..2 /\ of # <<>>
    BY <1>1
  <2> HIDE DEF of, M
  <2>2. Len(of) # 0 /\ \A i \in 1..Len(of) : of[i] \in M
    BY <2>1, ElementOfSeq
  <2>3. Len(of) \in {1, 2}
    BY <2>1, <2>2
  <2> QED BY <2>2, <2>3 DEF of, M
<1>3. CASE Len(input.of) = 1
  <2> DEFINE W == Marshal(input.type, input.of[1])
  <2>1. input.of[1] \in Message[input.type]
    BY <1>2, <1>3
  <2>2. W \in Seq(Byte) /\ Len(W) < Half /\ Whole = W /\ Mode = "cut"
    BY <1>1, <1>3, <2>1, MarshalIs DEF Whole, Mode
  <2>3. \E e \in Seq(Byte) : W = input.bytes \o e
    <3> DEFINE b == input.bytes
    <3>1. IsPrefix(b, W) /\ b \in Seq(Byte)
      BY <1>1, <1>3
    <3> HIDE DEF W, b
    <3> QED BY <2>2, <3>1, PrefixRest DEF b
  <2>4. Covers(input.bytes, Whole, Mode)
    BY <1>1, <2>2, <2>3 DEF Covers
  <2> QED BY <1>1, <1>3, <2>1, <2>2, <2>4
<1>4. CASE Len(input.of) = 2
  <2>1. Whole = input.bytes /\ Mode = "joined"
    BY <1>4 DEF Whole, Mode
  <2>2. <<>> \in Seq(Byte) /\ input.bytes = input.bytes \o <<>>
    BY <1>1, ConcatEmptySeq
  <2>3. Covers(input.bytes, Whole, Mode)
    BY <1>1, <2>1, <2>2 DEF Covers
  <2>4. input.of[1] \in Message[input.type] /\ input.of[2] \in Message[input.type]
    BY <1>2, <1>4
  <2> QED BY <1>1, <1>4, <2>1, <2>3, <2>4
<1> QED BY <1>2, <1>3, <1>4

LEMMA InitThrough == Init => Through
<1> SUFFICES ASSUME Init, input.of # <<>> PROVE Alive
  BY DEF Init, Through
<1> DEFINE f == Frame(input.type, input.bytes, New[input.type])
<1>1. input \in Inputs /\ stack = <<f>> /\ varint = NoBits /\ pc = "loop" /\ outcome = "reading"
  BY DEF Init
<1>2. f.fn = input.type /\ f.d = input.bytes /\ f.at = 0 /\ f.m = New[input.type]
  BY DEF Frame
<1> HIDE DEF f
<1>3. Len(stack) = 1 /\ stack[1] = f
  BY <1>1
<1>4. Reads(input.type, Whole, New[input.type], Meant, Mode)
  <2>1. CASE Mode = "cut"
    <3>1. Len(input.of) = 1 /\ input.of[1] \in Message[input.type] /\ input.type \in Messages
      BY <1>1, <2>1, InputIs
    <3>2. Whole = Marshal(input.type, input.of[1]) /\ Meant = input.of[1]
      BY <3>1 DEF Whole, Meant
    <3> QED BY <2>1, <3>1, <3>2, CutReads
  <2>2. CASE Mode # "cut"
    <3>1. /\ Len(input.of) = 2 /\ input.of[1] \in Message[input.type] /\ input.type \in Messages
          /\ input.of[2] \in Message[input.type] /\ Mode = "joined"
          /\ Whole = Marshal(input.type, input.of[1]) \o FieldBytes(input.between)
                       \o Marshal(input.type, input.of[2])
          /\ IsUnknownField(input.type, input.between)
      BY <1>1, <2>2, InputIs
    <3>2. Meant = MergeAll(input.type, input.of[1], input.of[2])
      BY <3>1 DEF Meant
    <3> QED BY <3>1, <3>2, JoinedReads
  <2> QED BY <2>1, <2>2
<1>5. PICK R : Plan(input.type, R, Meant, Mode) /\ <<Whole, New[input.type]>> \in R
  BY <1>4 DEF Reads
<1>6. Covers(input.bytes, Whole, Mode) /\ input.type \in Messages
  BY <1>1, InputIs
<1>7. Ahead(Whole, 0, Whole)
  BY <1>6, CoversBytes, AheadAtStart
<1> DEFINE q == <<Whole, New[input.type]>>
<1>8. q \in R /\ q[1] = Whole /\ q[2] = New[input.type]
  BY <1>5
<1> HIDE DEF q
<1>9. Way(f, "loop", varint, Whole, input.type, R, Meant, Mode)
  <2>1. q[2] = f.m /\ Ahead(Whole, f.at, q[1]) /\ Covers(f.d, Whole, Mode)
    BY <1>2, <1>6, <1>7, <1>8
  <2> QED BY <1>2, <1>5, <1>6, <1>8, <2>1, WayPast
<1>10. OnTheWay(R)
  BY <1>1, <1>3, <1>5, <1>9 DEF OnTheWay, Alone
<1> QED BY <1>1, <1>2, <1>3, <1>10 DEF Alive

\* The running call is on its way through something.
TopWay(F, t, R, last, mode) ==
  /\ Way(top, pc, varint, F, t, R, last, mode)
  /\ mode = "cut" => Mode = "cut"

LEMMA OneOfThree ==
  ASSUME Inv, Alive, outcome = "reading"
  PROVE  /\ Skipping => \E Q, tail : SkipWay(top, pc, varint, Q, tail)
         /\ ~Skipping => \E F, t, R, last, mode : TopWay(F, t, R, last, mode)
<1>1. PICK R : OnTheWay(R)
  BY DEF Alive
<1>2. CASE Alone(R)
  <2>1. top = stack[1] /\ Way(top, pc, varint, Whole, input.type, R, Meant, Mode)
    BY <1>2 DEF Alone, top
  <2>2. top.fn \in Messages
    BY <2>1 DEF Way
  <2>3. TopWay(Whole, input.type, R, Meant, Mode)
    BY <2>1 DEF TopWay
  <2> QED BY <2>2, <2>3, NoSkipMessage DEF Skipping
<1>3. CASE InRecord(R)
  <2>1. PICK Q, r : Way(stack[2], pc, varint, stack[2].d, "Record", Q, r, "record")
    BY <1>3 DEF InRecord
  <2>2. top = stack[2]
    BY <1>3 DEF InRecord, top
  <2>3. top.fn = "Record"
    BY <2>1, <2>2 DEF Way
  <2>4. TopWay(stack[2].d, "Record", Q, r, "record")
    BY <2>1, <2>2 DEF TopWay
  <2> QED BY <2>3, <2>4 DEF Skipping
<1>4. CASE InSkip(R)
  <2>1. PICK Q, tail : SkipWay(stack[2], pc, varint, Q, tail)
    BY <1>4 DEF InSkip
  <2>2. top = stack[2]
    BY <1>4 DEF InSkip, top
  <2>3. top.fn = "skipRpc"
    BY <2>1, <2>2 DEF SkipWay
  <2> QED BY <2>1, <2>2, <2>3 DEF Skipping
<1> QED BY <1>1, <1>2, <1>3, <1>4 DEF OnTheWay

\* Whatever the running call is on its way through, it still is as frame f.
KeepsWay(f, at, x) ==
  \A F, t, R, last, mode :
    Way(top, pc, varint, F, t, R, last, mode) => Way(f, at, x, F, t, R, last, mode)

KeepsSkip(f, at, x) ==
  \A Q, tail : SkipWay(top, pc, varint, Q, tail) => SkipWay(f, at, x, Q, tail)

LEMMA TopMoves ==
  ASSUME Inv, Alive, outcome = "reading", NEW f, f.fn = top.fn, f.d = top.d,
         NEW at, NEW x, KeepsWay(f, at, x), KeepsSkip(f, at, x),
         stack' = [stack EXCEPT ![Len(stack)] = f], pc' = at, varint' = x,
         UNCHANGED <<input, outcome>>
  PROVE  Alive'
<1> DEFINE r == [stack EXCEPT ![Len(stack)] = f]
           n == Len(stack)
<1>1. IsSeq(stack) /\ n \in 1..3
  BY DEF Inv, StackOK
<1>2. Len(r) = n /\ r[n] = f /\ \A i \in 1..n \ {n} : r[i] = stack[i]
  <2>1. n \in 1..Len(stack)
    BY <1>1
  <2> HIDE DEF n
  <2>2. Len([stack EXCEPT ![n] = f]) = Len(stack) /\ [stack EXCEPT ![n] = f][n] = f
        /\ \A i \in 1..Len(stack) \ {n} : [stack EXCEPT ![n] = f][i] = stack[i]
    BY <1>1, <2>1, ChangedSeq
  <2> QED BY <2>2 DEF n
<1>3. stack' = r /\ input' = input /\ outcome' = outcome /\ pc' = at /\ varint' = x /\ top = stack[n]
  BY DEF top
<1> HIDE DEF r
<1>4. /\ Whole' = Whole /\ Mode' = Mode /\ Meant' = Meant
      /\ Len(stack') = n /\ stack'[n] = f /\ \A i \in 1..n \ {n} : stack'[i] = stack[i]
  BY <1>2, <1>3 DEF Whole, Mode, Meant
<1>5. stack'[1].fn = stack[1].fn /\ stack'[1].d = stack[1].d
  <2>1. CASE n = 1
    BY <1>3, <1>4, <2>1
  <2>2. CASE n # 1
    <3>1. 1 \in 1..n \ {n}
      BY <1>1, <2>2
    <3> QED BY <1>4, <3>1
  <2> QED BY <2>1, <2>2
<1>6. PICK R : OnTheWay(R)
  BY DEF Alive
<1> HIDE DEF n
<1>7. ASSUME Alone(R) PROVE OnTheWay(R)'
  <2>1. n = 1 /\ top = stack[1] /\ Way(top, pc, varint, Whole, input.type, R, Meant, Mode)
    BY <1>3, <1>7 DEF Alone, n
  <2>2. Way(f, at, x, Whole, input.type, R, Meant, Mode)
    BY <2>1 DEF KeepsWay
  <2>3. Alone(R)'
    BY <1>3, <1>4, <2>1, <2>2 DEF Alone
  <2> QED BY <1>3, <1>4, <1>6, <2>3 DEF OnTheWay
<1>8. ASSUME InRecord(R) PROVE OnTheWay(R)'
  <2>1. n = 2 /\ top = stack[2]
    BY <1>3, <1>8 DEF InRecord, n
  <2>2. PICK Q, q : /\ Way(stack[2], pc, varint, stack[2].d, "Record", Q, q, "record")
                    /\ \E p \in R : Ahead(Whole, stack[1].at, p[1]) /\ p[2] = WithRecord(stack[1], q).m
    BY <1>8 DEF InRecord
  <2>3. Way(f, at, x, f.d, "Record", Q, q, "record")
    BY <2>1, <2>2 DEF KeepsWay
  <2>4. stack'[1] = stack[1] /\ stack'[2] = f
    BY <1>4, <2>1
  <2>5. InRecord(R)'
    BY <1>3, <1>4, <2>1, <2>2, <2>3, <2>4 DEF InRecord
  <2> QED BY <1>3, <1>4, <1>6, <2>5 DEF OnTheWay
<1>9. ASSUME InSkip(R) PROVE OnTheWay(R)'
  <2>1. n = 2 /\ top = stack[2]
    BY <1>3, <1>9 DEF InSkip, n
  <2>2. PICK Q, tail : /\ SkipWay(stack[2], pc, varint, Q, tail)
                       /\ \E q \in R : tail = q[1] /\ q[2] = stack[1].m
    BY <1>9 DEF InSkip
  <2>3. SkipWay(f, at, x, Q, tail)
    BY <2>1, <2>2 DEF KeepsSkip
  <2>4. stack'[1] = stack[1] /\ stack'[2] = f
    BY <1>4, <2>1
  <2>5. InSkip(R)'
    <3>1. Mode' = "joined" /\ Ahead(Whole', stack'[1].at, stack'[2].d)
      BY <1>4, <1>9, <2>1, <2>4 DEF InSkip
    <3> QED BY <1>3, <1>4, <2>1, <2>2, <2>3, <2>4, <3>1 DEF InSkip
  <2> QED BY <1>3, <1>4, <1>6, <2>5 DEF OnTheWay
<1>10. \E S : OnTheWay(S)'
  <2>1. Alone(R) \/ InRecord(R) \/ InSkip(R)
    BY <1>6 DEF OnTheWay
  <2> QED BY <1>7, <1>8, <1>9, <2>1
<1> QED BY <1>3, <1>4, <1>5, <1>10 DEF Alive

LEMMA Fails ==
  ASSUME Inv, Alive, Mode = "cut", Finish("error")
  PROVE  Alive'
<1>1. /\ stack' = stack /\ input' = input /\ pc' = "done" /\ outcome' = "error"
  BY DEF Finish
<1>2. Mode' = Mode
  BY <1>1 DEF Mode
<1> QED BY <1>1, <1>2 DEF Alive

LEMMA Reads1 ==
  ASSUME Alive, pc # "done"
  PROVE  outcome = "reading"
BY DEF Alive

-----------------------------------------------------------------------------
(* The steps of the loops *)

LEMMA ReadVarintMoves ==
  ASSUME Inv, Alive, outcome = "reading", NEW f, f.fn = top.fn, f.d = top.d, NEW at,
         KeepsWay(f, at, NoBits), KeepsSkip(f, at, NoBits), ReadVarint(f, at)
  PROVE  Alive'
<1>1. /\ stack' = [stack EXCEPT ![Len(stack)] = f] /\ pc' = at /\ varint' = NoBits
      /\ UNCHANGED <<input, outcome>>
  BY DEF ReadVarint
<1> QED BY <1>1, TopMoves

LEMMA BecomeMoves ==
  ASSUME Inv, Alive, outcome = "reading", NEW f, f.fn = top.fn, f.d = top.d, NEW at,
         KeepsWay(f, at, varint), KeepsSkip(f, at, varint), Become(f, at)
  PROVE  Alive'
<1>1. /\ stack' = [stack EXCEPT ![Len(stack)] = f] /\ pc' = at /\ varint' = varint
      /\ UNCHANGED <<input, outcome>>
  BY DEF Become, Continue
<1> QED BY <1>1, TopMoves

LEMMA NoSkipKept ==
  ASSUME ~Skipping, NEW f, NEW at, NEW x
  PROVE  KeepsSkip(f, at, x)
BY DEF KeepsSkip, SkipWay, Skipping

LEMMA StartFieldThrough ==
  ASSUME Inv, Alive, StartField
  PROVE  Alive'
<1> DEFINE f == [top EXCEPT !.pre = top.at]
<1>1. pc = "loop" /\ top.at < Len(top.d) /\ ReadVarint(f, "tag") /\ outcome = "reading"
  BY Reads1 DEF StartField
<1>2. FrameOK(top)
  BY TopOK
<1>3. f.fn = top.fn /\ f.d = top.d
  BY <1>2, FrameChanges
<1>4. KeepsWay(f, "tag", NoBits)
  BY <1>1, <1>2, WayField DEF KeepsWay
<1>5. KeepsSkip(f, "tag", NoBits)
  BY <1>1, <1>2, SkipStarts DEF KeepsSkip
<1> HIDE DEF f
<1> QED BY <1>1, <1>3, <1>4, <1>5, ReadVarintMoves

LEMMA ReadByteThrough ==
  ASSUME Inv, Alive, ReadByte
  PROVE  Alive'
<1> DEFINE b == top.d[top.at + 1]
           f == [top EXCEPT !.at = top.at + 1]
           to == IF b < 128 THEN Then[pc] ELSE pc
           y == [acc |-> (varint.acc + (b % 128) * varint.weight) % Word,
                 weight |-> varint.weight * 128]
<1>1. FrameOK(top) /\ ~(top.at < 0)
  BY TopOK DEF FrameOK
<1>2. /\ pc \in DOMAIN Then /\ top.at < Len(top.d)
      /\ stack' = [stack EXCEPT ![Len(stack)].at = @ + 1]
      /\ varint' = y /\ pc' = to
      /\ UNCHANGED <<input, outcome>>
  BY <1>1 DEF ReadByte, Finish
<1>3. stack' = [stack EXCEPT ![Len(stack)] = f]
  BY <1>2 DEF top
<1>4. pc # "done" /\ outcome = "reading"
  BY <1>2, Reads1 DEF Then
<1>5. f.fn = top.fn /\ f.d = top.d
  BY <1>1, FrameChanges
<1>6. KeepsWay(f, to, y)
  <2> SUFFICES ASSUME NEW F, NEW t, NEW R, NEW last, NEW mode, Way(top, pc, varint, F, t, R, last, mode)
               PROVE  Way(f, to, y, F, t, R, last, mode)
    BY DEF KeepsWay
  <2> QED BY <1>1, <1>2, WayByte
<1>7. KeepsSkip(f, to, y)
  <2> SUFFICES ASSUME NEW Q, NEW tail, SkipWay(top, pc, varint, Q, tail)
               PROVE  SkipWay(f, to, y, Q, tail)
    BY DEF KeepsSkip
  <2> QED BY <1>1, <1>2, SkipByte
<1> HIDE DEF f, to, y
<1> QED BY <1>2, <1>3, <1>4, <1>5, <1>6, <1>7, TopMoves

LEMMA VarintFailsThrough ==
  ASSUME Inv, Alive, VarintFails
  PROVE  Alive'
<1>1. pc \in DOMAIN Then /\ Finish("error") /\ (varint.weight >= Word \/ top.at >= Len(top.d))
  BY DEF VarintFails
<1>2. outcome = "reading"
  BY <1>1, Reads1 DEF Then
<1>3. Word \in Nat /\ Len(top.d) \in Nat
  BY WordAssumption, TopOK DEF FrameOK
<1>4. ~Skipping
  <2> SUFFICES ASSUME Skipping PROVE FALSE
    OBVIOUS
  <2>1. PICK Q, tail : SkipWay(top, pc, varint, Q, tail)
    BY <1>2, OneOfThree
  <2>2. varint.weight < Word /\ top.at < Len(top.d) /\ varint.weight \in Nat /\ top.at \in Nat
    BY <1>1, <2>1, SkipRoom
  <2> QED BY <1>1, <1>3, <2>2
<1>5. PICK F, t, R, last, mode : TopWay(F, t, R, last, mode)
  BY <1>2, <1>4, OneOfThree
<1>6. Way(top, pc, varint, F, t, R, last, mode) /\ (mode = "cut" => Mode = "cut")
  BY <1>5 DEF TopWay
<1>7. CASE mode = "cut"
  BY <1>1, <1>6, <1>7, Fails
<1>8. CASE mode # "cut"
  <2>1. varint.weight < Word /\ top.at < Len(top.d) /\ varint.weight \in Nat /\ top.at \in Nat
    BY <1>1, <1>6, <1>8, WayRoom
  <2> QED BY <1>1, <1>3, <2>1
<1> QED BY <1>7, <1>8

LEMMA TagKnown ==
  ASSUME Inv, Alive, pc = "tagged", ~Skipping
  PROVE  GoodTag /\ (KnownField => wireType = WireTypeOf(Cases[top.fn][fieldNum].kind) /\ wireType \in {0, 2})
<1>1. outcome = "reading" /\ FrameOK(top)
  BY Reads1, TopOK
<1>2. PICK F, t, R, last, mode : TopWay(F, t, R, last, mode)
  BY <1>1, OneOfThree
<1>3. Way(top, "tagged", varint, F, t, R, last, mode) /\ top.fn = t
  BY <1>2 DEF TopWay, Way
<1>4. fieldNum = Signed(varint.acc \div 8, TagWord) /\ wireType = varint.acc % 8
  BY DEF fieldNum, wireType
<1>5. CASE fieldNum \in DOMAIN Cases[t]
  <2>1. /\ fieldNum > 0 /\ wireType = WireTypeOf(Cases[t][fieldNum].kind) /\ wireType \in {0, 2}
    <3> DEFINE n == fieldNum
               a == varint.acc
    <3>1. n = Signed(a \div 8, TagWord) /\ n \in DOMAIN Cases[t]
      BY <1>4, <1>5
    <3>2. FrameOK(top) /\ Way(top, "tagged", varint, F, t, R, last, mode)
      BY <1>1, <1>3
    <3> HIDE DEF n
    <3>3. n > 0
      BY <3>1, <3>2, WayEnters
    <3>4. a % 8 = WireTypeOf(Cases[t][n].kind)
      BY <3>1, <3>2, WayEnters
    <3>5. a % 8 \in {0, 2}
      BY <3>1, <3>2, WayEnters
    <3> QED BY <1>4, <3>3, <3>4, <3>5 DEF n
  <2> QED BY <1>3, <2>1 DEF GoodTag
<1>6. CASE fieldNum \notin DOMAIN Cases[t]
  <2>1. fieldNum > 0 /\ wireType # 4
    BY <1>1, <1>3, <1>4, <1>6, WaySkips
  <2> QED BY <1>3, <1>6, <2>1 DEF GoodTag, KnownField
<1> QED BY <1>5, <1>6

LEMMA BadTagThrough ==
  ASSUME Inv, Alive, BadTag
  PROVE  Alive'
BY TagKnown DEF BadTag

LEMMA EnterFieldThrough ==
  ASSUME Inv, Alive, EnterField
  PROVE  Alive'
<1> DEFINE f == [top EXCEPT !.field = fieldNum]
           at == IF wireType = 0 THEN "num" ELSE "len"
<1>1. pc = "tagged" /\ ~Skipping /\ KnownField /\ outcome = "reading" /\ FrameOK(top)
  BY Reads1, TopOK DEF EnterField
<1>2. wireType = WireTypeOf(Cases[top.fn][fieldNum].kind)
  BY <1>1, TagKnown
<1>3. ReadVarint(f, at)
  BY <1>2 DEF EnterField
<1>4. f.fn = top.fn /\ f.d = top.d
  BY <1>1, FrameChanges
<1>5. KeepsWay(f, at, NoBits)
  <2> SUFFICES ASSUME NEW F, NEW t, NEW R, NEW last, NEW mode, Way(top, pc, varint, F, t, R, last, mode)
               PROVE  Way(f, at, NoBits, F, t, R, last, mode)
    BY DEF KeepsWay
  <2>1. fieldNum \in DOMAIN Cases[t]
    BY <1>1 DEF KnownField, Way
  <2>2. Way(top, "tagged", varint, F, t, R, last, mode)
    BY <1>1
  <2>3. fieldNum = Signed(varint.acc \div 8, TagWord)
    BY DEF fieldNum
  <2>4. Way([top EXCEPT !.field = fieldNum], IF varint.acc % 8 = 0 THEN "num" ELSE "len", NoBits,
            F, t, R, last, mode)
    BY <1>1, <2>1, <2>2, <2>3, WayEnters
  <2> QED BY <2>4 DEF wireType
<1> HIDE DEF f, at
<1> QED BY <1>1, <1>3, <1>4, <1>5, NoSkipKept, ReadVarintMoves

LEMMA TakeNumberThrough ==
  ASSUME Inv, Alive, TakeNumber
  PROVE  Alive'
<1> DEFINE v == Signed(varint.acc, Word)
           y == With(top.m, field.name, IF field.kind = "bool" THEN v # 0 ELSE v)
           f == [top EXCEPT !.m = y]
<1>1. pc = "counted" /\ ~Skipping /\ outcome = "reading" /\ FrameOK(top)
  BY Reads1, TopOK DEF TakeNumber
<1>2. Become(f, "loop")
  BY DEF TakeNumber, With
<1>3. f.fn = top.fn /\ f.d = top.d
  BY <1>1, FrameChanges
<1>4. KeepsWay(f, "loop", varint)
  <2> SUFFICES ASSUME NEW F, NEW t, NEW R, NEW last, NEW mode, Way(top, pc, varint, F, t, R, last, mode)
               PROVE  Way(f, "loop", varint, F, t, R, last, mode)
    BY DEF KeepsWay
  <2>1. field = Cases[t][top.field]
    BY DEF field, Way
  <2>2. Way(top, "counted", varint, F, t, R, last, mode)
    BY <1>1
  <2> QED BY <1>1, <2>1, <2>2, WayNumber
<1> HIDE DEF f
<1> QED BY <1>1, <1>2, <1>3, <1>4, NoSkipKept, BecomeMoves

-----------------------------------------------------------------------------
(* The steps that take what a length is for *)

\* What is known of the length of a field.
LEMMA LengthKnown ==
  ASSUME Inv, Alive, pc = "measured", ~Skipping
  PROVE  /\ length \in Nat /\ postIndex \in Nat /\ Len(top.d) \in Nat
         /\ Mode # "cut" => postIndex <= Len(top.d)
<1>1. outcome = "reading" /\ FrameOK(top)
  BY Reads1, TopOK
<1>2. PICK F, t, R, last, mode : TopWay(F, t, R, last, mode)
  BY <1>1, OneOfThree
<1>3. /\ Way(top, "measured", varint, F, t, R, last, mode) /\ Covers(top.d, F, mode)
      /\ mode = "cut" => Mode = "cut"
  BY <1>2 DEF TopWay, Way
<1>4. PICK p \in R, q \in R, k \in Tokens : Measured(top, varint, F, t, R, p, q, k)
  BY <1>3, WayMeasured
<1>5. length = Signed(varint.acc, Word) /\ postIndex = Signed(top.at + length, Word)
  BY DEF length, postIndex
<1> DEFINE len == length
           post == postIndex
<1> HIDE DEF len, post
<1>6. len = Signed(varint.acc, Word) /\ post = Signed(top.at + len, Word)
  BY <1>5 DEF len, post
<1>7. len \in Nat /\ post \in Nat /\ Len(top.d) \in Nat /\ SliceIs(top, F, mode, k, q, post)
  BY <1>1, <1>3, <1>4, <1>6, MeasuredSlice
<1>8. mode # "cut" => post <= Len(top.d)
  BY <1>7 DEF SliceIs
<1> QED BY <1>3, <1>7, <1>8 DEF len, post

LEMMA LengthFailsThrough ==
  ASSUME Inv, Alive, LengthFails
  PROVE  Alive'
<1>1. BadLength /\ Finish("error")
  BY DEF LengthFails
<1>2. /\ length \in Nat /\ postIndex \in Nat /\ Len(top.d) \in Nat
      /\ Mode # "cut" => postIndex <= Len(top.d)
  BY LengthKnown DEF LengthFails
<1>3. Mode = "cut"
  BY <1>1, <1>2 DEF BadLength
<1> QED BY <1>1, <1>3, Fails

LEMMA TakeBytesThrough ==
  ASSUME Inv, Alive, Sliced({"string", "time"})
  PROVE  /\ field.kind = "time" => slice \in Times
         /\ TakeBytes => Alive'
<1> DEFINE y == With(top.m, field.name, IF field.kind = "string" THEN slice ELSE <<slice>>)
           f == [top EXCEPT !.m = y, !.at = postIndex]
<1>1. /\ pc = "measured" /\ ~Skipping /\ outcome = "reading" /\ FrameOK(top)
      /\ field.kind \in {"string", "time"} /\ ~BadLength
  BY Reads1, TopOK DEF Sliced
<1>2. /\ postIndex \in Nat /\ top.at <= postIndex /\ postIndex <= Len(top.d)
      /\ length = Signed(varint.acc, Word) /\ postIndex = Signed(top.at + length, Word)
      /\ slice = SubSeq(top.d, top.at + 1, postIndex)
  BY <1>1, SliceInRange DEF length, postIndex, slice
<1>3. ASSUME NEW F, NEW t, NEW R, NEW last, NEW mode, Way(top, pc, varint, F, t, R, last, mode)
      PROVE  /\ field.kind = "time" => slice \in Times
             /\ Way(f, "loop", varint, F, t, R, last, mode)
  <2>1. field = Cases[t][top.field]
    BY <1>3 DEF field, Way
  <2>2. Way(top, "measured", varint, F, t, R, last, mode)
    BY <1>1, <1>3
  <2> DEFINE c == field  len == length  post == postIndex  s == slice
  <2>3. /\ c = Cases[t][top.field] /\ c.kind \in {"string", "time"} /\ len = Signed(varint.acc, Word)
        /\ post = Signed(top.at + len, Word) /\ post <= Len(top.d)
        /\ s = SubSeq(top.d, top.at + 1, post)
        /\ y = With(top.m, c.name, IF c.kind = "string" THEN s ELSE <<s>>)
    BY <1>1, <1>2, <2>1
  <2> HIDE DEF c, len, post, s, y, f
  <2>4. /\ c.kind = "time" => s \in Times
        /\ Way([top EXCEPT !.m = y, !.at = post], "loop", varint, F, t, R, last, mode)
    BY <1>1, <2>2, <2>3, WayBytes
  <2> QED BY <2>4 DEF c, post, s, f
<1>4. PICK F, t, R, last, mode : TopWay(F, t, R, last, mode)
  BY <1>1, OneOfThree
<1>5. field.kind = "time" => slice \in Times
  BY <1>3, <1>4 DEF TopWay
<1>6. ASSUME TakeBytes PROVE Alive'
  <2>1. InRange(top.d, top.at, postIndex)
    BY <1>1, <1>2 DEF InRange, FrameOK
  <2>2. Become(f, "loop")
    <3>1. PICK v \in IF field.kind = "string" THEN {slice}
                     ELSE {<<t1>> : t1 \in IF slice \in Times THEN {slice} ELSE Times} :
            Become([top EXCEPT !.m = [@ EXCEPT ![field.name] = v], !.at = postIndex], "loop")
      BY <1>6, <2>1 DEF TakeBytes
    <3>2. v = IF field.kind = "string" THEN slice ELSE <<slice>>
      BY <1>1, <1>5
    <3>3. y = [top.m EXCEPT ![field.name] = v]
      BY <3>2 DEF With
    <3> QED BY <3>1, <3>3
  <2>3. f.fn = top.fn /\ f.d = top.d
    <3>1. f = [fn |-> top.fn, d |-> top.d, at |-> postIndex, pre |-> top.pre,
               field |-> top.field, depth |-> top.depth, m |-> y]
      BY <1>1, MovedWith
    <3> HIDE DEF f
    <3> QED BY <3>1
  <2>4. KeepsWay(f, "loop", varint)
    BY <1>3 DEF KeepsWay
  <2> HIDE DEF f
  <2> QED BY <1>1, <2>2, <2>3, <2>4, NoSkipKept, BecomeMoves
<1> QED BY <1>5, <1>6

LEMMA TimeFailsThrough ==
  ASSUME Inv, Alive, TimeFails
  PROVE  Alive'
<1>1. pc = "measured" /\ ~Skipping /\ ~BadLength /\ field.kind = "time" /\ slice \notin Times
  BY DEF TimeFails, Sliced
<1>2. Sliced({"string", "time"})
  BY <1>1 DEF Sliced
<1> QED BY <1>1, <1>2, TakeBytesThrough

-----------------------------------------------------------------------------
(* From call to call *)

\* The caller alone again.
LEMMA BackAlone ==
  ASSUME input \in Inputs, input.of # <<>>, Alive, outcome = "reading", NEW R, OnTheWay(R),
         NEW g, g.fn = stack[1].fn, g.d = stack[1].d,
         NEW q \in R, q[2] = g.m, Ahead(Whole, g.at, q[1]),
         IsSeq(stack'), Len(stack') = 1, stack'[1] = g, pc' = "loop", UNCHANGED <<input, varint, outcome>>
  PROVE  Alive'
<1>1. g.fn = input.type /\ g.d = input.bytes
  BY DEF Alive
<1>2. Covers(input.bytes, Whole, Mode) /\ input.type \in Messages
  BY InputIs
<1>3. Plan(input.type, R, Meant, Mode)
  BY DEF OnTheWay
<1>4. Way(g, "loop", varint, Whole, input.type, R, Meant, Mode)
  BY <1>1, <1>2, <1>3, WayPast
<1>5. Whole' = Whole /\ Mode' = Mode /\ Meant' = Meant
  BY DEF Whole, Mode, Meant
<1>6. Alone(R)'
  BY <1>4, <1>5 DEF Alone
<1>7. OnTheWay(R)'
  BY <1>3, <1>5, <1>6 DEF OnTheWay
<1> QED BY <1>1, <1>7 DEF Alive

LEMMA SameBefore ==
  \A x, y, z, w \in Seq(Byte) : x \o z = w /\ w = y \o z => x = y
BY ConcatSimplifications

LEMMA SameAfter ==
  \A x, y, z \in Seq(Byte) : x \o y = x \o z => y = z
BY ConcatSimplifications

LEMMA CutResult ==
  ASSUME input \in Inputs, input.of # <<>>, Mode = "cut", NEW m \in Message[input.type],
         NEW at, at = Len(input.bytes), NEW s \in Seq(Byte), Ahead(Whole, at, s),
         MarshalToSizedBuffer(input.type, m) \o s = MarshalToSizedBuffer(input.type, Meant)
  PROVE  Marshal(input.type, m) = input.bytes
<1> DEFINE t == input.type
           d == input.bytes
<1>1. /\ t \in Messages /\ Covers(d, Whole, Mode) /\ Len(input.of) = 1 /\ input.of[1] \in Message[t]
  BY InputIs
<1>2. Meant = input.of[1] /\ Whole = Marshal(t, input.of[1])
  BY <1>1 DEF Meant, Whole
<1>3. /\ MarshalToSizedBuffer(t, Meant) = Whole /\ MarshalToSizedBuffer(t, m) = Marshal(t, m)
      /\ Marshal(t, m) \in Seq(Byte)
  BY <1>1, <1>2, MarshalIs
<1>4. PICK e \in Seq(Byte) : Whole = d \o e
  BY <1>1 DEF Covers
<1>5. d \in Seq(Byte) /\ Whole \in Seq(Byte)
  BY <1>1, CoversBytes
<1> DEFINE x == Marshal(t, m)
           W == Whole
<1>6. x \o s = W
  BY <1>3
<1>7. x \in Seq(Byte)
  BY <1>3
<1> HIDE DEF t, d, x, W
<1>8. W = d \o e /\ d \in Seq(Byte) /\ W \in Seq(Byte) /\ Ahead(W, Len(d), s)
  BY <1>4, <1>5 DEF W, d
<1>9. e = s
  <2>1. Ahead(W, 0, d \o e)
    BY <1>8, AheadAtStart
  <2>2. Ahead(W, 0 + Len(d), e)
    BY <1>8, <2>1, AheadAfter
  <2>3. 0 + Len(d) = Len(d)
    BY <1>8
  <2> QED BY <1>8, <2>2, <2>3, AheadSame
<1>10. x = d
  BY <1>6, <1>7, <1>8, <1>9, SameBefore
<1> QED BY <1>10 DEF x, d, t

LEMMA WithRecordIs ==
  ASSUME NEW f, FrameOK(f), NEW r, NEW g, g = WithRecord(f, r), NEW c, c = Cases[f.fn][f.field]
  PROVE  /\ g.fn = f.fn /\ g.d = f.d /\ g.at = f.at
         /\ g.m = With(f.m, c.name, IF c.kind = "messages" THEN Append(f.m[c.name], r) ELSE <<r>>)
<1> DEFINE y == With(f.m, c.name, IF c.kind = "messages" THEN Append(f.m[c.name], r) ELSE <<r>>)
<1>1. g = [f EXCEPT !.m = y]
  BY DEF WithRecord, With
<1> HIDE DEF y
<1>2. g = [fn |-> f.fn, d |-> f.d, at |-> f.at, pre |-> f.pre, field |-> f.field,
           depth |-> f.depth, m |-> y]
  BY <1>1, FrameChanges
<1>3. g.m = y /\ g.fn = f.fn /\ g.d = f.d /\ g.at = f.at
  BY <1>2
<1> QED BY <1>3 DEF y

LEMMA ChangedOnly ==
  ASSUME NEW s, IsSeq(s), Len(s) = 1, NEW e
  PROVE  IsSeq([s EXCEPT ![1] = e]) /\ Len([s EXCEPT ![1] = e]) = 1 /\ [s EXCEPT ![1] = e][1] = e
<1>1. ASSUME NEW k \in 1..Len(s)
      PROVE  IsSeq([s EXCEPT ![k] = e]) /\ Len([s EXCEPT ![k] = e]) = Len(s) /\ [s EXCEPT ![k] = e][k] = e
  <2>1. IsSeq([s EXCEPT ![k] = e])
    BY ChangedSeq
  <2>2. Len([s EXCEPT ![k] = e]) = Len(s) /\ [s EXCEPT ![k] = e][k] = e
    BY ChangedSeq
  <2> QED BY <2>1, <2>2
<1>2. PICK k \in 1..Len(s) : k = 1
  OBVIOUS
<1> DEFINE r == [s EXCEPT ![k] = e]
<1>3. IsSeq(r) /\ Len(r) = Len(s) /\ r[k] = e
  BY <1>1
<1>4. r = [s EXCEPT ![1] = e]
  BY <1>2
<1> HIDE DEF r
<1>5. IsSeq(r) /\ Len(r) = 1 /\ r[1] = e
  BY <1>2, <1>3
<1> QED BY <1>4, <1>5

LEMMA CallerStays ==
  ASSUME NEW f, FrameOK(f), NEW r
  PROVE  LET g == WithRecord(f, r) IN g.fn = f.fn /\ g.d = f.d /\ g.at = f.at
<1> DEFINE g == WithRecord(f, r)
           c == Cases[f.fn][f.field]
<1>1. g = WithRecord(f, r) /\ c = Cases[f.fn][f.field]
  OBVIOUS
<1> HIDE DEF g, c
<1>2. g.fn = f.fn /\ g.d = f.d /\ g.at = f.at
  BY <1>1, WithRecordIs
<1> QED BY <1>2 DEF g

\* A call at the end of its slice.
EndsAs(F, t, m, at, last, mode) ==
  /\ m \in Message[t]
  /\ mode # "cut" => m = last
  /\ mode = "cut" => \E s : Ahead(F, at, s) /\ s \in Seq(Byte) /\
       MarshalToSizedBuffer(t, m) \o s = MarshalToSizedBuffer(t, last)

LEMMA WayEndsAs ==
  ASSUME NEW f, FrameOK(f), NEW x, NEW F, NEW t, NEW R, NEW last, NEW mode,
         Way(f, "loop", x, F, t, R, last, mode), f.at = Len(f.d)
  PROVE  EndsAs(F, t, f.m, f.at, last, mode)
<1>1. f.m \in Message[t]
  BY WayEnds
<1>2. mode # "cut" => f.m = last
  BY WayEnds
<1>3. mode = "cut" => \E s : Ahead(F, f.at, s) /\ s \in Seq(Byte) /\
        MarshalToSizedBuffer(t, f.m) \o s = MarshalToSizedBuffer(t, last)
  BY WayEnds
<1> QED BY <1>1, <1>2, <1>3 DEF EndsAs

LEMMA EndOfSliceThrough ==
  ASSUME Inv, Alive, input \in Inputs, input.of # <<>>, EndOfSlice
  PROVE  Alive'
<1>1. pc = "loop" /\ top.at >= Len(top.d) /\ outcome = "reading" /\ FrameOK(top) /\ StackOK(stack)
  BY Reads1, TopOK DEF EndOfSlice, Inv
<1>2. ~Skipping
  <2> SUFFICES ASSUME Skipping PROVE FALSE
    OBVIOUS
  <2>1. PICK Q, tail : SkipWay(top, "loop", varint, Q, tail)
    BY <1>1, OneOfThree
  <2>2. top.at < Len(top.d)
    BY <1>1, <2>1, SkipStarts
  <2> QED BY <1>1, <2>2 DEF FrameOK
<1>3. top.at = Len(top.d) /\ ~(top.at > Len(top.d))
  BY <1>1, <1>2 DEF FrameOK, Skipping
<1>4. PICK R : OnTheWay(R)
  BY <1>1 DEF Alive
<1>5. CASE Alone(R)
  <2>1. Len(stack) = 1 /\ top = stack[1] /\ Way(top, "loop", varint, Whole, input.type, R, Meant, Mode)
    BY <1>1, <1>5 DEF Alone, top
  <2>2. Finish("ok")
    BY <1>2, <1>3, <2>1 DEF EndOfSlice
  <2>3. /\ top.m \in Message[input.type]
        /\ Mode # "cut" => top.m = Meant
        /\ Mode = "cut" => \E s : Ahead(Whole, top.at, s) /\ s \in Seq(Byte) /\
             MarshalToSizedBuffer(input.type, top.m) \o s = MarshalToSizedBuffer(input.type, Meant)
    <3>1. EndsAs(Whole, input.type, top.m, top.at, Meant, Mode)
      BY <1>1, <1>3, <2>1, WayEndsAs
    <3> QED BY <3>1 DEF EndsAs
  <2>4. ASSUME Mode = "cut" PROVE Marshal(input.type, top.m) = input.bytes
    <3>1. PICK s : /\ Ahead(Whole, top.at, s) /\ s \in Seq(Byte)
                   /\ MarshalToSizedBuffer(input.type, top.m) \o s = MarshalToSizedBuffer(input.type, Meant)
      BY <2>3, <2>4
    <3>2. top.at = Len(input.bytes)
      BY <1>3, <2>1 DEF Alive
    <3> QED BY <2>3, <2>4, <3>1, <3>2, CutResult
  <2>5. AsMeant
    BY <2>1, <2>3, <2>4 DEF AsMeant, result
  <2>6. /\ stack' = stack /\ input' = input /\ pc' = "done" /\ outcome' = "ok"
    BY <2>2 DEF Finish
  <2>7. AsMeant'
    BY <2>5, <2>6 DEF AsMeant, result, Mode, Meant
  <2> QED BY <2>6, <2>7 DEF Alive
<1>6. CASE InRecord(R)
  <2>1. Len(stack) = 2 /\ top = stack[2] /\ Len(stack) # 1 /\ Len(stack) - 1 = 1
    BY <1>6 DEF InRecord, top
  <2>2. PICK Q, r : /\ Way(stack[2], pc, varint, stack[2].d, "Record", Q, r, "record")
                    /\ \E q \in R : Ahead(Whole, stack[1].at, q[1]) /\ q[2] = WithRecord(stack[1], r).m
    BY <1>6 DEF InRecord
  <2>3. top.m = r
    BY <1>1, <1>3, <2>1, <2>2, WayEnds
  <2> DEFINE g == WithRecord(stack[1], r)
             s1 == SubSeq(stack, 1, 1)
  <2>4. PICK q \in R : Ahead(Whole, stack[1].at, q[1]) /\ q[2] = g.m
    BY <2>2
  <2>5. IsSeq(stack) /\ 1 \in 0..Len(stack) /\ FrameOK(stack[1])
    BY <1>1, <2>1 DEF StackOK
  <2>6. IsSeq(s1) /\ Len(s1) = 1 /\ s1[1] = stack[1]
    BY <2>5, CutSeq
  <2>7. g.fn = stack[1].fn /\ g.d = stack[1].d /\ g.at = stack[1].at
    BY <2>5, CallerStays
  <2>8. Continue([s1 EXCEPT ![1] = WithRecord(@, top.m)], "loop")
    BY <1>2, <1>3, <2>1 DEF EndOfSlice
  <2>9. [s1 EXCEPT ![1] = WithRecord(@, top.m)] = [s1 EXCEPT ![1] = g]
    BY <2>3, <2>6
  <2> HIDE DEF g, s1
  <2>10. IsSeq([s1 EXCEPT ![1] = g]) /\ Len([s1 EXCEPT ![1] = g]) = 1 /\ [s1 EXCEPT ![1] = g][1] = g
    BY <2>6, ChangedOnly
  <2>11. IsSeq(stack') /\ Len(stack') = 1 /\ stack'[1] = g /\ pc' = "loop" /\ UNCHANGED <<input, varint, outcome>>
    BY <2>8, <2>9, <2>10 DEF Continue
  <2>12. Ahead(Whole, g.at, q[1])
    BY <2>4, <2>7
  <2> QED BY <1>1, <1>4, <2>4, <2>7, <2>11, <2>12, BackAlone
<1>7. CASE InSkip(R)
  <2>1. PICK Q, tail : SkipWay(stack[2], pc, varint, Q, tail)
    BY <1>7 DEF InSkip
  <2>2. top = stack[2]
    BY <1>7 DEF InSkip, top
  <2> QED BY <1>2, <2>1, <2>2 DEF SkipWay, Skipping
<1> QED BY <1>4, <1>5, <1>6, <1>7 DEF OnTheWay

\* One more call, from the only one.
LEMMA Called ==
  ASSUME Inv, Len(stack) = 1, NEW f, NEW g,
         stack' = Append([stack EXCEPT ![Len(stack)] = f], g)
  PROVE  Len(stack') = 2 /\ stack'[1] = f /\ stack'[2] = g
<1> DEFINE r == [stack EXCEPT ![1] = f]
<1>1. IsSeq(stack) /\ 1 \in 1..Len(stack)
  BY DEF Inv, StackOK
<1>2. IsSeq(r) /\ Len(r) = 1 /\ r[1] = f
  BY <1>1, ChangedOnly
<1>3. stack' = Append(r, g)
  OBVIOUS
<1> HIDE DEF r
<1>4. /\ Len(Append(r, g)) = Len(r) + 1 /\ Append(r, g)[Len(r) + 1] = g
      /\ \A n \in 1..Len(r) : Append(r, g)[n] = r[n]
  BY <1>2, PushedSeq
<1>5. Len(r) + 1 = 2 /\ 1 \in 1..Len(r)
  BY <1>2
<1> QED BY <1>2, <1>3, <1>4, <1>5

LEMMA EnterRecordThrough ==
  ASSUME Inv, Alive, EnterRecord
  PROVE  Alive'
<1>1. /\ pc = "measured" /\ ~Skipping /\ outcome = "reading" /\ FrameOK(top)
      /\ field.kind \in {"message", "messages"} /\ ~BadLength
  BY Reads1, TopOK DEF EnterRecord, Sliced
<1>2. /\ postIndex \in Nat /\ postIndex < Half /\ top.at <= postIndex /\ postIndex <= Len(top.d)
      /\ length = Signed(varint.acc, Word) /\ postIndex = Signed(top.at + length, Word)
      /\ slice = SubSeq(top.d, top.at + 1, postIndex)
  BY <1>1, SliceInRange DEF length, postIndex, slice
<1>3. InRange(top.d, top.at, postIndex)
  BY <1>1, <1>2 DEF InRange, FrameOK
<1>4. top.fn # "Record"
  <2>1. top.field \in DOMAIN Cases[top.fn]
    BY <1>1 DEF Inv, Reading
  <2> QED BY <1>1, <2>1, NoRecordInRecord DEF field
<1>5. PICK R : OnTheWay(R)
  BY <1>1 DEF Alive
<1>6. ~InRecord(R) /\ ~InSkip(R)
  <2>1. ASSUME InRecord(R) PROVE FALSE
    BY <1>4, <2>1 DEF InRecord, Way, top
  <2>2. ASSUME InSkip(R) PROVE FALSE
    BY <1>1, <2>2 DEF InSkip, SkipWay, top, Skipping
  <2> QED BY <2>1, <2>2
<1>7. Alone(R) /\ Plan(input.type, R, Meant, Mode)
  BY <1>5, <1>6 DEF OnTheWay
<1>8. Len(stack) = 1 /\ top = stack[1] /\ Way(top, "measured", varint, Whole, input.type, R, Meant, Mode)
  BY <1>1, <1>7 DEF Alone, top
<1> DEFINE c == field  len == length  post == postIndex  s == slice
           start == Started(top.m, c)
           f == [top EXCEPT !.at = post]
           g == Frame("Record", s, start)
<1>9. /\ c = Cases[input.type][top.field] /\ c.kind \in {"message", "messages"}
      /\ len = Signed(varint.acc, Word) /\ post = Signed(top.at + len, Word) /\ post <= Len(top.d)
      /\ s = SubSeq(top.d, top.at + 1, post)
  BY <1>1, <1>2, <1>8 DEF field, Way
<1>10. c = Cases[top.fn][top.field]
  BY DEF field
<1>11. stack' = Append([stack EXCEPT ![Len(stack)] = f], g) /\ pc' = "loop" /\ UNCHANGED <<input, varint, outcome>>
  <2>1. Continue(Append([stack EXCEPT ![Len(stack)].at = postIndex],
                        Frame("Record", slice, start)), "loop")
    BY <1>3 DEF EnterRecord, Started
  <2>2. [stack EXCEPT ![Len(stack)].at = postIndex] = [stack EXCEPT ![Len(stack)] = f]
    BY DEF top
  <2> QED BY <2>1, <2>2 DEF Continue
<1>12. s \in Seq(Byte) /\ Len(s) < Half
  <2>1. s \in Seq(Byte) /\ Len(s) <= Len(top.d)
    BY <1>1, <1>2, SliceOfBytes DEF FrameOK
  <2> HIDE DEF s
  <2>2. Len(top.d) \in Nat /\ Len(top.d) < Half /\ Len(s) \in Nat
    BY <1>1, <2>1 DEF FrameOK
  <2> QED BY <2>1, <2>2, HalfOfWord
<1> HIDE DEF c, len, post, s
<1>13. PICK Q, r : Embeds(top, varint, Whole, R, c, Q, r, post, s)
  BY <1>1, <1>8, <1>9, WayRecord
<1>14. /\ Plan("Record", Q, r, "record") /\ <<s, start>> \in Q
  BY <1>13 DEF Embeds
<1>15. PICK q \in R : /\ Ahead(Whole, post, q[1])
                      /\ q[2] = With(top.m, c.name, IF c.kind = "messages" THEN Append(top.m[c.name], r) ELSE <<r>>)
  BY <1>13 DEF Embeds
<1>16. f = [fn |-> top.fn, d |-> top.d, at |-> post, pre |-> top.pre, field |-> top.field,
            depth |-> top.depth, m |-> top.m]
  BY <1>1, FrameChanges
<1>17. FrameOK(f) /\ f.fn = top.fn
  BY <1>1, <1>2, MovedFrame DEF post
<1> HIDE DEF start
<1>18. g.fn = "Record" /\ g.d = s /\ g.at = 0 /\ g.m = start
  BY DEF Frame
<1> HIDE DEF f, g
<1>19. f.d = top.d /\ f.at = post /\ f.field = top.field /\ f.m = top.m
  BY <1>16
<1>20. WithRecord(f, r).m = q[2]
  <2>1. c = Cases[f.fn][f.field]
    BY <1>10, <1>17, <1>19
  <2>2. WithRecord(f, r).m = With(f.m, c.name, IF c.kind = "messages" THEN Append(f.m[c.name], r) ELSE <<r>>)
    BY <1>17, <2>1, WithRecordIs
  <2> QED BY <1>15, <1>19, <2>2
<1>21. Way(g, "loop", varint, g.d, "Record", Q, r, "record")
  <2> DEFINE p == <<s, start>>
  <2>1. p \in Q /\ p[1] = s /\ p[2] = start
    BY <1>14
  <2> HIDE DEF p
  <2>2. Ahead(s, 0, s) /\ Covers(s, s, "record") /\ "Record" \in Messages
    <3>1. <<>> \in Seq(Byte) /\ s = s \o <<>>
      BY <1>12, ConcatEmptySeq
    <3> QED BY <1>12, <3>1, AheadAtStart DEF Covers, Messages, New
  <2>3. g.fn = "Record" /\ p[2] = g.m /\ Ahead(s, g.at, p[1]) /\ Covers(g.d, s, "record")
    BY <1>18, <2>1, <2>2
  <2>4. Way(g, "loop", varint, s, "Record", Q, r, "record")
    BY <1>14, <2>1, <2>2, <2>3, WayPast
  <2> QED BY <1>18, <2>4
<1>22. Len(stack') = 2 /\ stack'[1] = f /\ stack'[2] = g
  BY <1>8, <1>11, Called
<1>23. Whole' = Whole /\ Mode' = Mode /\ Meant' = Meant
  BY <1>11 DEF Whole, Mode, Meant
<1>24. InRecord(R)'
  <2>1. Ahead(Whole, f.at, q[1]) /\ q[2] = WithRecord(f, r).m
    BY <1>15, <1>19, <1>20
  <2> QED BY <1>11, <1>21, <1>22, <1>23, <2>1 DEF InRecord
<1>25. OnTheWay(R)'
  BY <1>7, <1>11, <1>23, <1>24 DEF OnTheWay
<1>26. stack'[1].fn = stack[1].fn /\ stack'[1].d = stack[1].d
  BY <1>8, <1>17, <1>19, <1>22
<1> QED BY <1>1, <1>11, <1>25, <1>26 DEF Alive

-----------------------------------------------------------------------------
(* The steps of skipRpc *)

LEMMA SkipFieldThrough ==
  ASSUME Inv, Alive, input \in Inputs, input.of # <<>>, SkipField
  PROVE  Alive'
<1> DEFINE n == fieldNum
           f == [top EXCEPT !.at = top.pre]
           rest == SubSeq(top.d, top.pre + 1, Len(top.d))
           g == Frame("skipRpc", rest, <<>>)
<1>1. pc = "tagged" /\ ~Skipping /\ n \notin DOMAIN Cases[top.fn] /\ outcome = "reading" /\ FrameOK(top)
  BY Reads1, TopOK DEF SkipField, KnownField
<1>2. n = Signed(varint.acc \div 8, TagWord)
  BY DEF fieldNum
<1> HIDE DEF n
<1>3. stack' = Append([stack EXCEPT ![Len(stack)] = f], g) /\ pc' = "loop" /\ UNCHANGED <<input, varint, outcome>>
  <2>1. Continue(Append([stack EXCEPT ![Len(stack)].at = top.pre], g), "loop")
    BY DEF SkipField
  <2>2. [stack EXCEPT ![Len(stack)].at = top.pre] = [stack EXCEPT ![Len(stack)] = f]
    BY DEF top
  <2> QED BY <2>1, <2>2 DEF Continue
<1>4. PICK R : OnTheWay(R)
  BY <1>1 DEF Alive
<1>5. ~InRecord(R)
  <2> SUFFICES ASSUME InRecord(R) PROVE FALSE
    OBVIOUS
  <2>1. PICK Q, r : Way(stack[2], pc, varint, stack[2].d, "Record", Q, r, "record")
    BY DEF InRecord
  <2>2. top = stack[2]
    BY DEF InRecord, top
  <2>3. Way(top, "tagged", varint, stack[2].d, "Record", Q, r, "record") /\ top.fn = "Record"
    BY <1>1, <2>1, <2>2 DEF Way
  <2>4. n \notin DOMAIN Cases["Record"]
    BY <1>1, <2>3
  <2> DEFINE mode == "record"
  <2>5. Way(top, "tagged", varint, stack[2].d, "Record", Q, r, mode) /\ mode # "joined"
    BY <2>3
  <2> HIDE DEF mode
  <2> QED BY <1>1, <1>2, <2>4, <2>5, WaySkips
<1>6. ~InSkip(R)
  BY <1>1 DEF InSkip, SkipWay, top, Skipping
<1>7. Alone(R) /\ Plan(input.type, R, Meant, Mode)
  BY <1>4, <1>5, <1>6 DEF OnTheWay
<1>8. /\ Len(stack) = 1 /\ top = stack[1] /\ Way(top, "tagged", varint, Whole, input.type, R, Meant, Mode)
      /\ top.fn = input.type
  BY <1>1, <1>7 DEF Alone, top, Way
<1>9. /\ Mode = "joined"
      /\ \E p \in R, q \in R :
           p[2] = top.m /\ q[2] = top.m /\ Ahead(Whole, top.pre, p[1]) /\ CanSkip(p[1], q[1])
  BY <1>1, <1>2, <1>8, WaySkips
<1>10. PICK p \in R, q \in R :
         q[2] = top.m /\ Ahead(Whole, top.pre, p[1]) /\ CanSkip(p[1], q[1])
  BY <1>9
<1> DEFINE s == p[1]
<1>11. top.d = Whole
  BY <1>8, <1>9 DEF Way, Covers
<1>12. top.d \in Seq(Byte) /\ Len(top.d) < Half /\ input.type \in Messages /\ s \in Seq(Byte) /\ q[1] \in Seq(Byte)
  BY <1>1, <1>7, <1>8, PlanTypes DEF FrameOK, Way
<1> HIDE DEF s
<1>13. rest = s
  <2> DEFINE d == top.d  pos == top.pre
  <2>1. d \in Seq(Byte) /\ Ahead(d, pos, s)
    BY <1>10, <1>11, <1>12 DEF s
  <2> HIDE DEF d, pos
  <2>2. SubSeq(d, pos + 1, Len(d)) = s
    BY <2>1, AheadRest
  <2> QED BY <2>2 DEF d, pos
<1>14. Len(s) < Half
  <2> DEFINE d == top.d
  <2>1. Ahead(d, top.pre, s) /\ Len(d) < Half /\ d \in Seq(Byte)
    BY <1>10, <1>11, <1>12 DEF s
  <2> HIDE DEF d
  <2>2. Len(d) = top.pre + Len(s) /\ top.pre \in Nat /\ Len(s) \in Nat /\ Len(d) \in Nat
    BY <2>1 DEF Ahead
  <2> QED BY <2>1, <2>2, HalfOfWord
<1>15. f = [fn |-> top.fn, d |-> top.d, at |-> top.pre, pre |-> top.pre, field |-> top.field,
            depth |-> top.depth, m |-> top.m]
  BY <1>1, FrameChanges
<1> HIDE DEF f, rest
<1>16. f.fn = top.fn /\ f.d = top.d /\ f.at = top.pre /\ f.m = top.m
  BY <1>15
<1>17. g.fn = "skipRpc" /\ g.d = s /\ g.at = 0 /\ g.depth = 0
  BY <1>13 DEF Frame
<1> HIDE DEF g
<1>18. Len(stack') = 2 /\ stack'[1] = f /\ stack'[2] = g
  BY <1>3, <1>8, Called
<1>19. PICK Q : SkipPlan(Q, q[1]) /\ <<s, 0>> \in Q
  BY <1>10 DEF CanSkip, s
<1> DEFINE e == <<s, 0>>
<1>20. e \in Q /\ e[1] = s /\ e[2] = 0
  BY <1>19
<1> HIDE DEF e
<1>21. Ahead(s, 0, s)
  BY <1>12, AheadAtStart
<1>22. SkipLoop(g, "loop", Q)
  BY <1>17, <1>20, <1>21 DEF SkipLoop
<1>23. SkipWay(g, "loop", varint, Q, q[1])
  BY <1>12, <1>14, <1>17, <1>19, <1>22 DEF SkipWay, SkipPlace
<1>24. Whole' = Whole /\ Mode' = Mode /\ Meant' = Meant
  BY <1>3 DEF Whole, Mode, Meant
<1>25. InSkip(R)'
  <2>1. Ahead(Whole', stack'[1].at, stack'[2].d)
    BY <1>10, <1>16, <1>17, <1>18, <1>24 DEF s
  <2>2. SkipWay(stack'[2], pc', varint', Q, q[1]) /\ q \in R /\ q[2] = stack'[1].m
    BY <1>3, <1>10, <1>16, <1>18, <1>23
  <2> QED BY <1>9, <1>18, <1>24, <2>1, <2>2 DEF InSkip
<1>26. OnTheWay(R)'
  BY <1>3, <1>7, <1>24, <1>25 DEF OnTheWay
<1>27. stack'[1].fn = stack[1].fn /\ stack'[1].d = stack[1].d
  BY <1>8, <1>16, <1>18
<1> QED BY <1>1, <1>3, <1>26, <1>27 DEF Alive

LEMMA AheadWithin ==
  ASSUME NEW F \in Seq(Byte), NEW at, NEW s, Ahead(F, at, s), NEW a, NEW t, Ahead(s, a, t)
  PROVE  Ahead(F, at + a, t)
<1>1. /\ at \in Nat /\ s \in Seq(Byte) /\ Len(F) = at + Len(s) /\ Len(s) \in Nat /\ Len(F) \in Nat
      /\ \A i \in 1..Len(s) : F[at + i] = s[i]
  BY DEF Ahead
<1>2. /\ a \in Nat /\ t \in Seq(Byte) /\ Len(s) = a + Len(t) /\ Len(t) \in Nat
      /\ \A i \in 1..Len(t) : s[a + i] = t[i]
  BY DEF Ahead
<1>3. ASSUME NEW i \in 1..Len(t) PROVE F[(at + a) + i] = t[i]
  <2> DEFINE j == a + i
  <2>1. j \in 1..Len(s) /\ (at + a) + i = at + j
    BY <1>1, <1>2
  <2>2. s[j] = t[i]
    BY <1>2
  <2> HIDE DEF j
  <2>3. F[at + j] = s[j]
    BY <1>1, <2>1
  <2> QED BY <2>1, <2>2, <2>3
<1>4. Len(F) = (at + a) + Len(t) /\ at + a \in Nat
  BY <1>1, <1>2
<1> QED BY <1>2, <1>3, <1>4 DEF Ahead

LEMMA SkipOnly ==
  ASSUME Alive, outcome = "reading", Skipping
  PROVE  \E R : OnTheWay(R) /\ InSkip(R)
<1>1. PICK R : OnTheWay(R)
  BY DEF Alive
<1>2. ~Alone(R)
  <2> SUFFICES ASSUME Alone(R) PROVE FALSE
    OBVIOUS
  <2>1. top = stack[1] /\ top.fn \in Messages
    BY DEF Alone, Way, top
  <2> QED BY <2>1, NoSkipMessage DEF Skipping
<1>3. ~InRecord(R)
  <2> SUFFICES ASSUME InRecord(R) PROVE FALSE
    OBVIOUS
  <2>1. top = stack[2] /\ top.fn = "Record"
    BY DEF InRecord, Way, top
  <2> QED BY <2>1 DEF Skipping
<1> QED BY <1>1, <1>2, <1>3 DEF OnTheWay

\* The caller moves on past a field it does not have.
LEMMA SkipThrough ==
  ASSUME Inv, Alive, input \in Inputs, input.of # <<>>, outcome = "reading", Skipping, NEW a,
         \A Q, tail : SkipWay(top, pc, varint, Q, tail) => Skipped(top, a, 0, Q, tail), Skip(a)
  PROVE  Alive'
<1>1. PICK R : OnTheWay(R) /\ InSkip(R)
  BY SkipOnly
<1>2. /\ Len(stack) = 2 /\ Mode = "joined" /\ top = stack[2] /\ Ahead(Whole, stack[1].at, stack[2].d)
  BY <1>1 DEF InSkip, top
<1>3. PICK Q, tail : /\ SkipWay(stack[2], pc, varint, Q, tail)
                     /\ \E q \in R : tail = q[1] /\ q[2] = stack[1].m
  BY <1>1 DEF InSkip
<1>4. PICK q \in R : tail = q[1] /\ q[2] = stack[1].m
  BY <1>3
<1>5. Skipped(top, a, 0, Q, tail)
  BY <1>2, <1>3
<1>6. a \in Nat /\ Ahead(top.d, a, tail)
  BY <1>5 DEF Skipped
<1>7. stack[1].d = Whole /\ Whole \in Seq(Byte) /\ Len(Whole) < Half /\ Len(Whole) \in Nat
  <2>1. Covers(input.bytes, Whole, Mode)
    BY InputIs
  <2>2. input.bytes = Whole
    BY <1>2, <2>1, CoversBytes
  <2> QED BY <2>1, <2>2, CoversBytes DEF Alive
<1>8. IsSeq(stack) /\ 1 \in 0..Len(stack) /\ FrameOK(stack[1])
  BY <1>2 DEF Inv, StackOK
<1> DEFINE b == stack[1].at
           y == b + a
<1>9. Ahead(Whole, y, tail)
  <2> DEFINE s == stack[2].d
  <2>1. Ahead(Whole, b, s) /\ Ahead(s, a, tail)
    BY <1>2, <1>6
  <2> HIDE DEF s
  <2> QED BY <1>7, <2>1, AheadWithin
<1>10. y \in Nat /\ y <= Len(Whole)
  <2> HIDE DEF y
  <2>1. y \in Nat /\ Len(Whole) = y + Len(tail) /\ Len(tail) \in Nat
    BY <1>9 DEF Ahead
  <2> QED BY <2>1
<1> DEFINE next == Signed(y, Word)
           s1 == SubSeq(stack, 1, 1)
           g == [stack[1] EXCEPT !.at = y]
<1>11. next = y
  <2> HIDE DEF y
  <2>1. y < Half
    BY <1>7, <1>10, HalfOfWord
  <2> QED BY <1>10, <2>1, SignedSmall
<1>12. ~(next < 0 \/ next > Len(stack[1].d))
  <2> HIDE DEF y, next
  <2> QED BY <1>7, <1>10, <1>11
<1>13. IsSeq(s1) /\ Len(s1) = 1 /\ s1[1] = stack[1]
  BY <1>8, CutSeq
<1>14. Continue([s1 EXCEPT ![1].at = next], "loop")
  <2> DEFINE n == Len(stack) - 1
             go(k) == IF Signed(stack[k].at + a, Word) < 0 \/ Signed(stack[k].at + a, Word) > Len(stack[k].d)
                      THEN Finish("error")
                      ELSE Continue([SubSeq(stack, 1, k) EXCEPT ![k].at = Signed(stack[k].at + a, Word)], "loop")
  <2>1. n = 1
    BY <1>2
  <2>2. go(n)
    BY DEF Skip
  <2> HIDE DEF n, go
  <2>3. go(1)
    BY <2>1, <2>2
  <2> USE DEF go
  <2> QED BY <1>12, <2>3
<1>15. [s1 EXCEPT ![1].at = next] = [s1 EXCEPT ![1] = g]
  BY <1>11, <1>13
<1>16. g.fn = stack[1].fn /\ g.d = stack[1].d /\ g.at = y /\ g.m = stack[1].m
  <2>1. g = [fn |-> stack[1].fn, d |-> stack[1].d, at |-> y, pre |-> stack[1].pre,
             field |-> stack[1].field, depth |-> stack[1].depth, m |-> stack[1].m]
    BY <1>8, FrameChanges
  <2> HIDE DEF g
  <2> QED BY <2>1
<1> HIDE DEF g, s1
<1>17. IsSeq([s1 EXCEPT ![1] = g]) /\ Len([s1 EXCEPT ![1] = g]) = 1 /\ [s1 EXCEPT ![1] = g][1] = g
  BY <1>13, ChangedOnly
<1>18. IsSeq(stack') /\ Len(stack') = 1 /\ stack'[1] = g /\ pc' = "loop" /\ UNCHANGED <<input, varint, outcome>>
  BY <1>14, <1>15, <1>17 DEF Continue
<1>19. Ahead(Whole, g.at, q[1]) /\ q[2] = g.m
  BY <1>4, <1>9, <1>16
<1> HIDE DEF y, next
<1> QED BY <1>1, <1>4, <1>16, <1>18, <1>19, BackAlone

LEMMA SkipToThrough ==
  ASSUME Inv, Alive, input \in Inputs, input.of # <<>>, outcome = "reading", Skipping,
         NEW a, NEW depth,
         \A Q, tail : SkipWay(top, pc, varint, Q, tail) => Skipped(top, a, depth, Q, tail),
         SkipTo(a, depth)
  PROVE  Alive'
<1>1. PICK Q, tail : SkipWay(top, pc, varint, Q, tail)
  BY OneOfThree
<1>2. a \in Nat /\ ~(a < 0)
  <2>1. Skipped(top, a, depth, Q, tail)
    BY <1>1
  <2>2. a \in Nat
    BY <2>1 DEF Skipped
  <2> QED BY <2>2
<1>3. CASE depth = 0
  BY <1>2, <1>3, SkipThrough DEF SkipTo
<1>4. CASE depth # 0
  <2> DEFINE f == [top EXCEPT !.at = a, !.depth = depth]
  <2>1. Become(f, "loop")
    BY <1>2, <1>4 DEF SkipTo
  <2>2. f.fn = top.fn /\ f.d = top.d
    <3>1. f = [fn |-> top.fn, d |-> top.d, at |-> a, pre |-> top.pre,
               field |-> top.field, depth |-> depth, m |-> top.m]
      BY TopOK, MovedWith
    <3> HIDE DEF f
    <3> QED BY <3>1
  <2>3. KeepsSkip(f, "loop", varint)
    <3> SUFFICES ASSUME NEW P, NEW rest, SkipWay(top, pc, varint, P, rest)
                 PROVE  SkipWay(f, "loop", varint, P, rest)
      BY DEF KeepsSkip
    <3>1. Skipped(top, a, depth, P, rest)
      OBVIOUS
    <3> QED BY <1>4, <3>1 DEF Skipped
  <2>4. KeepsWay(f, "loop", varint)
    BY NoSkipMessage DEF KeepsWay, Way, Skipping
  <2> HIDE DEF f
  <2> QED BY <2>1, <2>2, <2>3, <2>4, BecomeMoves
<1> QED BY <1>3, <1>4

-----------------------------------------------------------------------------
(* The theorems about what is read *)

LEMMA NoWayKept ==
  ASSUME Skipping, NEW f, NEW at, NEW x
  PROVE  KeepsWay(f, at, x)
BY NoSkipMessage DEF KeepsWay, Way, Skipping

LEMMA SkipTagThrough ==
  ASSUME Inv, Alive, input \in Inputs, input.of # <<>>,
         \/ SkipVarint \/ SkipFixed \/ SkipBytes \/ SkipGroup \/ SkipEnd \/ SkipFails
  PROVE  Alive'
<1> DEFINE w == wireType
<1>1. pc = "tagged" /\ Skipping /\ outcome = "reading" /\ FrameOK(top)
  BY Reads1, TopOK DEF SkipVarint, SkipFixed, SkipBytes, SkipGroup, SkipEnd, SkipFails
<1>2. w = varint.acc % 8
  BY DEF wireType
<1> HIDE DEF w
<1>3. ASSUME NEW Q, NEW tail, SkipWay(top, pc, varint, Q, tail)
      PROVE  /\ w \in 0..5
             /\ w = 0 => SkipWay(top, "num", NoBits, Q, tail)
             /\ w = 2 => SkipWay(top, "len", NoBits, Q, tail)
             /\ w = 1 => Skipped(top, top.at + 8, top.depth, Q, tail)
             /\ w = 5 => Skipped(top, top.at + 4, top.depth, Q, tail)
             /\ w = 3 => Skipped(top, top.at, top.depth + 1, Q, tail)
             /\ w = 4 => top.depth # 0 /\ Skipped(top, top.at, top.depth - 1, Q, tail)
  <2>1. SkipWay(top, "tagged", varint, Q, tail) /\ FrameOK(top)
    BY <1>1, <1>3
  <2> QED BY <1>2, <2>1, SkipTagged
<1>4. PICK Q, tail : SkipWay(top, pc, varint, Q, tail)
  BY <1>1, OneOfThree
<1>5. w \in 0..5
  BY <1>3, <1>4
<1>6. ASSUME SkipVarint PROVE Alive'
  <2>1. w = 0 /\ ReadVarint(top, "num")
    BY <1>6 DEF SkipVarint, w
  <2>2. KeepsSkip(top, "num", NoBits)
    BY <1>3, <2>1 DEF KeepsSkip
  <2> QED BY <1>1, <2>1, <2>2, NoWayKept, ReadVarintMoves
<1>7. ASSUME SkipBytes PROVE Alive'
  <2>1. w = 2 /\ ReadVarint(top, "len")
    BY <1>7 DEF SkipBytes, w
  <2>2. KeepsSkip(top, "len", NoBits)
    BY <1>3, <2>1 DEF KeepsSkip
  <2> QED BY <1>1, <2>1, <2>2, NoWayKept, ReadVarintMoves
<1>8. ASSUME SkipFixed PROVE Alive'
  <2> DEFINE y == top.at + (IF w = 1 THEN 8 ELSE 4)
  <2>1. w \in {1, 5} /\ SkipTo(Signed(y, Word), top.depth)
    BY <1>8 DEF SkipFixed, w
  <2>2. ASSUME NEW P, NEW rest, SkipWay(top, pc, varint, P, rest)
        PROVE  Skipped(top, y, top.depth, P, rest)
    <3>1. CASE w = 1
      <4>1. y = top.at + 8
        BY <3>1
      <4> QED BY <1>3, <2>2, <3>1, <4>1
    <3>2. CASE w = 5
      <4>1. y = top.at + 4
        BY <3>2
      <4> QED BY <1>3, <2>2, <3>2, <4>1
    <3> QED BY <2>1, <3>1, <3>2
  <2> HIDE DEF y
  <2>3. y \in Nat /\ y < Half
    BY <1>4, <2>2 DEF Skipped
  <2>4. Signed(y, Word) = y
    BY <2>3, SignedSmall
  <2>5. SkipTo(y, top.depth)
    BY <2>1, <2>4
  <2> QED BY <1>1, <2>2, <2>5, SkipToThrough
<1>9. ASSUME SkipGroup PROVE Alive'
  <2>1. w = 3 /\ SkipTo(top.at, top.depth + 1)
    BY <1>9 DEF SkipGroup, w
  <2>2. \A P, rest : SkipWay(top, pc, varint, P, rest) => Skipped(top, top.at, top.depth + 1, P, rest)
    BY <1>3, <2>1
  <2> QED BY <1>1, <2>1, <2>2, SkipToThrough
<1>10. ASSUME SkipEnd PROVE Alive'
  <2>1. w = 4
    BY <1>10 DEF SkipEnd, w
  <2>2. top.depth # 0
    BY <1>3, <1>4, <2>1
  <2>3. SkipTo(top.at, top.depth - 1)
    BY <1>10, <2>2 DEF SkipEnd
  <2>4. \A P, rest : SkipWay(top, pc, varint, P, rest) => Skipped(top, top.at, top.depth - 1, P, rest)
    BY <1>3, <2>1
  <2> QED BY <1>1, <2>3, <2>4, SkipToThrough
<1>11. ~SkipFails
  BY <1>5 DEF SkipFails, w
<1> QED BY <1>6, <1>7, <1>8, <1>9, <1>10, <1>11

LEMMA SkipNumberThrough ==
  ASSUME Inv, Alive, input \in Inputs, input.of # <<>>, SkipNumber
  PROVE  Alive'
<1>1. pc = "counted" /\ Skipping /\ outcome = "reading" /\ FrameOK(top) /\ SkipTo(top.at, top.depth)
  BY Reads1, TopOK DEF SkipNumber
<1>2. ASSUME NEW Q, NEW tail, SkipWay(top, pc, varint, Q, tail)
      PROVE  Skipped(top, top.at, top.depth, Q, tail)
  <2>1. SkipWay(top, "counted", varint, Q, tail)
    BY <1>1, <1>2
  <2> QED BY <1>1, <2>1, SkipCounted
<1> QED BY <1>1, <1>2, SkipToThrough

LEMMA SkipSliceThrough ==
  ASSUME Inv, Alive, input \in Inputs, input.of # <<>>, SkipSlice
  PROVE  Alive'
<1> DEFINE len == length
           a == Signed(top.at + length, Word)
<1>1. pc = "measured" /\ Skipping /\ outcome = "reading" /\ FrameOK(top)
  BY Reads1, TopOK DEF SkipSlice
<1>2. len = Signed(varint.acc, Word) /\ a = Signed(top.at + len, Word)
  BY DEF length
<1>3. IF len < 0 THEN Finish("error") ELSE SkipTo(a, top.depth)
  BY DEF SkipSlice
<1> HIDE DEF len, a
<1>4. ASSUME NEW Q, NEW tail, SkipWay(top, pc, varint, Q, tail)
      PROVE  len \in Nat /\ Skipped(top, a, top.depth, Q, tail)
  <2>1. SkipWay(top, "measured", varint, Q, tail)
    BY <1>1, <1>4
  <2> QED BY <1>1, <1>2, <2>1, SkipMeasured
<1>5. PICK Q, tail : SkipWay(top, pc, varint, Q, tail)
  BY <1>1, OneOfThree
<1>6. len \in Nat
  BY <1>4, <1>5
<1>7. SkipTo(a, top.depth)
  BY <1>3, <1>6
<1> QED BY <1>1, <1>4, <1>7, SkipToThrough

LEMMA AliveNext ==
  ASSUME Inv, Alive, input \in Inputs, input.of # <<>>, Next
  PROVE  Alive'
<1>1. ASSUME TakeBytes PROVE Alive'
  BY <1>1, TakeBytesThrough DEF TakeBytes
<1>2. ASSUME skipRpc PROVE Alive'
  BY <1>2, SkipTagThrough, SkipNumberThrough, SkipSliceThrough DEF skipRpc
<1> QED
  BY <1>1, <1>2, StartFieldThrough, EndOfSliceThrough, ReadByteThrough, VarintFailsThrough,
     BadTagThrough, EnterFieldThrough, SkipFieldThrough, TakeNumberThrough, LengthFailsThrough,
     TimeFailsThrough, EnterRecordThrough DEF Next

LEMMA InputStays ==
  ASSUME Next
  PROVE  input' = input
<1>1. ASSUME NEW a, NEW depth, SkipTo(a, depth) PROVE input' = input
  BY <1>1 DEF SkipTo, Skip, Become, Continue, Finish
<1>2. ASSUME NEW f, NEW at, ReadVarint(f, at) PROVE input' = input
  BY <1>2 DEF ReadVarint
<1>3. ASSUME NEW o, Finish(o) PROVE input' = input
  BY <1>3 DEF Finish
<1>4. ASSUME NEW f, NEW at, Continue(f, at) PROVE input' = input
  BY <1>4 DEF Continue
<1>5. ASSUME NEW f, NEW at, Become(f, at) PROVE input' = input
  BY <1>4, <1>5 DEF Become
<1>6. ASSUME skipRpc PROVE input' = input
  BY <1>1, <1>2, <1>3, <1>6
     DEF skipRpc, SkipVarint, SkipFixed, SkipBytes, SkipGroup, SkipEnd, SkipFails, SkipNumber, SkipSlice
<1>7. ASSUME StartField \/ EndOfSlice \/ ReadByte \/ VarintFails \/ BadTag \/ EnterField \/ SkipField
      PROVE  input' = input
  BY <1>2, <1>3, <1>4, <1>7
     DEF StartField, EndOfSlice, ReadByte, VarintFails, BadTag, EnterField, SkipField
<1>8. ASSUME TakeNumber \/ LengthFails \/ TakeBytes \/ TimeFails \/ EnterRecord
      PROVE  input' = input
  BY <1>3, <1>4, <1>5, <1>8
     DEF TakeNumber, LengthFails, TakeBytes, TimeFails, EnterRecord
<1> QED BY <1>6, <1>7, <1>8 DEF Next

LEMMA ThroughNext == Inv /\ Through /\ [Next]_vars => Through'
<1> SUFFICES ASSUME Inv, Through, [Next]_vars PROVE Through'
  OBVIOUS
<1>1. ASSUME Next PROVE Through'
  <2>1. input' = input /\ input \in Inputs
    BY <1>1, InputStays DEF Through
  <2>2. ASSUME input.of # <<>> PROVE Alive'
    BY <1>1, <2>1, <2>2, AliveNext DEF Through
  <2> QED BY <2>1, <2>2 DEF Through
<1>2. ASSUME UNCHANGED vars PROVE Through'
  <2>1. Whole' = Whole /\ Mode' = Mode /\ Meant' = Meant /\ result' = result
        /\ UNCHANGED <<input, stack, varint, pc, outcome>>
    BY <1>2 DEF vars, Whole, Mode, Meant, result
  <2>2. \A R : OnTheWay(R) = OnTheWay(R)'
    BY <2>1 DEF OnTheWay, Alone, InRecord, InSkip
  <2>3. Alive = Alive'
    BY <2>1, <2>2 DEF Alive, AsMeant
  <2> QED BY <2>1, <2>3 DEF Through
<1> QED BY <1>1, <1>2

\* Between any two steps of Unmarshal the running call stands on its way through
\* what was written, and its callers are where it will take them on.
THEOREM ThroughAlways == Spec => [](Inv /\ Through)
<1> QED BY Invariant, InitThrough, ThroughNext, PTL DEF Spec

\* Two messages of any type that Marshal wrote one after the other, with any
\* field of a later version between them, are read as their merge.
THEOREM ReadsAsMergedAlways == Spec => []ReadsAsMerged
<1>1. Inv /\ Through => ReadsAsMerged
  <2> SUFFICES ASSUME Inv, Through, outcome # "reading", Len(input.of) = 2
               PROVE  outcome = "ok" /\ result = MergeAll(input.type, input.of[1], input.of[2])
    BY DEF ReadsAsMerged
  <2>1. input.of # <<>>
    OBVIOUS
  <2>2. Alive /\ Mode = "joined" /\ Meant = MergeAll(input.type, input.of[1], input.of[2])
    BY <2>1 DEF Through, Mode, Meant
  <2>3. outcome \in {"reading", "ok", "error"}
    BY DEF Inv
  <2>4. outcome = "ok"
    BY <2>2, <2>3 DEF Alive
  <2> QED BY <2>2, <2>4 DEF Alive, AsMeant
<1> QED BY <1>1, ThroughAlways, PTL

\* A message that arrives cut off is refused, or read as the fields that arrived:
\* Marshal writes what was read with the bytes that were there.
THEOREM CutIsNoOtherAlways == Spec => []CutIsNoOther
<1>1. Inv /\ Through => CutIsNoOther
  <2> SUFFICES ASSUME Through, outcome = "ok", Len(input.of) = 1
               PROVE  Marshal(input.type, result) = input.bytes
    BY DEF CutIsNoOther
  <2>1. input.of # <<>>
    OBVIOUS
  <2>2. Alive /\ Mode = "cut"
    BY <2>1 DEF Through, Mode
  <2> QED BY <2>2 DEF Alive, AsMeant
<1> QED BY <1>1, ThroughAlways, PTL

-----------------------------------------------------------------------------
(* What is written can be told apart *)

LEMMA ByteThen ==
  ASSUME NEW b \in Byte, NEW s \in Seq(Byte)
  PROVE  <<b>> \o s \in Seq(Byte) /\ (<<b>> \o s)[1] = b /\ <<b>> \o s # <<>>
<1> DEFINE u == <<b>>
<1>1. u \in Seq(Byte) /\ Len(u) = 1 /\ u[1] = b
  BY OneByte
<1> HIDE DEF u
<1>2. /\ u \o s \in Seq(Byte) /\ Len(u \o s) = Len(u) + Len(s)
      /\ \A i \in 1..Len(u) + Len(s) : (u \o s)[i] = IF i <= Len(u) THEN u[i] ELSE s[i - Len(u)]
  BY <1>1, ConcatProperties
<1> DEFINE v == u \o s
<1>3. v \in Seq(Byte) /\ Len(v) = 1 + Len(s) /\ \A i \in 1..1 + Len(s) : v[i] = IF i <= 1 THEN u[i] ELSE s[i - 1]
  BY <1>1, <1>2
<1>4. Len(s) \in Nat
  OBVIOUS
<1> HIDE DEF v
<1>5. 1 \in 1..1 + Len(s)
  BY <1>4
<1>6. v[1] = b /\ v # <<>>
  BY <1>1, <1>3, <1>4, <1>5
<1> QED BY <1>3, <1>6 DEF v, u

LEMMA FirstSame ==
  ASSUME NEW b \in Byte, NEW c \in Byte, NEW s \in Seq(Byte), NEW t \in Seq(Byte),
         <<b>> \o s = <<c>> \o t
  PROVE  b = c /\ s = t
<1>1. b = c
  BY ByteThen
<1>2. <<b>> \in Seq(Byte)
  BY OneByte
<1> QED BY <1>1, <1>2, SameAfter

LEMMA SameParts ==
  ASSUME NEW x \in Seq(Byte), NEW y \in Seq(Byte), NEW s \in Seq(Byte), NEW t \in Seq(Byte),
         Len(x) = Len(y), x \o s = y \o t
  PROVE  x = y /\ s = t
<1>1. \A i \in 1..Len(x) + Len(s) : (x \o s)[i] = IF i <= Len(x) THEN x[i] ELSE s[i - Len(x)]
  BY ConcatProperties
<1>2. \A i \in 1..Len(y) + Len(t) : (y \o t)[i] = IF i <= Len(y) THEN y[i] ELSE t[i - Len(y)]
  BY ConcatProperties
<1>3. Len(x) \in Nat /\ Len(y) \in Nat /\ Len(s) \in Nat /\ Len(t) \in Nat
  OBVIOUS
<1>4. ASSUME NEW i \in 1..Len(x) PROVE x[i] = y[i]
  <2>1. i \in 1..Len(x) + Len(s) /\ i \in 1..Len(y) + Len(t) /\ i <= Len(x) /\ i <= Len(y)
    BY <1>3
  <2> QED BY <1>1, <1>2, <2>1
<1>5. x = y
  BY <1>4, SeqEqual
<1> QED BY <1>5, SameAfter

LEMMA SevenBits == \A v \in Nat : v = 128 * (v \div 128) + (v % 128)
OBVIOUS

\* No varint is the beginning of another.
LEMMA VarintSplits ==
  \A v \in Nat : \A w \in Nat : \A s, t \in Seq(Byte) :
    encodeVarintRpc[v] \o s = encodeVarintRpc[w] \o t => v = w /\ s = t
<1> DEFINE S == {v \in Nat : \A w \in Nat : \A s, t \in Seq(Byte) :
                   encodeVarintRpc[v] \o s = encodeVarintRpc[w] \o t => v = w /\ s = t}
<1>0. ASSUME NEW v \in Nat, v >= 128, NEW s \in Seq(Byte)
      PROVE  /\ encodeVarintRpc[v] \o s = <<128 + (v % 128)>> \o (encodeVarintRpc[v \div 128] \o s)
             /\ encodeVarintRpc[v \div 128] \o s \in Seq(Byte)
             /\ 128 + (v % 128) \in Byte
  <2> DEFINE w == v \div 128
             e == encodeVarintRpc[w]
             b == 128 + (v % 128)
  <2>1. w \in Nat /\ ~(v < 128)
    BY <1>0, SeventhSmaller
  <2>2. encodeVarintRpc[v] = <<b>> \o e /\ e \in Seq(Byte)
    BY <2>1, encodeDef
  <2>3. b \in Byte
    BY DEF Byte
  <2> HIDE DEF w, e, b
  <2>4. <<b>> \in Seq(Byte)
    BY <2>3, OneByte
  <2>5. encodeVarintRpc[v] \o s = <<b>> \o (e \o s)
    BY <2>2, <2>4, ThreeParts
  <2>6. e \o s \in Seq(Byte)
    BY <2>2, TwoParts
  <2> QED BY <2>3, <2>5, <2>6 DEF w, e, b
<1>1. ASSUME NEW v \in Nat, v < 128
      PROVE  encodeVarintRpc[v] = <<v>> /\ v \in Byte
  <2>1. v \in Byte
    BY <1>1 DEF Byte
  <2>2. encodeVarintRpc[v] = <<v>>
    BY <1>1, encodeDef
  <2> QED BY <2>1, <2>2
<1>2. ASSUME NEW v \in Nat, \A m \in Nat : m < v => m \in S PROVE v \in S
  <2> SUFFICES ASSUME NEW w \in Nat, NEW s \in Seq(Byte), NEW t \in Seq(Byte),
                      encodeVarintRpc[v] \o s = encodeVarintRpc[w] \o t
               PROVE  v = w /\ s = t
    OBVIOUS
  <2>1. CASE v < 128 /\ w < 128
    <3>1. <<v>> \o s = <<w>> \o t /\ v \in Byte /\ w \in Byte
      BY <1>1, <2>1
    <3> QED BY <3>1, FirstSame
  <2>2. CASE v < 128 /\ w >= 128
    <3> DEFINE b == 128 + (w % 128)
               u == encodeVarintRpc[w \div 128] \o t
    <3>1. <<v>> \o s = <<b>> \o u /\ v \in Byte /\ b \in Byte /\ u \in Seq(Byte)
      BY <1>0, <1>1, <2>2
    <3>2. b >= 128
      OBVIOUS
    <3> HIDE DEF b, u
    <3>3. v = b
      BY <3>1, FirstSame
    <3> QED BY <2>2, <3>1, <3>2, <3>3 DEF Byte
  <2>3. CASE v >= 128 /\ w < 128
    <3> DEFINE b == 128 + (v % 128)
               u == encodeVarintRpc[v \div 128] \o s
    <3>1. <<w>> \o t = <<b>> \o u /\ w \in Byte /\ b \in Byte /\ u \in Seq(Byte)
      BY <1>0, <1>1, <2>3
    <3>2. b >= 128
      OBVIOUS
    <3> HIDE DEF b, u
    <3>3. w = b
      BY <3>1, FirstSame
    <3> QED BY <2>3, <3>1, <3>2, <3>3 DEF Byte
  <2>4. CASE v >= 128 /\ w >= 128
    <3> DEFINE b == 128 + (v % 128)
               c == 128 + (w % 128)
               v1 == v \div 128
               w1 == w \div 128
               x == encodeVarintRpc[v1] \o s
               y == encodeVarintRpc[w1] \o t
    <3>1. <<b>> \o x = <<c>> \o y /\ b \in Byte /\ c \in Byte /\ x \in Seq(Byte) /\ y \in Seq(Byte)
      <4>1. encodeVarintRpc[v] \o s = <<b>> \o x /\ b \in Byte /\ x \in Seq(Byte)
        BY <1>0, <2>4
      <4>2. encodeVarintRpc[w] \o t = <<c>> \o y /\ c \in Byte /\ y \in Seq(Byte)
        BY <1>0, <2>4
      <4> HIDE DEF b, c, x, y
      <4> QED BY <4>1, <4>2
    <3>2. v1 \in Nat /\ w1 \in Nat /\ v1 < v
      BY <2>4, SeventhSmaller
    <3>3. b = c /\ x = y
      <4> HIDE DEF b, c, x, y
      <4>1. b = c
        BY <3>1, FirstSame
      <4>2. x = y
        <5>1. <<b>> \in Seq(Byte) /\ <<b>> \o x = <<b>> \o y
          BY <3>1, <4>1, OneByte
        <5> QED BY <3>1, <5>1, SameAfter
      <4> QED BY <4>1, <4>2
    <3>4. v1 = w1 /\ s = t
      <4>1. v1 \in S
        BY <1>2, <3>2
      <4> HIDE DEF v1, w1
      <4> QED BY <3>2, <3>3, <4>1
    <3>5. v = 128 * (v \div 128) + (v % 128) /\ w = 128 * (w \div 128) + (w % 128)
      BY SevenBits
    <3>6. v % 128 = w % 128 /\ v \div 128 = w \div 128
      <4> DEFINE p == v % 128  q == w % 128
      <4>1. p \in Int /\ q \in Int /\ 128 + p = 128 + q
        BY <3>3
      <4> HIDE DEF p, q
      <4>2. p = q
        BY <4>1
      <4> QED BY <3>4, <4>2 DEF p, q
    <3>7. v = w
      BY <3>5, <3>6
    <3> QED BY <3>4, <3>7
  <2> QED BY <2>1, <2>2, <2>3, <2>4
<1>3. Nat \subseteq S
  <2> HIDE DEF S
  <2> QED BY <1>2, StrongInduction
<1> QED BY <1>3

\* A field is left out when it is zero, and else its tag and x; what comes after
\* it has tags that are greater.
Writ(a, v, zero, tag, x) ==
  /\ v = zero => a = <<>>
  /\ v # zero => x \in Seq(Byte) /\ a = <<tag>> \o x

After(tag, s) == s \in Seq(Byte) /\ (s # <<>> => s[1] > tag)

Alike(a, s, b, t) == a \o s = b \o t

Counted(x) == encodeVarintRpc[Len(x)] \o x

LEMMA NothingAfter == \A tag : After(tag, <<>>)
BY DEF After

LEMMA TagThen ==
  ASSUME NEW tag \in Byte, NEW x \in Seq(Byte), NEW s \in Seq(Byte)
  PROVE  /\ <<tag>> \o x \in Seq(Byte) /\ x \o s \in Seq(Byte) /\ (<<tag>> \o x) \o s = <<tag>> \o (x \o s)
         /\ (<<tag>> \o (x \o s))[1] = tag /\ <<tag>> \o (x \o s) # <<>>
         /\ <<tag>> \o (x \o s) \in Seq(Byte)
<1>1. <<tag>> \in Seq(Byte)
  BY OneByte
<1>2. <<tag>> \o x \in Seq(Byte)
  BY <1>1, TwoParts
<1>3. x \o s \in Seq(Byte)
  BY TwoParts
<1>4. (<<tag>> \o x) \o s = <<tag>> \o (x \o s)
  BY <1>1, ThreeParts
<1>5. (<<tag>> \o (x \o s))[1] = tag /\ <<tag>> \o (x \o s) # <<>> /\ <<tag>> \o (x \o s) \in Seq(Byte)
  <2> DEFINE y == x \o s
  <2> HIDE DEF y
  <2>1. y \in Seq(Byte)
    BY <1>3 DEF y
  <2>2. (<<tag>> \o y)[1] = tag /\ <<tag>> \o y # <<>> /\ <<tag>> \o y \in Seq(Byte)
    BY <2>1, ByteThen
  <2> QED BY <2>2 DEF y
<1> QED BY <1>2, <1>3, <1>4, <1>5

LEMMA FieldAfter ==
  ASSUME NEW low \in Byte, NEW tag \in Byte, low < tag, NEW a, NEW v, NEW zero, NEW x,
         Writ(a, v, zero, tag, x), NEW s, After(tag, s)
  PROVE  After(low, a \o s)
<1>1. s \in Seq(Byte) /\ (s # <<>> => s[1] > tag) /\ low \in Int /\ tag \in Int
  BY DEF After, Byte
<1>2. s # <<>> => s[1] \in Int
  <2>1. s # <<>> => s[1] \in Byte
    BY <1>1, ElementOfSeq
  <2>2. \A b \in Byte : b \in Int
    BY DEF Byte
  <2> QED BY <2>1, <2>2
<1>3. CASE v # zero
  <2>1. x \in Seq(Byte) /\ a = <<tag>> \o x
    BY <1>3 DEF Writ
  <2> DEFINE z == <<tag>> \o (x \o s)
  <2>2. a \o s = z
    BY <1>1, <2>1, TagThen
  <2>3. z[1] = tag
    BY <1>1, <2>1, TagThen
  <2>4. z \in Seq(Byte)
    BY <1>1, <2>1, TagThen
  <2> HIDE DEF z
  <2>5. After(low, z)
    BY <1>1, <2>3, <2>4 DEF After
  <2> QED BY <2>2, <2>5
<1>4. CASE v = zero
  <2>1. a \o s = s
    BY <1>1, <1>4, NoBytes DEF Writ
  <2>2. After(low, s)
    BY <1>1, <1>2 DEF After
  <2> QED BY <2>1, <2>2
<1> QED BY <1>3, <1>4

LEMMA NotTagged ==
  ASSUME NEW tag \in Byte, NEW x \in Seq(Byte), NEW s \in Seq(Byte), NEW t, After(tag, t)
  PROVE  (<<tag>> \o x) \o s # t
<1> DEFINE z == (<<tag>> \o x) \o s
<1>1. z = <<tag>> \o (x \o s)
  BY TagThen
<1>2. z[1] = tag
  BY <1>1, TagThen
<1>3. z # <<>>
  BY <1>1, TagThen
<1> HIDE DEF z
<1>4. tag \in Int
  BY DEF Byte
<1>5. z # t
  BY <1>2, <1>3, <1>4 DEF After
<1> QED BY <1>5 DEF z

LEMMA FieldSplits ==
  ASSUME NEW tag \in Byte, NEW zero, NEW a, NEW v, NEW x, Writ(a, v, zero, tag, x),
         NEW b, NEW w, NEW y, Writ(b, w, zero, tag, y),
         NEW s, NEW t, After(tag, s), After(tag, t), Alike(a, s, b, t)
  PROVE  /\ v = zero => w = zero /\ s = t
         /\ v # zero => w # zero /\ Alike(x, s, y, t)
<1>0. a \o s = b \o t
  BY DEF Alike
<1>1. s \in Seq(Byte) /\ t \in Seq(Byte)
  BY DEF After
<1>2. <<>> \o s = s /\ <<>> \o t = t
  BY <1>1, NoBytes
<1>3. ASSUME v = zero PROVE w = zero /\ s = t
  <2>1. a \o s = s
    BY <1>2, <1>3 DEF Writ
  <2>2. w = zero
    <3> SUFFICES ASSUME w # zero PROVE FALSE
      OBVIOUS
    <3>1. y \in Seq(Byte) /\ b = <<tag>> \o y
      BY DEF Writ
    <3> QED BY <1>0, <1>1, <2>1, <3>1, NotTagged
  <2>3. b \o t = t
    BY <1>2, <2>2 DEF Writ
  <2> QED BY <1>0, <2>1, <2>2, <2>3
<1>4. ASSUME v # zero PROVE w # zero /\ Alike(x, s, y, t)
  <2>1. x \in Seq(Byte) /\ a = <<tag>> \o x
    BY <1>4 DEF Writ
  <2>2. w # zero
    <3> SUFFICES ASSUME w = zero PROVE FALSE
      OBVIOUS
    <3>1. b \o t = t
      BY <1>2 DEF Writ
    <3> QED BY <1>0, <1>1, <2>1, <3>1, NotTagged
  <2>3. y \in Seq(Byte) /\ b = <<tag>> \o y
    BY <2>2 DEF Writ
  <2> DEFINE u == x \o s
             r == y \o t
  <2>4. a \o s = <<tag>> \o u
    BY <1>1, <2>1, TagThen
  <2>5. b \o t = <<tag>> \o r
    BY <1>1, <2>3, TagThen
  <2>6. u \in Seq(Byte) /\ r \in Seq(Byte) /\ <<tag>> \in Seq(Byte)
    BY <1>1, <2>1, <2>3, TwoParts, OneByte
  <2> HIDE DEF u, r
  <2>7. u = r
    BY <1>0, <2>4, <2>5, <2>6, SameAfter
  <2>8. Alike(x, s, y, t)
    BY <2>7 DEF u, r, Alike
  <2> QED BY <2>2, <2>8
<1> QED BY <1>3, <1>4

LEMMA CountedSplits ==
  ASSUME NEW x \in Seq(Byte), NEW y \in Seq(Byte), NEW s \in Seq(Byte), NEW t \in Seq(Byte),
         Alike(Counted(x), s, Counted(y), t)
  PROVE  x = y /\ s = t
<1> DEFINE n == Len(x)
           m == Len(y)
           e == encodeVarintRpc[n]
           f == encodeVarintRpc[m]
           u == x \o s
           v == y \o t
<1>1. n \in Nat /\ m \in Nat
  OBVIOUS
<1>2. e \in Seq(Byte) /\ f \in Seq(Byte)
  BY <1>1, encodeType
<1>3. Counted(x) \o s = e \o u /\ Counted(y) \o t = f \o v
  <2>1. Counted(x) = e \o x /\ Counted(y) = f \o y
    BY DEF Counted
  <2> HIDE DEF e, f
  <2>2. (e \o x) \o s = e \o u
    BY <1>2, ThreeParts
  <2>3. (f \o y) \o t = f \o v
    BY <1>2, ThreeParts
  <2> QED BY <2>1, <2>2, <2>3
<1>4. u \in Seq(Byte) /\ v \in Seq(Byte)
  BY TwoParts
<1>5. encodeVarintRpc[n] \o u = encodeVarintRpc[m] \o v
  BY <1>3 DEF Alike
<1> HIDE DEF e, f, u, v, n, m
<1>6. n = m
  BY <1>1, <1>4, <1>5, VarintSplits, Zenon
<1>7. u = v
  <2> DEFINE g == encodeVarintRpc[n]
  <2>1. g \in Seq(Byte)
    BY <1>1, encodeType
  <2>2. g \o u = g \o v
    BY <1>5, <1>6
  <2> HIDE DEF g
  <2> QED BY <1>4, <2>1, <2>2, SameAfter
<1> QED BY <1>6, <1>7, SameParts DEF u, v, n, m

LEMMA CountedType == \A x \in Seq(Byte) : Counted(x) \in Seq(Byte)
<1> SUFFICES ASSUME NEW x \in Seq(Byte) PROVE Counted(x) \in Seq(Byte)
  OBVIOUS
<1> DEFINE n == Len(x)
<1>1. n \in Nat
  OBVIOUS
<1> HIDE DEF n
<1>2. encodeVarintRpc[n] \in Seq(Byte)
  BY <1>1, encodeType
<1> QED BY <1>2, TwoParts DEF Counted, n

LEMMA PtrIs ==
  ASSUME NEW tag \in Byte, NEW x \in Seq(Byte)
  PROVE  PtrBytes(tag, x) = <<tag>> \o Counted(x)
<1> DEFINE n == Len(x)
           e == encodeVarintRpc[n]
<1>1. n \in Nat /\ <<tag>> \in Seq(Byte)
  BY OneByte
<1>2. e \in Seq(Byte)
  BY <1>1, encodeType
<1>3. PtrBytes(tag, x) = (<<tag>> \o e) \o x
  BY DEF PtrBytes
<1>4. Counted(x) = e \o x
  BY DEF Counted
<1> HIDE DEF e
<1> QED BY <1>1, <1>2, <1>3, <1>4, ThreeParts

LEMMA VarintAlike ==
  ASSUME NEW v \in Nat, NEW w \in Nat, NEW s \in Seq(Byte), NEW t \in Seq(Byte),
         Alike(encodeVarintRpc[v], s, encodeVarintRpc[w], t)
  PROVE  v = w
<1>1. encodeVarintRpc[v] \o s = encodeVarintRpc[w] \o t
  BY DEF Alike
<1> QED BY <1>1, VarintSplits

-----------------------------------------------------------------------------
(* Each kind of field *)

LEMMA StrIs ==
  ASSUME NEW tag \in Byte, NEW v \in Text
  PROVE  Writ(StrBytes(tag, v), v, <<>>, tag, Counted(v)) /\ v \in Seq(Byte)
<1>1. v \in Seq(Byte) /\ Counted(v) \in Seq(Byte)
  BY CountedType DEF Text
<1>2. v # <<>> => StrBytes(tag, v) = PtrBytes(tag, v)
  BY DEF StrBytes, PtrBytes
<1>3. v = <<>> => StrBytes(tag, v) = <<>>
  BY DEF StrBytes
<1> QED BY <1>1, <1>2, <1>3, PtrIs DEF Writ

LEMMA NumIs ==
  ASSUME NEW tag \in Byte, NEW v \in Int64
  PROVE  /\ Writ(NumBytes(tag, v), v, 0, tag, encodeVarintRpc[Unsigned(v)])
         /\ Unsigned(v) \in Nat /\ encodeVarintRpc[Unsigned(v)] \in Seq(Byte)
<1>1. Unsigned(v) \in Nat
  BY UnsignedInWord, NumIsInt
<1>2. encodeVarintRpc[Unsigned(v)] \in Seq(Byte)
  BY <1>1, encodeType
<1>3. v # 0 => NumBytes(tag, v) = <<tag>> \o encodeVarintRpc[Unsigned(v)]
  BY DEF NumBytes
<1>4. v = 0 => NumBytes(tag, v) = <<>>
  BY DEF NumBytes
<1> QED BY <1>1, <1>2, <1>3, <1>4 DEF Writ

LEMMA TimeIs ==
  ASSUME NEW tag \in Byte, NEW v \in Pointer(Times)
  PROVE  /\ Writ(TimeBytes(tag, v), v, <<>>, tag, Counted(v[1]))
         /\ v # <<>> => v[1] \in Seq(Byte) /\ v = <<v[1]>>
<1>1. v # <<>> => v[1] \in Seq(Byte) /\ v = <<v[1]>>
  BY PointerCases, TimesAssumption
<1>2. v # <<>> => Counted(v[1]) \in Seq(Byte)
  BY <1>1, CountedType
<1>3. v # <<>> => TimeBytes(tag, v) = <<tag>> \o Counted(v[1])
  <2> SUFFICES ASSUME v # <<>> PROVE TimeBytes(tag, v) = <<tag>> \o Counted(v[1])
    OBVIOUS
  <2> DEFINE z == v[1]
  <2>1. TimeBytes(tag, v) = PtrBytes(tag, z) /\ z \in Seq(Byte)
    BY <1>1 DEF TimeBytes
  <2> HIDE DEF z
  <2>2. PtrBytes(tag, z) = <<tag>> \o Counted(z)
    BY <2>1, PtrIs
  <2> QED BY <2>1, <2>2 DEF z
<1>4. v = <<>> => TimeBytes(tag, v) = <<>>
  BY DEF TimeBytes
<1> QED BY <1>1, <1>2, <1>3, <1>4 DEF Writ

LEMMA StrSplits ==
  ASSUME NEW tag \in Byte, NEW v \in Text, NEW w \in Text, NEW s, NEW t, After(tag, s), After(tag, t),
         Alike(StrBytes(tag, v), s, StrBytes(tag, w), t)
  PROVE  v = w /\ s = t
<1>1. /\ Writ(StrBytes(tag, v), v, <<>>, tag, Counted(v)) /\ v \in Seq(Byte)
      /\ Writ(StrBytes(tag, w), w, <<>>, tag, Counted(w)) /\ w \in Seq(Byte)
      /\ s \in Seq(Byte) /\ t \in Seq(Byte)
  BY StrIs DEF After
<1>2. /\ v = <<>> => w = <<>> /\ s = t
      /\ v # <<>> => w # <<>> /\ Alike(Counted(v), s, Counted(w), t)
  <2> DEFINE zero == <<>>  a == StrBytes(tag, v)  b == StrBytes(tag, w)  x == Counted(v)  y == Counted(w)
  <2>1. Writ(a, v, zero, tag, x) /\ Writ(b, w, zero, tag, y) /\ Alike(a, s, b, t)
    BY <1>1
  <2> HIDE DEF zero, a, b, x, y
  <2>2. v = zero => w = zero /\ s = t
    BY <2>1, FieldSplits
  <2>3. v # zero => w # zero /\ Alike(x, s, y, t)
    BY <2>1, FieldSplits
  <2> QED BY <2>2, <2>3 DEF zero, x, y
<1>3. CASE v = <<>>
  BY <1>2, <1>3
<1>4. CASE v # <<>>
  <2>1. Alike(Counted(v), s, Counted(w), t)
    BY <1>2, <1>4
  <2>2. v = w
    BY <1>1, <2>1, CountedSplits
  <2>3. s = t
    BY <1>1, <2>1, CountedSplits
  <2> QED BY <2>2, <2>3
<1> QED BY <1>3, <1>4

LEMMA NumSplits ==
  ASSUME NEW tag \in Byte, NEW v \in Int64, NEW w \in Int64, NEW s, NEW t, After(tag, s), After(tag, t),
         Alike(NumBytes(tag, v), s, NumBytes(tag, w), t)
  PROVE  v = w /\ s = t
<1> DEFINE zero == 0  a == NumBytes(tag, v)  b == NumBytes(tag, w)
           m == Unsigned(v)  n == Unsigned(w)
           x == encodeVarintRpc[m]  y == encodeVarintRpc[n]
<1>1. /\ Writ(a, v, zero, tag, x) /\ m \in Nat /\ x \in Seq(Byte)
      /\ Writ(b, w, zero, tag, y) /\ n \in Nat
      /\ s \in Seq(Byte) /\ t \in Seq(Byte) /\ Alike(a, s, b, t)
  BY NumIs DEF After
<1> HIDE DEF zero, a, b, x, y
<1>2. v = zero => w = zero /\ s = t
  BY <1>1, FieldSplits
<1>3. v # zero => w # zero /\ Alike(x, s, y, t)
  BY <1>1, FieldSplits
<1>4. CASE v = zero
  BY <1>2, <1>4
<1>5. CASE v # zero
  <2>1. Alike(encodeVarintRpc[m], s, encodeVarintRpc[n], t)
    BY <1>3, <1>5 DEF x, y
  <2>2. m = n
    <3> HIDE DEF m, n
    <3> QED BY <1>1, <2>1, VarintAlike
  <2>3. x \o s = x \o t
    BY <1>3, <1>5, <2>2 DEF x, y, Alike
  <2>4. s = t
    BY <1>1, <2>3, SameAfter
  <2>5. v = w
    BY <2>2, SignedUnsigned
  <2> QED BY <2>4, <2>5
<1> QED BY <1>4, <1>5

LEMMA TimeSplits ==
  ASSUME NEW tag \in Byte, NEW v \in Pointer(Times), NEW w \in Pointer(Times), NEW s, NEW t,
         After(tag, s), After(tag, t), Alike(TimeBytes(tag, v), s, TimeBytes(tag, w), t)
  PROVE  v = w /\ s = t
<1> DEFINE zero == <<>>  a == TimeBytes(tag, v)  b == TimeBytes(tag, w)
           p == v[1]  q == w[1]  x == Counted(p)  y == Counted(q)
<1>1. /\ Writ(a, v, zero, tag, x) /\ (v # zero => p \in Seq(Byte) /\ v = <<p>>)
      /\ Writ(b, w, zero, tag, y) /\ (w # zero => q \in Seq(Byte) /\ w = <<q>>)
      /\ s \in Seq(Byte) /\ t \in Seq(Byte) /\ Alike(a, s, b, t)
  BY TimeIs DEF After
<1> HIDE DEF zero, a, b, x, y, p, q
<1>2. v = zero => w = zero /\ s = t
  BY <1>1, FieldSplits
<1>3. v # zero => w # zero /\ Alike(x, s, y, t)
  BY <1>1, FieldSplits
<1>4. CASE v = zero
  BY <1>2, <1>4
<1>5. CASE v # zero
  <2>1. Alike(Counted(p), s, Counted(q), t) /\ p \in Seq(Byte) /\ q \in Seq(Byte)
    BY <1>1, <1>3, <1>5 DEF x, y
  <2>2. p = q
    BY <1>1, <2>1, CountedSplits
  <2>3. s = t
    BY <1>1, <2>1, CountedSplits
  <2> QED BY <1>1, <1>3, <1>5, <2>2, <2>3
<1> QED BY <1>4, <1>5

LEMMA OneIsByte == 1 \in Byte
BY DEF Byte

LEMMA BoolSplits ==
  ASSUME NEW tag \in Byte, NEW v \in BOOLEAN, NEW w \in BOOLEAN, NEW s, NEW t, After(tag, s), After(tag, t),
         Alike(BoolBytes(tag, v), s, BoolBytes(tag, w), t)
  PROVE  v = w /\ s = t
<1>1. s \in Seq(Byte) /\ t \in Seq(Byte) /\ <<>> \o s = s /\ <<>> \o t = t
  BY NoBytes DEF After
<1>0. BoolBytes(tag, v) \o s = BoolBytes(tag, w) \o t
  BY DEF Alike
<1> DEFINE u == <<1>>
           z == <<tag>> \o u
<1>2. u \in Seq(Byte) /\ <<tag, 1>> = z
  BY OneIsByte, TwoBytes, OneByte
<1>3. z \in Seq(Byte)
  BY <1>2, TagThen
<1>4. z \o s # t /\ z \o t # s
  BY <1>1, <1>2, NotTagged
<1>5. /\ v => BoolBytes(tag, v) = z
      /\ w => BoolBytes(tag, w) = z
      /\ ~v => BoolBytes(tag, v) = <<>>
      /\ ~w => BoolBytes(tag, w) = <<>>
  BY <1>2, Zenon DEF BoolBytes
<1> HIDE DEF z
<1>6. CASE v /\ w
  <2>1. z \o s = z \o t
    BY <1>0, <1>5, <1>6
  <2>2. s = t
    BY <1>1, <1>3, <2>1, SameAfter
  <2> QED BY <1>6, <2>2
<1>7. CASE v /\ ~w
  BY <1>0, <1>1, <1>4, <1>5, <1>7, Zenon
<1>8. CASE ~v /\ w
  BY <1>0, <1>1, <1>4, <1>5, <1>8, Zenon
<1>9. CASE ~v /\ ~w
  <2>1. s = t
    BY <1>0, <1>1, <1>5, <1>9
  <2> QED BY <1>9, <2>1
<1> QED BY <1>6, <1>7, <1>8, <1>9

LEMMA SmallBytes == /\ \A b \in {8, 10, 16, 18, 26, 34, 42} : b \in Byte
                    /\ 8 < 10 /\ 8 < 16 /\ 8 < 18 /\ 10 < 16 /\ 10 < 18 /\ 16 < 26 /\ 18 < 26 /\ 26 < 34 /\ 34 < 42
BY DEF Byte

\* The same with what is needed of a field of each kind.
LEMMA StrAfter ==
  ASSUME NEW low \in Byte, NEW tag \in Byte, low < tag, NEW v \in Text, NEW s, After(tag, s)
  PROVE  After(low, StrBytes(tag, v) \o s)
<1> DEFINE a == StrBytes(tag, v)  x == Counted(v)  zero == <<>>
<1>1. Writ(a, v, zero, tag, x)
  BY StrIs
<1> HIDE DEF a, x, zero
<1>2. After(low, a \o s)
  BY <1>1, FieldAfter
<1> QED BY <1>2 DEF a

LEMMA NumAfter ==
  ASSUME NEW low \in Byte, NEW tag \in Byte, low < tag, NEW v \in Int64, NEW s, After(tag, s)
  PROVE  After(low, NumBytes(tag, v) \o s)
<1> DEFINE a == NumBytes(tag, v)  x == encodeVarintRpc[Unsigned(v)]  zero == 0
<1>1. Writ(a, v, zero, tag, x)
  BY NumIs
<1> HIDE DEF a, x, zero
<1>2. After(low, a \o s)
  BY <1>1, FieldAfter
<1> QED BY <1>2 DEF a

LEMMA TimeAfter ==
  ASSUME NEW low \in Byte, NEW tag \in Byte, low < tag, NEW v \in Pointer(Times), NEW s, After(tag, s)
  PROVE  After(low, TimeBytes(tag, v) \o s)
<1> DEFINE a == TimeBytes(tag, v)  x == Counted(v[1])  zero == <<>>
<1>1. Writ(a, v, zero, tag, x)
  BY TimeIs
<1> HIDE DEF a, x, zero
<1>2. After(low, a \o s)
  BY <1>1, FieldAfter
<1> QED BY <1>2 DEF a

-----------------------------------------------------------------------------
(* Records *)

\* What a record writes, from each of its fields on.
Tail5(u) == TimeBytes(42, u) \o <<>>
Tail4(c, u) == TimeBytes(34, c) \o Tail5(u)
Tail3(s, c, u) == StrBytes(26, s) \o Tail4(c, u)
Tail2(n, s, c, u) == NumBytes(16, n) \o Tail3(s, c, u)
Tail1(i, n, s, c, u) == StrBytes(10, i) \o Tail2(n, s, c, u)

LEMMA RecordTails ==
  ASSUME NEW i \in Text, NEW n \in Int64, NEW s \in Text,
         NEW c \in Pointer(Times), NEW u \in Pointer(Times)
  PROVE  /\ After(34, Tail5(u)) /\ After(26, Tail4(c, u)) /\ After(16, Tail3(s, c, u))
         /\ After(10, Tail2(n, s, c, u))
<1>1. After(34, Tail5(u))
  <2> DEFINE e == <<>>
  <2>1. After(42, e)
    BY NothingAfter
  <2> HIDE DEF e
  <2>2. After(34, TimeBytes(42, u) \o e)
    BY <2>1, SmallBytes, TimeAfter
  <2> QED BY <2>2 DEF e, Tail5
<1>2. After(26, Tail4(c, u))
  BY <1>1, SmallBytes, TimeAfter DEF Tail4
<1>3. After(16, Tail3(s, c, u))
  BY <1>2, SmallBytes, StrAfter DEF Tail3
<1>4. After(10, Tail2(n, s, c, u))
  BY <1>3, SmallBytes, NumAfter DEF Tail2
<1> QED BY <1>1, <1>2, <1>3, <1>4

LeftToRight(a, b, c, d, e) == (((a \o b) \o c) \o d) \o e
RightToLeft(a, b, c, d, e) == a \o (b \o (c \o (d \o (e \o <<>>))))

LEMMA FiveParts ==
  ASSUME NEW a \in Seq(Byte), NEW b \in Seq(Byte), NEW c \in Seq(Byte), NEW d \in Seq(Byte), NEW e \in Seq(Byte)
  PROVE  LeftToRight(a, b, c, d, e) = RightToLeft(a, b, c, d, e)
<1> DEFINE y == d \o e  x == c \o y  w == a \o b
<1>1. y \in Seq(Byte) /\ w \in Seq(Byte)
  BY TwoParts
<1>2. x \in Seq(Byte) /\ w \o c \in Seq(Byte)
  <2> HIDE DEF y, w
  <2> QED BY <1>1, TwoParts
<1>3. ((w \o c) \o d) \o e = (w \o c) \o y
  <2> DEFINE v == w \o c
  <2>1. v \in Seq(Byte)
    BY <1>2
  <2> HIDE DEF v
  <2>2. (v \o d) \o e = v \o (d \o e)
    BY <2>1, ThreeParts
  <2> QED BY <2>2 DEF v
<1>4. (w \o c) \o y = w \o x
  <2> HIDE DEF y, w
  <2> QED BY <1>1, ThreeParts
<1>5. w \o x = a \o (b \o x)
  <2> HIDE DEF x
  <2> QED BY <1>2, ThreeParts
<1>6. e \o <<>> = e
  BY NoBytes
<1>7. LeftToRight(a, b, c, d, e) = ((w \o c) \o d) \o e
  BY DEF LeftToRight
<1>8. RightToLeft(a, b, c, d, e) = a \o (b \o x)
  BY <1>6 DEF RightToLeft
<1> HIDE DEF w, x, y
<1> QED BY <1>3, <1>4, <1>5, <1>7, <1>8

LEMMA RecordFromTails ==
  ASSUME NEW i \in Text, NEW n \in Int64, NEW s \in Text,
         NEW c \in Pointer(Times), NEW u \in Pointer(Times)
  PROVE  MarshalRecord(RecordOf(i, n, s, c, u)) = Tail1(i, n, s, c, u)
<1> DEFINE p == StrBytes(10, i)  q == NumBytes(16, n)  r == StrBytes(26, s)
           x == TimeBytes(34, c)  y == TimeBytes(42, u)
<1>1. p \in Seq(Byte) /\ q \in Seq(Byte) /\ r \in Seq(Byte) /\ x \in Seq(Byte) /\ y \in Seq(Byte)
  <2>1. 10 \in Byte /\ 16 \in Byte /\ 26 \in Byte /\ 34 \in Byte /\ 42 \in Byte
    BY SmallBytes
  <2>2. p \in Seq(Byte) /\ r \in Seq(Byte)
    BY <2>1, StrBytesSize DEF Text
  <2>3. q \in Seq(Byte)
    BY <2>1, NumBytesSize, NumIsInt
  <2>4. x \in Seq(Byte) /\ y \in Seq(Byte)
    BY <2>1, TimeBytesSize
  <2> QED BY <2>2, <2>3, <2>4
<1>2. MarshalRecord(RecordOf(i, n, s, c, u)) = LeftToRight(p, q, r, x, y)
  BY DEF MarshalRecord, RecordOf, LeftToRight
<1>3. Tail1(i, n, s, c, u) = RightToLeft(p, q, r, x, y)
  BY DEF Tail1, Tail2, Tail3, Tail4, Tail5, RightToLeft
<1> HIDE DEF p, q, r, x, y
<1> QED BY <1>1, <1>2, <1>3, FiveParts

LEMMA RecordSame ==
  ASSUME NEW a \in Record, NEW b \in Record, MarshalRecord(a) = MarshalRecord(b)
  PROVE  a = b
<1> DEFINE i == a.ID  n == a.TheNum  s == a.TheStr  c == a.CreatedAt  u == a.UpdatedAt
           j == b.ID  m == b.TheNum  t == b.TheStr  d == b.CreatedAt  v == b.UpdatedAt
<1>1. /\ a = RecordOf(i, n, s, c, u) /\ i \in Text /\ n \in Int64 /\ s \in Text
      /\ c \in Pointer(Times) /\ u \in Pointer(Times)
  BY RecordIs
<1>2. /\ b = RecordOf(j, m, t, d, v) /\ j \in Text /\ m \in Int64 /\ t \in Text
      /\ d \in Pointer(Times) /\ v \in Pointer(Times)
  BY RecordIs
<1> HIDE DEF i, n, s, c, u, j, m, t, d, v
<1>3. MarshalRecord(a) = Tail1(i, n, s, c, u)
  BY <1>1, RecordFromTails
<1>4. MarshalRecord(b) = Tail1(j, m, t, d, v)
  BY <1>2, RecordFromTails
<1>5. 10 \in Byte /\ 16 \in Byte /\ 26 \in Byte /\ 34 \in Byte /\ 42 \in Byte
  BY SmallBytes
<1>6. /\ After(34, Tail5(u)) /\ After(26, Tail4(c, u)) /\ After(16, Tail3(s, c, u))
      /\ After(10, Tail2(n, s, c, u))
  BY <1>1, <1>2, RecordTails
<1>7. /\ After(34, Tail5(v)) /\ After(26, Tail4(d, v)) /\ After(16, Tail3(t, d, v))
      /\ After(10, Tail2(m, t, d, v))
  BY <1>1, <1>2, RecordTails
<1>8. Alike(StrBytes(10, i), Tail2(n, s, c, u), StrBytes(10, j), Tail2(m, t, d, v))
  BY <1>3, <1>4 DEF Tail1, Alike
<1>9. i = j /\ Tail2(n, s, c, u) = Tail2(m, t, d, v)
  BY <1>1, <1>2, <1>5, <1>6, <1>7, <1>8, StrSplits
<1>10. Alike(NumBytes(16, n), Tail3(s, c, u), NumBytes(16, m), Tail3(t, d, v))
  BY <1>9 DEF Tail2, Alike
<1>11. n = m /\ Tail3(s, c, u) = Tail3(t, d, v)
  BY <1>1, <1>2, <1>5, <1>6, <1>7, <1>10, NumSplits
<1>12. Alike(StrBytes(26, s), Tail4(c, u), StrBytes(26, t), Tail4(d, v))
  BY <1>11 DEF Tail3, Alike
<1>13. s = t /\ Tail4(c, u) = Tail4(d, v)
  BY <1>1, <1>2, <1>5, <1>6, <1>7, <1>12, StrSplits
<1>14. Alike(TimeBytes(34, c), Tail5(u), TimeBytes(34, d), Tail5(v))
  BY <1>13 DEF Tail4, Alike
<1>15. c = d /\ Tail5(u) = Tail5(v)
  BY <1>1, <1>2, <1>5, <1>6, <1>7, <1>14, TimeSplits
<1> DEFINE e == <<>>
<1>16. Alike(TimeBytes(42, u), e, TimeBytes(42, v), e)
  BY <1>15 DEF Tail5, Alike
<1>17. After(42, e)
  BY NothingAfter
<1> HIDE DEF e
<1>18. u = v
  BY <1>1, <1>2, <1>5, <1>16, <1>17, TimeSplits
<1> QED BY <1>1, <1>2, <1>9, <1>11, <1>13, <1>15, <1>18

-----------------------------------------------------------------------------
(* The other messages *)

NoMore == <<>>

LEMMA NoMoreAfter == /\ \A tag : After(tag, NoMore)
                     /\ \A s \in Seq(Byte) : s \o NoMore = s
BY NothingAfter, NoBytes DEF NoMore

LEMMA ThreeWithNone ==
  ASSUME NEW a \in Seq(Byte), NEW b \in Seq(Byte), NEW c \in Seq(Byte)
  PROVE  (a \o b) \o c = a \o (b \o (c \o NoMore))
<1>1. c \o NoMore = c
  BY NoMoreAfter
<1>2. (a \o b) \o c = a \o (b \o c)
  BY ThreeParts
<1> QED BY <1>1, <1>2

LEMMA BoolIsSeq ==
  ASSUME NEW tag \in Byte, NEW v \in BOOLEAN
  PROVE  BoolBytes(tag, v) \in Seq(Byte)
BY BoolBytesSize

LEMMA StrIsSeq ==
  ASSUME NEW tag \in Byte, NEW v \in Text
  PROVE  StrBytes(tag, v) \in Seq(Byte)
BY StrBytesSize

LEMMA NumIsSeq ==
  ASSUME NEW tag \in Byte, NEW v \in Int64
  PROVE  NumBytes(tag, v) \in Seq(Byte)
BY NumBytesSize, NumIsInt

LEMMA TimeIsSeq ==
  ASSUME NEW tag \in Byte, NEW v \in Pointer(Times)
  PROVE  TimeBytes(tag, v) \in Seq(Byte)
BY TimeBytesSize

LEMMA ConfigResSame ==
  ASSUME NEW x \in BOOLEAN, NEW n \in Int64, NEW s \in Text,
         NEW y \in BOOLEAN, NEW m \in Int64, NEW t \in Text,
         MarshalToSizedBuffer("ConfigRes", ConfigResOf(x, n, s))
           = MarshalToSizedBuffer("ConfigRes", ConfigResOf(y, m, t))
  PROVE  x = y /\ n = m /\ s = t
<1> DEFINE s3 == StrBytes(26, s) \o NoMore
           t3 == StrBytes(26, t) \o NoMore
           s2 == NumBytes(16, n) \o s3
           t2 == NumBytes(16, m) \o t3
<1>0. 8 \in Byte /\ 16 \in Byte /\ 26 \in Byte /\ 8 < 16 /\ 16 < 26
  BY SmallBytes
<1>1. MarshalToSizedBuffer("ConfigRes", ConfigResOf(x, n, s)) = BoolBytes(8, x) \o s2
  <2> DEFINE a == BoolBytes(8, x)
             b == NumBytes(16, n)
             e == StrBytes(26, s)
  <2>1. a \in Seq(Byte) /\ b \in Seq(Byte) /\ e \in Seq(Byte)
    BY <1>0, BoolIsSeq, NumIsSeq, StrIsSeq
  <2>2. MarshalToSizedBuffer("ConfigRes", ConfigResOf(x, n, s)) = (a \o b) \o e
    BY ConfigResWrites
  <2> HIDE DEF a, b, e
  <2>3. (a \o b) \o e = a \o (b \o (e \o NoMore))
    BY <2>1, ThreeWithNone
  <2> QED BY <2>2, <2>3 DEF a, b, e
<1>2. MarshalToSizedBuffer("ConfigRes", ConfigResOf(y, m, t)) = BoolBytes(8, y) \o t2
  <2> DEFINE a == BoolBytes(8, y)
             b == NumBytes(16, m)
             e == StrBytes(26, t)
  <2>1. a \in Seq(Byte) /\ b \in Seq(Byte) /\ e \in Seq(Byte)
    BY <1>0, BoolIsSeq, NumIsSeq, StrIsSeq
  <2>2. MarshalToSizedBuffer("ConfigRes", ConfigResOf(y, m, t)) = (a \o b) \o e
    BY ConfigResWrites
  <2> HIDE DEF a, b, e
  <2>3. (a \o b) \o e = a \o (b \o (e \o NoMore))
    BY <2>1, ThreeWithNone
  <2> QED BY <2>2, <2>3 DEF a, b, e
<1>3. After(26, NoMore)
  BY NoMoreAfter
<1>4. After(16, s3) /\ After(16, t3)
  BY <1>0, <1>3, StrAfter
<1>5. After(8, s2) /\ After(8, t2)
  <2> HIDE DEF s3, t3
  <2> QED BY <1>0, <1>4, NumAfter
<1>6. Alike(BoolBytes(8, x), s2, BoolBytes(8, y), t2)
  BY <1>1, <1>2 DEF Alike
<1> HIDE DEF s2, t2
<1>7. x = y /\ s2 = t2
  BY <1>0, <1>5, <1>6, BoolSplits
<1>8. Alike(NumBytes(16, n), s3, NumBytes(16, m), t3)
  BY <1>7 DEF s2, t2, Alike
<1> HIDE DEF s3, t3
<1>9. n = m /\ s3 = t3
  BY <1>0, <1>4, <1>8, NumSplits
<1>10. Alike(StrBytes(26, s), NoMore, StrBytes(26, t), NoMore)
  BY <1>9 DEF s3, t3, Alike
<1>11. s = t
  BY <1>0, <1>3, <1>10, StrSplits
<1> QED BY <1>7, <1>9, <1>11

LEMMA CreateRecordReqSame ==
  ASSUME NEW n \in Int64, NEW s \in Text, NEW c \in Pointer(Times),
         NEW m \in Int64, NEW t \in Text, NEW d \in Pointer(Times),
         MarshalToSizedBuffer("CreateRecordReq", CreateRecordReqOf(n, s, c))
           = MarshalToSizedBuffer("CreateRecordReq", CreateRecordReqOf(m, t, d))
  PROVE  n = m /\ s = t /\ c = d
<1> DEFINE s3 == TimeBytes(26, c) \o NoMore
           t3 == TimeBytes(26, d) \o NoMore
           s2 == StrBytes(18, s) \o s3
           t2 == StrBytes(18, t) \o t3
<1>0. 8 \in Byte /\ 18 \in Byte /\ 26 \in Byte /\ 8 < 18 /\ 18 < 26
  BY SmallBytes
<1>1. MarshalToSizedBuffer("CreateRecordReq", CreateRecordReqOf(n, s, c)) = NumBytes(8, n) \o s2
  <2> DEFINE a == NumBytes(8, n)
             b == StrBytes(18, s)
             e == TimeBytes(26, c)
  <2>1. a \in Seq(Byte) /\ b \in Seq(Byte) /\ e \in Seq(Byte)
    BY <1>0, TimeIsSeq, NumIsSeq, StrIsSeq
  <2>2. MarshalToSizedBuffer("CreateRecordReq", CreateRecordReqOf(n, s, c)) = (a \o b) \o e
    BY CreateRecordReqWrites
  <2> HIDE DEF a, b, e
  <2>3. (a \o b) \o e = a \o (b \o (e \o NoMore))
    BY <2>1, ThreeWithNone
  <2> QED BY <2>2, <2>3 DEF a, b, e
<1>2. MarshalToSizedBuffer("CreateRecordReq", CreateRecordReqOf(m, t, d)) = NumBytes(8, m) \o t2
  <2> DEFINE a == NumBytes(8, m)
             b == StrBytes(18, t)
             e == TimeBytes(26, d)
  <2>1. a \in Seq(Byte) /\ b \in Seq(Byte) /\ e \in Seq(Byte)
    BY <1>0, TimeIsSeq, NumIsSeq, StrIsSeq
  <2>2. MarshalToSizedBuffer("CreateRecordReq", CreateRecordReqOf(m, t, d)) = (a \o b) \o e
    BY CreateRecordReqWrites
  <2> HIDE DEF a, b, e
  <2>3. (a \o b) \o e = a \o (b \o (e \o NoMore))
    BY <2>1, ThreeWithNone
  <2> QED BY <2>2, <2>3 DEF a, b, e
<1>3. After(26, NoMore)
  BY NoMoreAfter
<1>4. After(18, s3) /\ After(18, t3)
  BY <1>0, <1>3, TimeAfter
<1>5. After(8, s2) /\ After(8, t2)
  <2> HIDE DEF s3, t3
  <2> QED BY <1>0, <1>4, StrAfter
<1>6. Alike(NumBytes(8, n), s2, NumBytes(8, m), t2)
  BY <1>1, <1>2 DEF Alike
<1> HIDE DEF s2, t2
<1>7. n = m /\ s2 = t2
  BY <1>0, <1>5, <1>6, NumSplits
<1>8. Alike(StrBytes(18, s), s3, StrBytes(18, t), t3)
  BY <1>7 DEF s2, t2, Alike
<1> HIDE DEF s3, t3
<1>9. s = t /\ s3 = t3
  BY <1>0, <1>4, <1>8, StrSplits
<1>10. Alike(TimeBytes(26, c), NoMore, TimeBytes(26, d), NoMore)
  BY <1>9 DEF s3, t3, Alike
<1>11. c = d
  BY <1>0, <1>3, <1>10, TimeSplits
<1> QED BY <1>7, <1>9, <1>11

LEMMA ListRecordReqSame ==
  ASSUME NEW r \in Text, NEW s \in Text, NEW q \in Text, NEW t \in Text,
         MarshalToSizedBuffer("ListRecordReq", ListRecordReqOf(r, s))
           = MarshalToSizedBuffer("ListRecordReq", ListRecordReqOf(q, t))
  PROVE  r = q /\ s = t
<1> DEFINE s2 == StrBytes(18, s) \o NoMore
           t2 == StrBytes(18, t) \o NoMore
<1>0. 10 \in Byte /\ 18 \in Byte /\ 10 < 18
  BY SmallBytes
<1>1. s2 = StrBytes(18, s) /\ t2 = StrBytes(18, t)
  BY <1>0, NoMoreAfter, StrIsSeq
<1>2. After(18, NoMore)
  BY NoMoreAfter
<1>3. After(10, s2) /\ After(10, t2)
  BY <1>0, <1>2, StrAfter
<1>4. Alike(StrBytes(10, r), s2, StrBytes(10, q), t2)
  BY <1>1, ListRecordReqWrites DEF Alike
<1>5. r = q /\ s2 = t2
  <2> HIDE DEF s2, t2
  <2> QED BY <1>0, <1>3, <1>4, StrSplits
<1>6. Alike(StrBytes(18, s), NoMore, StrBytes(18, t), NoMore)
  BY <1>5 DEF Alike
<1>7. s = t
  BY <1>0, <1>2, <1>6, StrSplits
<1> QED BY <1>5, <1>7

LEMMA TextSame ==
  ASSUME NEW r \in Text, NEW q \in Text, StrBytes(10, r) = StrBytes(10, q)
  PROVE  r = q
<1>1. Alike(StrBytes(10, r), NoMore, StrBytes(10, q), NoMore)
  BY DEF Alike
<1> QED BY <1>1, NoMoreAfter, SmallBytes, StrSplits

LEMMA TruthSame ==
  ASSUME NEW x \in BOOLEAN, NEW y \in BOOLEAN, BoolBytes(8, x) = BoolBytes(8, y)
  PROVE  x = y
<1>1. Alike(BoolBytes(8, x), NoMore, BoolBytes(8, y), NoMore)
  BY DEF Alike
<1> QED BY <1>1, NoMoreAfter, SmallBytes, BoolSplits

\* An embedded record, and what follows it.
LEMMA PtrSplits ==
  ASSUME NEW a \in Record, NEW b \in Record, NEW s \in Seq(Byte), NEW t \in Seq(Byte),
         Alike(PtrBytes(10, MarshalRecord(a)), s, PtrBytes(10, MarshalRecord(b)), t)
  PROVE  a = b /\ s = t
<1> DEFINE x == MarshalRecord(a)
           y == MarshalRecord(b)
           p == Counted(x)
           q == Counted(y)
<1>0. 10 \in Byte
  BY SmallBytes
<1>1. x \in Seq(Byte) /\ y \in Seq(Byte)
  BY RecordSize
<1> HIDE DEF x, y
<1>2. p \in Seq(Byte) /\ q \in Seq(Byte)
  BY <1>1, CountedType
<1>3. PtrBytes(10, x) = <<10>> \o p /\ PtrBytes(10, y) = <<10>> \o q
  BY <1>0, <1>1, PtrIs
<1> HIDE DEF p, q
<1> DEFINE u == p \o s
           v == q \o t
<1>4. (<<10>> \o p) \o s = <<10>> \o u /\ (<<10>> \o q) \o t = <<10>> \o v
  BY <1>0, <1>2, TagThen
<1>5. <<10>> \o u = <<10>> \o v
  BY <1>3, <1>4 DEF Alike, x, y
<1>6. u \in Seq(Byte) /\ v \in Seq(Byte)
  BY <1>2, TwoParts
<1> HIDE DEF u, v
<1>7. u = v
  BY <1>0, <1>5, <1>6, FirstSame
<1>8. Alike(Counted(x), s, Counted(y), t)
  BY <1>7 DEF u, v, p, q, Alike
<1>9. x = y /\ s = t
  BY <1>1, <1>8, CountedSplits
<1> QED BY <1>9, RecordSame DEF x, y

LEMMA PtrNotEmpty ==
  ASSUME NEW a \in Record
  PROVE  PtrBytes(10, MarshalRecord(a)) \in Seq(Byte) /\ PtrBytes(10, MarshalRecord(a)) # <<>>
<1> DEFINE x == MarshalRecord(a)
<1>0. 10 \in Byte
  BY SmallBytes
<1>1. x \in Seq(Byte)
  BY RecordSize
<1> HIDE DEF x
<1>2. PtrBytes(10, x) = <<10>> \o Counted(x) /\ Counted(x) \in Seq(Byte)
  BY <1>0, <1>1, PtrIs, CountedType
<1>3. <<10>> \o Counted(x) \in Seq(Byte) /\ <<10>> \o Counted(x) # <<>>
  BY <1>0, <1>2, ByteThen
<1> QED BY <1>2, <1>3 DEF x

LEMMA RecordPtrSame ==
  ASSUME NEW p \in Pointer(Record), NEW q \in Pointer(Record),
         RecordPtrBytes(10, p) = RecordPtrBytes(10, q)
  PROVE  p = q
<1>1. ASSUME NEW r \in Pointer(Record), r # <<>>
      PROVE  r[1] \in Record /\ r = <<r[1]>> /\ RecordPtrBytes(10, r) = PtrBytes(10, MarshalRecord(r[1]))
  BY <1>1, PointerCases DEF RecordPtrBytes
<1>2. ASSUME NEW r \in Pointer(Record), r # <<>>
      PROVE  RecordPtrBytes(10, r) # <<>>
  <2> DEFINE a == r[1]
  <2>1. a \in Record /\ RecordPtrBytes(10, r) = PtrBytes(10, MarshalRecord(a))
    BY <1>1, <1>2
  <2> HIDE DEF a
  <2> QED BY <2>1, PtrNotEmpty
<1>3. RecordPtrBytes(10, <<>>) = <<>>
  BY DEF RecordPtrBytes
<1>4. CASE p = <<>>
  BY <1>2, <1>3, <1>4
<1>5. CASE q = <<>>
  BY <1>2, <1>3, <1>5
<1>6. CASE p # <<>> /\ q # <<>>
  <2> DEFINE a == p[1]
             b == q[1]
  <2>1. a \in Record /\ p = <<a>> /\ RecordPtrBytes(10, p) = PtrBytes(10, MarshalRecord(a))
    BY <1>1, <1>6
  <2>2. b \in Record /\ q = <<b>> /\ RecordPtrBytes(10, q) = PtrBytes(10, MarshalRecord(b))
    BY <1>1, <1>6
  <2> HIDE DEF a, b
  <2>3. Alike(PtrBytes(10, MarshalRecord(a)), NoMore, PtrBytes(10, MarshalRecord(b)), NoMore)
    BY <2>1, <2>2 DEF Alike
  <2>4. NoMore \in Seq(Byte)
    BY EmptyBytes DEF NoMore
  <2>5. a = b
    BY <2>1, <2>2, <2>3, <2>4, PtrSplits
  <2> QED BY <2>1, <2>2, <2>5
<1> QED BY <1>4, <1>5, <1>6

-----------------------------------------------------------------------------
(* Lists of records *)

\* H has what each record of a list and those after it write, as far as tail.
WritesFrom(H, records) ==
  /\ H \in [0..Len(records) -> Seq(Byte)]
  /\ H[Len(records)] = <<>>
  /\ \A i \in 1..Len(records) :
       /\ records[i] \in Record
       /\ H[i - 1] = PtrBytes(10, MarshalRecord(records[i])) \o H[i]

LEMMA ListWritesFrom ==
  ASSUME NEW records \in Seq(Record)
  PROVE  \E H : WritesFrom(H, records) /\ ListBytes(records) = H[0]
<1> DEFINE c == Elements(records)
           n == Len(records)
           e == <<>>
<1>1. /\ c \in Seq(Seq(Byte)) /\ Len(c) = n /\ n \in Nat /\ c \in [1..n -> Seq(Byte)]
      /\ \A i \in 1..n : records[i] \in Record /\ c[i] = PtrBytes(10, MarshalRecord(records[i]))
  BY ElementsSeq, LenProperties
<1>2. e \in Seq(Byte)
  BY EmptyBytes
<1>3. ListBytes(records) = FlattenSeq(c)
  BY ListBytesFlatten
<1> HIDE DEF c, n, e
<1>4. PICK H \in [0..n -> Seq(Byte)] : H[n] = e /\ \A i \in 1..n : H[i - 1] = c[i] \o H[i]
  BY <1>1, <1>2, LastOnes
<1>5. FlattenSeq(c) \o e = H[0]
  <2>1. Len(c) = n
    BY <1>1
  <2>2. H \in [0..Len(c) -> Seq(Byte)] /\ H[Len(c)] = e /\ \A i \in 1..Len(c) : H[i - 1] = c[i] \o H[i]
    BY <1>4, <2>1
  <2> QED BY <1>1, <1>2, <2>2, FlattenIsFirst
<1>6. FlattenSeq(c) \o e = FlattenSeq(c)
  <2>1. FlattenSeq(c) \in Seq(Byte)
    BY ListSize DEF c
  <2> QED BY <2>1, NoBytes DEF e
<1>7. WritesFrom(H, records)
  BY <1>1, <1>4 DEF WritesFrom, n, e
<1> QED BY <1>3, <1>5, <1>6, <1>7

\* Two lists that write the same have the same number of records, and the same ones.
LEMMA FromSame ==
  ASSUME NEW a \in Seq(Record), NEW b \in Seq(Record), NEW H, NEW G,
         WritesFrom(H, a), WritesFrom(G, b), H[0] = G[0]
  PROVE  a = b
<1> DEFINE n == Len(a)
           m == Len(b)
           Upto(i) == /\ i <= m /\ H[i] = G[i]
                      /\ \A j \in 1..i : a[j] = b[j]
           S == {i \in Nat : i <= n => Upto(i)}
<1>1. n \in Nat /\ m \in Nat
  BY LenProperties
<1>2. /\ H \in [0..n -> Seq(Byte)] /\ H[n] = <<>>
      /\ \A i \in 1..n : a[i] \in Record /\ H[i - 1] = PtrBytes(10, MarshalRecord(a[i])) \o H[i]
  BY DEF WritesFrom
<1>3. /\ G \in [0..m -> Seq(Byte)] /\ G[m] = <<>>
      /\ \A i \in 1..m : b[i] \in Record /\ G[i - 1] = PtrBytes(10, MarshalRecord(b[i])) \o G[i]
  BY DEF WritesFrom
<1> HIDE DEF n, m
<1>4. ASSUME NEW r \in Record, NEW s \in Seq(Byte)
      PROVE  PtrBytes(10, MarshalRecord(r)) \o s # <<>>
  <2> DEFINE p == PtrBytes(10, MarshalRecord(r))
  <2>1. p \in Seq(Byte) /\ p # <<>>
    BY PtrNotEmpty
  <2> HIDE DEF p
  <2>2. Len(p) \in Nat /\ Len(p) # 0 /\ Len(s) \in Nat /\ Len(p \o s) = Len(p) + Len(s)
    BY <2>1, ConcatProperties
  <2>3. Len(p \o s) # 0
    BY <2>2
  <2>4. p \o s # <<>>
    BY <2>3
  <2> QED BY <2>4 DEF p
<1>5. 0 \in S
  BY <1>1
<1>6. ASSUME NEW i \in Nat \cap S PROVE i + 1 \in S
  <2> SUFFICES ASSUME i + 1 <= n PROVE Upto(i + 1)
    <3>1. i + 1 \in Nat
      OBVIOUS
    <3> QED BY <3>1
  <2>1. Upto(i) /\ i + 1 \in 1..n /\ (i + 1) - 1 = i /\ i + 1 \in 0..n
    BY <1>1
  <2>2. a[i + 1] \in Record /\ H[i + 1] \in Seq(Byte)
        /\ H[i] = PtrBytes(10, MarshalRecord(a[i + 1])) \o H[i + 1]
    <3> HIDE DEF S, Upto
    <3> QED BY <1>2, <2>1
  <2>3. i < m
    <3> SUFFICES ASSUME ~(i < m) PROVE FALSE
      OBVIOUS
    <3>1. i = m
      BY <1>1, <2>1
    <3>2. H[i] = <<>>
      BY <1>3, <2>1, <3>1
    <3>3. H[i] # <<>>
      BY <1>4, <2>2
    <3> QED BY <3>2, <3>3
  <2>4. i + 1 \in 1..m /\ i + 1 \in 0..m
    BY <1>1, <2>3
  <2>5. b[i + 1] \in Record /\ G[i + 1] \in Seq(Byte)
        /\ G[i] = PtrBytes(10, MarshalRecord(b[i + 1])) \o G[i + 1]
    <3> HIDE DEF S, Upto
    <3> QED BY <1>3, <2>1, <2>4
  <2>6. a[i + 1] = b[i + 1] /\ H[i + 1] = G[i + 1]
    <3> DEFINE x == a[i + 1]
               y == b[i + 1]
               s == H[i + 1]
               t == G[i + 1]
    <3>1. H[i] = G[i]
      BY <2>1
    <3>2. Alike(PtrBytes(10, MarshalRecord(x)), s, PtrBytes(10, MarshalRecord(y)), t)
      BY <2>2, <2>5, <3>1 DEF Alike
    <3>3. x \in Record /\ y \in Record /\ s \in Seq(Byte) /\ t \in Seq(Byte)
      BY <2>2, <2>5
    <3> HIDE DEF x, y, s, t
    <3>4. x = y /\ s = t
      BY <3>2, <3>3, PtrSplits
    <3> QED BY <3>4 DEF x, y, s, t
  <2>7. \A j \in 1..i + 1 : a[j] = b[j]
    <3> SUFFICES ASSUME NEW j \in 1..i + 1 PROVE a[j] = b[j]
      OBVIOUS
    <3>1. CASE j = i + 1
      BY <2>6, <3>1
    <3>2. CASE j # i + 1
      <4>1. j \in 1..i
        BY <3>2
      <4> QED BY <2>1, <4>1
    <3> QED BY <3>1, <3>2
  <2>8. i + 1 <= m
    BY <1>1, <2>3
  <2> QED BY <2>6, <2>7, <2>8
<1>7. Upto(n)
  <2>1. n \in S
    <3> HIDE DEF S
    <3>1. Nat \subseteq S
      BY <1>5, <1>6, SetInduction
    <3> QED BY <1>1, <3>1
  <2> HIDE DEF Upto
  <2> QED BY <1>1, <2>1
<1>8. n = m
  <2> SUFFICES ASSUME n < m PROVE FALSE
    BY <1>1, <1>7
  <2>1. n + 1 \in 1..m /\ (n + 1) - 1 = n /\ n + 1 \in 0..m
    BY <1>1
  <2>2. b[n + 1] \in Record /\ G[n + 1] \in Seq(Byte)
        /\ G[n] = PtrBytes(10, MarshalRecord(b[n + 1])) \o G[n + 1]
    BY <1>3, <2>1
  <2>3. G[n] # <<>>
    BY <1>4, <2>2
  <2> QED BY <1>2, <1>7, <2>3
<1>9. \A j \in 1..n : a[j] = b[j]
  BY <1>7
<1> QED BY <1>8, <1>9, SeqEqual DEF n, m

LEMMA ListSame ==
  ASSUME NEW a \in Seq(Record), NEW b \in Seq(Record), ListBytes(a) = ListBytes(b)
  PROVE  a = b
<1>1. PICK H : WritesFrom(H, a) /\ ListBytes(a) = H[0]
  BY ListWritesFrom
<1>2. PICK G : WritesFrom(G, b) /\ ListBytes(b) = G[0]
  BY ListWritesFrom
<1> QED BY <1>1, <1>2, FromSame

-----------------------------------------------------------------------------
(* Marshal tells any two messages apart *)

LEMMA MarshalSame ==
  ASSUME NEW t \in Messages, NEW a \in Message[t], NEW b \in Message[t],
         MarshalToSizedBuffer(t, a) = MarshalToSizedBuffer(t, b)
  PROVE  a = b
<1>1. CASE t = "Record"
  <2>1. a \in Record /\ b \in Record
    BY <1>1 DEF Message
  <2>2. MarshalRecord(a) = MarshalRecord(b)
    BY <1>1 DEF MarshalToSizedBuffer
  <2> QED BY <2>1, <2>2, RecordSame
<1>2. CASE t = "HealthReq" \/ t = "ConfigReq"
  BY <1>2 DEF Message
<1>3. CASE t = "HealthRes"
  <2>1. /\ a = [Ok |-> a.Ok] /\ a.Ok \in BOOLEAN
        /\ b = [Ok |-> b.Ok] /\ b.Ok \in BOOLEAN
    BY <1>3 DEF Message
  <2>2. BoolBytes(8, a.Ok) = BoolBytes(8, b.Ok)
    BY <1>3 DEF MarshalToSizedBuffer, MarshalHealthRes
  <2>3. a.Ok = b.Ok
    BY <2>1, <2>2, TruthSame
  <2> QED BY <2>1, <2>3
<1>4. CASE t = "ConfigRes"
  <2>1. /\ a = ConfigResOf(a.Enable, a.Num, a.Str) /\ a.Enable \in BOOLEAN /\ a.Num \in Int64 /\ a.Str \in Text
        /\ b = ConfigResOf(b.Enable, b.Num, b.Str) /\ b.Enable \in BOOLEAN /\ b.Num \in Int64 /\ b.Str \in Text
    BY <1>4 DEF Message, ConfigResOf
  <2>2. MarshalToSizedBuffer("ConfigRes", ConfigResOf(a.Enable, a.Num, a.Str))
          = MarshalToSizedBuffer("ConfigRes", ConfigResOf(b.Enable, b.Num, b.Str))
    BY <1>4, <2>1
  <2>3. a.Enable = b.Enable /\ a.Num = b.Num /\ a.Str = b.Str
    BY <2>1, <2>2, ConfigResSame
  <2> QED BY <2>1, <2>3
<1>5. CASE t = "CreateRecordReq"
  <2>1. /\ a = CreateRecordReqOf(a.TheNum, a.TheStr, a.CreatedAt)
        /\ a.TheNum \in Int64 /\ a.TheStr \in Text /\ a.CreatedAt \in Pointer(Times)
        /\ b = CreateRecordReqOf(b.TheNum, b.TheStr, b.CreatedAt)
        /\ b.TheNum \in Int64 /\ b.TheStr \in Text /\ b.CreatedAt \in Pointer(Times)
    BY <1>5 DEF Message, CreateRecordReqOf
  <2>2. MarshalToSizedBuffer("CreateRecordReq", CreateRecordReqOf(a.TheNum, a.TheStr, a.CreatedAt))
          = MarshalToSizedBuffer("CreateRecordReq", CreateRecordReqOf(b.TheNum, b.TheStr, b.CreatedAt))
    BY <1>5, <2>1
  <2> DEFINE n == a.TheNum  s == a.TheStr  c == a.CreatedAt
             m == b.TheNum  r == b.TheStr  d == b.CreatedAt
  <2>3. /\ n \in Int64 /\ s \in Text /\ c \in Pointer(Times)
        /\ m \in Int64 /\ r \in Text /\ d \in Pointer(Times)
        /\ MarshalToSizedBuffer("CreateRecordReq", CreateRecordReqOf(n, s, c))
             = MarshalToSizedBuffer("CreateRecordReq", CreateRecordReqOf(m, r, d))
        /\ a = CreateRecordReqOf(n, s, c) /\ b = CreateRecordReqOf(m, r, d)
    BY <2>1, <2>2
  <2> HIDE DEF n, s, c, m, r, d
  <2>4. n = m
    BY <2>3, CreateRecordReqSame
  <2>5. s = r
    BY <2>3, CreateRecordReqSame
  <2>6. c = d
    BY <2>3, CreateRecordReqSame
  <2> QED BY <2>3, <2>4, <2>5, <2>6
<1>6. CASE t = "CreateRecordRes" \/ t = "GetRecordRes"
  <2>0. a \in [Record : Pointer(Record)] /\ b \in [Record : Pointer(Record)]
    <3>1. CASE t = "CreateRecordRes"
      BY <3>1 DEF Message
    <3>2. CASE t = "GetRecordRes"
      BY <3>2 DEF Message
    <3> QED BY <1>6, <3>1, <3>2
  <2>1. /\ a = [Record |-> a.Record] /\ a.Record \in Pointer(Record)
        /\ b = [Record |-> b.Record] /\ b.Record \in Pointer(Record)
    BY <2>0
  <2>2. RecordPtrBytes(10, a.Record) = RecordPtrBytes(10, b.Record)
    BY <1>6 DEF MarshalToSizedBuffer, MarshalCreateRecordRes, MarshalGetRecordRes
  <2>3. a.Record = b.Record
    BY <2>1, <2>2, RecordPtrSame
  <2> QED BY <2>1, <2>3
<1>7. CASE t = "GetRecordReq"
  <2>1. /\ a = [ID |-> a.ID] /\ a.ID \in Text
        /\ b = [ID |-> b.ID] /\ b.ID \in Text
    BY <1>7 DEF Message
  <2>2. StrBytes(10, a.ID) = StrBytes(10, b.ID)
    BY <1>7 DEF MarshalToSizedBuffer, MarshalGetRecordReq
  <2>3. a.ID = b.ID
    BY <2>1, <2>2, TextSame
  <2> QED BY <2>1, <2>3
<1>8. CASE t = "ListRecordReq"
  <2>1. /\ a = ListRecordReqOf(a.PageSize, a.Page) /\ a.PageSize \in Text /\ a.Page \in Text
        /\ b = ListRecordReqOf(b.PageSize, b.Page) /\ b.PageSize \in Text /\ b.Page \in Text
    BY <1>8 DEF Message, ListRecordReqOf
  <2>2. MarshalToSizedBuffer("ListRecordReq", ListRecordReqOf(a.PageSize, a.Page))
          = MarshalToSizedBuffer("ListRecordReq", ListRecordReqOf(b.PageSize, b.Page))
    BY <1>8, <2>1
  <2>3. a.PageSize = b.PageSize /\ a.Page = b.Page
    BY <2>1, <2>2, ListRecordReqSame
  <2> QED BY <2>1, <2>3
<1>9. CASE t = "ListRecordRes"
  <2>1. /\ a = ListOf(a.Records) /\ a.Records \in Seq(Record)
        /\ b = ListOf(b.Records) /\ b.Records \in Seq(Record)
    BY <1>9 DEF Message, ListOf
  <2>2. ListBytes(a.Records) = ListBytes(b.Records)
    BY <1>9, <2>1 DEF ListBytes
  <2>3. a.Records = b.Records
    BY <2>1, <2>2, ListSame
  <2> QED BY <2>1, <2>3
<1> QED BY <1>1, <1>2, <1>3, <1>4, <1>5, <1>6, <1>7, <1>8, <1>9, TypesAre

-----------------------------------------------------------------------------
(* Equal says "equal" of what is the same, and of nothing else *)

LEMMA VerdictEqual ==
  ASSUME NEW n \in Nat, NEW f, DOMAIN f = 1..n
  PROVE  Verdict(f) = "equal" <=> \A i \in 1..n : f[i] = "equal"
<1>1. ASSUME ~ \A i \in 1..n : f[i] = "equal" PROVE Verdict(f) # "equal"
  <2> DEFINE First(i) == f[i] # "equal" /\ \A j \in 1..i - 1 : f[j] = "equal"
             S == {i \in Nat : i \in 1..n => f[i] = "equal"}
  <2>1. \E i \in 1..n : First(i)
    <3> SUFFICES ASSUME ~ \E i \in 1..n : First(i) PROVE FALSE
      OBVIOUS
    <3>1. ASSUME NEW i \in Nat, \A j \in Nat : j < i => j \in S PROVE i \in S
      <4> SUFFICES ASSUME i \in 1..n PROVE f[i] = "equal"
        OBVIOUS
      <4>1. \A j \in 1..i - 1 : f[j] = "equal"
        BY <3>1
      <4> QED BY <4>1
    <3>2. Nat \subseteq S
      <4> HIDE DEF S
      <4> QED BY <3>1, StrongInduction
    <3> QED BY <1>1, <3>2
  <2> DEFINE c == CHOOSE i \in DOMAIN f : First(i)
  <2>2. First(c)
    BY <2>1
  <2>3. Verdict(f) = f[c]
    BY <1>1 DEF Verdict
  <2> QED BY <2>2, <2>3
<1>2. ASSUME \A i \in 1..n : f[i] = "equal" PROVE Verdict(f) = "equal"
  BY <1>2 DEF Verdict
<1> QED BY <1>1, <1>2

LEMMA SameIs == \A x, y : Same(x, y) = "equal" <=> x = y
BY DEF Same

LEMMA SameTimeIs == \A x, y : SameTime(x, y) = "equal" <=> x = y
BY DEF SameTime, Same

LEMMA VerdictOfTwo ==
  ASSUME NEW x, NEW y
  PROVE  Verdict(<<x, y>>) = "equal" <=> x = "equal" /\ y = "equal"
<1> DEFINE f == <<x, y>>
<1>1. DOMAIN f = 1..2 /\ f[1] = x /\ f[2] = y
  OBVIOUS
<1> HIDE DEF f
<1>2. Verdict(f) = "equal" <=> \A i \in 1..2 : f[i] = "equal"
  BY <1>1, VerdictEqual
<1> QED BY <1>1, <1>2 DEF f

LEMMA VerdictOfThree ==
  ASSUME NEW x, NEW y, NEW z
  PROVE  Verdict(<<x, y, z>>) = "equal" <=> x = "equal" /\ y = "equal" /\ z = "equal"
<1> DEFINE f == <<x, y, z>>
<1>1. DOMAIN f = 1..3 /\ f[1] = x /\ f[2] = y /\ f[3] = z
  OBVIOUS
<1> HIDE DEF f
<1>2. Verdict(f) = "equal" <=> \A i \in 1..3 : f[i] = "equal"
  BY <1>1, VerdictEqual
<1>3. \A i \in 1..3 : i = 1 \/ i = 2 \/ i = 3
  OBVIOUS
<1> QED BY <1>1, <1>2, <1>3 DEF f

LEMMA EqualRecordIs ==
  ASSUME NEW a \in Record, NEW b \in Record
  PROVE  EqualRecord(a, b) = "equal" <=> a = b
<1> DEFINE f == <<Same(a.ID, b.ID), Same(a.TheNum, b.TheNum), Same(a.TheStr, b.TheStr),
                  SameTime(a.CreatedAt, b.CreatedAt), SameTime(a.UpdatedAt, b.UpdatedAt)>>
<1>1. /\ DOMAIN f = 1..5 /\ f[1] = Same(a.ID, b.ID) /\ f[2] = Same(a.TheNum, b.TheNum)
      /\ f[3] = Same(a.TheStr, b.TheStr) /\ f[4] = SameTime(a.CreatedAt, b.CreatedAt)
      /\ f[5] = SameTime(a.UpdatedAt, b.UpdatedAt)
  OBVIOUS
<1>2. EqualRecord(a, b) = Verdict(f)
  BY DEF EqualRecord
<1> HIDE DEF f
<1>3. Verdict(f) = "equal" <=> \A i \in 1..5 : f[i] = "equal"
  BY <1>1, VerdictEqual
<1>4. /\ f[1] = "equal" <=> a.ID = b.ID
      /\ f[2] = "equal" <=> a.TheNum = b.TheNum
      /\ f[3] = "equal" <=> a.TheStr = b.TheStr
      /\ f[4] = "equal" <=> a.CreatedAt = b.CreatedAt
      /\ f[5] = "equal" <=> a.UpdatedAt = b.UpdatedAt
  BY <1>1, SameIs, SameTimeIs
<1>5. a = b <=> /\ a.ID = b.ID /\ a.TheNum = b.TheNum /\ a.TheStr = b.TheStr
                /\ a.CreatedAt = b.CreatedAt /\ a.UpdatedAt = b.UpdatedAt
  BY RecordIs
<1>6. (\A i \in 1..5 : f[i] = "equal") <=> /\ f[1] = "equal" /\ f[2] = "equal" /\ f[3] = "equal"
                                           /\ f[4] = "equal" /\ f[5] = "equal"
  <2>1. \A i \in 1..5 : i = 1 \/ i = 2 \/ i = 3 \/ i = 4 \/ i = 5
    OBVIOUS
  <2> QED BY <2>1
<1> QED BY <1>2, <1>3, <1>4, <1>5, <1>6

LEMMA SameRecordIs ==
  ASSUME NEW p \in Pointer(Record), NEW q \in Pointer(Record)
  PROVE  SameRecord(p, q) = "equal" <=> p = q
<1>1. CASE p = <<>> \/ q = <<>>
  BY <1>1, SameIs DEF SameRecord
<1>2. CASE p # <<>> /\ q # <<>>
  <2> DEFINE a == p[1]
             b == q[1]
  <2>1. a \in Record /\ p = <<a>>
    BY <1>2, PointerCases
  <2>2. b \in Record /\ q = <<b>>
    BY <1>2, PointerCases
  <2>3. SameRecord(p, q) = EqualRecord(a, b)
    BY <1>2 DEF SameRecord
  <2> HIDE DEF a, b
  <2>4. EqualRecord(a, b) = "equal" <=> a = b
    BY <2>1, <2>2, EqualRecordIs
  <2>5. p = q <=> a = b
    BY <2>1, <2>2 DEF a, b
  <2> QED BY <2>3, <2>4, <2>5
<1> QED BY <1>1, <1>2

LEMMA EqualListIs ==
  ASSUME NEW a \in Seq(Record), NEW b \in Seq(Record)
  PROVE  EqualListRecordRes(ListOf(a), ListOf(b)) = "equal" <=> a = b
<1> DEFINE n == Len(a)
           f == [i \in DOMAIN a |-> EqualRecord(a[i], b[i])]
<1>1. n \in Nat /\ DOMAIN a = 1..n
  BY LenProperties
<1>2. CASE Len(a) # Len(b)
  <2>1. EqualListRecordRes(ListOf(a), ListOf(b)) = "differ"
    BY <1>2 DEF EqualListRecordRes, ListOf
  <2> QED BY <1>2, <2>1
<1>3. CASE Len(a) = Len(b)
  <2>1. EqualListRecordRes(ListOf(a), ListOf(b)) = Verdict(f)
    BY <1>3 DEF EqualListRecordRes, ListOf
  <2>2. DOMAIN f = 1..n /\ \A i \in 1..n : f[i] = EqualRecord(a[i], b[i])
    BY <1>1
  <2>3. \A i \in 1..n : a[i] \in Record /\ b[i] \in Record
    BY <1>1, <1>3, ElementOfSeq
  <2> HIDE DEF f
  <2>4. Verdict(f) = "equal" <=> \A i \in 1..n : f[i] = "equal"
    <3> HIDE DEF n
    <3> QED BY <1>1, <2>2, VerdictEqual
  <2>5. \A i \in 1..n : f[i] = "equal" <=> a[i] = b[i]
    BY <2>2, <2>3, EqualRecordIs
  <2>6. a = b <=> \A i \in 1..n : a[i] = b[i]
    BY <1>3, SeqEqual
  <2> QED BY <2>1, <2>4, <2>5, <2>6
<1> QED BY <1>2, <1>3

LEMMA EqualIs ==
  ASSUME NEW t \in Messages, NEW a \in Message[t], NEW b \in Message[t]
  PROVE  Equal(t, a, b) = "equal" <=> a = b
<1>1. CASE t = "Record"
  <2>1. a \in Record /\ b \in Record
    BY <1>1 DEF Message
  <2>2. Equal(t, a, b) = EqualRecord(a, b)
    BY <1>1 DEF Equal
  <2> QED BY <2>1, <2>2, EqualRecordIs
<1>2. CASE t = "HealthReq" \/ t = "ConfigReq"
  <2>1. a = <<>> /\ b = <<>>
    BY <1>2 DEF Message
  <2>2. Equal(t, a, b) = "equal"
    BY <1>2 DEF Equal, EqualHealthReq, EqualConfigReq
  <2> QED BY <2>1, <2>2
<1>3. CASE t = "HealthRes"
  <2>1. a = [Ok |-> a.Ok] /\ b = [Ok |-> b.Ok]
    BY <1>3 DEF Message
  <2>2. Equal(t, a, b) = Same(a.Ok, b.Ok)
    BY <1>3 DEF Equal, EqualHealthRes
  <2> QED BY <2>1, <2>2, SameIs
<1>4. CASE t = "ConfigRes"
  <2>1. a = ConfigResOf(a.Enable, a.Num, a.Str) /\ b = ConfigResOf(b.Enable, b.Num, b.Str)
    BY <1>4 DEF Message, ConfigResOf
  <2>2. Equal(t, a, b) = Verdict(<<Same(a.Enable, b.Enable), Same(a.Num, b.Num), Same(a.Str, b.Str)>>)
    BY <1>4 DEF Equal, EqualConfigRes
  <2>3. Equal(t, a, b) = "equal" <=> a.Enable = b.Enable /\ a.Num = b.Num /\ a.Str = b.Str
    BY <2>2, VerdictOfThree, SameIs
  <2> QED BY <2>1, <2>3
<1>5. CASE t = "CreateRecordReq"
  <2>1. /\ a = CreateRecordReqOf(a.TheNum, a.TheStr, a.CreatedAt)
        /\ b = CreateRecordReqOf(b.TheNum, b.TheStr, b.CreatedAt)
    BY <1>5 DEF Message, CreateRecordReqOf
  <2>2. Equal(t, a, b) = Verdict(<<Same(a.TheNum, b.TheNum), Same(a.TheStr, b.TheStr),
                                   SameTime(a.CreatedAt, b.CreatedAt)>>)
    BY <1>5 DEF Equal, EqualCreateRecordReq
  <2>3. Equal(t, a, b) = "equal" <=> a.TheNum = b.TheNum /\ a.TheStr = b.TheStr /\ a.CreatedAt = b.CreatedAt
    BY <2>2, VerdictOfThree, SameIs, SameTimeIs
  <2> QED BY <2>1, <2>3
<1>6. CASE t = "CreateRecordRes" \/ t = "GetRecordRes"
  <2>0. a \in [Record : Pointer(Record)] /\ b \in [Record : Pointer(Record)]
    <3>1. CASE t = "CreateRecordRes"
      BY <3>1 DEF Message
    <3>2. CASE t = "GetRecordRes"
      BY <3>2 DEF Message
    <3> QED BY <1>6, <3>1, <3>2
  <2>1. /\ a = [Record |-> a.Record] /\ a.Record \in Pointer(Record)
        /\ b = [Record |-> b.Record] /\ b.Record \in Pointer(Record)
    BY <2>0
  <2>2. Equal(t, a, b) = SameRecord(a.Record, b.Record)
    BY <1>6 DEF Equal, EqualCreateRecordRes, EqualGetRecordRes
  <2>3. Equal(t, a, b) = "equal" <=> a.Record = b.Record
    BY <2>1, <2>2, SameRecordIs
  <2> QED BY <2>1, <2>3
<1>7. CASE t = "GetRecordReq"
  <2>1. a = [ID |-> a.ID] /\ b = [ID |-> b.ID]
    BY <1>7 DEF Message
  <2>2. Equal(t, a, b) = Same(a.ID, b.ID)
    BY <1>7 DEF Equal, EqualGetRecordReq
  <2> QED BY <2>1, <2>2, SameIs
<1>8. CASE t = "ListRecordReq"
  <2>1. a = ListRecordReqOf(a.PageSize, a.Page) /\ b = ListRecordReqOf(b.PageSize, b.Page)
    BY <1>8 DEF Message, ListRecordReqOf
  <2>2. Equal(t, a, b) = Verdict(<<Same(a.PageSize, b.PageSize), Same(a.Page, b.Page)>>)
    BY <1>8 DEF Equal, EqualListRecordReq
  <2>3. Equal(t, a, b) = "equal" <=> a.PageSize = b.PageSize /\ a.Page = b.Page
    BY <2>2, VerdictOfTwo, SameIs
  <2> QED BY <2>1, <2>3
<1>9. CASE t = "ListRecordRes"
  <2>1. /\ a = ListOf(a.Records) /\ a.Records \in Seq(Record)
        /\ b = ListOf(b.Records) /\ b.Records \in Seq(Record)
    BY <1>9 DEF Message, ListOf
  <2>2. Equal(t, a, b) = EqualListRecordRes(ListOf(a.Records), ListOf(b.Records))
    BY <1>9, <2>1 DEF Equal
  <2>3. Equal(t, a, b) = "equal" <=> a.Records = b.Records
    BY <2>1, <2>2, EqualListIs
  <2> QED BY <2>1, <2>3
<1> QED BY <1>1, <1>2, <1>3, <1>4, <1>5, <1>6, <1>7, <1>8, <1>9, TypesAre

\* Unless Equal panics, it says "equal" of two messages exactly when Marshal
\* writes them with the same bytes: for every two messages of a type.
THEOREM EqualIsSame ==
  ASSUME NEW t \in Messages, NEW a \in Message[t], NEW b \in Message[t]
  PROVE  (Equal(t, a, b) = "equal") = (Marshal(t, a) = Marshal(t, b))
<1>1. Equal(t, a, b) = "equal" <=> a = b
  BY EqualIs
<1>2. Marshal(t, a) = MarshalToSizedBuffer(t, a) /\ Marshal(t, b) = MarshalToSizedBuffer(t, b)
  BY MarshalIs
<1>3. Marshal(t, a) = Marshal(t, b) <=> a = b
  BY <1>2, MarshalSame
<1> QED BY <1>1, <1>3

\* Equal compares what was read with what was written as Marshal would: it says
\* "equal" exactly when both are written with the same bytes, or it panics.
THEOREM EqualIsSameBytesAlways == Spec => []EqualIsSameBytes
<1>1. Inv /\ Through => EqualIsSameBytes
  <2> SUFFICES ASSUME Inv, Through, outcome = "ok", NEW i \in DOMAIN input.of
               PROVE  \/ Equal(input.type, result, input.of[i]) = "panic"
                      \/ (Equal(input.type, result, input.of[i]) = "equal")
                           = (Marshal(input.type, result) = Marshal(input.type, input.of[i]))
    BY DEF EqualIsSameBytes
  <2> DEFINE of == input.of
             t == input.type
             M == Message[t]
  <2>1. input \in Inputs /\ t \in Messages /\ of \in Seq(M)
    BY InputsAssumption DEF Through
  <2>2. of[i] \in M /\ of # <<>>
    <3> HIDE DEF of, M
    <3>1. i \in DOMAIN of
      BY DEF of
    <3> QED BY <2>1, <3>1, ElementOfSeq
  <2>3. result \in M
    BY <2>2 DEF Through, Alive, AsMeant
  <2>4. (Equal(t, result, of[i]) = "equal") = (Marshal(t, result) = Marshal(t, of[i]))
    <3> DEFINE r == result
               x == of[i]
    <3>1. r \in Message[t] /\ x \in Message[t]
      BY <2>2, <2>3
    <3> HIDE DEF r, x, t
    <3> QED BY <2>1, <3>1, EqualIsSame DEF r, x
  <2> QED BY <2>4
<1> QED BY <1>1, ThroughAlways, PTL
=============================================================================
