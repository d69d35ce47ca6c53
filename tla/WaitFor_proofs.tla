----------------------------- MODULE WaitFor_proofs -----------------------------
(***************************************************************************)
(* Proofs about script/wait-for for every call, environment and target:    *)
(* the command it hands over to is the one of the call, and it gives up    *)
(* neither early nor late.  The first is about "$@" from the head of the   *)
(* script to exec: it is always what is left of the call, "--" and the     *)
(* saved values, with at most one word in front that was unbundled.        *)
(***************************************************************************)
EXTENDS WaitFor, SequenceTheorems, TLAPS

-----------------------------------------------------------------------------
(* What is left of a sequence of words *)

Drop(s, n) == SubSeq(s, n + 1, Len(s))

LEMMA DropProperties ==
  ASSUME NEW S, NEW s \in Seq(S), NEW n \in 0..Len(s)
  PROVE  /\ Drop(s, n) \in Seq(S) /\ Len(Drop(s, n)) = Len(s) - n
         /\ \A i \in 1..Len(s) - n : Drop(s, n)[i] = s[n + i]
<1>1. Len(s) \in Nat /\ n + 1 \in Int /\ \A i \in n + 1..Len(s) : s[i] \in S
  BY ElementOfSeq
<1>2. /\ SubSeq(s, n + 1, Len(s)) \in Seq(S)
      /\ Len(SubSeq(s, n + 1, Len(s))) =
           IF n + 1 <= Len(s) THEN Len(s) - (n + 1) + 1 ELSE 0
      /\ \A i \in 1..Len(s) - (n + 1) + 1 : SubSeq(s, n + 1, Len(s))[i] = s[n + 1 + i - 1]
  BY <1>1, SubSeqProperties
<1> QED BY <1>1, <1>2 DEF Drop

\* Two shifts are one.
LEMMA DropDrop ==
  ASSUME NEW S, NEW s \in Seq(S), NEW m \in 0..Len(s), NEW n \in 0..Len(s) - m
  PROVE  Drop(Drop(s, m), n) = Drop(s, m + n)
<1> DEFINE r == Drop(s, m)
<1>1. Len(s) \in Nat /\ m + n \in 0..Len(s)
  OBVIOUS
<1>2. /\ r \in Seq(S) /\ Len(r) = Len(s) - m
      /\ \A i \in 1..Len(s) - m : r[i] = s[m + i]
  BY DropProperties
<1> HIDE DEF r
<1>3. /\ Drop(r, n) \in Seq(S) /\ Len(Drop(r, n)) = Len(r) - n
      /\ \A i \in 1..Len(r) - n : Drop(r, n)[i] = r[n + i]
  <2>1. n \in 0..Len(r)
    BY <1>2
  <2> QED BY <2>1, <1>2, DropProperties
<1>4. /\ Drop(s, m + n) \in Seq(S) /\ Len(Drop(s, m + n)) = Len(s) - (m + n)
      /\ \A i \in 1..Len(s) - (m + n) : Drop(s, m + n)[i] = s[m + n + i]
  BY <1>1, DropProperties
<1>5. ASSUME NEW i \in 1..Len(s) - (m + n)
      PROVE  Drop(r, n)[i] = s[m + n + i]
  <2>1. n + i \in 1..Len(s) - m /\ i \in 1..Len(r) - n
    BY <1>1, <1>2
  <2>2. Drop(r, n)[i] = r[n + i] /\ r[n + i] = s[m + (n + i)]
    BY <2>1, <1>2, <1>3
  <2> QED BY <2>2, <1>1
<1>6. Len(Drop(r, n)) = Len(Drop(s, m + n))
  <2>1. Len(s) \in Int /\ m \in Int /\ n \in Int
    BY <1>1
  <2>2. Len(Drop(r, n)) = (Len(s) - m) - n /\ Len(Drop(s, m + n)) = Len(s) - (m + n)
    BY <1>2, <1>3, <1>4
  <2> QED BY <2>1, <2>2
<1>7. \A i \in 1..Len(Drop(r, n)) : Drop(r, n)[i] = Drop(s, m + n)[i]
  BY <1>4, <1>5, <1>6
<1>8. Drop(r, n) = Drop(s, m + n)
  BY <1>3, <1>4, <1>6, <1>7, SeqEqual
<1> QED BY <1>8 DEF r

LEMMA OneWord ==
  ASSUME NEW S, NEW e \in S
  PROVE  <<e>> \in Seq(S) /\ Len(<<e>>) = 1 /\ <<e>>[1] = e
<1>1. <<e>> \in Seq(S)
  OBVIOUS
<1>2. Len(<<e>>) = 1 /\ <<e>>[1] = e
  OBVIOUS
<1> QED BY <1>1, <1>2

\* What is left of two sequences, from the second on.
LEMMA DropConcat ==
  ASSUME NEW S, NEW s \in Seq(S), NEW t \in Seq(S), NEW n \in 0..Len(t)
  PROVE  Drop(s \o t, Len(s) + n) = Drop(t, n)
<1> DEFINE c == s \o t
           m == Len(s) + n
<1>1. /\ c \in Seq(S) /\ Len(c) = Len(s) + Len(t)
      /\ \A i \in 1..Len(s) + Len(t) : c[i] = IF i <= Len(s) THEN s[i] ELSE t[i - Len(s)]
  BY ConcatProperties
<1>2. Len(s) \in Nat /\ Len(t) \in Nat /\ m \in 0..Len(c)
  BY <1>1
<1> HIDE DEF c
<1>3. /\ Drop(c, m) \in Seq(S) /\ Len(Drop(c, m)) = Len(c) - m
      /\ \A i \in 1..Len(c) - m : Drop(c, m)[i] = c[m + i]
  BY <1>1, <1>2, DropProperties
<1>4. /\ Drop(t, n) \in Seq(S) /\ Len(Drop(t, n)) = Len(t) - n
      /\ \A i \in 1..Len(t) - n : Drop(t, n)[i] = t[n + i]
  BY DropProperties
<1>5. Len(Drop(c, m)) = Len(Drop(t, n))
  BY <1>1, <1>2, <1>3, <1>4
<1>6. ASSUME NEW i \in 1..Len(Drop(c, m))
      PROVE  Drop(c, m)[i] = Drop(t, n)[i]
  <2>1. i \in 1..Len(c) - m /\ i \in 1..Len(t) - n /\ m + i \in 1..Len(s) + Len(t)
    BY <1>1, <1>2, <1>3
  <2>2. Drop(c, m)[i] = c[m + i] /\ c[m + i] = t[m + i - Len(s)] /\ Drop(t, n)[i] = t[n + i]
    BY <2>1, <1>1, <1>2, <1>3, <1>4
  <2>3. m + i - Len(s) = n + i
    BY <1>2, <2>1
  <2> QED BY <2>2, <2>3
<1>7. Drop(c, m) = Drop(t, n)
  BY <1>3, <1>4, <1>5, <1>6, SeqEqual
<1> QED BY <1>7 DEF c

\* A word in front of the rest is shifted away like one of its own.
LEMMA DropInFront ==
  ASSUME NEW S, NEW w \in S, NEW s \in Seq(S), NEW n \in 1..Len(s) + 1
  PROVE  (<<w>> \o s)[1] = w /\ Drop(<<w>> \o s, n) = Drop(s, n - 1)
<1>1. <<w>> \in Seq(S) /\ Len(<<w>>) = 1 /\ <<w>>[1] = w /\ Len(s) \in Nat
  BY OneWord
<1>2. (<<w>> \o s)[1] = w
  BY <1>1, ConcatProperties
<1>3. n - 1 \in 0..Len(s) /\ Len(<<w>>) + (n - 1) = n
  BY <1>1
<1>4. Drop(<<w>> \o s, Len(<<w>>) + (n - 1)) = Drop(s, n - 1)
  BY <1>1, <1>3, DropConcat
<1> QED BY <1>2, <1>3, <1>4

\* A rotation by the length of the first of two sequences puts it last.
LEMMA RotateConcat ==
  ASSUME NEW S, NEW s \in Seq(S), NEW t \in Seq(S)
  PROVE  SubSeq(s \o t, Len(s) + 1, Len(s \o t)) \o SubSeq(s \o t, 1, Len(s)) = t \o s
<1>1. SubSeq(s \o t, Len(s) + 1, Len(s \o t)) = t
  BY SubSeqOfConcat2, ConcatProperties
<1>2. SubSeq(s \o t, 1, Len(s)) = s
  BY SubSeqOfConcat1, SubSeqFull
<1> QED BY <1>1, <1>2

\* What is left of two sequences, from the first on.
LEMMA DropFirst ==
  ASSUME NEW S, NEW s \in Seq(S), NEW t \in Seq(S), NEW n \in 0..Len(s)
  PROVE  Drop(s \o t, n) = Drop(s, n) \o t
<1> DEFINE c == s \o t
           d == Drop(s, n)
           e == d \o t
<1>1. /\ c \in Seq(S) /\ Len(c) = Len(s) + Len(t)
      /\ \A i \in 1..Len(s) + Len(t) : c[i] = IF i <= Len(s) THEN s[i] ELSE t[i - Len(s)]
  BY ConcatProperties
<1>2. Len(s) \in Nat /\ Len(t) \in Nat /\ n \in 0..Len(c)
  BY <1>1
<1>3. d \in Seq(S) /\ Len(d) = Len(s) - n /\ \A i \in 1..Len(s) - n : d[i] = s[n + i]
  BY DropProperties
<1> HIDE DEF c, d
<1>4. /\ Drop(c, n) \in Seq(S) /\ Len(Drop(c, n)) = Len(c) - n
      /\ \A i \in 1..Len(c) - n : Drop(c, n)[i] = c[n + i]
  BY <1>1, <1>2, DropProperties
<1>5. /\ e \in Seq(S) /\ Len(e) = Len(d) + Len(t)
      /\ \A i \in 1..Len(d) + Len(t) : e[i] = IF i <= Len(d) THEN d[i] ELSE t[i - Len(d)]
  BY <1>3, ConcatProperties
<1> HIDE DEF e
<1>6. Len(e) = Len(s) + Len(t) - n /\ Len(Drop(c, n)) = Len(s) + Len(t) - n
  <2>1. Len(s) \in Int /\ Len(t) \in Int /\ n \in Int
    BY <1>2
  <2> QED BY <1>1, <1>3, <1>4, <1>5, <2>1
<1>7. ASSUME NEW i \in 1..Len(Drop(c, n))
      PROVE  Drop(c, n)[i] = e[i]
  <2>1. i \in 1..Len(c) - n /\ i \in 1..Len(d) + Len(t) /\ n + i \in 1..Len(s) + Len(t)
    BY <1>1, <1>2, <1>3, <1>4
  <2>2. Drop(c, n)[i] = c[n + i]
    BY <2>1, <1>4
  <2>3. CASE i <= Len(d)
    <3>1. n + i <= Len(s) /\ i \in 1..Len(s) - n
      BY <2>3, <1>2, <1>3
    <3>2. c[n + i] = s[n + i] /\ e[i] = d[i] /\ d[i] = s[n + i]
      BY <2>1, <2>3, <3>1, <1>1, <1>3, <1>5
    <3> QED BY <2>2, <3>2
  <2>4. CASE i > Len(d)
    <3>1. ~(n + i <= Len(s)) /\ ~(i <= Len(d)) /\ n + i - Len(s) = i - Len(d)
      BY <2>4, <1>2, <1>3
    <3>2. c[n + i] = t[n + i - Len(s)] /\ e[i] = t[i - Len(d)]
      BY <2>1, <3>1, <1>1, <1>5
    <3> QED BY <2>2, <3>1, <3>2
  <2> QED BY <2>3, <2>4, <1>2, <1>3
<1>8. Drop(c, n) = e
  BY <1>4, <1>5, <1>6, <1>7, SeqEqual
<1> QED BY <1>8 DEF c, d, e

-----------------------------------------------------------------------------
(* The invariant *)

\* The words the script begins with: those of the call and the saved values.
Saved == <<"--">> \o env
Call  == given \o Saved

\* What is left of them after k.
Rest(k) == Drop(Call, k)

\* Each "--" among the first k arguments is the value of a -t.
Skipped(k) ==
  \A j \in 1..k : given[j] = "--" => j > 1 /\ EndsInT(given[j - 1])

Inputs ==
  /\ given \in Seq(Words) /\ env \in Seq(Words) /\ Len(env) = 6
  /\ env[1] \notin Options

\* While options are read, k arguments are behind: all of the rest is left, or,
\* after one that was unbundled, that and the rest; or a -t took the "--".
Plain == \E k \in 0..Len(given) : args = Rest(k) /\ Skipped(k)

InFront ==
  \E k \in 1..Len(given) :
    /\ args = <<Unbundled[given[k]]>> \o Rest(k)
    /\ given[k] \in DOMAIN Unbundled /\ Skipped(k)

\* The command of the call begins after word i.
CommandAfter(i) == i \in 1..Len(given) - 1 /\ given[i] = "--" /\ Skipped(i - 1)

\* Past the options, what is left is the command or there is none.
PastOptions == Len(args) <= 7 \/ \E i \in 1..Len(given) - 1 : args = Rest(i) /\ CommandAfter(i)

Ran == \E i \in 1..Len(given) - 1 :
         /\ CommandAfter(i)
         /\ ran.env = env /\ ran.words = Drop(given, i)

ArgsInv ==
  /\ Inputs
  /\ pc = "options" => Plain \/ InFront \/ args = env
  /\ pc \in {"check", "probe", "sleep"} => PastOptions
  /\ outcome = "exec" => Ran
  /\ pc # "end" => outcome = "none"

\* "--" and the six saved values.
LEMMA SavedWords ==
  ASSUME Inputs
  PROVE  /\ Saved \in Seq(Words) /\ Len(Saved) = 7 /\ Saved[1] = "--"
         /\ Drop(Saved, 1) = env
<1>1. PICK w \in Words : w = "--"
  BY WordsAssumption
<1>2. env \in Seq(Words) /\ Len(env) = 6
  BY DEF Inputs
<1>3. <<w>> \in Seq(Words) /\ Len(<<w>>) = 1
  BY OneWord
<1>4. Saved = <<w>> \o env
  BY <1>1 DEF Saved
<1>5. Saved \in Seq(Words) /\ Len(Saved) = 7
  <2>1. <<w>> \o env \in Seq(Words) /\ Len(<<w>> \o env) = Len(<<w>>) + Len(env)
    BY <1>2, <1>3, ConcatProperties
  <2> QED BY <2>1, <1>2, <1>3, <1>4
<1>6. 1 \in 1..Len(env) + 1
  BY <1>2
<1>7. Saved[1] = w /\ Drop(Saved, 1) = Drop(env, 1 - 1)
  BY <1>2, <1>4, <1>6, DropInFront
<1>8. Drop(env, 1 - 1) = env
  BY <1>2, SubSeqFull DEF Drop
<1> QED BY <1>1, <1>5, <1>7, <1>8

\* Words of different kinds are different, and all are options.
LEMMA KindsDiffer ==
  /\ "--" \notin Urls \cup DOMAIN HostOf \cup Silence \cup DOMAIN Unbundled
                \cup TakeNext \cup DOMAIN TimeoutOf
  /\ Urls \cup DOMAIN HostOf \cup Silence \cup DOMAIN Unbundled
       \cup TakeNext \cup DOMAIN TimeoutOf \cup {"--"} \subseteq Options
<1>1. /\ DOMAIN Kinds = 1..7
      /\ Kinds[1] = Urls /\ Kinds[2] = DOMAIN HostOf /\ Kinds[3] = Silence
      /\ Kinds[4] = DOMAIN Unbundled /\ Kinds[5] = TakeNext /\ Kinds[6] = DOMAIN TimeoutOf
      /\ Kinds[7] = {"--"}
  BY DEF Kinds
<1>2. \A i \in 1..6 : Kinds[i] \cap Kinds[7] = {}
  BY <1>1, WordsAssumption
<1>3. "--" \notin Kinds[1] /\ "--" \notin Kinds[2] /\ "--" \notin Kinds[3]
      /\ "--" \notin Kinds[4] /\ "--" \notin Kinds[5] /\ "--" \notin Kinds[6]
  BY <1>1, <1>2
<1>4. \A i \in 1..7 : Kinds[i] \subseteq Options
  BY <1>1 DEF Options
<1>5. /\ Kinds[1] \subseteq Options /\ Kinds[2] \subseteq Options /\ Kinds[3] \subseteq Options
      /\ Kinds[4] \subseteq Options /\ Kinds[5] \subseteq Options /\ Kinds[6] \subseteq Options
      /\ Kinds[7] \subseteq Options
  BY <1>4
<1> QED BY <1>1, <1>3, <1>5

\* A word that is unbundled is of no other kind.
LEMMA UnbundledIsOther ==
  DOMAIN Unbundled \cap (Silence \cup Urls \cup DOMAIN HostOf \cup DOMAIN TimeoutOf) = {}
<1>1. /\ DOMAIN Kinds = 1..7
      /\ Kinds[1] = Urls /\ Kinds[2] = DOMAIN HostOf /\ Kinds[3] = Silence
      /\ Kinds[4] = DOMAIN Unbundled /\ Kinds[6] = DOMAIN TimeoutOf
  BY DEF Kinds
<1>2. \A i \in {1, 2, 3, 6} : Kinds[i] \cap Kinds[4] = {}
  BY <1>1, WordsAssumption
<1> QED BY <1>1, <1>2

LEMMA CallWords ==
  ASSUME Inputs
  PROVE  /\ Call \in Seq(Words) /\ Len(Call) = Len(given) + 7
         /\ \A i \in 1..Len(given) + 7 :
              Call[i] = IF i <= Len(given) THEN given[i] ELSE Saved[i - Len(given)]
<1>1. given \in Seq(Words) /\ Saved \in Seq(Words) /\ Len(Saved) = 7
  BY SavedWords DEF Inputs
<1>2. /\ given \o Saved \in Seq(Words) /\ Len(given \o Saved) = Len(given) + Len(Saved)
      /\ \A i \in 1..Len(given) + Len(Saved) :
           (given \o Saved)[i] = IF i <= Len(given) THEN given[i] ELSE Saved[i - Len(given)]
  BY <1>1, ConcatProperties
<1> QED BY <1>1, <1>2 DEF Call

\* What is left of the call: its first word, and what is left after a shift.
LEMMA RestOfCall ==
  ASSUME Inputs, NEW k \in 0..Len(given) + 1
  PROVE  /\ Rest(k) \in Seq(Words) /\ Len(Rest(k)) = Len(given) + 7 - k
         /\ k < Len(given) => Rest(k)[1] = given[k + 1]
         /\ k = Len(given) => Rest(k)[1] = "--"
         /\ k = Len(given) + 1 => Rest(k) = env
<1>1. /\ given \in Seq(Words) /\ Len(given) \in Nat
      /\ Saved \in Seq(Words) /\ Len(Saved) = 7 /\ Saved[1] = "--" /\ Drop(Saved, 1) = env
  BY SavedWords DEF Inputs
<1>2. /\ Call \in Seq(Words) /\ Len(Call) = Len(given) + 7
      /\ \A i \in 1..Len(given) + 7 :
           Call[i] = IF i <= Len(given) THEN given[i] ELSE Saved[i - Len(given)]
  BY CallWords
<1>3. k \in 0..Len(Call)
  BY <1>1, <1>2
<1>4. /\ Rest(k) \in Seq(Words) /\ Len(Rest(k)) = Len(Call) - k
      /\ \A i \in 1..Len(Call) - k : Rest(k)[i] = Call[k + i]
  BY <1>2, <1>3, DropProperties DEF Rest
<1>5. Rest(k)[1] = Call[k + 1] /\ Len(Rest(k)) = Len(given) + 7 - k
  <2>1. 1 \in 1..Len(Call) - k /\ Len(Call) \in Int
    BY <1>1, <1>2
  <2> QED BY <2>1, <1>2, <1>4
<1>6. ASSUME k < Len(given) PROVE Rest(k)[1] = given[k + 1]
  BY <1>1, <1>2, <1>5, <1>6
<1>7. ASSUME k = Len(given) PROVE Rest(k)[1] = "--"
  BY <1>1, <1>2, <1>5, <1>7
<1>8. ASSUME k = Len(given) + 1 PROVE Rest(k) = env
  <2>1. 1 \in 0..Len(Saved)
    BY <1>1
  <2>2. Drop(given \o Saved, Len(given) + 1) = Drop(Saved, 1)
    BY <1>1, <2>1, DropConcat
  <2> QED BY <1>1, <1>8, <2>2 DEF Rest, Call
<1> QED BY <1>4, <1>5, <1>6, <1>7, <1>8

LEMMA ShiftOfCall ==
  ASSUME Inputs, NEW k \in 0..Len(given) + 1, NEW n \in 0..2, k + n <= Len(given) + 1
  PROVE  Drop(Rest(k), n) = Rest(k + n)
<1>1. Len(given) \in Nat
  BY DEF Inputs
<1>2. Call \in Seq(Words) /\ Len(Call) = Len(given) + 7
  BY CallWords
<1>3. k \in 0..Len(Call) /\ n \in 0..Len(Call) - k
  BY <1>1, <1>2
<1> QED BY <1>2, <1>3, DropDrop DEF Rest

\* One more argument is behind; if it is "--", it is the value of a -t.
LEMMA SkippedNext ==
  ASSUME Inputs, NEW k \in 0..Len(given) - 1, Skipped(k),
         given[k + 1] # "--" \/ (k > 0 /\ EndsInT(given[k]))
  PROVE  Skipped(k + 1)
<1> SUFFICES ASSUME NEW j \in 1..k + 1, given[j] = "--"
             PROVE  j > 1 /\ EndsInT(given[j - 1])
  BY DEF Skipped
<1>1. Len(given) \in Nat
  BY DEF Inputs
<1>2. CASE j \in 1..k
  BY <1>2 DEF Skipped
<1>3. CASE j = k + 1
  BY <1>1, <1>3
<1> QED BY <1>1, <1>2, <1>3

-----------------------------------------------------------------------------
(* The option loop *)

\* What a round of the loop finds in front, by what is left.
LEMMA FirstWord ==
  ASSUME Inputs
  PROVE  /\ \A k \in 0..Len(given) :
              args = Rest(k) => args[1] = IF k < Len(given) THEN given[k + 1] ELSE "--"
         /\ \A k \in 1..Len(given) :
              /\ args = <<Unbundled[given[k]]>> \o Rest(k)
              /\ given[k] \in DOMAIN Unbundled
              => args[1] = Unbundled[given[k]]
<1>1. Len(given) \in Nat
  BY DEF Inputs
<1>2. ASSUME NEW k \in 0..Len(given), args = Rest(k)
      PROVE  args[1] = IF k < Len(given) THEN given[k + 1] ELSE "--"
  <2>1. k \in 0..Len(given) + 1
    BY <1>1
  <2>2. k < Len(given) \/ k = Len(given)
    BY <1>1
  <2>3. CASE k < Len(given)
    BY <1>2, <2>1, <2>3, RestOfCall
  <2>4. CASE k = Len(given)
    <3>1. args[1] = "--"
      BY <1>2, <2>1, <2>4, RestOfCall
    <3>2. ~(k < Len(given))
      BY <1>1, <2>4
    <3> QED BY <3>1, <3>2
  <2> QED BY <2>2, <2>3, <2>4
<1>3. ASSUME NEW k \in 1..Len(given), args = <<Unbundled[given[k]]>> \o Rest(k),
             given[k] \in DOMAIN Unbundled
      PROVE  args[1] = Unbundled[given[k]]
  <2>1. Unbundled[given[k]] \in Words
    BY <1>3, UnbundledAssumption
  <2>2. k \in 0..Len(given) + 1
    BY <1>1
  <2>3. Rest(k) \in Seq(Words) /\ Len(Rest(k)) \in Nat
    BY <2>2, RestOfCall
  <2>4. 1 \in 1..Len(Rest(k)) + 1
    BY <2>3
  <2> QED BY <1>3, <2>1, <2>3, <2>4, DropInFront
<1> QED BY <1>2, <1>3

\* One argument less, which is no "--".
LEMMA OneShifted ==
  ASSUME Inputs, Plain \/ InFront \/ args = env, args[1] \in Options \ ({"--"} \cup DOMAIN Unbundled)
  PROVE  \E k \in 0..Len(given) : Drop(args, 1) = Rest(k) /\ Skipped(k)
<1>1. Len(given) \in Nat
  BY DEF Inputs
<1>2. CASE Plain
  <2>1. PICK k \in 0..Len(given) : args = Rest(k) /\ Skipped(k)
    BY <1>2 DEF Plain
  <2>2. args[1] = IF k < Len(given) THEN given[k + 1] ELSE "--"
    BY <2>1, FirstWord
  <2>3. k < Len(given) /\ given[k + 1] # "--"
    BY <2>2
  <2>4. k \in 0..Len(given) - 1 /\ k + 1 \in 0..Len(given) /\ k \in 0..Len(given) + 1
    BY <1>1, <2>3
  <2>5. Skipped(k + 1)
    BY <2>1, <2>3, <2>4, SkippedNext
  <2>6. 1 \in 0..2 /\ k + 1 <= Len(given) + 1
    BY <1>1, <2>4
  <2>7. Drop(args, 1) = Rest(k + 1)
    BY <2>1, <2>4, <2>6, ShiftOfCall
  <2> QED BY <2>4, <2>5, <2>7
<1>3. CASE InFront
  <2>1. PICK k \in 1..Len(given) : /\ args = <<Unbundled[given[k]]>> \o Rest(k)
                                   /\ given[k] \in DOMAIN Unbundled /\ Skipped(k)
    BY <1>3 DEF InFront
  <2>2. Unbundled[given[k]] \in Words
    BY <2>1, UnbundledAssumption
  <2>3. k \in 0..Len(given) /\ k \in 0..Len(given) + 1
    BY <1>1
  <2>4. Rest(k) \in Seq(Words) /\ Len(Rest(k)) \in Nat
    BY <2>3, RestOfCall
  <2>5. 1 \in 1..Len(Rest(k)) + 1
    BY <2>4
  <2>6. Drop(args, 1) = Drop(Rest(k), 1 - 1)
    BY <2>1, <2>2, <2>4, <2>5, DropInFront
  <2>7. Drop(Rest(k), 1 - 1) = Rest(k)
    BY <2>4, SubSeqFull DEF Drop
  <2> QED BY <2>1, <2>3, <2>6, <2>7
<1>4. CASE args = env
  BY <1>4 DEF Inputs
<1> QED BY <1>2, <1>3, <1>4

\* A -t and its value less: the value may be the "--", of the call or before the
\* saved values.
LEMMA TwoShifted ==
  ASSUME Inputs, Plain \/ InFront \/ args = env, args[1] \in TakeNext
  PROVE  \/ \E k \in 0..Len(given) : Drop(args, 2) = Rest(k) /\ Skipped(k)
         \/ Drop(args, 2) = env
<1>1. Len(given) \in Nat /\ 2 \in 0..2
  BY DEF Inputs
<1>2. CASE Plain
  <2>1. PICK k \in 0..Len(given) : args = Rest(k) /\ Skipped(k)
    BY <1>2 DEF Plain
  <2>2. args[1] = IF k < Len(given) THEN given[k + 1] ELSE "--"
    BY <2>1, FirstWord
  <2>3. k < Len(given) /\ given[k + 1] \in TakeNext /\ given[k + 1] # "--"
    BY <2>2, KindsDiffer
  <2>4. k \in 0..Len(given) - 1 /\ k + 2 <= Len(given) + 1 /\ k \in 0..Len(given) + 1
    BY <1>1, <2>3
  <2>5. Skipped(k + 1) /\ EndsInT(given[k + 1])
    BY <2>1, <2>3, <2>4, SkippedNext DEF EndsInT
  <2>6. Drop(args, 2) = Rest(k + 2)
    BY <1>1, <2>1, <2>4, ShiftOfCall
  <2>7. CASE k + 1 < Len(given)
    <3>1. k + 1 \in 0..Len(given) - 1 /\ k + 1 > 0 /\ k + 2 \in 0..Len(given)
      BY <1>1, <2>7
    <3>2. Skipped((k + 1) + 1)
      BY <2>5, <3>1, SkippedNext
    <3>3. Skipped(k + 2)
      <4>1. (k + 1) + 1 = k + 2
        OBVIOUS
      <4> QED BY <3>2, <4>1
    <3> QED BY <2>6, <3>1, <3>3
  <2>8. CASE k + 1 = Len(given)
    <3>1. k + 2 = Len(given) + 1 /\ k + 2 \in 0..Len(given) + 1
      BY <1>1, <2>8
    <3> QED BY <2>6, <3>1, RestOfCall
  <2> QED BY <1>1, <2>4, <2>7, <2>8
<1>3. CASE InFront
  <2>1. PICK k \in 1..Len(given) : /\ args = <<Unbundled[given[k]]>> \o Rest(k)
                                   /\ given[k] \in DOMAIN Unbundled /\ Skipped(k)
    BY <1>3 DEF InFront
  <2>2. Unbundled[given[k]] \in Words /\ args[1] = Unbundled[given[k]]
    BY <2>1, UnbundledAssumption, FirstWord
  <2>3. EndsInT(given[k])
    BY <2>1, <2>2 DEF EndsInT
  <2>4. k \in 0..Len(given) + 1 /\ 1 \in 0..2 /\ k + 1 <= Len(given) + 1 /\ k > 0
    BY <1>1
  <2>5. Rest(k) \in Seq(Words) /\ Len(Rest(k)) = Len(given) + 7 - k
    BY <2>4, RestOfCall
  <2>6. 2 \in 1..Len(Rest(k)) + 1
    BY <1>1, <2>5
  <2>7. Drop(args, 2) = Drop(Rest(k), 2 - 1)
    BY <2>1, <2>2, <2>5, <2>6, DropInFront
  <2>8. Drop(args, 2) = Rest(k + 1)
    <3>1. 2 - 1 = 1
      OBVIOUS
    <3> QED BY <2>4, <2>7, <3>1, ShiftOfCall
  <2>9. CASE k < Len(given)
    <3>1. k \in 0..Len(given) - 1 /\ k + 1 \in 0..Len(given)
      BY <1>1, <2>9
    <3>2. Skipped(k + 1)
      BY <2>1, <2>3, <2>4, <3>1, SkippedNext
    <3> QED BY <2>8, <3>1, <3>2
  <2>10. CASE k = Len(given)
    <3>1. k + 1 = Len(given) + 1 /\ k + 1 \in 0..Len(given) + 1
      BY <1>1, <2>10
    <3> QED BY <2>8, <3>1, RestOfCall
  <2> QED BY <1>1, <2>9, <2>10
<1>4. CASE args = env
  BY <1>4, KindsDiffer DEF Inputs
<1> QED BY <1>2, <1>3, <1>4

\* A word that was unbundled takes the place of the argument it was made from.
LEMMA UnbundledInFront ==
  ASSUME Inputs, Plain \/ InFront \/ args = env, args[1] \in DOMAIN Unbundled
  PROVE  \E k \in 1..Len(given) :
           /\ <<Unbundled[args[1]]>> \o Tail(args) = <<Unbundled[given[k]]>> \o Rest(k)
           /\ given[k] \in DOMAIN Unbundled /\ Skipped(k)
<1>1. Len(given) \in Nat /\ 1 \in 0..2
  BY DEF Inputs
<1>2. CASE Plain
  <2>1. PICK k \in 0..Len(given) : args = Rest(k) /\ Skipped(k)
    BY <1>2 DEF Plain
  <2>2. args[1] = IF k < Len(given) THEN given[k + 1] ELSE "--"
    BY <2>1, FirstWord
  <2>3. k < Len(given) /\ given[k + 1] = args[1] /\ given[k + 1] # "--"
    BY <2>2, KindsDiffer
  <2>4. /\ k \in 0..Len(given) - 1 /\ k \in 0..Len(given) + 1
        /\ k + 1 <= Len(given) + 1 /\ k + 1 \in 1..Len(given)
    BY <1>1, <2>3
  <2>5. Skipped(k + 1)
    BY <2>1, <2>3, <2>4, SkippedNext
  <2>6. Tail(args) = Rest(k + 1)
    <3>1. Rest(k) \in Seq(Words) /\ Len(Rest(k)) = Len(given) + 7 - k
      BY <2>4, RestOfCall
    <3>2. Len(Rest(k)) # 0
      BY <1>1, <2>4, <3>1
    <3>3. Rest(k) # << >>
      BY <3>2
    <3>4. Tail(Rest(k)) = SubSeq(Rest(k), 2, Len(Rest(k)))
      BY <3>1, <3>3, TailIsSubSeq
    <3>5. Tail(Rest(k)) = Drop(Rest(k), 1)
      <4>1. 1 + 1 = 2
        OBVIOUS
      <4> QED BY <3>4, <4>1 DEF Drop
    <3> QED BY <1>1, <2>1, <2>4, <3>5, ShiftOfCall
  <2> QED BY <2>3, <2>4, <2>5, <2>6
<1>3. CASE InFront
  <2>1. PICK k \in 1..Len(given) : /\ args = <<Unbundled[given[k]]>> \o Rest(k)
                                   /\ given[k] \in DOMAIN Unbundled
    BY <1>3 DEF InFront
  <2>2. args[1] = Unbundled[given[k]]
    BY <2>1, FirstWord
  <2> QED BY <2>1, <2>2, UnbundledAssumption
<1>4. CASE args = env
  BY <1>4, KindsDiffer DEF Inputs
<1> QED BY <1>2, <1>3, <1>4

\* The "--" that ends the options is the first of the call that is no value, or
\* the one before the saved values.
LEMMA OptionsEnd ==
  ASSUME Inputs, Plain \/ InFront \/ args = env, args[1] = "--"
  PROVE  \/ Len(Tail(args)) <= 7
         \/ \E i \in 1..Len(given) - 1 : Tail(args) = Rest(i) /\ CommandAfter(i)
<1>1. Len(given) \in Nat /\ 1 \in 0..2
  BY DEF Inputs
<1>2. CASE Plain
  <2>1. PICK k \in 0..Len(given) : args = Rest(k) /\ Skipped(k)
    BY <1>2 DEF Plain
  <2>2. args[1] = IF k < Len(given) THEN given[k + 1] ELSE "--"
    BY <2>1, FirstWord
  <2>3. k \in 0..Len(given) + 1 /\ k + 1 <= Len(given) + 1 /\ k + 1 \in 0..Len(given) + 1
    BY <1>1
  <2>4. Tail(args) = Rest(k + 1) /\ Len(Rest(k + 1)) = Len(given) + 7 - (k + 1)
    <3>1. Rest(k) \in Seq(Words) /\ Len(Rest(k)) = Len(given) + 7 - k
      BY <2>3, RestOfCall
    <3>2. Len(Rest(k)) # 0
      BY <1>1, <2>3, <3>1
    <3>3. Rest(k) # << >>
      BY <3>2
    <3>4. Tail(Rest(k)) = SubSeq(Rest(k), 2, Len(Rest(k)))
      BY <3>1, <3>3, TailIsSubSeq
    <3>5. Tail(Rest(k)) = Drop(Rest(k), 1)
      <4>1. 1 + 1 = 2
        OBVIOUS
      <4> QED BY <3>4, <4>1 DEF Drop
    <3>6. Drop(Rest(k), 1) = Rest(k + 1)
      BY <1>1, <2>3, ShiftOfCall
    <3> QED BY <2>1, <2>3, <3>5, <3>6, RestOfCall
  <2>5. CASE k + 1 < Len(given)
    <3>1. k + 1 \in 1..Len(given) - 1 /\ (k + 1) - 1 = k /\ k < Len(given)
      BY <1>1, <2>5
    <3>2. given[k + 1] = "--"
      BY <2>2, <3>1
    <3>3. CommandAfter(k + 1)
      BY <2>1, <3>1, <3>2 DEF CommandAfter
    <3> QED BY <2>4, <3>1, <3>3
  <2>6. CASE k + 1 >= Len(given)
    BY <1>1, <2>4, <2>6
  <2> QED BY <1>1, <2>5, <2>6
<1>3. CASE InFront
  <2>1. PICK k \in 1..Len(given) : /\ args = <<Unbundled[given[k]]>> \o Rest(k)
                                   /\ given[k] \in DOMAIN Unbundled
    BY <1>3 DEF InFront
  <2>2. args[1] = Unbundled[given[k]]
    BY <2>1, FirstWord
  <2> QED BY <2>1, <2>2, UnbundledAssumption
<1>4. CASE args = env
  BY <1>4, KindsDiffer DEF Inputs
<1> QED BY <1>2, <1>3, <1>4

\* The rotation and the assignments make the command of the call of what is left.
LEMMA CommandOfCall ==
  ASSUME Inputs, Len(args) > 7, PastOptions
  PROVE  \E i \in 1..Len(given) - 1 :
           CommandAfter(i) /\ Command.env = env /\ Command.words = Drop(given, i)
<1>1. PICK i \in 1..Len(given) - 1 : args = Rest(i) /\ CommandAfter(i)
  BY DEF PastOptions
<1>2. /\ given \in Seq(Words) /\ Len(given) \in Nat
      /\ Saved \in Seq(Words) /\ Len(Saved) = 7 /\ Drop(Saved, 1) = env
  BY SavedWords DEF Inputs
<1>3. i \in 0..Len(given)
  BY <1>1, <1>2
<1> DEFINE words == Drop(given, i)
<1>4. words \in Seq(Words) /\ Len(words) = Len(given) - i
  BY <1>2, <1>3, DropProperties
<1>5. args = words \o Saved
  BY <1>1, <1>2, <1>3, DropFirst DEF Rest, Call
<1> HIDE DEF words
<1>6. Len(args) = Len(words) + 7
  <2>1. Len(words \o Saved) = Len(words) + Len(Saved)
    BY <1>2, <1>4, ConcatProperties
  <2> QED BY <1>2, <1>5, <2>1
<1>7. Len(args) - 7 = Len(words)
  BY <1>4, <1>6
<1>8. Rotated(Len(args) - 7) = Saved \o words
  <2>1. Rotated(Len(args) - 7) = SubSeq(args, Len(words) + 1, Len(args)) \o SubSeq(args, 1, Len(words))
    BY <1>7 DEF Rotated
  <2>2. SubSeq(words \o Saved, Len(words) + 1, Len(words \o Saved))
          \o SubSeq(words \o Saved, 1, Len(words)) = Saved \o words
    BY <1>2, <1>4, RotateConcat
  <2> QED BY <1>5, <2>1, <2>2
<1> DEFINE r == Saved \o words
<1>9. Len(r) = 7 + Len(words)
  <2>1. Len(r) = Len(Saved) + Len(words)
    BY <1>2, <1>4, ConcatProperties
  <2> QED BY <1>2, <2>1
<1>10. SubSeq(r, 8, Len(r)) = words
  <2>1. Len(Saved) + 0 = 7 /\ 7 + 1 = 8 /\ 0 \in 0..Len(words)
    BY <1>2, <1>4
  <2>2. Drop(Saved \o words, Len(Saved) + 0) = Drop(words, 0)
    BY <1>2, <1>4, <2>1, DropConcat
  <2>3. Drop(words, 0) = words
    BY <1>4, SubSeqFull DEF Drop
  <2> QED BY <2>1, <2>2, <2>3 DEF Drop
<1>11. SubSeq(r, 2, 7) = env
  <2>1. SubSeq(r, 2, 7) = SubSeq(Saved, 2, 7)
    <3>1. 2 \in 1..Len(Saved) /\ 7 \in 1..Len(Saved)
      BY <1>2
    <3> QED BY <1>2, <1>4, <3>1, SubSeqOfConcat1
  <2>2. SubSeq(Saved, 2, 7) = Drop(Saved, 1)
    <3>1. 1 + 1 = 2
      OBVIOUS
    <3> QED BY <1>2, <3>1 DEF Drop
  <2> QED BY <1>2, <2>1, <2>2
<1>12. Command = [is |-> "command", words |-> SubSeq(r, 8, Len(r)), env |-> SubSeq(r, 2, 7)]
  BY <1>8 DEF Command
<1>13. Command.env = env /\ Command.words = words
  BY <1>10, <1>11, <1>12
<1> QED BY <1>1, <1>13 DEF words

-----------------------------------------------------------------------------
(* The invariant holds *)

\* What is said of the call stays true, as nothing changes it.
LEMMA SameCall ==
  ASSUME UNCHANGED <<given, env>>
  PROVE  /\ Inputs' = Inputs
         /\ \A k : /\ Rest(k)' = Rest(k) /\ Skipped(k)' = Skipped(k)
                   /\ CommandAfter(k)' = CommandAfter(k)
  BY DEF Inputs, Rest, Drop, Call, Saved, Skipped, EndsInT, CommandAfter

LEMMA ArgsInit == Init => ArgsInv
<1> SUFFICES ASSUME Init PROVE ArgsInv
  OBVIOUS
<1>1. given \in Seq(Words) /\ Len(given) \in Nat
  <2>1. PICK n \in 0..MaxArgs : given \in [1..n -> Arguments]
    BY DEF Init
  <2>2. n \in Nat /\ given \in [1..n -> Words]
    BY <2>1, WordsAssumption
  <2> QED BY <2>2
<1>2. env \in [1..6 -> Words] /\ env[1] \notin Options
  <2>1. Len(Names) = 6
    BY DEF Names
  <2> QED BY <2>1, EnvironmentsAssumption DEF Init
<1>3. env \in Seq(Words) /\ Len(env) = 6
  <2>1. PICK n \in Nat : n = 6
    OBVIOUS
  <2>2. env \in [1..n -> Words]
    BY <1>2, <2>1
  <2>3. env \in Seq(Words) /\ Len(env) = n
    BY <2>2
  <2> QED BY <2>1, <2>3
<1>4. Inputs
  BY <1>1, <1>2, <1>3 DEF Inputs
<1>5. args = Call
  <2>1. PICK w \in Words : w = "--"
    BY WordsAssumption
  <2>2. <<w>> \in Seq(Words)
    BY OneWord
  <2>3. (given \o <<w>>) \o env = given \o (<<w>> \o env)
    BY <1>1, <1>3, <2>2, ConcatAssociative
  <2> QED BY <2>1, <2>3 DEF Init, Call, Saved
<1>6. Rest(0) = Call /\ 0 \in 0..Len(given) /\ Skipped(0)
  <2>1. 0 + 1 = 1
    OBVIOUS
  <2>2. Call \in Seq(Words)
    BY <1>4, CallWords
  <2>3. Rest(0) = Call
    BY <2>1, <2>2, SubSeqFull DEF Rest, Drop
  <2> QED BY <1>1, <2>3 DEF Skipped
<1>7. Plain
  BY <1>5, <1>6 DEF Plain
<1> QED BY <1>4, <1>7 DEF Init, ArgsInv

\* An option was taken.
LEMMA Taken ==
  ASSUME ArgsInv, pc = "options", NEW v, NEW n, Take(v, n),
         \/ \E k \in 0..Len(given) : Drop(args, n) = Rest(k) /\ Skipped(k)
         \/ Drop(args, n) = env
  PROVE  ArgsInv'
<1>1. UNCHANGED <<given, env, pc, outcome, ran>> /\ args' = Drop(args, n)
  BY DEF Take, Drop
<1>2. Inputs' /\ Inputs
  BY <1>1, SameCall DEF ArgsInv
<1>3. (Plain \/ args = env)'
  <2>1. CASE Drop(args, n) = env
    BY <1>1, <2>1
  <2>2. CASE \E k \in 0..Len(given) : Drop(args, n) = Rest(k) /\ Skipped(k)
    <3>1. PICK k \in 0..Len(given) : Drop(args, n) = Rest(k) /\ Skipped(k)
      BY <2>2
    <3>2. k \in 0..Len(given') /\ args' = Rest(k)' /\ Skipped(k)'
      BY <1>1, <3>1, SameCall
    <3> QED BY <3>2 DEF Plain
  <2> QED BY <2>1, <2>2
<1>4. pc' = "options" /\ outcome' = "none"
  BY <1>1 DEF ArgsInv
<1> QED BY <1>2, <1>3, <1>4 DEF ArgsInv

LEMMA ArgsStep == ArgsInv /\ [Next]_vars => ArgsInv'
<1> SUFFICES ASSUME ArgsInv, [Next]_vars PROVE ArgsInv'
  OBVIOUS
<1>1. /\ Inputs
      /\ pc = "options" => Plain \/ InFront \/ args = env
      /\ pc \in {"check", "probe", "sleep"} => PastOptions
      /\ outcome = "exec" => Ran
      /\ pc # "end" => outcome = "none"
  BY DEF ArgsInv
<1>2. 1 \in 0..2 /\ DOMAIN HostOf \subseteq Options /\ Urls \subseteq Options
      /\ Silence \subseteq Options /\ DOMAIN TimeoutOf \subseteq Options
  BY KindsDiffer
<1>3. ASSUME pc = "options", NEW v, Take(v, 1),
             args[1] \in Silence \cup Urls \cup DOMAIN HostOf \cup DOMAIN TimeoutOf
      PROVE  ArgsInv'
  <2>1. args[1] \in Options \ ({"--"} \cup DOMAIN Unbundled)
    BY <1>2, <1>3, KindsDiffer, UnbundledIsOther
  <2>2. \E k \in 0..Len(given) : Drop(args, 1) = Rest(k) /\ Skipped(k)
    BY <1>1, <1>3, <2>1, OneShifted
  <2> QED BY <1>3, <2>2, Taken
<1>4. CASE Quiet
  BY <1>3, <1>4 DEF Quiet
<1>5. CASE Unbundle
  <2>1. /\ pc = "options" /\ args[1] \in DOMAIN Unbundled
        /\ args' = <<Unbundled[args[1]]>> \o Tail(args)
        /\ UNCHANGED <<given, env, pc, outcome, ran>>
    BY <1>5 DEF Unbundle
  <2>2. PICK k \in 1..Len(given) :
           /\ <<Unbundled[args[1]]>> \o Tail(args) = <<Unbundled[given[k]]>> \o Rest(k)
           /\ given[k] \in DOMAIN Unbundled /\ Skipped(k)
    BY <1>1, <2>1, UnbundledInFront
  <2>3. /\ k \in 1..Len(given') /\ args' = <<Unbundled[given'[k]]>> \o Rest(k)'
        /\ given'[k] \in DOMAIN Unbundled /\ Skipped(k)'
    BY <2>1, <2>2, SameCall
  <2>4. InFront'
    BY <2>3 DEF InFront
  <2>5. Inputs' /\ pc' = "options" /\ outcome' = "none"
    BY <1>1, <2>1, SameCall
  <2> QED BY <2>4, <2>5 DEF ArgsInv
<1>6. CASE Target
  BY <1>3, <1>6 DEF Target
<1>7. CASE Timeout
  <2>1. CASE args[1] \in TakeNext /\ Take([var EXCEPT !.TIMEOUT = args[2]], 2)
    <3>1. pc = "options"
      BY <1>7 DEF Timeout
    <3>2. \/ \E k \in 0..Len(given) : Drop(args, 2) = Rest(k) /\ Skipped(k)
          \/ Drop(args, 2) = env
      BY <1>1, <2>1, <3>1, TwoShifted
    <3> QED BY <2>1, <3>1, <3>2, Taken
  <2>2. CASE args[1] \in DOMAIN TimeoutOf
             /\ Take([var EXCEPT !.TIMEOUT = TimeoutOf[args[1]]], 1)
    BY <1>3, <1>7, <2>2 DEF Timeout
  <2> QED BY <1>7, <2>1, <2>2 DEF Timeout
<1>8. CASE EndOptions
  <2>1. /\ pc = "options" /\ args[1] = "--" /\ args' = Tail(args) /\ pc' = "check"
        /\ UNCHANGED <<given, env, outcome, ran>>
    BY <1>8 DEF EndOptions
  <2>2. \/ Len(Tail(args)) <= 7
        \/ \E i \in 1..Len(given) - 1 : Tail(args) = Rest(i) /\ CommandAfter(i)
    BY <1>1, <2>1, OptionsEnd
  <2>3. PastOptions'
    <3>1. CASE Len(Tail(args)) <= 7
      BY <2>1, <3>1 DEF PastOptions
    <3>2. CASE \E i \in 1..Len(given) - 1 : Tail(args) = Rest(i) /\ CommandAfter(i)
      <4>1. PICK i \in 1..Len(given) - 1 : Tail(args) = Rest(i) /\ CommandAfter(i)
        BY <3>2
      <4>2. i \in 1..Len(given') - 1 /\ args' = Rest(i)' /\ CommandAfter(i)'
        BY <2>1, <4>1, SameCall
      <4> QED BY <4>2 DEF PastOptions
    <3> QED BY <2>2, <3>1, <3>2
  <2>4. Inputs' /\ outcome' = "none"
    BY <1>1, <2>1, SameCall
  <2> QED BY <2>1, <2>3, <2>4 DEF ArgsInv
<1>9. ASSUME UNCHANGED <<given, env>>, pc' = "end", outcome' # "exec"
      PROVE  ArgsInv'
  BY <1>1, <1>9, SameCall DEF ArgsInv
<1>10. CASE Usage
  BY <1>9, <1>10 DEF Usage, End
<1>11. ASSUME UNCHANGED <<given, env, args, outcome>>, pc' \in {"probe", "sleep"},
              pc \in {"check", "probe", "sleep"}
       PROVE  ArgsInv'
  <2>1. Inputs' /\ outcome' = "none"
    BY <1>1, <1>11, SameCall
  <2>2. PastOptions'
    <3>1. CASE Len(args) <= 7
      BY <1>11, <3>1 DEF PastOptions
    <3>2. CASE \E i \in 1..Len(given) - 1 : args = Rest(i) /\ CommandAfter(i)
      <4>1. PICK i \in 1..Len(given) - 1 : args = Rest(i) /\ CommandAfter(i)
        BY <3>2
      <4>2. i \in 1..Len(given') - 1 /\ args' = Rest(i)' /\ CommandAfter(i)'
        BY <1>11, <4>1, SameCall
      <4> QED BY <4>2 DEF PastOptions
    <3> QED BY <1>1, <1>11, <3>1, <3>2 DEF PastOptions
  <2> QED BY <1>11, <2>1, <2>2 DEF ArgsInv
<1>12. CASE Check
  <2>1. CASE pc' = "probe"
    BY <1>11, <1>12, <2>1 DEF Check, End
  <2>2. CASE pc' # "probe"
    BY <1>9, <1>12, <2>2 DEF Check, End
  <2> QED BY <2>1, <2>2
<1>13. CASE ProbeSucceeds
  <2>1. CASE Len(args) > 7 /\ End("exec") /\ ran' = Command
    <3>1. PICK i \in 1..Len(given) - 1 :
             CommandAfter(i) /\ Command.env = env /\ Command.words = Drop(given, i)
      BY <1>1, <1>13, <2>1, CommandOfCall DEF ProbeSucceeds
    <3>2. UNCHANGED <<given, env>> /\ pc' = "end" /\ ran' = Command
      BY <2>1 DEF End
    <3>3. /\ i \in 1..Len(given') - 1 /\ CommandAfter(i)'
          /\ ran'.env = env' /\ ran'.words = Drop(given, i)'
      BY <3>1, <3>2, SameCall DEF Drop
    <3>4. Ran'
      BY <3>3 DEF Ran
    <3> QED BY <1>1, <3>2, <3>4, SameCall DEF ArgsInv
  <2>2. CASE Len(args) <= 7 /\ End("ready")
    BY <1>9, <2>2 DEF End
  <2> QED BY <1>13, <2>1, <2>2 DEF ProbeSucceeds
<1>14. CASE ProbeFails
  <2>1. CASE pc' = "end"
    BY <1>9, <1>14, <2>1 DEF ProbeFails, End
  <2>2. CASE pc' # "end"
    BY <1>11, <1>14, <2>2 DEF ProbeFails, End
  <2> QED BY <2>1, <2>2
<1>15. CASE Sleep
  BY <1>11, <1>15 DEF Sleep
<1>16. CASE UNCHANGED vars
  <2>1. UNCHANGED <<given, env, args, pc, outcome, ran>>
    BY <1>16 DEF vars
  <2> QED BY <1>1, <2>1, SameCall
       DEF ArgsInv, Plain, InFront, PastOptions, Ran, Inputs, Rest, Skipped, CommandAfter, Drop,
           Call, Saved, EndsInT
<1> QED BY <1>4, <1>5, <1>6, <1>7, <1>8, <1>10, <1>12, <1>13, <1>14, <1>15, <1>16 DEF Next, Step

\* The command of the script is the command of the call, whatever the arguments
\* before it are: what is left of "$@" is always the rest of the call, so what
\* exec gets is what followed the first "--" that no -t took.
THEOREM CommandAlwaysAsGiven == Spec => []CommandAsGiven
<1>1. ArgsInv => CommandAsGiven
  <2> SUFFICES ASSUME ArgsInv, outcome = "exec"
               PROVE  /\ ran.env = env
                      /\ \E i \in DOMAIN given :
                           /\ given[i] = "--" /\ i < Len(given)
                           /\ ran.words = SubSeq(given, i + 1, Len(given))
                           /\ \A j \in 1 .. i - 1 : given[j] = "--" => j > 1 /\ EndsInT(given[j - 1])
    BY DEF CommandAsGiven
  <2>1. PICK i \in 1..Len(given) - 1 :
           /\ CommandAfter(i) /\ ran.env = env /\ ran.words = Drop(given, i)
    BY DEF ArgsInv, Ran
  <2>2. given \in Seq(Words) /\ Len(given) \in Nat
    BY DEF ArgsInv, Inputs
  <2>3. i \in DOMAIN given /\ i < Len(given)
    BY <2>1, <2>2
  <2> QED BY <2>1, <2>3 DEF CommandAfter, Skipped, Drop
<1> QED BY <1>1, ArgsInit, ArgsStep, PTL DEF Spec

-----------------------------------------------------------------------------
(* The countdown *)

\* What was counted down is the number of probes that failed; behind each of them
\* a second was slept, or is about to be.
Counting(slept) ==
  LET t == Number[var.TIMEOUT] IN
    /\ var.TIMEOUT \in DOMAIN Number
    /\ left \in Nat /\ failed \in Nat /\ elapsed \in Nat
    /\ failed + left = t
    /\ failed <= elapsed + slept

CountInv ==
  /\ pc \in {"options", "check"} => failed = 0 /\ elapsed = 0
  /\ pc = "probe" => Counting(0)
  /\ pc = "sleep" => Counting(1)
  /\ pc # "end" => outcome = "none"
  /\ PatienceBounds

\* The script counts a second for each probe, and sleeps it.
LEMMA CountStep == CountInv /\ [Next]_vars => CountInv'
<1> SUFFICES ASSUME CountInv, [Next]_vars PROVE CountInv'
  OBVIOUS
<1>1. ASSUME pc = "options", UNCHANGED <<failed, elapsed, outcome>>, pc' \in {"options", "check"}
      PROVE  CountInv'
  BY <1>1 DEF CountInv, PatienceBounds
<1>2. CASE Quiet \/ Unbundle \/ Target \/ Timeout \/ EndOptions
  BY <1>1, <1>2 DEF Quiet, Unbundle, Target, Timeout, EndOptions, Take
<1>3. ASSUME pc' = "end", outcome' # "timed out"
      PROVE  CountInv'
  BY <1>3 DEF CountInv, PatienceBounds
<1>4. CASE Usage
  BY <1>3, <1>4 DEF Usage, End
<1>5. CASE Check
  <2>1. CASE pc' = "probe"
    <3>1. /\ var.TIMEOUT \in DOMAIN Number /\ left' = Number[var.TIMEOUT]
          /\ failed' = failed /\ elapsed' = elapsed /\ failed = 0 /\ elapsed = 0
          /\ outcome' = outcome /\ outcome = "none" /\ var' = var
      BY <1>5, <2>1 DEF Check, End, CountInv
    <3>2. Number[var.TIMEOUT] \in Nat
      BY <3>1, WordsAssumption
    <3>3. Counting(0)'
      BY <3>1, <3>2 DEF Counting
    <3> QED BY <2>1, <3>1, <3>3 DEF CountInv, PatienceBounds
  <2>2. CASE pc' # "probe"
    BY <1>3, <1>5, <2>2 DEF Check, End
  <2> QED BY <2>1, <2>2
<1>6. CASE ProbeSucceeds
  BY <1>3, <1>6 DEF ProbeSucceeds, End
<1>7. CASE ProbeFails
  <2>1. Counting(0) /\ outcome = "none" /\ pc = "probe"
    BY <1>7 DEF ProbeFails, CountInv
  <2>2. PICK seconds \in 0 .. MaxProbe : elapsed' = elapsed + seconds
    BY <1>7 DEF ProbeFails
  <2>3. failed' = failed + 1 /\ var' = var
    BY <1>7 DEF ProbeFails, End
  <2> DEFINE t == Number[var.TIMEOUT]
  <2>4. /\ t \in Nat /\ left \in Nat /\ failed \in Nat /\ elapsed \in Nat /\ seconds \in Nat
        /\ failed + left = t /\ failed <= elapsed
        /\ var.TIMEOUT \in DOMAIN Number
    BY <2>1, <2>2, WordsAssumption DEF Counting
  <2> HIDE DEF t
  <2>5. CASE GivesUp /\ End("timed out") /\ left' = left
    <3>1. left <= 0
      BY <2>5 DEF GivesUp
    <3>2. failed + 1 = t + 1 /\ elapsed + seconds >= t
      BY <2>4, <3>1
    <3>3. pc' = "end"
      BY <2>5 DEF End
    <3>4. PatienceBounds'
      BY <2>2, <2>3, <3>2 DEF PatienceBounds, t
    <3> QED BY <3>3, <3>4 DEF CountInv
  <2>6. CASE ~GivesUp /\ left' = left - 1 /\ pc' = "sleep" /\ outcome' = outcome
    <3>1. ~(left <= 0)
      BY <2>6 DEF GivesUp
    <3>2. /\ left - 1 \in Nat /\ failed + 1 \in Nat /\ elapsed + seconds \in Nat
          /\ (failed + 1) + (left - 1) = t
          /\ failed + 1 <= (elapsed + seconds) + 1
      BY <2>4, <3>1
    <3>3. Counting(1)'
      BY <2>2, <2>3, <2>4, <2>6, <3>2 DEF Counting, t
    <3> QED BY <2>1, <2>6, <3>3 DEF CountInv, PatienceBounds
  <2> QED BY <1>7, <2>5, <2>6 DEF ProbeFails
<1>8. CASE Sleep
  <2>1. Counting(1) /\ outcome = "none"
    BY <1>8 DEF Sleep, CountInv
  <2>2. /\ pc' = "probe" /\ elapsed' = elapsed + 1
        /\ UNCHANGED <<var, left, outcome, failed>>
    BY <1>8 DEF Sleep
  <2>3. Counting(0)'
    BY <2>1, <2>2 DEF Counting
  <2> QED BY <2>1, <2>2, <2>3 DEF CountInv, PatienceBounds
<1>9. CASE UNCHANGED vars
  BY <1>9 DEF vars, CountInv, Counting, PatienceBounds
<1> QED BY <1>2, <1>4, <1>5, <1>6, <1>7, <1>8, <1>9 DEF Next, Step

\* Whatever the timeout is and however long the probes take, the script gives up
\* after TIMEOUT + 1 of them and not before TIMEOUT seconds.
THEOREM PatienceAlwaysBounded == Spec => []PatienceBounds
<1>1. Init => CountInv
  BY DEF Init, CountInv, PatienceBounds
<1>2. CountInv => PatienceBounds
  BY DEF CountInv
<1> QED BY <1>1, <1>2, CountStep, PTL DEF Spec
=============================================================================
