------------------------- MODULE DynamicConfig_proofs -------------------------
(***************************************************************************)
(* What a call of Config() may return, for all documents, any number of    *)
(* changes and any number of concurrent calls.                             *)
(***************************************************************************)
EXTENDS DynamicConfig, TLAPS

USE ValuesAssumption, DocumentsAssumption, ChangesAssumption

\* A word in memory is of the newest document, or of the one before it while
\* Apply has still to write it.
MemInForce ==
  /\ \A w \in Words : cfg[w] = Meaning(docs[Newest], w)
  /\ \A w \in Words \ todo : mem[w] = Meaning(docs[Newest], w)
  /\ \A w \in todo : Newest > 1 /\ mem[w] = Meaning(docs[Newest - 1], w)

\* The newest document that is in memory as a whole.
Whole == IF todo = {} THEN Newest ELSE Newest - 1

ReaderInForce(r) ==
  /\ from[r] <= Whole
  /\ \A w \in Words \ left[r] :
       \E i \in from[r] .. Newest : copy[r][w] = Meaning(docs[i], w)

ConfigInv ==
  /\ TypeOK
  /\ MemInForce
  /\ \A r \in Readers : ReaderInForce(r)

\* What a document asks for is a value a word may hold.
LEMMA MeaningIsValue ==
  ASSUME NEW d \in Documents \cup {NoDocument}, NEW w \in Words
  PROVE  Meaning(d, w) \in Values
<1>1. CASE d \in Documents
  <2>1. PICK K \in SUBSET {"enable", "num", "str"} : d.fields \in [K -> Values]
    BY <1>1 DEF Fields
  <2> QED BY <2>1 DEF Meaning
<1>2. CASE d = NoDocument
  BY <1>2 DEF Meaning, NoDocument
<1> QED BY <1>1, <1>2

\* Check reads what the document means.
LEMMA CheckMeans ==
  ASSUME NEW d \in Documents
  PROVE  Check(d).cfg \in Structs /\ \A w \in Words : Check(d).cfg[w] = Meaning(d, w)
<1>1. \A w \in Words : Check(d).cfg[w] = Meaning(d, w)
  BY DEF Check, Unmarshal, Meaning, Unset
<1>2. Check(d).cfg = [w \in Words |-> Meaning(d, w)]
  BY DEF Check, Unmarshal, Meaning, Unset
<1> QED BY <1>1, <1>2, MeaningIsValue DEF Structs

\* At the start the struct is zero and nobody writes or copies it.
LEMMA InitConfig == Init => ConfigInv
<1> SUFFICES ASSUME Init PROVE ConfigInv
  OBVIOUS
<1>1. TypeOK
  BY DEF Init, TypeOK, Unset, Structs, Newest
<1>2. \A w \in Words : Meaning(docs[1], w) = Zero
  BY DEF Init, Meaning, NoDocument
<1>3. Newest = 1 /\ Whole = 1
  BY DEF Init, Newest, Whole
<1>4. MemInForce
  BY <1>2, <1>3 DEF Init, MemInForce, Unset
<1>5. ASSUME NEW r \in Readers PROVE ReaderInForce(r)
  <2>1. 1 \in from[r] .. Newest /\ \A w \in Words : copy[r][w] = Meaning(docs[1], w)
    BY <1>2, <1>3 DEF Init, Unset
  <2> QED BY <1>3, <2>1 DEF Init, ReaderInForce
<1> QED BY <1>1, <1>4, <1>5 DEF ConfigInv

\* A new document leaves what was read in force; memory holds its forerunner.
LEMMA WatchConfig ==
  ASSUME ConfigInv, Watch
  PROVE  ConfigInv'
<1> USE DEF ConfigInv
<1>1. PICK d \in Documents : /\ docs' = Append(docs, d)
                             /\ cfg' = Check(d).cfg /\ todo' = Words
  BY DEF Watch
<1>2. /\ Newest' = Newest + 1 /\ Newest \in Nat \ {0} /\ docs'[Newest'] = d
      /\ \A i \in 1 .. Newest : docs'[i] = docs[i]
  BY <1>1 DEF TypeOK, Newest
<1>3. TypeOK'
  BY <1>1, <1>2, CheckMeans DEF TypeOK, Watch, Newest
<1>4. MemInForce'
  <2>1. \A w \in Words : cfg'[w] = Meaning(docs'[Newest'], w)
    BY <1>1, <1>2, CheckMeans
  <2>2. docs'[Newest' - 1] = docs[Newest] /\ Newest' > 1
    BY <1>2
  <2>3. ASSUME NEW w \in Words PROVE mem'[w] = Meaning(docs'[Newest' - 1], w)
    <3>1. w \in Words \ todo /\ mem' = mem
      BY DEF Watch
    <3> QED BY <2>2, <3>1 DEF MemInForce
  <2>4. todo' = Words
    BY <1>1
  <2> QED BY <2>1, <2>2, <2>3, <2>4 DEF MemInForce
<1>5. ASSUME NEW r \in Readers PROVE ReaderInForce(r)'
  <2>1. UNCHANGED <<left, copy, from>> /\ Whole = Newest /\ Whole' = Newest
    BY <1>1, <1>2 DEF Watch, Whole, Words
  <2>2. from[r] \in Nat \ {0}
    BY DEF TypeOK
  <2>3. ASSUME NEW w \in Words \ left[r]
        PROVE  \E i \in from[r] .. Newest' : copy[r][w] = Meaning(docs'[i], w)
    <3>1. PICK i \in from[r] .. Newest : copy[r][w] = Meaning(docs[i], w)
      BY DEF ReaderInForce
    <3> QED BY <1>2, <2>2, <3>1
  <2> QED BY <2>1, <2>3 DEF ReaderInForce
<1> QED BY <1>3, <1>4, <1>5

\* Apply, writing one more word of the struct, keeps the invariant.
LEMMA ApplyConfig ==
  ASSUME ConfigInv, Apply
  PROVE  ConfigInv'
<1> USE DEF ConfigInv
<1>1. PICK v \in todo : mem' = [mem EXCEPT ![v] = cfg[v]] /\ todo' = todo \ {v}
  BY DEF Apply
<1>2. UNCHANGED <<docs, cfg, left, copy, from>> /\ Newest' = Newest
  BY DEF Apply, Newest
<1>3. TypeOK'
  BY <1>1, <1>2 DEF TypeOK, Structs
<1>4. MemInForce'
  BY <1>1, <1>2 DEF MemInForce, TypeOK, Structs
<1>5. Newest \in Nat /\ Whole <= Whole' /\ \A r \in Readers : from[r] \in Nat
  BY <1>1, <1>2 DEF TypeOK, Whole, Newest
<1>6. ASSUME NEW r \in Readers PROVE ReaderInForce(r)'
  BY <1>2, <1>5 DEF ReaderInForce, Whole
<1> QED BY <1>3, <1>4, <1>6

\* So do the steps of Config().
LEMMA ReadConfig ==
  ASSUME ConfigInv, NEW r \in Readers, BeginConfig(r) \/ CopyWord(r)
  PROVE  ConfigInv'
<1> USE DEF ConfigInv
<1>1. UNCHANGED <<mem, docs, cfg, todo>> /\ Newest' = Newest /\ Whole' = Whole
  BY DEF BeginConfig, CopyWord, Newest, Whole
<1>2. Newest \in Nat \ {0} /\ (todo # {} => Newest > 1)
  BY DEF TypeOK, Newest, MemInForce
<1>3. TypeOK'
  <2>1. CASE BeginConfig(r)
    BY <1>1, <1>2, <2>1 DEF TypeOK, BeginConfig, Structs, Unset
  <2>2. CASE CopyWord(r)
    <3>1. PICK v \in left[r] : /\ copy' = [copy EXCEPT ![r][v] = mem[v]]
                               /\ left' = [left EXCEPT ![r] = @ \ {v}]
      BY <2>2 DEF CopyWord
    <3>2. v \in Words /\ mem[v] \in Values
      BY <3>1 DEF TypeOK, Structs
    <3>3. copy' \in [Readers -> Structs] /\ left' \in [Readers -> SUBSET Words]
      BY <3>1, <3>2 DEF TypeOK, Structs
    <3> QED BY <1>1, <2>2, <3>3 DEF TypeOK, CopyWord
  <2> QED BY <2>1, <2>2
<1>4. MemInForce'
  BY <1>1 DEF MemInForce
<1>5. ASSUME NEW q \in Readers, q # r PROVE ReaderInForce(q)'
  <2>1. from'[q] = from[q] /\ left'[q] = left[q] /\ copy'[q] = copy[q]
    BY <1>5 DEF BeginConfig, CopyWord, TypeOK
  <2> QED BY <1>1, <2>1 DEF ReaderInForce
<1>6. ReaderInForce(r)'
  <2>1. CASE BeginConfig(r)
    <3>1. left'[r] = Words /\ from'[r] = Whole
      BY <2>1 DEF BeginConfig, TypeOK, Whole
    <3> QED BY <1>1, <1>2, <3>1 DEF ReaderInForce, Whole
  <2>2. CASE CopyWord(r)
    <3>1. PICK v \in left[r] : /\ copy' = [copy EXCEPT ![r][v] = mem[v]]
                               /\ left' = [left EXCEPT ![r] = @ \ {v}]
      BY <2>2 DEF CopyWord
    <3>2. from'[r] = from[r] /\ left'[r] = left[r] \ {v} /\ v \in Words
      BY <2>2, <3>1 DEF CopyWord, TypeOK
    <3>3. \E i \in from[r] .. Newest : mem[v] = Meaning(docs[i], v)
      BY <1>2, <3>2 DEF MemInForce, ReaderInForce, Whole, TypeOK
    <3>4. ASSUME NEW w \in Words \ left'[r]
          PROVE  \E i \in from[r] .. Newest : copy'[r][w] = Meaning(docs[i], w)
      BY <3>1, <3>2, <3>3 DEF ReaderInForce, TypeOK, Structs
    <3> QED BY <1>1, <3>2, <3>4 DEF ReaderInForce
  <2> QED BY <2>1, <2>2
<1> QED BY <1>3, <1>4, <1>5, <1>6

\* The invariant holds in every reachable state, however writes and copies interleave.
THEOREM ConfigInvariant == Spec => []ConfigInv
<1>1. ConfigInv /\ UNCHANGED vars => ConfigInv'
  BY DEF vars, ConfigInv, TypeOK, MemInForce, ReaderInForce, Whole, Newest
<1>2. ConfigInv /\ [Next]_vars => ConfigInv'
  BY <1>1, WatchConfig, ApplyConfig, ReadConfig DEF Next
<1> QED BY <1>2, InitConfig, PTL DEF Spec

\* Config() never returns a word of a document that was replaced before the
\* call, whatever Apply does meanwhile.
THEOREM WordsStayInForce == Spec => []WordsInForce
<1>1. ConfigInv => WordsInForce
  BY DEF ConfigInv, ReaderInForce, WordsInForce
<1> QED BY <1>1, ConfigInvariant, PTL
=============================================================================
