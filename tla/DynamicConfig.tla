----------------------------- MODULE DynamicConfig -----------------------------
(***************************************************************************)
(* pkg/rpc/config: the configuration that changes while the service runs.  *)
(*                                                                         *)
(* The watcher of configkit hands every document it finds in etcd to Check *)
(* and, if Check accepts it, the result to Apply, which overwrites the     *)
(* global struct.  Config() copies that struct.  Neither takes a lock: the *)
(* struct is written and copied word by word, in no particular order.      *)
(***************************************************************************)
EXTENDS Integers, Sequences

CONSTANTS Readers,    \* calls of Config() that may run at the same time
          Values,     \* what a word may hold
          Zero,       \* the zero value of every word
          Documents,  \* what the watcher may find in etcd
          MaxChanges  \* bound: the documents accepted in a behaviour

\* The struct: enable, num, and the data pointer and the length of str.
Words == {"Enable", "Num", "StrData", "StrLen"}

\* The key of a document that sets word w.
KeyOf == [Enable |-> "enable", Num |-> "num", StrData |-> "str", StrLen |-> "str"]

\* A document gives values to some keys; it is malformed if it is no JSON
\* object or if a value is of another type than its field.
Fields == UNION {[K -> Values] : K \in SUBSET {"enable", "num", "str"}}

ASSUME ValuesAssumption == Zero \in Values
ASSUME DocumentsAssumption == Documents \subseteq [fields : Fields, malformed : BOOLEAN]
ASSUME ChangesAssumption == MaxChanges \in Nat

VARIABLES mem,   \* the global dynamicConfig
          docs,  \* the accepted documents; the first stands for no document
          cfg,   \* the struct that Check returned last
          todo,  \* the words of cfg that Apply has still to write
          left,  \* left[r]: the words r has still to copy
          copy,  \* copy[r]: what r copied
          from   \* from[r]: the newest document in mem as a whole when r began

vars == <<mem, docs, cfg, todo, left, copy, from>>

Structs == [Words -> Values]

Unset == [w \in Words |-> Zero]

NoDocument == [fields |-> [k \in {} |-> Zero], malformed |-> FALSE]

Newest == Len(docs)

TypeOK ==
  /\ mem \in Structs
  /\ docs \in Seq(Documents \cup {NoDocument}) /\ Newest >= 1
  /\ cfg \in Structs
  /\ todo \in SUBSET Words
  /\ left \in [Readers -> SUBSET Words]
  /\ copy \in [Readers -> Structs]
  /\ from \in [Readers -> Nat \ {0}]

Init ==
  /\ mem = Unset
  /\ docs = <<NoDocument>>
  /\ cfg = Unset
  /\ todo = {}
  /\ left = [r \in Readers |-> {}]
  /\ copy = [r \in Readers |-> Unset]
  /\ from = [r \in Readers |-> 1]

\* json.Unmarshal of d into a struct that holds s: words without a key stay.
Unmarshal(d, s) ==
  [w \in Words |-> IF KeyOf[w] \in DOMAIN d.fields THEN d.fields[KeyOf[w]] ELSE s[w]]

\* Mutant: the document is read into the present configuration.
CheckMerging(d) == [ok |-> ~d.malformed, cfg |-> Unmarshal(d, mem)]

Check(d) == [ok |-> ~d.malformed, cfg |-> Unmarshal(d, Unset)]

\* The watcher is one goroutine: it takes up a document after the last Apply.
Watch ==
  /\ todo = {}
  /\ Newest <= MaxChanges
  /\ \E d \in Documents :
       /\ Check(d).ok
       /\ docs' = Append(docs, d)
       /\ cfg' = Check(d).cfg
       /\ todo' = Words
  /\ UNCHANGED <<mem, left, copy, from>>

Apply ==
  /\ \E w \in todo : mem' = [mem EXCEPT ![w] = cfg[w]] /\ todo' = todo \ {w}
  /\ UNCHANGED <<docs, cfg, left, copy, from>>

BeginConfig(r) ==
  /\ left[r] = {}
  /\ left' = [left EXCEPT ![r] = Words]
  /\ copy' = [copy EXCEPT ![r] = Unset]
  /\ from' = [from EXCEPT ![r] = IF todo = {} THEN Newest ELSE Newest - 1]
  /\ UNCHANGED <<mem, docs, cfg, todo>>

CopyWord(r) ==
  /\ \E w \in left[r] : /\ copy' = [copy EXCEPT ![r][w] = mem[w]]
                        /\ left' = [left EXCEPT ![r] = @ \ {w}]
  /\ UNCHANGED <<mem, docs, cfg, todo, from>>

Next == Watch \/ Apply \/ \E r \in Readers : BeginConfig(r) \/ CopyWord(r)

Spec == Init /\ [][Next]_vars

-----------------------------------------------------------------------------

\* The configuration that document d asks for: what it leaves out is zero.
Meaning(d, w) ==
  IF KeyOf[w] \in DOMAIN d.fields THEN d.fields[KeyOf[w]] ELSE Zero

\* Every word that Config() returns is one that a document asked for which was
\* in force during the call: never a word of an earlier document, never a left-
\* over of one.  So a call that no Apply overlaps returns the newest document,
\* and one that an Apply overlaps returns a mixture of the two.
WordsInForce ==
  \A r \in Readers : \A w \in Words \ left[r] :
     \E i \in from[r] .. Newest : copy[r][w] = Meaning(docs[i], w)
=============================================================================
