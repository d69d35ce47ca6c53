---------------------------- MODULE RecordService ----------------------------
(***************************************************************************)
(* What the record API promises its clients, without pods, caches or SQL.  *)
(* A create takes effect at most once: between its call and its answer, or *)
(* later if it was answered with an error or its caller is gone.  A get is *)
(* answered from the table as it is, and "not found" only for a record     *)
(* that was not stored when the get was called.  A listing is a page of    *)
(* some state the table has been in, possibly an old one.                  *)
(***************************************************************************)
EXTENDS Records

CONSTANT Calls   \* the calls that may be open at the same time

VARIABLES rows,     \* the stored records
          history,  \* the states `rows' has been in
          late,     \* the uuids of creates that are over and may still take effect
          op,       \* op[c]: what call c is doing
          arg,      \* arg[c]: uuid to create, id to get, or listing
          began,    \* began[c]: the rows stored when c was called
          res       \* res[c]: the answer of c

vars == <<rows, history, late, op, arg, began, res>>

Init ==
  /\ rows = {}
  /\ history = {{}}
  /\ late = {}
  /\ op = [c \in Calls |-> "idle"]
  /\ arg = [c \in Calls |-> None]
  /\ began = [c \in Calls |-> {}]
  /\ res = [c \in Calls |-> Pending]

Fresh(i) ==
  i \notin rows \cup late /\ \A c \in Calls : op[c] = "create" => arg[c] # i

Call(c, o, a) ==
  /\ op[c] = "idle"
  /\ op' = [op EXCEPT ![c] = o]
  /\ arg' = [arg EXCEPT ![c] = a]
  /\ began' = [began EXCEPT ![c] = rows]
  /\ UNCHANGED <<rows, history, late, res>>

Invoke(c) ==
  \/ \E i \in IDs : Fresh(i) /\ Call(c, "create", i)
  \/ \E k \in GetKeys : Call(c, "get", k)
  \/ \E o \in Opts : Call(c, "list", o)

\* Call c is a create that has not taken effect.
Ineffective(c) == op[c] = "create" /\ res[c] = Pending /\ arg[c] \notin rows

Store(i) ==
  /\ rows' = rows \cup {i}
  /\ history' = history \cup {rows'}
  /\ UNCHANGED <<op, arg, began, res>>

TakeEffect(c) == Ineffective(c) /\ Store(arg[c]) /\ UNCHANGED late

\* The caller of this create has had an error, or is gone.
TakeEffectLate(i) == i \in late /\ Store(i) /\ late' = late \ {i}

Allowed(c, r) ==
  \/ r = Unavailable
  \/ op[c] = "create" /\ arg[c] \in rows /\ r = Rec(arg[c])
  \/ op[c] = "get" /\ arg[c] \in rows /\ r = Rec(arg[c])
  \/ op[c] = "get" /\ arg[c] \notin began[c] /\ r = NotFound
  \/ op[c] = "get" /\ arg[c] \notin IDs /\ r = Mistyped
  \/ op[c] = "list" /\ \E S \in history : \E P \in PageOf(S, arg[c]) : r = Page(P)

\* An error says nothing of the effect: there may be one yet.
Answer(c) ==
  /\ op[c] # "idle"
  /\ res[c] = Pending
  /\ \E r \in Results :
       /\ Allowed(c, r)
       /\ res' = [res EXCEPT ![c] = r]
       /\ \/ late' = late
          \/ r = Unavailable /\ Ineffective(c) /\ late' = late \cup {arg[c]}
  /\ UNCHANGED <<rows, history, op, arg, began>>

\* The calls of D are over: the call whose answer was taken, or those of a dead
\* pod, whose creates may still take effect.
End(D) ==
  /\ op' = [c \in Calls |-> IF c \in D THEN "idle" ELSE op[c]]
  /\ arg' = [c \in Calls |-> IF c \in D THEN None ELSE arg[c]]
  /\ began' = [c \in Calls |-> IF c \in D THEN {} ELSE began[c]]
  /\ res' = [c \in Calls |-> IF c \in D THEN Pending ELSE res[c]]
  /\ \E C \in SUBSET {c \in D : Ineffective(c)} : late' = late \cup {arg[c] : c \in C}
  /\ UNCHANGED <<rows, history>>

Next ==
  \/ \E c \in Calls : Invoke(c) \/ TakeEffect(c) \/ Answer(c)
  \/ \E i \in late : TakeEffectLate(i)
  \/ \E D \in SUBSET Calls : End(D)

Spec == Init /\ [][Next]_vars
=============================================================================
