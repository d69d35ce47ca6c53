--------------------------- MODULE RecordDAO_proofs ---------------------------
(***************************************************************************)
(* Theorems about RecordDAO for any number of pods, calls, records and     *)
(* listings: the type invariant, the coherence of the caches, the answers  *)
(* a client may get, and the implementation of RecordService.              *)
(***************************************************************************)
EXTENDS RecordDAO, TLAPS

-----------------------------------------------------------------------------
(* Facts about the values. *)

\* Two listings with one key are the same listing.
LEMMA KeyOfInjective ==
  ASSUME NEW o \in Opts, NEW n \in Opts, KeyOf(o) = KeyOf(n)
  PROVE  o = n
<1>1. o.Page = n.Page /\ o.Size = n.Size
  BY DEF KeyOf
<1>2. o \in [Size : Int, Page : Int] /\ n \in [Size : Int, Page : Int]
  BY OptsAssumption
<1> QED BY <1>1, <1>2

\* A page of a table holds rows of that table, so it is a value.
LEMMA PageIsValue ==
  ASSUME NEW S \in SUBSET IDs, NEW o, NEW P \in PageOf(S, o)
  PROVE  P \in SUBSET S /\ Page(P) \in Values
BY DEF PageOf, Values, Page

-----------------------------------------------------------------------------
(* The inductive invariant: what holds of each call between its steps, and *)
(* that the table is one of the states of its history.                     *)

Typed(c) ==
  /\ op[c] = "create" => arg[c] \in IDs
  /\ op[c] = "get" => arg[c] \in GetKeys
  /\ op[c] = "list" => arg[c] \in Opts

Control(c) ==
  /\ op[c] = "idle" <=> pc[c] = "idle"
  /\ op[c] = "create" => pc[c] \in {"insert", "inserted", "done"}
  /\ op[c] \in {"get", "list"} =>
       pc[c] \in {"local", "shared", "query", "refill", "copy", "done"}
  /\ pc[c] # "done" => res[c] = Pending
  /\ pc[c] \in {"refill", "copy"} => val[c] # None

Stored(c) ==
  /\ began[c] \subseteq rows
  /\ pc[c] = "inserted" => arg[c] \in rows

-----------------------------------------------------------------------------
(* Type correctness needs to know which arguments reach which step. *)

Shape == TypeOK /\ \A c \in Calls : Typed(c) /\ Control(c)

\* The initial state has the right shape.
LEMMA InitShape == Init => Shape
BY DEF Init, Shape, TypeOK, Typed, Control, Ops, Steps, Entries, Results

\* A lookup uses a key of the caches.
LEMMA KeyUsed ==
  ASSUME Shape, NEW c \in Calls, op[c] \in {"get", "list"}
  PROVE  CacheKey(c) \in Keys
BY DEF Shape, Typed, CacheKey, Keys, ListKeys

\* What the caches hold decodes to a result.
LEMMA Decoded ==
  ASSUME NEW c, NEW e \in Entries, e # None
  PROVE  Decode(c, e) \in Results
BY DEF Decode, Entries, Results, Errors

\* A lookup that goes on to a later step, or ends, keeps the shape.
LEMMA LookupShape ==
  ASSUME Shape, NEW c \in Calls, op[c] \in {"get", "list"},
         UNCHANGED <<rows, history, late, op, arg, began>>,
         local' \in [Pods -> [Keys -> Entries]],
         shared' \in [Keys -> Entries],
         \/ \E step \in {"shared", "query", "refill", "copy"}, v \in Entries :
              /\ Goto(c, step, v) /\ pc[c] # "done"
              /\ step \in {"refill", "copy"} => v # None
         \/ \E r \in Results : Finish(c, r)
  PROVE  Shape'
<1> USE DEF Shape, TypeOK, Typed, Control
<1>1. CASE \E step \in {"shared", "query", "refill", "copy"}, v \in Entries :
              /\ Goto(c, step, v) /\ pc[c] # "done"
              /\ step \in {"refill", "copy"} => v # None
  BY <1>1 DEF Goto, Steps
<1>2. CASE \E r \in Results : Finish(c, r)
  BY <1>2 DEF Finish, Steps, Entries
<1> QED BY <1>1, <1>2

\* Each step of a call keeps types and control in shape.
LEMMA StepShape ==
  ASSUME Shape, NEW c \in Calls, Step(c)
  PROVE  Shape'
<1> USE DEF Shape, TypeOK, Typed, Control
<1>1. CASE InsertCommits(c)
  <2>1. arg[c] \in IDs
    BY <1>1 DEF InsertCommits, Ops
  <2>2. rows' \in SUBSET IDs /\ history' \in SUBSET SUBSET IDs
    BY <1>1, <2>1 DEF InsertCommits, Commit
  <2> QED BY <1>1, <2>2 DEF InsertCommits, Goto, Steps, Entries, Ops
<1>2. CASE InsertFails(c)
  <2>1. arg[c] \in IDs
    BY <1>2 DEF InsertFails, Ops
  <2>2. late' \in SUBSET IDs
    BY <1>2, <2>1 DEF InsertFails
  <2> QED BY <1>2, <2>2 DEF InsertFails, Finish, Steps, Entries, Results, Errors
<1>3. CASE InsertReplies(c)
  <2>1. arg[c] \in IDs
    BY <1>3 DEF InsertReplies, Ops
  <2>2. PICK r \in {Rec(arg[c]), Unavailable} : Finish(c, r)
    BY <1>3 DEF InsertReplies
  <2>3. r \in Results
    BY <2>1 DEF Results, Values, Errors
  <2> QED BY <1>3, <2>1, <2>2, <2>3 DEF InsertReplies, Finish, Steps, Entries
<1>4. CASE LoadLocal(c)
  <2>1. op[c] \in {"get", "list"}
    BY <1>4 DEF LoadLocal, Ops
  <2>2. local[PodOf[c]][CacheKey(c)] \in Entries
    BY <2>1, KeyUsed, PodOfAssumption
  <2>3. None \in Entries
    BY DEF Entries
  <2> QED BY <1>4, <2>1, <2>2, <2>3, Decoded, LookupShape DEF LoadLocal
<1>5. CASE LoadShared(c)
  <2>1. op[c] \in {"get", "list"}
    BY <1>5 DEF LoadShared, Ops
  <2>2. shared[CacheKey(c)] \in Entries
    BY <2>1, KeyUsed
  <2>3. None \in Entries /\ Unavailable \in Results
    BY DEF Entries, Results, Errors
  <2> QED BY <1>5, <2>1, <2>2, <2>3, LookupShape DEF LoadShared
<1>6. CASE Query(c)
  <2>1. op[c] \in {"get", "list"}
    BY <1>6 DEF Query, Ops
  <2>2. \A v \in Selected(c) : v \in Entries /\ v # None
    BY PageIsValue DEF Selected, Entries, Values, Rec, Page, None
  <2>3. NotFound \in Results /\ Unavailable \in Results
    BY DEF Results, Errors
  <2> QED BY <1>6, <2>1, <2>2, <2>3, LookupShape DEF Query
<1>7. CASE Refill(c)
  BY <1>7 DEF Refill, Goto, Finish, Steps, Entries, Results, Errors
<1>8. CASE Copy(c)
  <2>1. op[c] \in {"get", "list"}
    BY <1>8 DEF Copy, Ops
  <2>2. val[c] \in Entries /\ val[c] # None
    BY <1>8 DEF Copy
  <2> QED BY <1>8, <2>1, <2>2, Decoded, LookupShape DEF Copy
<1> QED BY <1>1, <1>2, <1>3, <1>4, <1>5, <1>6, <1>7, <1>8 DEF Step, CacheStep

\* A call begins with the argument its operation takes.
LEMMA BeginShape ==
  ASSUME Shape, NEW c \in Calls,
         CreateRecord(c) \/ GetRecord(c) \/ ListRecords(c)
  PROVE  Shape'
<1> USE DEF Shape, TypeOK, Typed, Control, Begin, Ops, Steps, Keys
<1>1. CASE CreateRecord(c)
  <2>1. PICK i \in IDs : Begin(c, "create", i, "insert")
    BY <1>1 DEF CreateRecord
  <2> QED BY <2>1
<1>2. CASE GetRecord(c)
  <2>1. PICK k \in GetKeys : Begin(c, "get", k, "local")
    BY <1>2 DEF GetRecord
  <2> QED BY <2>1
<1>3. CASE ListRecords(c)
  <2>1. PICK o \in Opts : Begin(c, "list", o, "local")
    BY <1>3 DEF ListRecords
  <2> QED BY <2>1
<1> QED BY <1>1, <1>2, <1>3

\* A call ends, a pod restarts.
LEMMA EndShape ==
  ASSUME Shape,
         \/ \E c \in Calls : Return(c)
         \/ \E p \in Pods : Restart(p)
  PROVE  Shape'
<1> USE DEF Shape, TypeOK, Typed, Control, Reset, Ops, Steps, Entries, Results
<1>1. CASE \E c \in Calls : Return(c)
  BY <1>1 DEF Return
<1>2. CASE \E p \in Pods : Restart(p)
  <2>1. PICK p \in Pods : Restart(p)
    BY <1>2
  <2>2. \A c \in Calls : pc[c] = "insert" => arg[c] \in IDs
    OBVIOUS
  <2>3. late' \in SUBSET IDs
    BY <2>1, <2>2 DEF Restart
  <2> QED BY <2>1, <2>3 DEF Restart
<1> QED BY <1>1, <1>2

\* Calls, expiry and restarts keep types and control in shape.
LEMMA NextShape == Shape /\ [Next]_vars => Shape'
<1> SUFFICES ASSUME Shape, [Next]_vars
             PROVE  Shape'
  OBVIOUS
<1>1. CASE \E c \in Calls : CreateRecord(c) \/ GetRecord(c) \/ ListRecords(c)
  BY <1>1, BeginShape
<1>2. CASE \E c \in Calls : Step(c)
  BY <1>2, StepShape
<1>3. CASE (\E c \in Calls : Return(c)) \/ (\E p \in Pods : Restart(p))
  BY <1>3, EndShape
<1>4. CASE \E k \in Keys : ExpireShared(k) \/ \E p \in Pods : ExpireLocal(p, k)
  <2>1. UNCHANGED <<clientVars, pc, val>>
    BY <1>4 DEF ExpireShared, ExpireLocal
  <2>2. shared' \in [Keys -> Entries] /\ local' \in [Pods -> [Keys -> Entries]]
    <3>1. None \in Entries
      BY DEF Entries
    <3>2. ASSUME NEW k \in Keys, ExpireShared(k)
          PROVE  shared' \in [Keys -> Entries] /\ local' = local
      BY <3>1, <3>2 DEF Shape, TypeOK, ExpireShared
    <3>3. ASSUME NEW k \in Keys, NEW p \in Pods, ExpireLocal(p, k)
          PROVE  shared' = shared /\ local' \in [Pods -> [Keys -> Entries]]
      BY <3>1, <3>3 DEF Shape, TypeOK, ExpireLocal
    <3> QED BY <1>4, <3>2, <3>3 DEF Shape, TypeOK
  <2> QED BY <2>1, <2>2 DEF Shape, TypeOK, Typed, Control, clientVars
<1>5. CASE \E i \in IDs : LateCommit(i)
  BY <1>5 DEF Shape, TypeOK, Typed, Control, LateCommit, Commit
<1>6. CASE UNCHANGED vars
  BY <1>6 DEF vars, clientVars, Shape, TypeOK, Typed, Control
<1> QED BY <1>1, <1>2, <1>3, <1>4, <1>5, <1>6 DEF Next

\* Every reachable state has the right shape.
THEOREM ShapeInvariant == Spec => []Shape
<1> QED BY InitShape, NextShape, PTL DEF Spec

\* Every variable keeps its type, whatever the number of pods and calls.
THEOREM TypeCorrect == Spec => []TypeOK
<1>1. Shape => TypeOK
  BY DEF Shape
<1> QED BY <1>1, ShapeInvariant, PTL

-----------------------------------------------------------------------------
(* The caches.  A value is coherent for ever once it was read from the     *)
(* table, because rows and history only grow, and it travels between the   *)
(* caches under the key it was read for.                                   *)

CacheInv ==
  /\ Shape
  /\ \A c \in Calls : Stored(c)
  /\ rows \in history
  /\ CachesCoherent

\* The empty caches are coherent.
LEMMA InitCaches == Init => CacheInv
<1> SUFFICES ASSUME Init PROVE CacheInv
  OBVIOUS
<1>1. Shape
  BY InitShape
<1> QED BY <1>1 DEF Init, CacheInv, Stored, CachesCoherent, Coherent

\* A value that was coherent stays so when the table grows: rows are only appended.
LEMMA CoherentGrows ==
  ASSUME rows \subseteq rows', history \subseteq history',
         NEW k, NEW e, Coherent(k, e)
  PROVE  Coherent(k, e)'
BY DEF Coherent

\* What a SELECT returns is coherent with the key of its call.
LEMMA SelectedCoherent ==
  ASSUME CacheInv, NEW c \in Calls, op[c] \in {"get", "list"},
         NEW v \in Selected(c)
  PROVE  Coherent(CacheKey(c), v)
<1>1. CASE op[c] = "get"
  BY <1>1 DEF Selected, CacheKey, Coherent
<1>2. CASE op[c] = "list"
  <2>1. arg[c] \in Opts /\ CacheKey(c) = KeyOf(arg[c])
    BY <1>2 DEF CacheInv, Shape, Typed, CacheKey
  <2>2. \A o \in Opts : CacheKey(c) = KeyOf(o) => o = arg[c]
    BY <2>1, KeyOfInjective
  <2>3. \E P \in PageOf(rows, arg[c]) : v = Page(P)
    BY <1>2 DEF Selected
  <2> QED BY <2>1, <2>2, <2>3 DEF CacheInv, Coherent, ListKeys
<1> QED BY <1>1, <1>2

\* Each step of a call keeps the caches, and what calls carry to them, coherent.
LEMMA StepCaches ==
  ASSUME CacheInv, Shape', NEW c \in Calls, Step(c)
  PROVE  CacheInv'
<1>1. rows \subseteq rows' /\ history \subseteq history' /\ rows' \in history'
  BY DEF CacheInv, Step, InsertCommits, InsertFails, InsertReplies, LoadLocal,
         LoadShared, Query, Refill, Copy, CacheStep, Commit
<1>2. UNCHANGED <<op, arg, began>>
  BY DEF Step, InsertCommits, InsertFails, InsertReplies, LoadLocal,
         LoadShared, Query, Refill, Copy, CacheStep, Commit
<1>3. ASSUME NEW d \in Calls PROVE Stored(d)'
  BY <1>1, <1>2 DEF CacheInv, Shape, TypeOK, Stored, Step, InsertCommits,
     InsertFails, InsertReplies, LoadLocal, LoadShared, Query, Refill, Copy, CacheStep, Commit,
     Goto, Finish
<1>4. ASSUME NEW k \in Keys PROVE Coherent(k, shared[k])'
  <2>1. \/ shared'[k] = shared[k]
        \/ Refill(c) /\ k = CacheKey(c) /\ shared'[k] = val[c]
    BY DEF Step, InsertCommits, InsertFails, InsertReplies, LoadLocal,
           LoadShared, Query, Refill, Copy, CacheStep, Commit, CacheInv, Shape, TypeOK
  <2>2. Coherent(k, shared[k])
    BY DEF CacheInv, CachesCoherent
  <2>3. Refill(c) => Coherent(CacheKey(c), val[c])
    BY DEF CacheInv, CachesCoherent, Refill
  <2> QED BY <1>1, <2>1, <2>2, <2>3, CoherentGrows DEF Coherent
<1>5. ASSUME NEW p \in Pods, NEW k \in Keys PROVE Coherent(k, local[p][k])'
  <2>1. \/ local'[p][k] = local[p][k]
        \/ Copy(c) /\ k = CacheKey(c) /\ local'[p][k] = val[c]
    BY DEF Step, InsertCommits, InsertFails, InsertReplies, LoadLocal,
           LoadShared, Query, Refill, Copy, CacheStep, Commit, CacheInv, Shape, TypeOK
  <2>2. Coherent(k, local[p][k])
    BY DEF CacheInv, CachesCoherent
  <2>3. Copy(c) => Coherent(CacheKey(c), val[c])
    BY DEF CacheInv, CachesCoherent, Copy
  <2> QED BY <1>1, <2>1, <2>2, <2>3, CoherentGrows DEF Coherent
<1>6. ASSUME NEW d \in Calls, pc'[d] \in {"refill", "copy"}
      PROVE  Coherent(CacheKey(d), val[d])'
  <2>1. CacheKey(d)' = CacheKey(d)
    BY <1>2 DEF CacheKey
  <2>2. \/ pc[d] \in {"refill", "copy"} /\ val'[d] = val[d]
        \/ LoadShared(d) /\ val'[d] = shared[CacheKey(d)]
        \/ Query(d) /\ val'[d] \in Selected(d)
    BY <1>6 DEF Step, InsertCommits, InsertFails, InsertReplies, LoadLocal,
           LoadShared, Query, Refill, Copy, CacheStep, Commit, Goto, Finish, CacheInv, Shape, TypeOK
  <2>3. pc[d] \in {"shared", "query"} => op[d] \in {"get", "list"}
    BY DEF CacheInv, Shape, TypeOK, Control, Ops
  <2>4. Coherent(CacheKey(d), val'[d])
    <3>1. CASE pc[d] \in {"refill", "copy"} /\ val'[d] = val[d]
      BY <3>1 DEF CacheInv, CachesCoherent
    <3>2. CASE LoadShared(d) /\ val'[d] = shared[CacheKey(d)]
      BY <2>3, <3>2, KeyUsed DEF CacheInv, CachesCoherent, LoadShared
    <3>3. CASE Query(d) /\ val'[d] \in Selected(d)
      BY <2>3, <3>3, SelectedCoherent DEF Query
    <3> QED BY <2>2, <3>1, <3>2, <3>3
  <2> QED BY <1>1, <2>1, <2>4 DEF Coherent
<1> QED BY <1>1, <1>3, <1>4, <1>5, <1>6 DEF CacheInv, CachesCoherent

\* A call that begins caches nothing yet.
LEMMA BeginCaches ==
  ASSUME CacheInv, Shape', NEW c \in Calls,
         CreateRecord(c) \/ GetRecord(c) \/ ListRecords(c)
  PROVE  CacheInv'
<1>1. PICK o, a : Begin(c, o, a, "insert") \/ Begin(c, o, a, "local")
  BY Zenon DEF CreateRecord, GetRecord, ListRecords
<1>2. \A d \in Calls : Stored(d)'
  BY <1>1 DEF CacheInv, Shape, TypeOK, Stored, Begin
<1>3. ASSUME NEW d \in Calls, pc'[d] \in {"refill", "copy"}
      PROVE  Coherent(CacheKey(d), val[d])'
  <2>1. d # c
    BY <1>1, <1>3 DEF Begin, CacheInv, Shape, TypeOK
  <2>2. pc[d] = pc'[d] /\ CacheKey(d)' = CacheKey(d)
    BY <1>1, <2>1 DEF Begin, CacheInv, Shape, TypeOK, CacheKey
  <2> QED BY <1>1, <1>3, <2>2 DEF Begin, CacheInv, CachesCoherent, Coherent
<1>4. /\ \A k \in Keys : Coherent(k, shared[k])'
      /\ \A p \in Pods, k \in Keys : Coherent(k, local[p][k])'
  BY <1>1 DEF Begin, CacheInv, CachesCoherent, Coherent
<1> QED BY <1>1, <1>2, <1>3, <1>4 DEF Begin, CacheInv, CachesCoherent

\* The end of calls and the loss of a local cache only drop values.
LEMMA EndCaches ==
  ASSUME CacheInv, Shape',
         \/ \E c \in Calls : Return(c)
         \/ \E p \in Pods : Restart(p)
  PROVE  CacheInv'
<1>1. UNCHANGED <<rows, history, shared>>
  BY DEF Return, Restart
<1>2. PICK D \in SUBSET Calls : Reset(D) /\ \A d \in Calls \ D : op'[d] = op[d]
  <2>1. ASSUME NEW c \in Calls, Return(c)
        PROVE  \E D \in SUBSET Calls : Reset(D) /\ \A d \in Calls \ D : op'[d] = op[d]
    BY <2>1 DEF Return, CacheInv, Shape, TypeOK
  <2>2. ASSUME NEW p \in Pods, Restart(p)
        PROVE  \E D \in SUBSET Calls : Reset(D) /\ \A d \in Calls \ D : op'[d] = op[d]
    BY <2>2 DEF Restart
  <2> QED BY <2>1, <2>2
<1>3. \A d \in Calls : Stored(d)'
  BY <1>1, <1>2 DEF Reset, Stored, CacheInv
<1>4. ASSUME NEW d \in Calls, pc'[d] \in {"refill", "copy"}
      PROVE  Coherent(CacheKey(d), val[d])'
  <2>1. d \notin D /\ pc[d] = pc'[d] /\ val'[d] = val[d]
    BY <1>2, <1>4 DEF Reset
  <2>2. CacheKey(d)' = CacheKey(d)
    BY <1>2, <1>4, <2>1 DEF Reset, CacheKey
  <2> QED BY <1>1, <1>4, <2>1, <2>2 DEF CacheInv, CachesCoherent, Coherent
<1>5. ASSUME NEW k \in Keys PROVE Coherent(k, shared[k])'
  BY <1>1 DEF CacheInv, CachesCoherent, Coherent
<1>6. ASSUME NEW p \in Pods, NEW k \in Keys PROVE Coherent(k, local[p][k])'
  <2>1. local'[p][k] = local[p][k] \/ local'[p][k] = None
    <3>1. CASE UNCHANGED local
      BY <3>1
    <3>2. ASSUME NEW q \in Pods, local' = [local EXCEPT ![q] = [j \in Keys |-> None]]
          PROVE  local'[p][k] = local[p][k] \/ local'[p][k] = None
      BY <3>2 DEF CacheInv, Shape, TypeOK
    <3> QED BY <3>1, <3>2 DEF Return, Restart
  <2> QED BY <1>1, <2>1 DEF CacheInv, CachesCoherent, Coherent
<1> QED BY <1>1, <1>3, <1>4, <1>5, <1>6 DEF CacheInv, CachesCoherent

\* Dropping entries keeps the caches coherent.
LEMMA ExpiryCaches ==
  ASSUME CacheInv, Shape', NEW k \in Keys,
         ExpireShared(k) \/ \E p \in Pods : ExpireLocal(p, k)
  PROVE  CacheInv'
<1> USE DEF ExpireShared, ExpireLocal, clientVars
<1>1. UNCHANGED <<clientVars, pc, val>>
  OBVIOUS
<1>2. ASSUME NEW j \in Keys PROVE Coherent(j, shared[j])'
  <2>1. shared'[j] = shared[j] \/ shared'[j] = None
    BY DEF CacheInv, Shape, TypeOK
  <2> QED BY <1>1, <2>1 DEF CacheInv, CachesCoherent, Coherent
<1>3. ASSUME NEW p \in Pods, NEW j \in Keys PROVE Coherent(j, local[p][j])'
  <2>1. local'[p][j] = local[p][j] \/ local'[p][j] = None
    BY DEF CacheInv, Shape, TypeOK
  <2> QED BY <1>1, <2>1 DEF CacheInv, CachesCoherent, Coherent
<1>4. ASSUME NEW d \in Calls, pc'[d] \in {"refill", "copy"}
      PROVE  Coherent(CacheKey(d), val[d])'
  BY <1>1, <1>4 DEF CacheInv, CachesCoherent, Coherent, CacheKey
<1> QED BY <1>1, <1>2, <1>3, <1>4 DEF CacheInv, CachesCoherent, Stored

\* The table grows, and no cache changes.
LEMMA LateCaches ==
  ASSUME CacheInv, Shape', NEW i \in IDs, LateCommit(i)
  PROVE  CacheInv'
<1>1. /\ UNCHANGED <<op, arg, began, pc, val, local, shared>>
      /\ rows \subseteq rows' /\ history \subseteq history' /\ rows' \in history'
  BY DEF LateCommit, Commit
<1>2. \A k, e : Coherent(k, e) => Coherent(k, e)'
  BY <1>1, CoherentGrows
<1>3. \A c \in Calls : CacheKey(c)' = CacheKey(c) /\ Stored(c)'
  BY <1>1 DEF CacheKey, CacheInv, Stored
<1>4. CachesCoherent'
  BY <1>1, <1>2, <1>3 DEF CacheInv, CachesCoherent, Coherent
<1> QED BY <1>1, <1>3, <1>4 DEF CacheInv

\* Calls, expiry and restarts keep the caches coherent.
LEMMA NextCaches == CacheInv /\ [Next]_vars => CacheInv'
<1> SUFFICES ASSUME CacheInv, [Next]_vars
             PROVE  CacheInv'
  OBVIOUS
<1>0. Shape'
  BY NextShape DEF CacheInv
<1>1. CASE \E c \in Calls : CreateRecord(c) \/ GetRecord(c) \/ ListRecords(c)
  BY <1>0, <1>1, BeginCaches
<1>2. CASE \E c \in Calls : Step(c)
  BY <1>0, <1>2, StepCaches
<1>3. CASE (\E c \in Calls : Return(c)) \/ (\E p \in Pods : Restart(p))
  BY <1>0, <1>3, EndCaches
<1>4. CASE \E k \in Keys : ExpireShared(k) \/ \E p \in Pods : ExpireLocal(p, k)
  BY <1>0, <1>4, ExpiryCaches
<1>5. CASE \E i \in IDs : LateCommit(i)
  BY <1>0, <1>5, LateCaches
<1>6. CASE UNCHANGED vars
  BY <1>0, <1>6 DEF vars, clientVars, CacheInv, Stored, CachesCoherent, Coherent,
                    CacheKey
<1> QED BY <1>1, <1>2, <1>3, <1>4, <1>5, <1>6 DEF Next

\* In every reachable state the caches are coherent.
THEOREM CacheInvariant == Spec => []CacheInv
<1> QED BY InitCaches, NextCaches, PTL DEF Spec

\* No cache ever holds, and no call is about to cache, a value that is not one
\* the getter of its key could have returned.
THEOREM CachesStayCoherent == Spec => []CachesCoherent
<1>1. CacheInv => CachesCoherent
  BY DEF CacheInv
<1> QED BY <1>1, CacheInvariant, PTL

-----------------------------------------------------------------------------
(* The answers.                                                            *)

\* The service and its implementation speak of the same pages and answers.
LEMMA SamePages ==
  ASSUME NEW S, NEW o
  PROVE  Service!PageOf(S, o) = PageOf(S, o)
BY DEF PageOf, Service!PageOf, PageLen, Service!PageLen, Limited, Service!Limited,
       Offset, Service!Offset, Cardinality, Service!Cardinality

\* What was an allowed answer stays one: rows and history only grow.
LEMMA AllowedGrows ==
  ASSUME NEW c, UNCHANGED <<op[c], arg[c], began[c]>>,
         rows \subseteq rows', history \subseteq history',
         NEW r, Service!Allowed(c, r)
  PROVE  Service!Allowed(c, r)'
BY DEF Service!Allowed

\* What the entry of its key decodes to is an allowed answer for a lookup.
LEMMA DecodedAllowed ==
  ASSUME CacheInv, NEW c \in Calls, op[c] \in {"get", "list"},
         NEW e \in Entries, e # None, Coherent(CacheKey(c), e)
  PROVE  Service!Allowed(c, Decode(c, e))
<1>1. CASE op[c] = "get"
  <2>1. arg[c] \in GetKeys /\ CacheKey(c) = arg[c]
    BY <1>1 DEF CacheInv, Shape, Typed, CacheKey
  <2>2. CASE arg[c] \in rows /\ e = Rec(arg[c])
    BY <1>1, <2>2 DEF Decode, Rec, Service!Allowed, Service!Rec
  <2>3. CASE arg[c] \in ListKeys /\ arg[c] \notin rows
    <3>1. PICK o \in Opts : arg[c] = KeyOf(o)
      BY <2>3 DEF ListKeys
    <3>2. \E S \in history : \E P \in PageOf(S, o) : e = Page(P)
      BY <2>1, <2>3, <3>1 DEF Coherent
    <3>3. Decode(c, e) = Mistyped
      BY <1>1, <3>2 DEF Decode, Page
    <3>4. arg[c] \notin IDs
      BY <2>3, KeysAssumption
    <3> QED BY <1>1, <3>3, <3>4 DEF Service!Allowed, Service!Mistyped, Mistyped
  <2>4. rows \cap ListKeys = {}
    BY KeysAssumption DEF CacheInv, Shape, TypeOK
  <2> QED BY <2>1, <2>2, <2>3, <2>4 DEF Coherent
<1>2. CASE op[c] = "list"
  <2>1. arg[c] \in Opts /\ CacheKey(c) = KeyOf(arg[c])
    BY <1>2 DEF CacheInv, Shape, Typed, CacheKey
  <2>2. CacheKey(c) \notin rows
    BY <2>1, KeysAssumption DEF ListKeys, CacheInv, Shape, TypeOK
  <2>3. PICK S \in history : \E P \in PageOf(S, arg[c]) : e = Page(P)
    BY <2>1, <2>2 DEF Coherent
  <2>4. Decode(c, e) = e
    BY <1>2, <2>3 DEF Decode, Page
  <2> QED BY <1>2, <2>3, <2>4, SamePages DEF Service!Allowed, Service!Page, Page
<1> QED BY <1>1, <1>2

AnswerInv == CacheInv /\ AnswersAllowed

\* A step of a call leaves it without an answer or gives it an allowed one.
LEMMA StepAnswers ==
  ASSUME CacheInv, NEW c \in Calls, Step(c)
  PROVE  \/ res' = res
         \/ /\ UNCHANGED <<rows, history>>
            /\ pc[c] # "done"
            /\ \E r \in Results : Service!Allowed(c, r) /\ res' = [res EXCEPT ![c] = r]
<1> DEFINE Answers(r) == /\ r \in Results
                         /\ Service!Allowed(c, r)
                         /\ res' = [res EXCEPT ![c] = r]
<1> USE DEF Finish, Goto
<1>1. Service!Allowed(c, Unavailable) /\ Unavailable \in Results
  BY DEF Service!Allowed, Service!Unavailable, Unavailable, Results, Errors
<1>2. op[c] \in Ops /\ Typed(c) /\ Control(c) /\ Stored(c)
  BY DEF CacheInv, Shape, TypeOK
<1>3. CASE InsertCommits(c)
  BY <1>3 DEF InsertCommits
<1>4. CASE InsertFails(c)
  BY <1>1, <1>4 DEF InsertFails
<1>5. CASE InsertReplies(c)
  <2>1. op[c] = "create" /\ arg[c] \in rows /\ arg[c] \in IDs
    BY <1>2, <1>5 DEF InsertReplies, Ops, Control, Stored, Typed
  <2>2. Service!Allowed(c, Rec(arg[c])) /\ Rec(arg[c]) \in Results
    BY <2>1 DEF Service!Allowed, Service!Rec, Rec, Results, Values
  <2> QED BY <1>1, <1>5, <2>1, <2>2 DEF InsertReplies
<1>6. CASE LoadLocal(c)
  <2> DEFINE e == local[PodOf[c]][CacheKey(c)]
  <2>1. op[c] \in {"get", "list"}
    BY <1>2, <1>6 DEF LoadLocal, Ops, Control
  <2>2. e \in Entries /\ Coherent(CacheKey(c), e)
    BY <2>1, KeyUsed, PodOfAssumption DEF CacheInv, CachesCoherent, Shape, TypeOK
  <2>3. e # None => Service!Allowed(c, Decode(c, e)) /\ Decode(c, e) \in Results
    BY <2>1, <2>2, DecodedAllowed, Decoded
  <2> QED BY <1>6, <2>1, <2>3 DEF LoadLocal
<1>7. CASE LoadShared(c)
  BY <1>1, <1>2, <1>7 DEF LoadShared, Control, Ops
<1>8. CASE Query(c)
  <2>1. ASSUME op[c] = "get", Selected(c) = {}
        PROVE  Service!Allowed(c, NotFound) /\ NotFound \in Results
    <3>1. arg[c] \notin rows
      BY <2>1 DEF Selected
    <3> QED BY <1>2, <2>1, <3>1 DEF Service!Allowed, Service!NotFound, NotFound,
                                    Results, Stored
  <2> QED BY <1>1, <1>2, <1>8, <2>1 DEF Query, Control, Ops
<1>9. CASE Refill(c)
  BY <1>1, <1>2, <1>9 DEF Refill, Control, Ops
<1>10. CASE Copy(c)
  <2>1. op[c] \in {"get", "list"}
    BY <1>2, <1>10 DEF Copy, Ops, Control
  <2>2. val[c] \in Entries /\ val[c] # None /\ Coherent(CacheKey(c), val[c])
    BY <1>2, <1>10 DEF Copy, CacheInv, CachesCoherent, Shape, TypeOK, Control
  <2>3. Service!Allowed(c, Decode(c, val[c])) /\ Decode(c, val[c]) \in Results
    BY <2>1, <2>2, DecodedAllowed, Decoded
  <2> QED BY <1>10, <2>1, <2>3 DEF Copy
<1> QED BY <1>3, <1>4, <1>5, <1>6, <1>7, <1>8, <1>9, <1>10 DEF Step, CacheStep

\* Answers once given stay allowed; new ones are allowed.
LEMMA NextAnswers == AnswerInv /\ [Next]_vars => AnswerInv'
<1> SUFFICES ASSUME AnswerInv, [Next]_vars
             PROVE  AnswerInv'
  OBVIOUS
<1> USE DEF AnswerInv
<1>1. CacheInv' /\ Shape'
  BY NextCaches DEF CacheInv
<1> SUFFICES AnswersAllowed'
  BY <1>1
<1>2. ASSUME UNCHANGED <<op, arg, began, res>>,
             rows \subseteq rows', history \subseteq history'
      PROVE  AnswersAllowed'
  BY <1>2, AllowedGrows DEF AnswersAllowed, Service!Allowed
<1>3. CASE \E c \in Calls : CreateRecord(c) \/ GetRecord(c) \/ ListRecords(c)
  <2>1. PICK c \in Calls : \E o, a : Begin(c, o, a, "insert") \/ Begin(c, o, a, "local")
    BY Zenon, <1>3 DEF CreateRecord, GetRecord, ListRecords
  <2>2. res[c] = Pending /\ UNCHANGED <<rows, history, res>>
    BY <2>1 DEF Begin, CacheInv, Shape, Control
  <2>3. ASSUME NEW d \in Calls \ {c} PROVE UNCHANGED <<op[d], arg[d], began[d]>>
    BY <2>1 DEF Begin, CacheInv, Shape, TypeOK
  <2> QED BY <2>2, <2>3 DEF AnswersAllowed, Service!Allowed
<1>4. CASE \E c \in Calls : Step(c)
  <2>1. PICK c \in Calls : Step(c)
    BY <1>4
  <2>2. rows \subseteq rows' /\ history \subseteq history' /\ UNCHANGED <<op, arg, began>>
    BY <2>1 DEF Step, InsertCommits, InsertFails, InsertReplies, LoadLocal,
           LoadShared, Query, Refill, Copy, CacheStep, Commit
  <2>3. CASE res' = res
    BY <1>2, <2>2, <2>3
  <2>4. ASSUME UNCHANGED <<rows, history>>,
               NEW r \in Results, Service!Allowed(c, r), res' = [res EXCEPT ![c] = r]
        PROVE  AnswersAllowed'
    BY <2>2, <2>4 DEF AnswersAllowed, Service!Allowed, CacheInv, Shape, TypeOK
  <2> QED BY <2>1, <2>3, <2>4, StepAnswers
<1>5. CASE (\E c \in Calls : Return(c)) \/ (\E p \in Pods : Restart(p))
  <2>1. UNCHANGED <<rows, history>>
    BY <1>5 DEF Return, Restart
  <2>2. ASSUME NEW d \in Calls
        PROVE  \/ res'[d] = Pending
               \/ UNCHANGED <<op[d], arg[d], began[d], res[d]>>
    BY <1>5 DEF Return, Restart, Reset, CacheInv, Shape, TypeOK, Control
  <2> QED BY <2>1, <2>2 DEF AnswersAllowed, Service!Allowed
<1>6. CASE \E i \in IDs : LateCommit(i)
  BY <1>2, <1>6 DEF LateCommit, Commit
<1>7. CASE UNCHANGED clientVars
  BY <1>2, <1>7 DEF clientVars
<1> QED BY <1>1, <1>3, <1>4, <1>5, <1>6, <1>7
        DEF Next, vars, ExpireShared, ExpireLocal

\* In every reachable state each answer, given or under way, is an allowed one.
THEOREM AnswerInvariant == Spec => []AnswerInv
<1>1. Init => AnswerInv
  BY InitCaches DEF AnswerInv, AnswersAllowed, Init
<1> QED BY <1>1, NextAnswers, PTL DEF Spec

\* Every answer is one the service promises: in particular a get by uuid is
\* "not found" only for a record that was not stored when it was called.
THEOREM AnswersAreAllowed == Spec => []AnswersAllowed
<1>1. AnswerInv => AnswersAllowed
  BY DEF AnswerInv
<1> QED BY <1>1, AnswerInvariant, PTL

-----------------------------------------------------------------------------
(* The implementation.  A create takes effect when its INSERT commits; the *)
(* steps of a lookup that give no answer are steps the service cannot see. *)

\* An id is inserted at most once: an INSERT that may still be executed carries an
\* id that no row has and no other such INSERT carries.
UniqueInv ==
  /\ rows \cap late = {}
  /\ \A c \in Calls : pc[c] = "insert" =>
       /\ arg[c] \notin rows \cup late
       /\ \A d \in Calls \ {c} : op[d] = "create" => arg[c] # arg[d]

\* Every step keeps the ids of INSERTs apart.
LEMMA NextUnique == Shape /\ UniqueInv /\ [Next]_vars => UniqueInv'
<1> SUFFICES ASSUME Shape, UniqueInv, [Next]_vars
             PROVE  UniqueInv'
  OBVIOUS
<1> USE DEF UniqueInv
<1>0. \A c \in Calls : pc[c] = "insert" => op[c] = "create"
  BY DEF Shape, TypeOK, Control, Ops
<1>1. ASSUME NEW c \in Calls, CreateRecord(c)
      PROVE  UniqueInv'
  <2>1. PICK i \in IDs : NewID(i) /\ Begin(c, "create", i, "insert")
    BY <1>1 DEF CreateRecord
  <2>2. UNCHANGED <<rows, late>> /\ i \notin rows \cup late
    BY <2>1 DEF NewID, Begin
  <2>3. ASSUME NEW d \in Calls
        PROVE  \/ d = c /\ arg'[d] = i
               \/ d # c /\ UNCHANGED <<pc[d], op[d], arg[d]>> /\ (op[d] = "create" => arg[d] # i)
    BY <2>1 DEF NewID, Begin, Shape, TypeOK
  <2>4. ASSUME NEW d \in Calls, pc'[d] = "insert", NEW e \in Calls \ {d}, op'[e] = "create"
        PROVE  arg'[d] # arg'[e]
    BY <1>0, <2>3, <2>4
  <2>5. \A d \in Calls : pc'[d] = "insert" => arg'[d] \notin rows \cup late
    BY <2>2, <2>3
  <2> QED BY <2>2, <2>4, <2>5
<1>2. ASSUME NEW c \in Calls, GetRecord(c) \/ ListRecords(c)
      PROVE  UniqueInv'
  <2>1. PICK a : Begin(c, "get", a, "local") \/ Begin(c, "list", a, "local")
    BY Zenon, <1>2 DEF GetRecord, ListRecords
  <2> QED BY <2>1 DEF Begin, Shape, TypeOK, Control
<1>3. ASSUME NEW c \in Calls, InsertCommits(c)
      PROVE  UniqueInv'
  BY <1>0, <1>3 DEF InsertCommits, Commit, Goto, Shape, TypeOK
<1>4. ASSUME NEW c \in Calls, InsertFails(c)
      PROVE  UniqueInv'
  BY <1>0, <1>4 DEF InsertFails, Finish, Shape, TypeOK
<1>5. ASSUME NEW c \in Calls, InsertReplies(c) \/ Query(c) \/ CacheStep(c)
      PROVE  UniqueInv'
  <2>1. UNCHANGED <<rows, late, op, arg>> /\ \A d \in Calls : pc'[d] = "insert" => pc[d] = "insert"
    BY <1>5 DEF InsertReplies, Query, CacheStep, LoadLocal, LoadShared, Refill, Copy,
                Goto, Finish, Shape, TypeOK
  <2> QED BY <2>1
<1>6. ASSUME NEW c \in Calls, Return(c)
      PROVE  UniqueInv'
  BY <1>6 DEF Return, Reset, Shape, TypeOK
<1>7. ASSUME NEW p \in Pods, Restart(p)
      PROVE  UniqueInv'
  BY <1>0, <1>7 DEF Restart, Reset, Shape, TypeOK
<1>8. ASSUME NEW i \in IDs, LateCommit(i)
      PROVE  UniqueInv'
  BY <1>8 DEF LateCommit, Commit
<1>9. CASE UNCHANGED <<clientVars, pc>>
  BY <1>9 DEF clientVars
<1> QED BY <1>1, <1>2, <1>3, <1>4, <1>5, <1>6, <1>7, <1>8, <1>9
        DEF Next, Step, vars, ExpireShared, ExpireLocal

\* No id is inserted twice.
THEOREM UniqueInvariant == Spec => []UniqueInv
<1>1. Init => UniqueInv
  BY DEF Init, UniqueInv
<1> QED BY <1>1, NextUnique, ShapeInvariant, PTL DEF Spec

\* The service and the DAO speak of the same records and pages.
LEMMA SameValues ==
  /\ Service!Pending = Pending /\ Service!None = None
  /\ Service!Results = Results
BY DEF Service!Pending, Pending, Service!None, None, Service!Results, Results,
       Service!Values, Values, Service!Errors, Errors,
       Service!Rec, Rec, Service!Page, Page, Service!NotFound, NotFound,
       Service!Unavailable, Unavailable, Service!Mistyped, Mistyped

\* The initial state is one of the service.
LEMMA InitService == Init => Service!Init
BY SameValues DEF Init, Service!Init

\* A call that begins is an Invoke of the service.
LEMMA BeginService ==
  ASSUME AnswerInv, NEW c \in Calls,
         CreateRecord(c) \/ GetRecord(c) \/ ListRecords(c)
  PROVE  Service!Invoke(c)
<1>1. ASSUME NEW o, NEW a, Begin(c, o, a, "insert") \/ Begin(c, o, a, "local")
      PROVE  Service!Call(c, o, a)
  BY <1>1 DEF Begin, Service!Call, AnswerInv, CacheInv, Shape, Control
<1>2. ASSUME NEW i \in IDs, NewID(i)
      PROVE  Service!Fresh(i)
  BY <1>2 DEF NewID, Service!Fresh
<1> QED BY <1>1, <1>2, SameValues
        DEF CreateRecord, GetRecord, ListRecords, Service!Invoke

\* A step of a call takes effect, answers, or is invisible to the clients.
LEMMA StepService ==
  ASSUME AnswerInv, UniqueInv, NEW c \in Calls, Step(c)
  PROVE  Service!TakeEffect(c) \/ Service!Answer(c) \/ UNCHANGED clientVars
<1> USE DEF AnswerInv
<1>0. op[c] \in Ops /\ Control(c)
  BY DEF CacheInv, Shape, TypeOK
<1>1. pc[c] = "insert" => Service!Ineffective(c)
  BY <1>0, SameValues DEF UniqueInv, Control, Ops, Service!Ineffective
<1>2. CASE InsertCommits(c)
  BY <1>1, <1>2 DEF InsertCommits, Goto, Commit, Service!TakeEffect, Service!Store
<1>3. CASE InsertFails(c)
  <2>1. op[c] # "idle" /\ res[c] = Service!Pending
    BY <1>0, <1>3, SameValues DEF InsertFails, Control, Ops
  <2>2. Service!Unavailable \in Service!Results /\ Service!Unavailable = Unavailable
    BY DEF Service!Results, Service!Errors, Service!Unavailable, Unavailable
  <2>3. Service!Allowed(c, Service!Unavailable)
    BY DEF Service!Allowed
  <2>4. late' = late \/ (Service!Ineffective(c) /\ late' = late \cup {arg[c]})
    BY <1>1, <1>3 DEF InsertFails
  <2>5. res' = [res EXCEPT ![c] = Service!Unavailable]
    BY <1>3, <2>2 DEF InsertFails, Finish
  <2>6. UNCHANGED <<rows, history, op, arg, began>>
    BY <1>3 DEF InsertFails
  <2> HIDE DEF AnswerInv
  <2> QED BY <2>1, <2>2, <2>3, <2>4, <2>5, <2>6 DEF Service!Answer
<1>4. CASE ~InsertCommits(c) /\ ~InsertFails(c)
  <2>1. UNCHANGED <<rows, history, late, op, arg, began>>
    BY <1>4 DEF Step, InsertReplies, LoadLocal, LoadShared, Query, Refill, Copy, CacheStep
  <2>2. CASE res' = res
    BY <2>1, <2>2 DEF clientVars
  <2>3. CASE /\ pc[c] # "done"
             /\ \E r \in Results : Service!Allowed(c, r) /\ res' = [res EXCEPT ![c] = r]
    <3>1. op[c] # "idle" /\ res[c] = Pending
      <4>1. pc[c] # "idle"
        BY DEF Step, InsertCommits, InsertFails, InsertReplies, LoadLocal,
               LoadShared, Query, Refill, Copy, CacheStep
      <4> QED BY <1>0, <2>3, <4>1 DEF Ops, Control
    <3> QED BY <2>1, <2>3, <3>1, SameValues DEF Service!Answer
  <2> QED BY <2>2, <2>3, StepAnswers
<1> QED BY <1>2, <1>3, <1>4

\* A call that returns, and a pod that restarts, end calls of the service.
LEMMA EndService ==
  ASSUME AnswerInv, UniqueInv,
         \/ \E c \in Calls : Return(c)
         \/ \E p \in Pods : Restart(p)
  PROVE  \E D \in SUBSET Calls : Service!End(D)
<1> USE DEF AnswerInv
<1>1. ASSUME NEW c \in Calls, Return(c)
      PROVE  Service!End({c})
  <2>1. late' = late \cup {arg[d] : d \in {}}
    BY <1>1 DEF Return
  <2>2. \E C \in SUBSET {d \in {c} : Service!Ineffective(d)} :
          late' = late \cup {arg[d] : d \in C}
    BY <2>1
  <2> QED BY <1>1, <2>2, SameValues
          DEF Return, Reset, Service!End, CacheInv, Shape, TypeOK
<1>2. ASSUME NEW p \in Pods, Restart(p)
      PROVE  \E D \in SUBSET Calls : Service!End(D)
  <2> DEFINE dead == {c \in Calls : PodOf[c] = p /\ op[c] # "idle"}
             sent == {c \in dead : pc[c] = "insert"}
  <2>1. \A c \in sent : Service!Ineffective(c)
    BY SameValues DEF CacheInv, Shape, TypeOK, Control, Ops, UniqueInv, Service!Ineffective
  <2>2. late' = late \cup {arg[c] : c \in sent}
    BY <1>2 DEF Restart
  <2>3. sent \in SUBSET {c \in dead : Service!Ineffective(c)}
    BY <2>1
  <2>4. Service!End(dead)
    BY <1>2, <2>2, <2>3, SameValues DEF Restart, Reset, Service!End
  <2> QED BY <2>4
<1> QED BY <1>1, <1>2

\* Every step of the DAO is a step of the service or invisible.
LEMMA NextService ==
  AnswerInv /\ UniqueInv /\ [Next]_vars => [Service!Next]_(Service!vars)
<1> SUFFICES ASSUME AnswerInv, UniqueInv, [Next]_vars
             PROVE  Service!Next \/ UNCHANGED clientVars
  BY DEF Service!vars, clientVars
<1>1. CASE \E c \in Calls : CreateRecord(c) \/ GetRecord(c) \/ ListRecords(c)
  BY <1>1, BeginService DEF Service!Next
<1>2. CASE \E c \in Calls : Step(c)
  BY <1>2, StepService DEF Service!Next
<1>3. CASE (\E c \in Calls : Return(c)) \/ (\E p \in Pods : Restart(p))
  BY <1>3, EndService DEF Service!Next
<1>4. CASE \E i \in IDs : LateCommit(i)
  <2>1. PICK i \in IDs : LateCommit(i)
    BY <1>4
  <2>2. Service!TakeEffectLate(i) /\ i \in late
    BY <2>1 DEF LateCommit, Commit, Service!TakeEffectLate, Service!Store
  <2> QED BY <2>2 DEF Service!Next
<1> QED BY <1>1, <1>2, <1>3, <1>4 DEF Next, vars, ExpireShared, ExpireLocal

\* Pods, caches and SQL together do nothing that the service does not allow.
THEOREM Implements == Spec => ImplementsService
<1> QED BY InitService, NextService, AnswerInvariant, UniqueInvariant, PTL
        DEF Spec, ImplementsService, Service!Spec
=============================================================================
