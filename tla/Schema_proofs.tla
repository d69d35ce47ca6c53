----------------------------- MODULE Schema_proofs -----------------------------
(***************************************************************************)
(* Proofs about the table that migration 0001_init.sql creates: it is      *)
(* there before anything serves, for any number of pods (RpcMain), and     *)
(* what its columns keep of a record (RecordColumns).                      *)
(***************************************************************************)
EXTENDS RpcMain, RecordColumns, TLAPS

-----------------------------------------------------------------------------
(* The start of the pods *)

\* What each step of a pod knows of the schema and of its servers.
PodInv(p) ==
  /\ pc[p] = "record" => table
  /\ pc[p] \in {"listen", "launch", "wait"} => version
  /\ (\E l \in Launchers : server[p][l] # "none") => pc[p] \in {"launch", "wait"}

\* The states of the servers of one pod.
Servers == [Launchers -> {"none", "bound", "serving", "failed"}]

\* TypeOK, with Servers named.
Typed ==
  /\ pc \in [Pods -> {"off", "etcd", "publish", "redis", "mysql", "migrate", "create",
                      "record", "listen", "launch", "wait"}]
  /\ client \in [Pods -> BOOLEAN]
  /\ server \in [Pods -> Servers]
  /\ table \in BOOLEAN /\ version \in BOOLEAN /\ calm \in BOOLEAN
  /\ up \in SUBSET Backends

SchemaInv ==
  /\ Typed
  /\ version => table
  /\ \A p \in Pods : PodInv(p)

\* A pod that is down has servers, and none of them runs.
LEMMA IdleServers == Idle \in Servers /\ \A l \in Launchers : Idle[l] = "none"
BY DEF Idle, Launchers, Servers

\* Before any pod starts, nothing serves and no migration is recorded.
LEMMA InitSchema == Init => SchemaInv
<1> SUFFICES ASSUME Init PROVE SchemaInv
  OBVIOUS
<1>1. Typed
  BY IdleServers DEF Init, Typed
<1>2. ASSUME NEW p \in Pods PROVE PodInv(p)
  BY IdleServers DEF Init, PodInv
<1> QED BY <1>1, <1>2 DEF Init, SchemaInv

\* A pod that ends keeps the invariant, if the schema is only ever extended.
LEMMA ExitSchema ==
  ASSUME SchemaInv, NEW p \in Pods, Exit(p), table => table', version => version',
         version' => table', table' \in BOOLEAN, version' \in BOOLEAN,
         UNCHANGED <<up, calm>>
  PROVE  SchemaInv'
<1>1. Typed'
  BY IdleServers DEF Typed, SchemaInv, Exit, Goto
<1>2. ASSUME NEW q \in Pods PROVE PodInv(q)'
  BY IdleServers DEF SchemaInv, PodInv, Exit, Goto, Typed
<1> QED BY <1>1, <1>2 DEF SchemaInv

\* So does a step that moves the program counter of one pod and leaves its
\* servers alone, if the pod knows what its next step needs.
LEMMA GotoSchema ==
  ASSUME SchemaInv, NEW p \in Pods, UNCHANGED <<server, up, calm>>,
         NEW next \in {"etcd", "publish", "redis", "mysql", "migrate", "create", "record",
                       "listen", "launch", "wait"},
         Goto(p, next), client' \in [Pods -> BOOLEAN],
         pc[p] \in {"launch", "wait"} => next \in {"launch", "wait"},
         next = "record" => table',
         next \in {"listen", "launch", "wait"} => version',
         table => table', version => version', version' => table',
         table' \in BOOLEAN, version' \in BOOLEAN
  PROVE  SchemaInv'
<1>1. Typed'
  BY DEF Typed, SchemaInv, Goto
<1>2. ASSUME NEW q \in Pods PROVE PodInv(q)'
  BY DEF SchemaInv, PodInv, Goto, Typed
<1> QED BY <1>1, <1>2 DEF SchemaInv

\* And so does a change of one launcher of a pod that has come to "launch".
LEMMA ServerSchema ==
  ASSUME SchemaInv, NEW p \in Pods, NEW l \in Launchers,
         NEW to \in {"bound", "serving", "failed"},
         server' = [server EXCEPT ![p][l] = to],
         \/ pc[p] = "listen" /\ Goto(p, "launch")
         \/ pc[p] = "wait" /\ pc' = pc,
         UNCHANGED <<client, table, version, up, calm>>
  PROVE  SchemaInv'
<1>1. Typed'
  <2>1. server[p] \in Servers
    BY DEF SchemaInv, Typed
  <2>2. [server[p] EXCEPT ![l] = to] \in Servers
    BY <2>1 DEF Servers
  <2>3. server' = [server EXCEPT ![p] = [server[p] EXCEPT ![l] = to]]
    OBVIOUS
  <2>4. server' \in [Pods -> Servers]
    BY <2>2, <2>3 DEF SchemaInv, Typed
  <2>5. pc' \in [Pods -> {"off", "etcd", "publish", "redis", "mysql", "migrate",
                          "create", "record", "listen", "launch", "wait"}]
    BY DEF SchemaInv, Goto, Typed
  <2> QED BY <2>4, <2>5 DEF Typed, SchemaInv
<1>2. ASSUME NEW q \in Pods PROVE PodInv(q)'
  <2>1. CASE q = p
    BY <2>1 DEF SchemaInv, PodInv, Goto, Typed
  <2>2. CASE q # p
    BY <2>2 DEF SchemaInv, PodInv, Goto, Typed
  <2> QED BY <2>1, <2>2
<1> QED BY <1>1, <1>2 DEF SchemaInv

\* Every step of main and of its launchers keeps the invariant.
LEMMA StepSchema ==
  ASSUME SchemaInv, NEW p \in Pods, Step(p)
  PROVE  SchemaInv'
<1> USE DEF SchemaInv
<1>1. CASE Start(p)
  BY <1>1, GotoSchema DEF Start, Typed
<1>2. CASE InitEtcd(p)
  <2>1. client' \in [Pods -> BOOLEAN]
    BY <1>2 DEF InitEtcd, Typed
  <2> QED BY <1>2, <2>1, GotoSchema DEF InitEtcd, Typed
<1>3. CASE Publish(p)
  BY <1>3, GotoSchema, ExitSchema DEF Publish, Reach, Typed
<1>4. CASE InitRedis(p)
  BY <1>4, GotoSchema, ExitSchema DEF InitRedis, Reach, Typed
<1>5. CASE InitMysql(p)
  BY <1>5, GotoSchema, ExitSchema DEF InitMysql, Reach, Typed
<1>6. CASE Migrate(p)
  BY <1>6, GotoSchema, ExitSchema DEF Migrate, Reach, Typed
<1>7. CASE CreateTable(p)
  BY <1>7, GotoSchema, ExitSchema DEF CreateTable, Reach, Typed
<1>8. CASE RecordVersion(p)
  <2>1. table
    BY <1>8 DEF RecordVersion, Reach, PodInv
  <2> QED BY <1>8, <2>1, GotoSchema, ExitSchema DEF RecordVersion, Reach, Typed
<1>9. CASE ListenGrpc(p)
  BY <1>9, ServerSchema DEF ListenGrpc, Launchers
<1>10. CASE Launch(p)
  BY <1>10, GotoSchema DEF Launch, PodInv, Typed
<1>11. CASE LauncherFatal(p)
  BY <1>11, ExitSchema DEF LauncherFatal, Typed
<1> QED BY <1>1, <1>2, <1>3, <1>4, <1>5, <1>6, <1>7, <1>8, <1>9, <1>10, <1>11 DEF Step

\* The invariant holds in every reachable state, through kills and outages too.
THEOREM SchemaInvariant == Spec => []SchemaInv
<1>1. SchemaInv /\ [Next]_vars => SchemaInv'
  <2> SUFFICES ASSUME SchemaInv, [Next]_vars PROVE SchemaInv'
    OBVIOUS
  <2>1. ASSUME NEW p \in Pods, Kill(p) PROVE SchemaInv'
    BY <2>1, ExitSchema DEF Kill, SchemaInv, Typed
  <2>2. ASSUME NEW p \in Pods, NEW l \in Launchers, Serve(p, l) \/ RunFails(p, l)
        PROVE  SchemaInv'
    BY <2>2, ServerSchema DEF Serve, RunFails
  <2>3. CASE BackendChanges \/ CalmDown \/ UNCHANGED vars
    <3>1. UNCHANGED <<pc, client, server, table, version>>
      BY <2>3 DEF BackendChanges, CalmDown, vars
    <3>2. up' \in SUBSET Backends /\ calm' \in BOOLEAN
      BY <2>3 DEF BackendChanges, CalmDown, vars, SchemaInv, Typed
    <3>3. Typed'
      BY <3>1, <3>2 DEF SchemaInv, Typed
    <3>4. ASSUME NEW p \in Pods PROVE PodInv(p)'
      BY <3>1 DEF SchemaInv, PodInv
    <3> QED BY <3>1, <3>3, <3>4 DEF SchemaInv
  <2> QED BY <2>1, <2>2, <2>3, StepSchema DEF Next
<1> QED BY <1>1, InitSchema, PTL DEF Spec

\* No port of any pod takes a connection before the table exists.
THEOREM ServesMigratedAlways == Spec => []ServesMigrated
<1>1. SchemaInv => ServesMigrated
  BY DEF SchemaInv, PodInv, ServesMigrated
<1> QED BY <1>1, SchemaInvariant, PTL

-----------------------------------------------------------------------------
(* The columns: numbers, lengths and times as they are stored *)

\* What a division leaves: less than the divisor.
LEMMA DivProperties ==
  ASSUME NEW a \in Int, NEW b \in Nat \ {0}
  PROVE  a \div b \in Int /\ b * (a \div b) <= a /\ a < b * (a \div b) + b
OBVIOUS

\* The column has as many numbers below zero as from zero on.
LEMMA NumRange ==
  /\ SmallestNum \in Int /\ LargestNum \in Int
  /\ SmallestNum < 0 /\ 0 <= LargestNum
<1>1. Column32 \in Nat \ {0} /\ Column32 % 2 = 0
  BY ColumnsAssumption
<1>2. Column32 \div 2 \in Nat \ {0}
  BY <1>1
<1> QED BY <1>2 DEF SmallestNum, LargestNum

\* A number ends up in the column's range, and is kept if it was there.
LEMMA NumStored ==
  ASSUME NEW n \in Int
  PROVE  /\ StoredNum(n) \in SmallestNum..LargestNum
         /\ n \in SmallestNum..LargestNum => StoredNum(n) = n
BY NumRange DEF StoredNum

\* So does a length.
LEMMA LenStored ==
  ASSUME NEW n \in Nat
  PROVE  /\ StoredLen(n) \in 0..Varchar
         /\ n <= Varchar => StoredLen(n) = n
BY ColumnsAssumption DEF StoredLen

\* The second a time is rounded to.
Rounded(t) == (2 * t + Second) \div (2 * Second)

\* Twice a stored time is within a second of twice the time.
LEMMA RoundedClose ==
  ASSUME NEW t \in Nat
  PROVE  /\ Rounded(t) \in Int /\ StoredTime(t) = Second * Rounded(t)
         /\ StoredTime(t) \in Int
         /\ 2 * StoredTime(t) <= 2 * t + Second
         /\ 2 * t + Second < 2 * StoredTime(t) + 2 * Second
<1>1. Second \in Nat \ {0} /\ 2 * Second \in Nat \ {0} /\ 2 * t + Second \in Int
  BY ColumnsAssumption
<1>2. /\ Rounded(t) \in Int
      /\ (2 * Second) * Rounded(t) <= 2 * t + Second
      /\ 2 * t + Second < (2 * Second) * Rounded(t) + 2 * Second
  BY <1>1, DivProperties DEF Rounded
<1>3. StoredTime(t) = Second * Rounded(t)
  BY DEF StoredTime, Rounded
<1>4. (2 * Second) * Rounded(t) = 2 * (Second * Rounded(t)) /\ Second * Rounded(t) \in Int
  BY <1>1, <1>2
<1> QED BY <1>1, <1>2, <1>3, <1>4

\* A stored time is not half a second off.
LEMMA TimeStored ==
  ASSUME NEW t \in Nat
  PROVE  Close(StoredTime(t), t)
<1>1. /\ StoredTime(t) \in Int /\ Second \in Nat
      /\ 2 * StoredTime(t) <= 2 * t + Second
      /\ 2 * t + Second < 2 * StoredTime(t) + 2 * Second
  BY RoundedClose, ColumnsAssumption
<1> QED BY <1>1 DEF Close

\* Rounding keeps the order.
LEMMA RoundingMonotone ==
  ASSUME NEW s \in Nat, NEW t \in Nat, s <= t
  PROVE  StoredTime(s) <= StoredTime(t)
<1> DEFINE p == Rounded(s)
           q == Rounded(t)
<1>1. Second \in Nat \ {0} /\ p \in Int /\ q \in Int
  BY ColumnsAssumption, RoundedClose
<1>2. 2 * (Second * p) < 2 * (Second * q) + 2 * Second
  BY RoundedClose, ColumnsAssumption
<1>3. p <= q
  <2>1. SUFFICES ASSUME q + 1 <= p PROVE FALSE
    BY <1>1
  <2> HIDE DEF p, q
  <2>2. Second * (q + 1) <= Second * p
    BY <1>1, <2>1
  <2>3. Second * (q + 1) = Second * q + Second
    BY <1>1
  <2>4. Second * p \in Int /\ Second * q \in Int
    BY <1>1
  <2> QED BY <1>1, <1>2, <2>2, <2>3, <2>4
<1>4. Second * p <= Second * q
  <2> HIDE DEF p, q
  <2> QED BY <1>1, <1>3
<1> QED BY <1>4, RoundedClose

-----------------------------------------------------------------------------
(* The rows *)

\* The record of a call.
Stampeds == [num : Int, len : Nat, created : Nat, updated : Nat]

RowTypes ==
  /\ pod \in [Creates -> Hosts]
  /\ clock \in [Hosts -> Nat]
  /\ step \in [Creates -> {"none", "stamped", "answered", "failed"}]
  /\ record \in [Creates -> Stampeds]
  /\ earlier \in [Creates -> SUBSET Creates]

\* A row is made of the record of its call, which does not change any more.
RowInv(r) ==
  /\ r.id \in Creates /\ step[r.id] # "none"
  /\ r = RowOf(r.id, record[r.id])
  /\ strict => Fits(record[r.id])

\* What the calls answered before call c was stamped, and what its pod's clock and
\* the table know of c itself.
CreateInv(c) ==
  /\ step[c] = "answered" => InTable(c)
  /\ step[c] # "none" => record[c].created <= clock[pod[c]]
  /\ \A d \in earlier[c] :
       /\ d \in Creates /\ step[d] = "answered" /\ step[c] # "none"
       /\ record[d].created <= record[c].created

RowsInv ==
  /\ RowTypes
  /\ \A r \in rows : RowInv(r)
  /\ \A c \in Creates : CreateInv(c)

\* Before any call there is neither row nor order.
LEMMA InitRows == ColumnsInit => RowsInv
<1> SUFFICES ASSUME ColumnsInit PROVE RowsInv
  OBVIOUS
<1>1. RowTypes
  BY SMT DEF ColumnsInit, RowTypes, Nothing, Stampeds
<1>2. \A c \in Creates : CreateInv(c)
  BY DEF ColumnsInit, CreateInv
<1> QED BY <1>1, <1>2 DEF ColumnsInit, RowsInv

\* A call's record is stamped by the clock of its pod, which no call of that pod
\* answered before is ahead of.
LEMMA StampRows ==
  ASSUME RowsInv, NEW c \in Creates, Stamp(c)
  PROVE  RowsInv'
<1>1. PICK a \in Asked : record' = [record EXCEPT ![c] = Stamped(a, clock[pod[c]])]
  BY Zenon DEF Stamp
<1>2. /\ step[c] = "none" /\ step' = [step EXCEPT ![c] = "stamped"]
      /\ earlier' = [earlier EXCEPT ![c] =
                       {d \in Creates : pod[d] = pod[c] /\ step[d] = "answered"}]
      /\ strict' = strict /\ pod' = pod /\ clock' = clock /\ rows' = rows
  BY DEF Stamp
<1>3. /\ Stamped(a, clock[pod[c]]) \in Stampeds
      /\ Stamped(a, clock[pod[c]]).created = clock[pod[c]] /\ clock[pod[c]] \in Nat
  BY ColumnsAssumption DEF RowsInv, RowTypes, Stamped, Stampeds
<1>4. RowTypes'
  BY <1>1, <1>2, <1>3 DEF RowsInv, RowTypes
<1>5. \A d \in Creates : d # c => record'[d] = record[d] /\ step'[d] = step[d]
  BY <1>1, <1>2 DEF RowsInv, RowTypes
<1>6. record'[c].created = clock[pod[c]] /\ step'[c] = "stamped"
  BY <1>1, <1>2, <1>3 DEF RowsInv, RowTypes
<1>7. ASSUME NEW r \in rows PROVE RowInv(r)'
  BY <1>2, <1>5 DEF RowsInv, RowInv, RowOf, Fits
<1>8. ASSUME NEW d \in Creates PROVE CreateInv(d)'
  <2>1. CASE d = c
    <3>1. earlier'[c] \subseteq {e \in Creates : pod[e] = pod[c] /\ step[e] = "answered"}
      BY <1>2 DEF RowsInv, RowTypes
    <3>2. ASSUME NEW e \in earlier'[c]
          PROVE  /\ e \in Creates /\ step'[e] = "answered"
                 /\ record'[e].created <= record'[c].created
      <4>1. e \in Creates /\ e # c /\ step[e] = "answered" /\ pod[e] = pod[c]
        BY <3>1, <1>2
      <4>2. record[e].created <= clock[pod[c]]
        BY <4>1 DEF RowsInv, CreateInv
      <4> QED BY <4>1, <4>2, <1>5, <1>6
    <3> QED BY <1>2, <1>3, <1>6, <2>1, <3>2 DEF CreateInv
  <2>2. CASE d # c
    <3>1. CreateInv(d) /\ earlier'[d] = earlier[d] /\ c \notin earlier[d]
      BY <1>2, <2>2 DEF RowsInv, CreateInv
    <3> QED BY <1>2, <1>5, <2>2, <3>1 DEF CreateInv, InTable
  <2> QED BY <2>1, <2>2
<1> QED BY <1>2, <1>4, <1>7, <1>8 DEF RowsInv

\* The row of a call is its record, cut to the columns.
LEMMA InsertRows ==
  ASSUME RowsInv, NEW c \in Creates, Insert(c)
  PROVE  RowsInv'
<1>1. /\ step[c] # "none" /\ (strict => Fits(record[c]))
      /\ rows' = rows \cup {RowOf(c, record[c])}
      /\ UNCHANGED <<strict, pod, clock, step, record, earlier>>
  BY DEF Insert
<1>2. RowTypes'
  BY <1>1 DEF RowsInv, RowTypes
<1>3. RowOf(c, record[c]).id = c
  BY DEF RowOf
<1>4. ASSUME NEW r \in rows' PROVE RowInv(r)'
  <2>1. CASE r \in rows
    BY <1>1, <2>1 DEF RowsInv, RowInv, RowOf, Fits
  <2>2. CASE r = RowOf(c, record[c])
    BY <1>1, <1>3, <2>2 DEF RowInv, RowOf, Fits
  <2> QED BY <1>1, <2>1, <2>2
<1>5. ASSUME NEW d \in Creates PROVE CreateInv(d)'
  BY <1>1 DEF RowsInv, CreateInv, InTable
<1> QED BY <1>2, <1>4, <1>5 DEF RowsInv

\* A call that ends keeps its record, and so does the table.
LEMMA EndRows ==
  ASSUME RowsInv, NEW c \in Creates, Answer(c) \/ Fail(c)
  PROVE  RowsInv'
<1>1. /\ step[c] = "stamped" /\ (step'[c] = "answered" => InTable(c))
      /\ step'[c] \in {"answered", "failed"} /\ step' = [step EXCEPT ![c] = step'[c]]
      /\ UNCHANGED <<strict, pod, clock, record, earlier, rows>>
  BY DEF Answer, Fail, RowsInv, RowTypes
<1>2. RowTypes'
  BY <1>1 DEF RowsInv, RowTypes
<1>3. \A d \in Creates : d # c => step'[d] = step[d]
  BY <1>1 DEF RowsInv, RowTypes
<1>4. ASSUME NEW r \in rows PROVE RowInv(r)'
  BY <1>1, <1>3 DEF RowsInv, RowInv, RowOf, Fits
<1>5. ASSUME NEW d \in Creates PROVE CreateInv(d)'
  BY <1>1, <1>3 DEF RowsInv, CreateInv, InTable
<1> QED BY <1>1, <1>2, <1>4, <1>5 DEF RowsInv

\* A clock only goes on.
LEMMA TickRows ==
  ASSUME RowsInv, NEW p \in Hosts, Tick(p)
  PROVE  RowsInv'
<1>1. /\ clock' = [clock EXCEPT ![p] = clock[p] + 1]
      /\ UNCHANGED <<strict, pod, step, record, earlier, rows>>
  BY DEF Tick
<1>2. RowTypes'
  BY <1>1 DEF RowsInv, RowTypes
<1>3. ASSUME NEW r \in rows PROVE RowInv(r)'
  BY <1>1 DEF RowsInv, RowInv, RowOf, Fits
<1>4. ASSUME NEW c \in Creates PROVE CreateInv(c)'
  <2>1. clock[pod[c]] \in Nat /\ clock'[pod[c]] \in Nat /\ clock[pod[c]] <= clock'[pod[c]]
    BY <1>1 DEF RowsInv, RowTypes
  <2>2. record[c].created \in Nat
    BY DEF RowsInv, RowTypes, Stampeds
  <2>3. step'[c] # "none" => record'[c].created <= clock'[pod'[c]]
    BY <1>1, <2>1, <2>2 DEF RowsInv, CreateInv
  <2> QED BY <1>1, <2>3 DEF RowsInv, CreateInv, InTable
<1> QED BY <1>1, <1>2, <1>3, <1>4 DEF RowsInv

\* The invariant holds however the calls, the pods and MySQL take turns.
LEMMA RowsInvariant == ColumnsSpec => []RowsInv
<1>1. RowsInv /\ [ColumnsNext]_columnVars => RowsInv'
  <2> SUFFICES ASSUME RowsInv, [ColumnsNext]_columnVars PROVE RowsInv'
    OBVIOUS
  <2>1. CASE UNCHANGED columnVars
    <3>1. RowTypes'
      BY <2>1 DEF columnVars, RowsInv, RowTypes
    <3>2. \A r \in rows' : RowInv(r)'
      BY <2>1 DEF columnVars, RowsInv, RowInv, RowOf, Fits
    <3>3. \A c \in Creates : CreateInv(c)'
      BY <2>1 DEF columnVars, RowsInv, CreateInv, InTable
    <3> QED BY <3>1, <3>2, <3>3 DEF RowsInv
  <2> QED BY <2>1, StampRows, InsertRows, EndRows, TickRows DEF ColumnsNext
<1> QED BY <1>1, InitRows, PTL DEF ColumnsSpec

\* What the create of a record answered is what is read, within half a second, if
\* its number and its string fit or MySQL is strict, for any widths of the columns.
THEOREM KeptAlwaysIfItFits == ColumnsSpec => []KeptIfItFits
<1>1. RowsInv => KeptIfItFits
  <2> SUFFICES ASSUME RowsInv, NEW c \in Creates, step[c] = "answered"
               PROVE  \E r \in rows :
                        /\ r.id = c
                        /\ strict \/ InColumns(record[c])
                             => r.num = record[c].num /\ r.len = record[c].len
                        /\ Close(r.created, record[c].created)
                        /\ Close(r.updated, record[c].updated)
    BY DEF KeptIfItFits
  <2>1. PICK r \in rows : r.id = c
    BY DEF RowsInv, CreateInv, InTable
  <2>2. r = RowOf(c, record[c]) /\ (strict => Fits(record[c]))
    BY <2>1 DEF RowsInv, RowInv
  <2>3. /\ record[c].num \in Int /\ record[c].len \in Nat
        /\ record[c].created \in Nat /\ record[c].updated \in Nat
    BY DEF RowsInv, RowTypes, Stampeds
  <2>4. /\ r.num = StoredNum(record[c].num) /\ r.len = StoredLen(record[c].len)
        /\ r.created = StoredTime(record[c].created)
        /\ r.updated = StoredTime(record[c].updated)
    BY <2>2 DEF RowOf
  <2>5. Close(r.created, record[c].created) /\ Close(r.updated, record[c].updated)
    BY <2>3, <2>4, TimeStored
  <2>6. strict \/ InColumns(record[c]) => r.num = record[c].num /\ r.len = record[c].len
    BY <2>2, <2>3, <2>4, NumStored, LenStored
       DEF Fits, InColumns, SmallestNum, LargestNum
  <2> QED BY <2>1, <2>5, <2>6
<1> QED BY <1>1, RowsInvariant, PTL

\* What one pod answered before it began to create a record is never read as
\* created after it, for any ticks to a second and any number of calls and pods.
THEOREM CreatedAlwaysInOrder == ColumnsSpec => []CreatedInOrder
<1>1. RowsInv => CreatedInOrder
  <2> SUFFICES ASSUME RowsInv, NEW r \in rows, NEW s \in rows, r.id \in earlier[s.id]
               PROVE  r.created <= s.created
    BY DEF CreatedInOrder
  <2>1. RowInv(r) /\ RowInv(s)
    BY DEF RowsInv
  <2>2. r.id \in Creates /\ s.id \in Creates
    BY <2>1 DEF RowInv
  <2>3. /\ r.created = StoredTime(record[r.id].created)
        /\ s.created = StoredTime(record[s.id].created)
    BY <2>1 DEF RowInv, RowOf
  <2>4. record[r.id].created \in Nat /\ record[s.id].created \in Nat
    BY <2>2 DEF RowsInv, RowTypes, Stampeds
  <2>5. record[r.id].created <= record[s.id].created
    BY <2>2 DEF RowsInv, CreateInv
  <2> QED BY <2>3, <2>4, <2>5, RoundingMonotone
<1> QED BY <1>1, RowsInvariant, PTL
=============================================================================
