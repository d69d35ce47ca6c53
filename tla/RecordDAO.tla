------------------------------ MODULE RecordDAO ------------------------------
(***************************************************************************)
(* pkg/dao: the record DAO of every pod of the rpc service over one MySQL  *)
(* table, one shared cache (Redis) and one local cache per pod.            *)
(*                                                                         *)
(* CreateRecord goes to MySQL only.  GetRecord and ListRecords go through  *)
(* cache.GetByFunc: local cache, shared cache, then the getter, which runs *)
(* one SQL statement; what the getter returns is stored in the shared and  *)
(* in the local cache, an error is not.  All keys live under one prefix.   *)
(* Each cache access and each statement is a step of its own, so calls of  *)
(* one pod and of several interleave at every point between them.          *)
(***************************************************************************)
EXTENDS Records

CONSTANTS Calls,  \* the calls that may be open at the same time
          Pods,   \* the replicas of cmd/rpc
          PodOf   \* PodOf[c]: the pod that serves c

ASSUME PodOfAssumption == PodOf \in [Calls -> Pods]

VARIABLES rows, history, late, op, arg, began, res,  \* as in RecordService
          pc,      \* pc[c]: the next step of c
          val,     \* val[c]: the value c is about to cache
          local,   \* local[p][k]: the local cache of pod p
          shared   \* shared[k]: the shared cache

clientVars == <<rows, history, late, op, arg, began, res>>
vars == <<clientVars, pc, val, local, shared>>

Service == INSTANCE RecordService

Entries == Values \cup {None}

Ops == {"idle", "create", "get", "list"}
Steps == {"idle", "insert", "inserted", "local", "shared", "query", "refill",
          "copy", "done"}

TypeOK ==
  /\ rows \in SUBSET IDs
  /\ history \in SUBSET SUBSET IDs
  /\ late \in SUBSET IDs
  /\ op \in [Calls -> Ops]
  /\ arg \in [Calls -> Keys \cup Opts \cup {None}]
  /\ began \in [Calls -> SUBSET IDs]
  /\ res \in [Calls -> Results]
  /\ pc \in [Calls -> Steps]
  /\ val \in [Calls -> Entries]
  /\ local \in [Pods -> [Keys -> Entries]]
  /\ shared \in [Keys -> Entries]

Init ==
  /\ rows = {}
  /\ history = {{}}
  /\ late = {}
  /\ op = [c \in Calls |-> "idle"]
  /\ arg = [c \in Calls |-> None]
  /\ began = [c \in Calls |-> {}]
  /\ res = [c \in Calls |-> Pending]
  /\ pc = [c \in Calls |-> "idle"]
  /\ val = [c \in Calls |-> None]
  /\ local = [p \in Pods |-> [k \in Keys |-> None]]
  /\ shared = [k \in Keys |-> None]

-----------------------------------------------------------------------------
(* The calls. *)

Begin(c, o, a, step) ==
  /\ pc[c] = "idle"
  /\ op' = [op EXCEPT ![c] = o]
  /\ arg' = [arg EXCEPT ![c] = a]
  /\ began' = [began EXCEPT ![c] = rows]
  /\ pc' = [pc EXCEPT ![c] = step]
  /\ UNCHANGED <<rows, history, late, res, val, local, shared>>

\* uuid.New returns an id that no record has and no other insert carries.
NewID(i) ==
  i \notin rows \cup late /\ \A c \in Calls : op[c] = "create" => arg[c] # i

CreateRecord(c) == \E i \in IDs : NewID(i) /\ Begin(c, "create", i, "insert")

GetRecord(c) == \E k \in GetKeys : Begin(c, "get", k, "local")

ListRecords(c) == \E o \in Opts : Begin(c, "list", o, "local")

CacheKey(c) == IF op[c] = "list" THEN KeyOf(arg[c]) ELSE arg[c]

\* json.Unmarshal of the entry e into the container of call c.
Decode(c, e) ==
  IF e.is = (IF op[c] = "list" THEN "page" ELSE "record") THEN e ELSE Mistyped

Goto(c, step, v) ==
  /\ pc' = [pc EXCEPT ![c] = step]
  /\ val' = [val EXCEPT ![c] = v]
  /\ res' = res

Finish(c, r) ==
  /\ pc' = [pc EXCEPT ![c] = "done"]
  /\ val' = [val EXCEPT ![c] = None]
  /\ res' = [res EXCEPT ![c] = r]

-----------------------------------------------------------------------------
(* The INSERT of CreateRecord.  The connection may be lost at any time: the *)
(* caller gets an error, and MySQL has executed the statement, or will, or  *)
(* never does.                                                             *)

Commit(i) == rows' = rows \cup {i} /\ history' = history \cup {rows'}

InsertCommits(c) ==
  /\ pc[c] = "insert"
  /\ Commit(arg[c])
  /\ Goto(c, "inserted", None)
  /\ UNCHANGED <<late, op, arg, began, local, shared>>

\* Mutants: a failed INSERT is answered (nil, nil), or with the new record.
InsertFailsSilently(c) ==
  pc[c] = "insert" /\ Finish(c, None) /\ UNCHANGED <<rows, history, late, op, arg, began, local, shared>>

InsertFailsUnseen(c) ==
  pc[c] = "insert" /\ Finish(c, Rec(arg[c])) /\ UNCHANGED <<rows, history, late, op, arg, began, local, shared>>

\* An error without the INSERT having been executed: refused, or not yet.
InsertFails(c) ==
  /\ pc[c] = "insert"
  /\ Finish(c, Unavailable)
  /\ late' \in {late, late \cup {arg[c]}}
  /\ UNCHANGED <<rows, history, op, arg, began, local, shared>>

\* MySQL executes the INSERT of a create that is over.
LateCommit(i) ==
  /\ i \in late
  /\ Commit(i)
  /\ late' = late \ {i}
  /\ UNCHANGED <<op, arg, began, res, pc, val, local, shared>>

InsertReplies(c) ==
  /\ pc[c] = "inserted"
  /\ \E r \in {Rec(arg[c]), Unavailable} : Finish(c, r)
  /\ UNCHANGED <<rows, history, late, op, arg, began, local, shared>>

-----------------------------------------------------------------------------
(* cache.GetByFunc and the getters of GetRecord and ListRecords.           *)

LoadLocal(c) ==
  LET e == local[PodOf[c]][CacheKey(c)]
  IN /\ pc[c] = "local"
     /\ \/ e = None /\ Goto(c, "shared", None)
        \/ e # None /\ Finish(c, Decode(c, e))
     /\ UNCHANGED <<rows, history, late, op, arg, began, local, shared>>

LoadShared(c) ==
  LET e == shared[CacheKey(c)]
  IN /\ pc[c] = "shared"
     /\ \/ e = None /\ Goto(c, "query", None)
        \/ e # None /\ Goto(c, "copy", e)
        \/ Finish(c, Unavailable)
     /\ UNCHANGED <<rows, history, late, op, arg, began, local, shared>>

\* Mutant: the SELECT of GetRecord without its WHERE.
SelectedUnfiltered(c) ==
  IF op[c] = "list" THEN {Page(P) : P \in PageOf(rows, arg[c])}
  ELSE {Rec(i) : i \in rows}

\* What the SELECT of c may return now.
Selected(c) ==
  IF op[c] = "list" THEN {Page(P) : P \in PageOf(rows, arg[c])}
  ELSE {Rec(i) : i \in rows \cap {arg[c]}}

\* Mutant: a failed SELECT starts the lookup again.
QueryRetrying(c) ==
  /\ pc[c] = "query"
  /\ \/ \E v \in Selected(c) : Goto(c, "refill", v)
     \/ op[c] = "get" /\ Selected(c) = {} /\ Finish(c, NotFound)
     \/ Goto(c, "local", None)
  /\ UNCHANGED <<rows, history, late, op, arg, began, local, shared>>

Query(c) ==
  /\ pc[c] = "query"
  /\ \/ \E v \in Selected(c) : Goto(c, "refill", v)
     \/ op[c] = "get" /\ Selected(c) = {} /\ Finish(c, NotFound)
     \/ Finish(c, Unavailable)
  /\ UNCHANGED <<rows, history, late, op, arg, began, local, shared>>

Refill(c) ==
  /\ pc[c] = "refill"
  /\ \/ Goto(c, "copy", val[c]) /\ shared' = [shared EXCEPT ![CacheKey(c)] = val[c]]
     \/ Goto(c, "copy", val[c]) /\ shared' = shared
     \/ Finish(c, Unavailable) /\ shared' = shared
  /\ UNCHANGED <<rows, history, late, op, arg, began, local>>

Copy(c) ==
  /\ pc[c] = "copy"
  /\ local' = [local EXCEPT ![PodOf[c]][CacheKey(c)] = val[c]]
  /\ Finish(c, Decode(c, val[c]))
  /\ UNCHANGED <<rows, history, late, op, arg, began, shared>>

-----------------------------------------------------------------------------
(* The end of a call, and what happens to caches and pods.                 *)

Reset(D) ==
  /\ arg' = [c \in Calls |-> IF c \in D THEN None ELSE arg[c]]
  /\ began' = [c \in Calls |-> IF c \in D THEN {} ELSE began[c]]
  /\ res' = [c \in Calls |-> IF c \in D THEN Pending ELSE res[c]]
  /\ pc' = [c \in Calls |-> IF c \in D THEN "idle" ELSE pc[c]]
  /\ val' = [c \in Calls |-> IF c \in D THEN None ELSE val[c]]

Return(c) ==
  /\ pc[c] = "done"
  /\ op' = [op EXCEPT ![c] = "idle"]
  /\ Reset({c})
  /\ UNCHANGED <<rows, history, late, local, shared>>

\* TTL, the size limit of the local cache, a flush or restart of Redis.
ExpireLocal(p, k) ==
  /\ local[p][k] # None
  /\ local' = [local EXCEPT ![p][k] = None]
  /\ UNCHANGED <<clientVars, pc, val, shared>>

\* Mutant: the shared cache is set up without a TTL.
ExpireNever(k) == FALSE /\ shared[k] # None /\ UNCHANGED vars

ExpireShared(k) ==
  /\ shared[k] # None
  /\ shared' = [shared EXCEPT ![k] = None]
  /\ UNCHANGED <<clientVars, pc, val, local>>

\* The pod dies with its calls and its cache and starts again; an INSERT it
\* had sent may still be executed by MySQL.
Restart(p) ==
  LET dead == {c \in Calls : PodOf[c] = p /\ op[c] # "idle"}
  IN /\ op' = [c \in Calls |-> IF c \in dead THEN "idle" ELSE op[c]]
     /\ Reset(dead)
     /\ late' = late \cup {arg[c] : c \in {d \in dead : pc[d] = "insert"}}
     /\ local' = [local EXCEPT ![p] = [k \in Keys |-> None]]
     /\ UNCHANGED <<rows, history, shared>>

CacheStep(c) == LoadLocal(c) \/ LoadShared(c) \/ Refill(c) \/ Copy(c)

Step(c) ==
  \/ InsertCommits(c) \/ InsertFails(c) \/ InsertReplies(c)
  \/ Query(c) \/ CacheStep(c)

Next ==
  \/ \E c \in Calls : CreateRecord(c) \/ GetRecord(c) \/ ListRecords(c)
  \/ \E c \in Calls : Step(c) \/ Return(c)
  \/ \E i \in IDs : LateCommit(i)
  \/ \E k \in Keys : ExpireShared(k) \/ \E p \in Pods : ExpireLocal(p, k)
  \/ \E p \in Pods : Restart(p)

Spec == Init /\ [][Next]_vars

\* Goroutines are scheduled, the cache answers or fails (its client has time
\* limits of its own), entries expire.  Nothing makes MySQL answer a statement:
\* mysql.go passes no context on, and neither the DSN nor a flag sets a timeout.
FairSpec ==
  /\ Spec
  /\ \A c \in Calls : WF_vars(CacheStep(c))
  /\ \A k \in Keys : WF_vars(ExpireShared(k))
  /\ \A p \in Pods, k \in Keys : WF_vars(ExpireLocal(p, k))

-----------------------------------------------------------------------------
(* Properties. *)

\* Entry e is what the getter could have returned for key k at some time: the
\* stored record k, or a page of a past table for every listing with that key.
Coherent(k, e) ==
  \/ e = None
  \/ k \in rows /\ e = Rec(k)
  \/ /\ k \in ListKeys
     /\ \A o \in Opts :
          k = KeyOf(o) => \E S \in history : \E P \in PageOf(S, o) : e = Page(P)

\* Whatever interleaving of fills, expiries and restarts filled them, no cache
\* ever serves a key the value of another record, listing or type.
CachesCoherent ==
  /\ \A k \in Keys : Coherent(k, shared[k])
  /\ \A p \in Pods, k \in Keys : Coherent(k, local[p][k])
  /\ \A c \in Calls : pc[c] \in {"refill", "copy"} => Coherent(CacheKey(c), val[c])

\* Every answer is one the service promises: a get by uuid is never answered
\* "not found" for a record stored before the get was called (no pod caches
\* the absence of a record), and is never answered another record; a listing
\* never trips over an entry written by a get.
AnswersAllowed ==
  \A c \in Calls : res[c] # Pending => Service!Allowed(c, res[c])

\* Pods, caches and SQL implement the service.
ImplementsService == Service!Spec

\* A call hangs only in MySQL: it is answered, or dies with its pod, if every
\* statement it sends is answered or fails.
CallsEnd ==
  \A c \in Calls :
    LET inMySQL == pc[c] \in {"insert", "inserted", "query"}
    IN (inMySQL ~> ~inMySQL) => (pc[c] # "idle" ~> pc[c] \in {"idle", "done"})

\* Listing o shows record i in every cache and every value on its way to one.
Shows(o, i) ==
  LET shows(e) == e.is = "page" => i \in e.rows
  IN /\ shows(shared[KeyOf(o)])
     /\ \A p \in Pods : shows(local[p][KeyOf(o)])
     /\ \A c \in Calls : op[c] = "list" /\ arg[c] = o => shows(val[c])

\* Nobody invalidates a cached listing when a record is created, yet the
\* unlimited listings of all pods come to show it and never lose it again.
EventuallyListed ==
  \A i \in IDs, o \in Opts :
     ~Limited(o) => (i \in rows ~> [](Shows(o, i)))

\* pkg/dao/impl_test.go:222: a get for something that is not a record's id is
\* answered "record not found" (as long as no storage fails).
AbsentIsNotFound ==
  \A c \in Calls : op[c] = "get" /\ arg[c] \notin IDs =>
                   res[c] \in {Pending, NotFound, Unavailable}
=============================================================================
