---------------------------- MODULE CacheStaleness ----------------------------
(***************************************************************************)
(* How old may a listing be?  pkg/dao never invalidates a cached listing:  *)
(* it ages out.  The value of one key is read from MySQL, stays up to      *)
(* SharedTTL in the shared cache, and a pod that copies it on the last     *)
(* moment keeps it for another LocalTTL: the two periods add up.           *)
(*                                                                         *)
(* Of a listing only one thing is kept: whether it has the record whose    *)
(* visibility is followed.  Time is the integer `now'.                     *)
(***************************************************************************)
EXTENDS Integers

CONSTANTS Calls, Pods, PodOf,
          SharedTTL, LocalTTL,  \* time.Minute and 10 * time.Second in the code
          MaxLag,               \* the longest a call carries a value uncached
          Horizon               \* the last moment of a behaviour

ASSUME PodOfAssumption == PodOf \in [Calls -> Pods]
ASSUME TimesAssumption ==
  /\ SharedTTL \in Nat \ {0} /\ LocalTTL \in Nat \ {0}
  /\ MaxLag \in Nat /\ Horizon \in Nat

VARIABLES now,
          born,    \* when the record was inserted
          shared,  \* the entry of the listing in the shared cache
          local,   \* local[p]: its entry in the cache of pod p
          pc,      \* pc[c]: the next step of call c
          has,     \* has[c]: does the listing c carries or answers have it?
          since    \* since[c]: when c got that listing, or answered it

vars == <<now, born, shared, local, pc, has, since>>

Never   == -1
Missing == [is |-> "missing"]
Times   == 0 .. Horizon
Entries == [is : {"entry"}, has : BOOLEAN, exp : Int] \cup {Missing}

Entry(h, e) == [is |-> "entry", has |-> h, exp |-> e]

Live(e) == e # Missing /\ now < e.exp

Stored == born # Never

TypeOK ==
  /\ now \in Times
  /\ born \in Times \cup {Never}
  /\ shared \in Entries
  /\ local \in [Pods -> Entries]
  /\ pc \in [Calls -> {"idle", "shared", "query", "refill", "copy", "done"}]
  /\ has \in [Calls -> BOOLEAN]
  /\ since \in [Calls -> Times]

Init ==
  /\ now = 0
  /\ born = Never
  /\ shared = Missing
  /\ local = [p \in Pods |-> Missing]
  /\ pc = [c \in Calls |-> "idle"]
  /\ has = [c \in Calls |-> FALSE]
  /\ since = [c \in Calls |-> 0]

\* Mutants: the TTLs are added to nothing, or taken in another unit.
SharedExpiryLong(t) == t + 60 * SharedTTL
LocalExpiryLong(t)  == t + 10 * LocalTTL

SharedExpiry(t) == t + SharedTTL

LocalExpiry(t) == t + LocalTTL

-----------------------------------------------------------------------------

Goto(c, step) == pc' = [pc EXCEPT ![c] = step]

\* Call c goes on to `step' with a listing got now.
Carry(c, step, h) ==
  /\ Goto(c, step)
  /\ has' = [has EXCEPT ![c] = h]
  /\ since' = [since EXCEPT ![c] = now]

Insert ==
  /\ ~Stored
  /\ born' = now
  /\ UNCHANGED <<now, shared, local, pc, has, since>>

LoadLocal(c) ==
  LET e == local[PodOf[c]]
  IN /\ pc[c] = "idle"
     /\ \/ Live(e) /\ Carry(c, "done", e.has)
        \/ ~Live(e) /\ Goto(c, "shared") /\ UNCHANGED <<has, since>>
     /\ UNCHANGED <<now, born, shared, local>>

LoadShared(c) ==
  /\ pc[c] = "shared"
  /\ \/ Live(shared) /\ Carry(c, "copy", shared.has)
     \/ ~Live(shared) /\ Goto(c, "query") /\ UNCHANGED <<has, since>>
  /\ UNCHANGED <<now, born, shared, local>>

Query(c) ==
  /\ pc[c] = "query"
  /\ Carry(c, "refill", Stored)
  /\ UNCHANGED <<now, born, shared, local>>

Refill(c) ==
  /\ pc[c] = "refill"
  /\ shared' = Entry(has[c], SharedExpiry(now))
  /\ Carry(c, "copy", has[c])
  /\ UNCHANGED <<now, born, local>>

Copy(c) ==
  /\ pc[c] = "copy"
  /\ local' = [local EXCEPT ![PodOf[c]] = Entry(has[c], LocalExpiry(now))]
  /\ Carry(c, "done", has[c])
  /\ UNCHANGED <<now, born, shared>>

\* The answer is taken; a call may also fail or die at any step.
Return(c) ==
  /\ pc[c] # "idle"
  /\ Goto(c, "idle")
  /\ has' = [has EXCEPT ![c] = FALSE]
  /\ since' = [since EXCEPT ![c] = 0]
  /\ UNCHANGED <<now, born, shared, local>>

\* An entry is evicted, or its cache restarts, before it expires.
Evict ==
  /\ \/ shared' = Missing /\ local' = local
     \/ shared' = shared /\ \E p \in Pods : local' = [local EXCEPT ![p] = Missing]
  /\ UNCHANGED <<now, born, pc, has, since>>

Carrying(c) == pc[c] \in {"refill", "copy"}

Tick ==
  /\ now < Horizon
  /\ \A c \in Calls : Carrying(c) => now < since[c] + MaxLag
  /\ now' = now + 1
  /\ UNCHANGED <<born, shared, local, pc, has, since>>

Next ==
  \/ Insert \/ Evict \/ Tick
  \/ \E c \in Calls :
       LoadLocal(c) \/ LoadShared(c) \/ Query(c) \/ Refill(c) \/ Copy(c) \/ Return(c)

Spec == Init /\ [][Next]_vars

-----------------------------------------------------------------------------

Bound == SharedTTL + LocalTTL + 2 * MaxLag

\* A pod answers a listing without a record only less than Bound after its
\* INSERT, however the calls of all pods pass the listing between the caches.
VisibleInTime ==
  \A c \in Calls :
     pc[c] = "done" /\ Stored /\ ~has[c] => since[c] < born + Bound
=============================================================================
