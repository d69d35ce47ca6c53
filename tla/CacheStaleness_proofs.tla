------------------------- MODULE CacheStaleness_proofs -------------------------
(***************************************************************************)
(* The bound on the age of a cached listing, for all TTLs, lags and        *)
(* numbers of pods and calls.                                              *)
(***************************************************************************)
EXTENDS CacheStaleness, TLAPS

\* The last moment at which a SELECT could miss the record.
Latest == IF Stored THEN born ELSE now

\* What misses the record was selected by Latest; each hand-over adds a lag,
\* each cache its TTL.
CallAge(c) ==
  /\ since[c] <= now
  /\ Carrying(c) => now <= since[c] + MaxLag
  /\ pc[c] = "refill" /\ ~has[c] => since[c] <= Latest
  /\ pc[c] = "copy" /\ ~has[c] => since[c] < Latest + MaxLag + SharedTTL
  /\ pc[c] = "done" /\ ~has[c] => since[c] < Latest + Bound

SharedAge ==
  shared # Missing /\ ~shared.has => shared.exp <= Latest + MaxLag + SharedTTL

LocalAge(p) ==
  local[p] # Missing /\ ~local[p].has => local[p].exp < Latest + Bound

AgeInv ==
  /\ TypeOK
  /\ Stored => born <= now
  /\ SharedAge
  /\ \A p \in Pods : LocalAge(p)
  /\ \A c \in Calls : CallAge(c)

USE TimesAssumption, PodOfAssumption DEF Never, Times, Stored

\* At the start no listing is cached and none is carried.
LEMMA InitAge == Init => AgeInv
BY DEF Init, AgeInv, TypeOK, SharedAge, LocalAge, CallAge, Carrying, Latest,
       Entries, Missing, Bound

\* The clock moves at most one period of lag while a listing is carried.
LEMMA TimeAge ==
  ASSUME AgeInv, Tick \/ Insert \/ Evict
  PROVE  AgeInv'
<1> USE DEF AgeInv
<1>1. TypeOK'
  BY DEF TypeOK, Tick, Insert, Evict, Entries, Missing
<1>2. (Stored => born <= now)' /\ Latest <= Latest'
  BY DEF TypeOK, Tick, Insert, Evict, Latest
<1>3. SharedAge'
  BY <1>1, <1>2 DEF TypeOK, Tick, Insert, Evict, SharedAge, Latest, Entries, Missing
<1>4. ASSUME NEW p \in Pods PROVE LocalAge(p)'
  <2>1. local'[p] = local[p] \/ local'[p] = Missing
    BY DEF Tick, Insert, Evict, TypeOK
  <2> QED BY <1>2, <2>1 DEF LocalAge, TypeOK, Tick, Insert, Evict, Latest,
                            Entries, Missing, Bound
<1>5. ASSUME NEW c \in Calls PROVE CallAge(c)'
  BY <1>1, <1>2 DEF CallAge, Carrying, TypeOK, Tick, Insert, Evict, Latest, Bound
<1> QED BY <1>1, <1>2, <1>3, <1>4, <1>5

\* A step of a call moves its listing one tier on.
LEMMA CallsAge ==
  ASSUME AgeInv, NEW c \in Calls,
         LoadLocal(c) \/ LoadShared(c) \/ Query(c) \/ Refill(c) \/ Copy(c) \/ Return(c)
  PROVE  AgeInv'
<1> USE DEF AgeInv
<1>1. UNCHANGED <<now, born>> /\ Latest' = Latest
  BY DEF LoadLocal, LoadShared, Query, Refill, Copy, Return, Latest
<1>2. local[PodOf[c]] \in Entries /\ shared \in Entries /\ has[c] \in BOOLEAN
  BY DEF TypeOK
<1>3. TypeOK'
  <2>1. CASE LoadLocal(c)
    BY <1>2, <2>1 DEF LoadLocal, Carry, Goto, TypeOK, Live, Entries
  <2>2. CASE LoadShared(c)
    BY <1>2, <2>2 DEF LoadShared, Carry, Goto, TypeOK, Live, Entries
  <2>3. CASE Query(c)
    BY <2>3 DEF Query, Carry, Goto, TypeOK
  <2>4. CASE Refill(c)
    BY <1>2, <2>4 DEF Refill, Carry, Goto, TypeOK, Entry, Entries, SharedExpiry
  <2>5. CASE Copy(c)
    BY <1>2, <2>5 DEF Copy, Carry, Goto, TypeOK, Entry, Entries, LocalExpiry
  <2>6. CASE Return(c)
    BY <2>6 DEF Return, Goto, TypeOK
  <2> QED BY <2>1, <2>2, <2>3, <2>4, <2>5, <2>6
<1>4. SharedAge'
  <2>1. CASE Refill(c)
    BY <1>1, <1>2, <2>1 DEF Refill, SharedAge, Entry, SharedExpiry, CallAge, Carrying,
                            TypeOK, Latest
  <2>2. CASE ~Refill(c)
    BY <1>1, <2>2 DEF SharedAge, LoadLocal, LoadShared, Query, Copy, Return
  <2> QED BY <2>1, <2>2
<1>5. ASSUME NEW p \in Pods PROVE LocalAge(p)'
  <2>1. CASE Copy(c) /\ p = PodOf[c]
    <3>1. local'[p] = Entry(has[c], LocalExpiry(now))
      BY <2>1 DEF Copy, TypeOK
    <3> QED BY <1>1, <1>2, <2>1, <3>1 DEF Copy, LocalAge, Entry, LocalExpiry, CallAge,
                            Carrying, TypeOK, Latest, Bound
  <2>2. CASE ~(Copy(c) /\ p = PodOf[c])
    <3>1. local'[p] = local[p]
      BY <2>2 DEF LoadLocal, LoadShared, Query, Refill, Copy, Return, TypeOK
    <3> QED BY <1>1, <3>1 DEF LocalAge
  <2> QED BY <2>1, <2>2
<1>6. ASSUME NEW d \in Calls, d # c PROVE CallAge(d)'
  <2>1. pc'[d] = pc[d] /\ has'[d] = has[d] /\ since'[d] = since[d]
    BY <1>6 DEF LoadLocal, LoadShared, Query, Refill, Copy, Return, Carry, Goto, TypeOK
  <2> QED BY <1>1, <2>1 DEF CallAge, Carrying
<1>7. CallAge(c)'
  <2> USE DEF CallAge, Carrying, Carry, Goto, TypeOK, Latest, Bound
  <2>1. CASE LoadLocal(c)
    BY <1>1, <1>2, <2>1 DEF LoadLocal, LocalAge, Live, Entries
  <2>2. CASE LoadShared(c)
    <3>1. CASE Live(shared) /\ Carry(c, "copy", shared.has)
      <4>1. ~shared.has => now < Latest + MaxLag + SharedTTL
        BY <1>2, <3>1 DEF SharedAge, Live, Entries
      <4> QED BY <1>1, <3>1, <4>1
    <3>2. CASE Goto(c, "query") /\ UNCHANGED <<has, since>>
      BY <1>1, <3>2
    <3> QED BY <2>2, <3>1, <3>2 DEF LoadShared
  <2>3. CASE Query(c)
    <3>1. pc'[c] = "refill" /\ since'[c] = now
      BY <2>3 DEF Query
    <3>2. has'[c] = Stored
      BY ONLY <2>3, AgeInv, c \in Calls, Zenon DEF AgeInv, TypeOK, Query, Carry, Goto
    <3>3. ~has'[c] => Latest = now
      BY <3>2
    <3> QED BY <1>1, <3>1, <3>3
  <2>4. CASE Refill(c)
    BY <1>1, <2>4 DEF Refill
  <2>5. CASE Copy(c)
    BY <1>1, <2>5 DEF Copy
  <2>6. CASE Return(c)
    BY <1>1, <2>6 DEF Return
  <2> QED BY <2>1, <2>2, <2>3, <2>4, <2>5, <2>6
<1> QED BY <1>1, <1>3, <1>4, <1>5, <1>6, <1>7

\* In every reachable state a listing without the record is as young as its place allows.
THEOREM AgeInvariant == Spec => []AgeInv
<1>1. AgeInv /\ [Next]_vars => AgeInv'
  <2> SUFFICES ASSUME AgeInv, [Next]_vars PROVE AgeInv'
    OBVIOUS
  <2>1. CASE UNCHANGED vars
    BY <2>1 DEF vars, AgeInv, TypeOK, SharedAge, LocalAge, CallAge, Carrying, Latest
  <2> QED BY <2>1, TimeAge, CallsAge DEF Next
<1> QED BY <1>1, InitAge, PTL DEF Spec

\* For all TTLs and lags: no pod answers a listing that misses a record Bound
\* or more after the record's INSERT.
THEOREM VisibleInTimeAlways == Spec => []VisibleInTime
<1>1. AgeInv => VisibleInTime
  BY DEF AgeInv, CallAge, VisibleInTime, Latest
<1> QED BY <1>1, AgeInvariant, PTL
=============================================================================
