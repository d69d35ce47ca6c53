------------------------- MODULE GraphqlResolver_proofs -------------------------
(***************************************************************************)
(* Proofs about GraphqlResolver for requests of any width: its type, that  *)
(* each field is answered with the result of its own call, and that it is  *)
(* a call with the promises of RemoteCall, whatever is lost, late or given *)
(* up and whatever the order in which graphql-go calls the thunks.         *)
(***************************************************************************)
EXTENDS GraphqlResolver, TLAPS

Results == {"data", "refused", "failed"}

Types ==
  /\ forcing \in {0} \cup Fields
  /\ client \in BOOLEAN
  /\ go \in [Fields -> {"none", "client", "args", "call", "send", "ended"}]
  /\ held \in [Fields -> Results \cup {"none"}]
  /\ ch = [f \in Fields |-> ch[f]]
  /\ wire = [f \in Fields |-> wire[f]]
  /\ effect \in [Fields -> {0, 1}]
  /\ answer \in [Fields -> [of : {0} \cup Fields, is : Results \cup {"none"}]]

\* A result may be on its way to the thunk, or there.
OnItsWay(f, r) == held[f] = r \/ ch[f] = <<Result(f, r)>> \/ answer[f].is = r

\* The channel of a field holds nothing or the result of its own call, which is
\* there from the goroutine's end until the thunk takes it.
InOrder(f) ==
  /\ ch[f] = <<>> \/ \E r \in Results : ch[f] = <<Result(f, r)>>
  /\ go[f] # "ended" => ch[f] = <<>> /\ answer[f].is = "none"
  /\ go[f] = "ended" => (ch[f] = <<>>) = (answer[f].is # "none")
  /\ go[f] = "send" => held[f] \in Results
  /\ answer[f].is # "none" => answer[f].of = f
  /\ forcing = f => answer[f].is = "none"

\* The method runs once at most, for the request the field makes.
OnceOnly(f) ==
  /\ go[f] \in {"none", "client", "args"} => effect[f] = 0 /\ wire[f].is = "nothing"
  /\ wire[f].is = "request" => effect[f] = 0 /\ wire[f].req = Decode(query[f])
  /\ wire[f].is = "reply" => /\ wire[f].result \in {"data", "failed"}
                             /\ wire[f].result = "data" => effect[f] = 1
  /\ OnItsWay(f, "data") => effect[f] = 1

\* Fields are refused for want of a client, and only then.
ClientOrNone(f) ==
  IF client THEN ~OnItsWay(f, "refused")
  ELSE effect[f] = 0 /\ wire[f].is = "nothing" /\ go[f] \notin {"args", "call"}

FieldInv(f) == InOrder(f) /\ OnceOnly(f) /\ ClientOrNone(f)

Inv == Types /\ \A f \in Fields : FieldInv(f)

-----------------------------------------------------------------------------
(* The server *)

\* A method answers with data only when it has run.
LEMMA DataMeansDone ==
  ASSUME NEW m, NEW rq, NEW o \in Outcomes(m, rq)
  PROVE  /\ o.done \in {0, 1} /\ o.result \in {"data", "failed"}
         /\ o.result = "data" => o.done = 1
<1>1. CASE Serve(m, rq) = Refusal
  BY <1>1 DEF Outcomes
<1>2. CASE Serve(m, rq) # Refusal /\ Serve(m, rq) = [dao |-> "none"]
  BY <1>2 DEF Outcomes
<1>3. CASE Serve(m, rq) # Refusal /\ Serve(m, rq) # [dao |-> "none"]
  BY <1>3 DEF Outcomes
<1> QED BY <1>1, <1>2, <1>3

-----------------------------------------------------------------------------
LEMMA InvInit == Init => Inv
<1> SUFFICES ASSUME Init PROVE Inv
  OBVIOUS
<1>1. Types
  BY DEF Init, Types, Results, Result
<1>2. ASSUME NEW f \in Fields PROVE FieldInv(f)
  <2>1. f # 0 /\ answer[f] = Result(0, "none") /\ answer[f].is = "none"
    BY <1>2, WidthAssumption DEF Init, Fields, Result
  <2>2. /\ go[f] = "none" /\ held[f] = "none" /\ ch[f] = <<>> /\ effect[f] = 0
        /\ wire[f].is = "nothing"
    BY <1>2 DEF Init
  <2> QED BY <2>1, <2>2 DEF Init, FieldInv, InOrder, OnceOnly, ClientOrNone, OnItsWay
<1> QED BY <1>1, <1>2 DEF Inv

\* A step of one field leaves the others alone.
LEMMA OthersUntouched ==
  ASSUME NEW g \in Fields, FieldInv(g), UNCHANGED <<query, client>>,
         forcing' = g => forcing = g,
         go'[g] = go[g], held'[g] = held[g], ch'[g] = ch[g], wire'[g] = wire[g],
         effect'[g] = effect[g], answer'[g] = answer[g]
  PROVE  FieldInv(g)'
BY DEF FieldInv, InOrder, OnceOnly, ClientOrNone, OnItsWay

\* A thunk takes the result of its own field, and never a zero value.
LEMMA Taken ==
  ASSUME Types, NEW f \in Fields, FieldInv(f), TakeResult(f)
  PROVE  \E r \in Results : /\ ch[f] = <<Result(f, r)>>
                            /\ answer' = [answer EXCEPT ![f] = Result(f, r)]
<1>1. ch[f] # <<>>
  BY DEF TakeResult, ChanOf, FieldInv, InOrder
<1>2. PICK r \in Results : ch[f] = <<Result(f, r)>>
  BY <1>1 DEF FieldInv, InOrder
<1>3. Head(ch[f]) = Result(f, r)
  BY <1>2
<1> QED BY <1>1, <1>2, <1>3 DEF TakeResult, ChanOf

LEMMA InvNext == Inv /\ [Next]_vars => Inv'
<1> SUFFICES ASSUME Inv, [Next]_vars PROVE Inv'
  OBVIOUS
<1> USE WidthAssumption DEF Fields
<1> DEFINE Kept(f) == /\ Types'
                      /\ \A g \in Fields \ {f} : FieldInv(g)'
                      /\ FieldInv(f)'
<1>0. ASSUME NEW f \in Fields, Kept(f) PROVE Inv'
  BY <1>0 DEF Inv
<1>1. ASSUME NEW f \in Fields, Resolve(f) PROVE Inv'
  <2>1. Types'
    BY <1>1 DEF Resolve, executor, Inv, Types
  <2>2. \A g \in Fields \ {f} : FieldInv(g)'
    BY <1>1, OthersUntouched DEF Resolve, executor, Inv, Types
  <2>3. FieldInv(f)'
    BY <1>1 DEF Resolve, executor, Inv, Types,
                FieldInv, InOrder, OnceOnly, ClientOrNone, OnItsWay
  <2> QED BY <1>0, <2>1, <2>2, <2>3
<1>2. ASSUME NEW f \in Fields, CallThunk(f) PROVE Inv'
  <2>1. Types'
    BY <1>2 DEF CallThunk, Inv, Types
  <2>2. \A g \in Fields \ {f} : FieldInv(g)'
    BY <1>2, OthersUntouched DEF CallThunk, Inv
  <2>3. FieldInv(f)'
    BY <1>2 DEF CallThunk, Inv, FieldInv, InOrder, OnceOnly, ClientOrNone, OnItsWay
  <2> QED BY <1>0, <2>1, <2>2, <2>3
<1>12. ASSUME NEW f \in Fields, TakeResult(f) PROVE Inv'
  <2>1. PICK r \in Results :
          /\ ch[f] = <<Result(f, r)>>
          /\ answer' = [answer EXCEPT ![f] = Result(f, r)]
    BY <1>12, Taken DEF Inv
  <2>2. /\ ch' = [ch EXCEPT ![f] = <<>>] /\ forcing' = 0
        /\ UNCHANGED <<query, client, left, go, held, wire, effect>>
    BY <1>12, <2>1 DEF TakeResult, ChanOf
  <2>3. Types'
    <3>1. Result(f, r) \in [of : {0} \cup Fields, is : Results \cup {"none"}]
      BY DEF Result
    <3> QED BY <2>1, <2>2, <3>1 DEF Inv, Types
  <2>4. \A g \in Fields \ {f} : FieldInv(g)'
    <3> SUFFICES ASSUME NEW g \in Fields \ {f} PROVE FieldInv(g)'
      OBVIOUS
    <3>1. g # 0 /\ FieldInv(g)
      BY DEF Inv
    <3>2. ch'[g] = ch[g] /\ answer'[g] = answer[g]
      BY <2>1, <2>2 DEF Inv, Types
    <3> QED BY <2>2, <3>1, <3>2, OthersUntouched
  <2>5. answer'[f] = Result(f, r) /\ ch'[f] = <<>>
    BY <2>1, <2>2 DEF Inv, Types
  <2>6. answer'[f].is = r /\ answer'[f].of = f
    BY <2>5 DEF Result
  <2>7. go[f] = "ended"
    BY <2>1 DEF Inv, FieldInv, InOrder
  <2>8. InOrder(f)'
    BY <2>2, <2>5, <2>6, <2>7 DEF Inv, Types, FieldInv, InOrder, Results
  <2>9. \A q \in Results : OnItsWay(f, q)' => OnItsWay(f, q)
    BY <2>1, <2>2, <2>5, <2>6 DEF OnItsWay
  <2>10. OnceOnly(f)' /\ ClientOrNone(f)'
    BY <2>2, <2>9 DEF Inv, FieldInv, OnceOnly, ClientOrNone, Results
  <2> QED BY <1>0, <2>3, <2>4, <2>8, <2>10 DEF FieldInv
<1>3. CASE Leave
  <2>1. Types'
    BY <1>3 DEF Leave, Inv, Types
  <2>2. \A g \in Fields : FieldInv(g)'
    BY <1>3, OthersUntouched DEF Leave, Inv
  <2> QED BY <2>1, <2>2 DEF Inv
<1>4. ASSUME NEW f \in Fields, FindClient(f) PROVE Inv'
  <2>1. Types'
    BY <1>4 DEF FindClient, Hold, executor, Inv, Types, Results
  <2>2. \A g \in Fields \ {f} : FieldInv(g)'
    BY <1>4, OthersUntouched DEF FindClient, Hold, executor, Inv, Types
  <2>3. FieldInv(f)'
    BY <1>4 DEF FindClient, Hold, executor, Inv, Types, Results,
                FieldInv, InOrder, OnceOnly, ClientOrNone, OnItsWay
  <2> QED BY <1>0, <2>1, <2>2, <2>3
<1>5. ASSUME NEW f \in Fields, Invoke(f) PROVE Inv'
  <2>1. Types'
    BY <1>5 DEF Invoke, executor, Inv, Types
  <2>2. \A g \in Fields \ {f} : FieldInv(g)'
    BY <1>5, OthersUntouched DEF Invoke, executor, Inv, Types
  <2>3. wire'[f] = [is |-> "request", req |-> Decode(query[f])]
    BY <1>5 DEF Invoke, Inv, Types
  <2>4. FieldInv(f)'
    BY <1>5, <2>3 DEF Invoke, executor, Inv, Types,
                      FieldInv, InOrder, OnceOnly, ClientOrNone, OnItsWay
  <2> QED BY <1>0, <2>1, <2>2, <2>4
<1>6. ASSUME NEW f \in Fields, Receive(f) PROVE Inv'
  <2>1. Types'
    BY <1>6 DEF Receive, Hold, executor, Inv, Types, FieldInv, OnceOnly, Results
  <2>2. \A g \in Fields \ {f} : FieldInv(g)'
    BY <1>6, OthersUntouched DEF Receive, Hold, executor, Inv, Types
  <2>3. wire'[f] = [is |-> "nothing"]
    BY <1>6 DEF Receive, Inv, Types
  <2>4. FieldInv(f)'
    BY <1>6, <2>3 DEF Receive, Hold, executor, Inv, Types, Results,
                      FieldInv, InOrder, OnceOnly, ClientOrNone, OnItsWay
  <2> QED BY <1>0, <2>1, <2>2, <2>4
<1>7. ASSUME NEW f \in Fields, GiveUp(f) PROVE Inv'
  <2>1. Types'
    BY <1>7 DEF GiveUp, Hold, executor, Inv, Types, Results
  <2>2. \A g \in Fields \ {f} : FieldInv(g)'
    BY <1>7, OthersUntouched DEF GiveUp, Hold, executor, Inv, Types
  <2>3. FieldInv(f)'
    BY <1>7 DEF GiveUp, Hold, executor, Inv, Types, Results,
                FieldInv, InOrder, OnceOnly, ClientOrNone, OnItsWay
  <2> QED BY <1>0, <2>1, <2>2, <2>3
<1>8. ASSUME NEW f \in Fields, Send(f) PROVE Inv'
  <2>1. ch[f] = <<>> /\ answer[f].is = "none" /\ held[f] \in Results /\ go[f] = "send"
    BY <1>8 DEF Send, Inv, FieldInv, InOrder
  <2>2. /\ ch' = [ch EXCEPT ![f] = <<Result(f, held[f])>>]
        /\ go' = [go EXCEPT ![f] = "ended"]
        /\ UNCHANGED <<query, client, executor, held, wire, effect>>
    BY <1>8, <2>1 DEF Send, ChanOf, Inv, Types
  <2>3. Types'
    BY <2>1, <2>2 DEF executor, Inv, Types
  <2>4. \A g \in Fields \ {f} : FieldInv(g)'
    BY <2>2, OthersUntouched DEF executor, Inv, Types
  <2>5. /\ ch'[f] = <<Result(f, held[f])>> /\ go'[f] = "ended" /\ answer'[f].is = "none"
        /\ held'[f] = held[f] /\ effect'[f] = effect[f] /\ wire'[f] = wire[f]
    BY <2>1, <2>2 DEF executor, Inv, Types
  <2>6. InOrder(f)'
    BY <2>1, <2>5 DEF InOrder, Results
  <2>7. \A q \in Results : OnItsWay(f, q)' => OnItsWay(f, q)
    <3>1. \A q : Result(f, held[f]) = Result(f, q) => held[f] = q
      BY DEF Result
    <3> QED BY <2>1, <2>5, <3>1 DEF OnItsWay, Results
  <2>8. OnceOnly(f)' /\ ClientOrNone(f)'
    BY <2>2, <2>5, <2>7 DEF Inv, FieldInv, OnceOnly, ClientOrNone, Results
  <2> QED BY <1>0, <2>3, <2>4, <2>6, <2>8 DEF FieldInv
<1>9. ASSUME NEW f \in Fields, Handle(f) PROVE Inv'
  <2>1. PICK o \in Outcomes(query[f].method, wire[f].req) :
          /\ effect' = [effect EXCEPT ![f] = @ + o.done]
          /\ wire' = [wire EXCEPT ![f] = [is |-> "reply", result |-> o.result]]
    BY <1>9 DEF Handle
  <2>2. wire[f].is = "request" /\ UNCHANGED <<query, client, executor, go, held, ch>>
    BY <1>9 DEF Handle
  <2>3. effect[f] = 0 /\ wire[f].req = Decode(query[f]) /\ client
    BY <2>2 DEF Inv, Types, FieldInv, OnceOnly, ClientOrNone
  <2>4. /\ o.done \in {0, 1} /\ o.result \in {"data", "failed"}
        /\ o.result = "data" => o.done = 1
    BY DataMeansDone
  <2>6. effect'[f] = o.done /\ wire'[f] = [is |-> "reply", result |-> o.result]
    BY <2>1, <2>3, <2>4 DEF Inv, Types
  <2>7. Types'
    <3>1. effect' \in [Fields -> {0, 1}]
      BY <2>1, <2>3, <2>4 DEF Inv, Types
    <3>2. wire' = [g \in Fields |-> wire'[g]]
      BY <2>1 DEF Inv, Types
    <3> QED BY <2>2, <3>1, <3>2 DEF executor, Inv, Types
  <2>8. \A g \in Fields \ {f} : FieldInv(g)'
    BY <2>1, <2>2, OthersUntouched DEF executor, Inv, Types
  <2>9. InOrder(f)'
    BY <2>2 DEF executor, Inv, FieldInv, InOrder
  <2>10. OnceOnly(f)' /\ ClientOrNone(f)'
    BY <2>2, <2>3, <2>4, <2>6
       DEF executor, Inv, FieldInv, InOrder, OnceOnly, ClientOrNone, OnItsWay
  <2> QED BY <1>0, <2>7, <2>8, <2>9, <2>10 DEF FieldInv
<1>10. ASSUME NEW f \in Fields, Lose(f) PROVE Inv'
  <2>1. Types'
    <3>1. wire' = [g \in Fields |-> wire'[g]]
      BY <1>10 DEF Lose, Inv, Types
    <3> QED BY <1>10, <3>1 DEF Lose, executor, Inv, Types
  <2>2. \A g \in Fields \ {f} : FieldInv(g)'
    BY <1>10, OthersUntouched DEF Lose, executor, Inv, Types
  <2>3. wire'[f] = [is |-> "nothing"]
    BY <1>10 DEF Lose, Inv, Types
  <2>4. FieldInv(f)'
    BY <1>10, <2>3 DEF Lose, executor, Inv, Types,
                       FieldInv, InOrder, OnceOnly, ClientOrNone, OnItsWay
  <2> QED BY <1>0, <2>1, <2>2, <2>4
<1>11. CASE UNCHANGED vars
  <2>1. Types'
    BY <1>11 DEF vars, executor, Inv, Types
  <2>2. \A g \in Fields : FieldInv(g)'
    BY <1>11, OthersUntouched DEF vars, executor, Inv
  <2> QED BY <2>1, <2>2 DEF Inv
<1> QED
  BY <1>1, <1>2, <1>3, <1>4, <1>5, <1>6, <1>7, <1>8, <1>9, <1>10, <1>11, <1>12
     DEF Next, Executor

LEMMA InvAlways == Spec => []Inv
BY InvInit, InvNext, PTL DEF Spec

-----------------------------------------------------------------------------
(* Theorems *)

\* Whatever way a goroutine ends, and whenever its thunk is called, the thunk
\* returns data or an error, never the zero value of a channel closed empty.
THEOREM TypeCorrect == Spec => []TypeOK
<1>1. Inv => TypeOK
  BY DEF Inv, Types, TypeOK, Results
<1> QED BY <1>1, InvAlways, PTL

\* No field is answered with the result of another, for a request of any width.
THEOREM OwnResultsAlways == Spec => []OwnResults
<1>1. Inv => OwnResults
  BY DEF Inv, FieldInv, InOrder, OwnResults
<1> QED BY <1>1, InvAlways, PTL

\* Only the server takes effect, and only the thunk answers.
LEMMA StepIsCall ==
  ASSUME Inv, Inv', [Next]_vars
  PROVE  [Caller!Next]_Caller!vars
<1> USE WidthAssumption DEF Fields
<1> DEFINE answers == [f \in Fields |-> answer[f].is]
<1>1. ASSUME NEW f \in Fields, Handle(f) PROVE [Caller!Next]_Caller!vars
  <2>1. PICK o : effect' = [effect EXCEPT ![f] = @ + o.done]
    BY <1>1 DEF Handle
  <2>2. effect[f] = 0 /\ answer[f].is # "refused" /\ answer' = answer
    BY <1>1 DEF Handle, executor, Inv, Types, FieldInv, OnceOnly, ClientOrNone, OnItsWay
  <2>3. effect'[f] \in {0, 1} /\ effect' = [effect EXCEPT ![f] = effect'[f]]
    BY <2>1 DEF Inv, Types
  <2>4. effect' = effect \/ Caller!TakeEffect(f)
    <3>1. CASE effect'[f] = 0
      <4>1. effect \in [Fields -> {0, 1}] /\ effect' = [effect EXCEPT ![f] = 0]
        BY <2>3, <3>1 DEF Inv, Types
      <4> QED BY <2>2, <4>1
    <3>2. CASE effect'[f] = 1
      BY <2>2, <2>3, <3>2 DEF Caller!TakeEffect
    <3> QED BY <2>3, <3>1, <3>2
  <2> QED BY <2>2, <2>4 DEF Caller!Next, Caller!vars
<1>2. ASSUME NEW f \in Fields, TakeResult(f) PROVE [Caller!Next]_Caller!vars
  <2>1. PICK r \in Results :
          /\ ch[f] = <<Result(f, r)>>
          /\ answer' = [answer EXCEPT ![f] = Result(f, r)]
    BY <1>2, Taken DEF Inv
  <2>2. effect' = effect /\ answer[f].is = "none"
    BY <1>2 DEF TakeResult, Inv, FieldInv, InOrder
  <2>3. answers' = [answers EXCEPT ![f] = r]
    <3>1. \A g \in Fields : answer'[g].is = IF g = f THEN r ELSE answer[g].is
      BY <2>1 DEF Result, Inv, Types
    <3> QED BY <3>1
  <2>4. (r = "data" => effect[f] = 1) /\ (r = "refused" => effect[f] = 0)
    BY <2>1 DEF Inv, FieldInv, OnceOnly, ClientOrNone, OnItsWay
  <2>5. Caller!Answer(f)
    BY <2>2, <2>3, <2>4 DEF Caller!Answer, Results
  <2> QED BY <2>5 DEF Caller!Next
<1>3. CASE \A f \in Fields : ~TakeResult(f) /\ ~Handle(f)
  <2>1. UNCHANGED <<effect, answer>>
    BY <1>3 DEF Next, Executor, vars, executor, Resolve, CallThunk, Leave, FindClient, Invoke,
                Receive, GiveUp, Send, Lose
  <2> QED BY <2>1 DEF Caller!vars
<1> QED BY <1>1, <1>2, <1>3

\* Each field is a call of RemoteCall: it takes effect once at most, before it
\* is answered with data, and never when it is refused.
THEOREM Implements == Spec => ImplementsRemoteCall
<1>1. Init => Caller!Init
  BY DEF Init, Caller!Init, Result
<1>2. Inv /\ Inv' /\ [Next]_vars => [Caller!Next]_Caller!vars
  BY StepIsCall
<1> QED BY <1>1, <1>2, InvAlways, PTL DEF Spec, ImplementsRemoteCall, Caller!Spec
=============================================================================
