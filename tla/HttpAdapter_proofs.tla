--------------------------- MODULE HttpAdapter_proofs ---------------------------
(***************************************************************************)
(* Proofs about HttpAdapter for every set of requests and every server     *)
(* that keeps to RecordRpc: its type, that it implements RemoteCall, that  *)
(* listings are whole, and that the url decides.                           *)
(***************************************************************************)
EXTENDS HttpAdapter, TLAPS

Codes == {"200", "201", "204", "error", "ErrUnmarshalBodyFailed"}

Types ==
  /\ incoming \in [Clients -> Incoming]
  /\ pc \in [Clients -> {"decode", "call", "answer", "end"}]
  /\ req = [r \in Clients |-> req[r]]
  /\ resp \in [Clients -> [is : {"none", "response", "nil", "error"}, parts : 0..MaxRows + 1]]
  /\ marshalled \in [Clients -> Nat]
  /\ written \in [Clients -> Seq([code : Codes, parts : Nat])]
  /\ effect \in [Clients -> {0, 1}]

\* What the request built is, once it is built.
Bound(r) == req[r] = Bind(incoming[r], Requests[incoming[r].method])

\* The server ran the method for a request it does not refuse.
Served(r) ==
  /\ Bound(r)
  /\ incoming[r].method = "ListRecord" => Parses(req[r].PageSize) /\ Parses(req[r].Page)

\* What is so at each place of a handler.
AtDecode(r) ==
  pc[r] = "decode" => /\ req[r] = Requests[incoming[r].method]
                      /\ effect[r] = 0 /\ resp[r].is = "none" /\ marshalled[r] = 0
AtCall(r) ==
  pc[r] = "call" => /\ Bound(r)
                    /\ effect[r] = 0 /\ resp[r].is = "none" /\ marshalled[r] = 0
AtAnswer(r) == pc[r] = "answer" => resp[r].is # "none" /\ written[r] = <<>>

Answered(r, w) ==
  /\ written[r] = <<w>>
  /\ w.code = "ErrUnmarshalBodyFailed" => effect[r] = 0
  /\ w.code \in {"200", "201", "204"} => effect[r] = 1
  /\ w.code = "200" => w.parts = resp[r].parts

AtEnd(r) ==
  IF pc[r] = "end" THEN \E w \in [code : Codes, parts : Nat] : Answered(r, w)
  ELSE written[r] = <<>>

HandlerInv(r) ==
  /\ AtDecode(r) /\ AtCall(r) /\ AtAnswer(r) /\ AtEnd(r)
  /\ DOMAIN req[r] = DOMAIN Requests[incoming[r].method]
  /\ resp[r].is \in {"response", "nil"} => effect[r] = 1
  /\ marshalled[r] <= resp[r].parts
  /\ effect[r] = 1 => Served(r)

Inv == Types /\ \A r \in Clients : HandlerInv(r)

-----------------------------------------------------------------------------
(* The server *)

\* A method answers with data only when it has run, and a listing runs only
\* for a size and a page that are numerals.
LEMMA ServerKeepsPromise ==
  ASSUME NEW m \in Methods, NEW rq, NEW o \in Outcomes(m, rq)
  PROVE  /\ o.done \in {0, 1} /\ o.result \in {"data", "failed"}
         /\ o.result = "data" => o.done = 1
         /\ o.done = 1 /\ m = "ListRecord" => Parses(rq.PageSize) /\ Parses(rq.Page)
<1>1. CASE Serve(m, rq) = Refusal
  <2>1. Outcomes(m, rq) = {[done |-> 0, result |-> "failed"]}
    <3>1. Refusal # [dao |-> "none"]
      BY DEF Refusal
    <3> QED BY <1>1, <3>1 DEF Outcomes
  <2> QED BY <2>1
<1>2. CASE Serve(m, rq) # Refusal
  <2>1. /\ o.done \in {0, 1} /\ o.result \in {"data", "failed"}
        /\ o.result = "data" => o.done = 1
    <3>1. CASE Serve(m, rq) = [dao |-> "none"]
      BY <1>2, <3>1 DEF Outcomes
    <3>2. CASE Serve(m, rq) # [dao |-> "none"]
      BY <1>2, <3>2 DEF Outcomes
    <3> QED BY <3>1, <3>2
  <2>2. ASSUME m = "ListRecord" PROVE Parses(rq.PageSize) /\ Parses(rq.Page)
    <3>1. Serve(m, rq) = ListRecord(rq)
      BY <2>2 DEF Serve
    <3> QED BY <1>2, <3>1 DEF ListRecord
  <2> QED BY <2>1, <2>2
<1> QED BY <1>1, <1>2

-----------------------------------------------------------------------------
LEMMA InvInit == Init => Inv
<1> SUFFICES ASSUME Init PROVE Inv
  OBVIOUS
<1> USE DEF Init, NoResp
<1>1. Types
  BY MaxRowsAssumption DEF Types
<1>2. ASSUME NEW r \in Clients PROVE HandlerInv(r)
  BY <1>2 DEF HandlerInv, AtDecode, AtCall, AtAnswer, AtEnd
<1> QED BY <1>1, <1>2 DEF Inv

\* A handler leaves the others alone.
LEMMA OthersUntouched ==
  ASSUME Inv, Types', NEW r \in Clients, NEW s \in Clients, HandlerInv(s),
         incoming'[s] = incoming[s], pc'[s] = pc[s], req'[s] = req[s], resp'[s] = resp[s],
         marshalled'[s] = marshalled[s], written'[s] = written[s], effect'[s] = effect[s]
  PROVE  HandlerInv(s)'
BY DEF HandlerInv, AtDecode, AtCall, AtAnswer, AtEnd, Answered, Served, Bound

\* Types of what an answer leaves.
LEMMA WriteTyped ==
  ASSUME Types, NEW r \in Clients, NEW code \in Codes, NEW parts \in Nat, Write(r, code, parts)
  PROVE  /\ written' \in [Clients -> Seq([code : Codes, parts : Nat])]
         /\ pc' \in [Clients -> {"decode", "call", "answer", "end"}]
         /\ \A s \in Clients \ {r} : written'[s] = written[s] /\ pc'[s] = pc[s]
         /\ pc'[r] = "end"
         /\ written[r] = <<>> => written'[r] = <<[code |-> code, parts |-> parts]>>
<1> DEFINE w == [code |-> code, parts |-> parts]
           A == [code : Codes, parts : Nat]
<1>1. w \in A /\ written[r] \in Seq(A)
  BY DEF Types
<1>2. Append(written[r], w) \in Seq(A)
  <2> HIDE DEF w, A
  <2> QED BY <1>1
<1>3. written' = [written EXCEPT ![r] = Append(written[r], w)]
  BY DEF Write
<1>4. written[r] = <<>> => Append(written[r], w) = <<w>>
  OBVIOUS
<1> QED BY <1>2, <1>3, <1>4 DEF Write, Types

\* An answer that says no more than it may ends its handler well.
LEMMA WriteEnds ==
  ASSUME Inv, NEW r \in Clients, NEW code \in Codes, NEW parts \in Nat,
         Write(r, code, parts), UNCHANGED <<incoming, req, resp, marshalled, effect>>,
         pc[r] # "end",
         code = "ErrUnmarshalBodyFailed" => effect[r] = 0,
         code \in {"200", "201", "204"} => effect[r] = 1,
         code = "200" => parts = resp[r].parts
  PROVE  Inv'
<1>1. Types'
  BY WriteTyped DEF Inv, Types
<1>2. ASSUME NEW s \in Clients, s # r PROVE HandlerInv(s)'
  BY <1>1, <1>2, WriteTyped, OthersUntouched DEF Inv
<1>3. HandlerInv(r)'
  <2> DEFINE w == [code |-> code, parts |-> parts]
  <2>1. w \in [code : Codes, parts : Nat] /\ written'[r] = <<w>> /\ pc'[r] = "end"
    BY WriteTyped DEF Inv, HandlerInv, AtEnd
  <2>2. Answered(r, w)'
    BY <2>1 DEF Answered
  <2>3. AtEnd(r)'
    BY <2>1, <2>2 DEF AtEnd
  <2> QED BY <2>1, <2>3 DEF Inv, HandlerInv, AtDecode, AtCall, AtAnswer, Served, Bound
<1> QED BY <1>1, <1>2, <1>3 DEF Inv

LEMMA InvNext == Inv /\ [Next]_vars => Inv'
<1> SUFFICES ASSUME Inv, [Next]_vars PROVE Inv'
  OBVIOUS
<1>1. ASSUME NEW r \in Clients, Decode(r) PROVE Inv'
  <2>1. Types'
    BY <1>1 DEF Inv, Types, Decode
  <2>2. ASSUME NEW s \in Clients, s # r PROVE HandlerInv(s)'
    BY <1>1, <2>1, <2>2, OthersUntouched DEF Inv, Types, Decode
  <2>3. HandlerInv(r)'
    <3>1. /\ pc'[r] = "call" /\ effect'[r] = 0 /\ resp'[r].is = "none" /\ written'[r] = <<>>
          /\ marshalled'[r] = 0
          /\ req'[r] = Bind(incoming[r], Requests[incoming[r].method])
      BY <1>1 DEF Inv, Types, Decode, HandlerInv, AtDecode, AtEnd
    <3>2. incoming' = incoming /\ marshalled' = marshalled /\ resp' = resp
      BY <1>1 DEF Decode
    <3>3. DOMAIN req'[r] = DOMAIN Requests[incoming[r].method]
      BY <3>1 DEF Bind
    <3> QED BY <3>1, <3>2, <3>3
            DEF Inv, HandlerInv, AtDecode, AtCall, AtAnswer, AtEnd, Bound
  <2> QED BY <2>1, <2>2, <2>3 DEF Inv
<1>2. ASSUME NEW r \in Clients, RefuseBody(r) PROVE Inv'
  <2>1. effect[r] = 0
    BY <1>2 DEF RefuseBody, Inv, HandlerInv, AtDecode
  <2> QED BY <1>2, <2>1, WriteEnds DEF RefuseBody, Codes
<1>3. ASSUME NEW r \in Clients, Call(r) PROVE Inv'
  <2> DEFINE m == incoming[r].method
  <2>0. PICK o \in Outcomes(m, req[r]), n \in Parts(m) :
          /\ effect' = [effect EXCEPT ![r] = @ + o.done]
          /\ \E is \in IF o.result = "data" THEN {"response", "nil"} ELSE {"error"} :
               resp' = [resp EXCEPT ![r] =
                          [is |-> is, parts |-> IF is = "response" THEN n ELSE 0]]
    BY <1>3 DEF Call
  <2>1. PICK is \in IF o.result = "data" THEN {"response", "nil"} ELSE {"error"} :
          resp' = [resp EXCEPT ![r] = [is |-> is, parts |-> IF is = "response" THEN n ELSE 0]]
    BY <2>0
  <2>2. /\ pc[r] = "call" /\ pc' = [pc EXCEPT ![r] = "answer"]
        /\ UNCHANGED <<incoming, req, marshalled, written>>
    BY <1>3 DEF Call
  <2>3. m \in Methods
    BY IncomingAssumption DEF Inv, Types
  <2>4. /\ o.done \in {0, 1} /\ o.result \in {"data", "failed"}
        /\ o.result = "data" => o.done = 1
        /\ o.done = 1 /\ m = "ListRecord" => Parses(req[r].PageSize) /\ Parses(req[r].Page)
    BY <2>3, ServerKeepsPromise
  <2>5. n \in 0..MaxRows + 1 /\ 0 \in 0..MaxRows + 1
    BY MaxRowsAssumption DEF Parts
  <2>6. /\ effect[r] = 0 /\ Bound(r) /\ resp[r].is = "none" /\ marshalled[r] = 0
        /\ written[r] = <<>>
    BY <2>2 DEF Inv, HandlerInv, AtCall, AtEnd
  <2>7. is \in {"response", "nil", "error"} /\ (is \in {"response", "nil"} => o.done = 1)
    BY <2>4
  <2>8. Types'
    <3>1. effect' \in [Clients -> {0, 1}]
      BY <2>0, <2>4, <2>6 DEF Inv, Types
    <3>2. [is |-> is, parts |-> IF is = "response" THEN n ELSE 0]
            \in [is : {"none", "response", "nil", "error"}, parts : 0..MaxRows + 1]
      BY <2>5, <2>7
    <3>3. resp' \in [Clients -> [is : {"none", "response", "nil", "error"},
                                parts : 0..MaxRows + 1]]
      BY <2>1, <3>2 DEF Inv, Types
    <3> QED BY <2>2, <3>1, <3>3 DEF Inv, Types
  <2>9. ASSUME NEW s \in Clients, s # r PROVE HandlerInv(s)'
    BY <2>0, <2>1, <2>2, <2>8, <2>9, OthersUntouched DEF Inv, Types
  <2>10. HandlerInv(r)'
    <3>1. /\ pc'[r] = "answer" /\ written'[r] = <<>> /\ effect'[r] = o.done
          /\ resp'[r].is = is /\ resp'[r].parts \in 0..MaxRows + 1
      BY <2>0, <2>1, <2>2, <2>4, <2>5, <2>6 DEF Inv, Types
    <3>2. marshalled'[r] <= resp'[r].parts
      BY <2>2, <2>6, <3>1, MaxRowsAssumption
    <3> QED BY <2>2, <2>4, <2>6, <2>7, <3>1, <3>2
            DEF Inv, HandlerInv, AtDecode, AtCall, AtAnswer, AtEnd, Served, Bound
  <2> QED BY <2>8, <2>9, <2>10 DEF Inv
<1>4. ASSUME NEW r \in Clients, AnswerError(r) PROVE Inv'
  BY <1>4, WriteEnds DEF AnswerError, Codes
<1>5. ASSUME NEW r \in Clients, AnswerNothing(r) PROVE Inv'
  <2>1. effect[r] = 1
    BY <1>5 DEF AnswerNothing, Inv, HandlerInv
  <2> QED BY <1>5, <2>1, WriteEnds DEF AnswerNothing, Codes
<1>6. ASSUME NEW r \in Clients, MarshalPart(r) PROVE Inv'
  <2>1. Types'
    <3>1. marshalled' \in [Clients -> Nat]
      BY <1>6 DEF Inv, Types, MarshalPart
    <3> QED BY <1>6, <3>1 DEF Inv, Types, MarshalPart, Marshalling
  <2>2. ASSUME NEW s \in Clients, s # r PROVE HandlerInv(s)'
    BY <1>6, <2>1, <2>2, OthersUntouched DEF Inv, Types, MarshalPart
  <2>3. marshalled'[r] <= resp'[r].parts
    BY <1>6 DEF Inv, Types, MarshalPart
  <2>4. HandlerInv(r)'
    <3>1. /\ pc'[r] = "answer" /\ pc[r] = "answer" /\ resp' = resp /\ written' = written
          /\ req' = req /\ incoming' = incoming /\ effect' = effect
      BY <1>6 DEF MarshalPart, Marshalling
    <3>2. Served(r) => Served(r)'
      BY <3>1 DEF Served, Bound
    <3> QED BY <2>3, <3>1, <3>2 DEF Inv, HandlerInv, AtDecode, AtCall, AtAnswer, AtEnd
  <2> QED BY <2>1, <2>2, <2>4 DEF Inv
<1>7. ASSUME NEW r \in Clients, MarshalFails(r) PROVE Inv'
  BY <1>7, WriteEnds DEF MarshalFails, Marshalling, Codes
<1>8. ASSUME NEW r \in Clients, AnswerData(r) PROVE Inv'
  <2> DEFINE code == IF incoming[r].method = "CreateRecord" THEN "201" ELSE "200"
  <2>1. code \in Codes /\ code # "ErrUnmarshalBodyFailed"
    BY DEF Codes
  <2>2. effect[r] = 1 /\ marshalled[r] \in Nat /\ pc[r] # "end"
    BY <1>8 DEF AnswerData, Marshalling, Inv, Types, HandlerInv
  <2>3. /\ Write(r, code, marshalled[r]) /\ marshalled[r] = resp[r].parts
        /\ UNCHANGED <<incoming, req, resp, marshalled, effect>>
    BY <1>8 DEF AnswerData
  <2> QED BY <2>1, <2>2, <2>3, WriteEnds
<1>9. CASE UNCHANGED vars
  <2>1. Types'
    BY <1>9 DEF vars, Inv, Types
  <2>2. ASSUME NEW s \in Clients PROVE HandlerInv(s)'
    BY <1>9, <2>1, <2>2, OthersUntouched DEF vars, Inv
  <2> QED BY <2>1, <2>2 DEF Inv
<1> QED BY <1>1, <1>2, <1>3, <1>4, <1>5, <1>6, <1>7, <1>8, <1>9 DEF Next, Handler

LEMMA InvAlways == Spec => []Inv
BY InvInit, InvNext, PTL DEF Spec

-----------------------------------------------------------------------------
(* Theorems *)

\* Every handler, of every method and however it fails, writes one answer and
\* then no more.
THEOREM TypeCorrect == Spec => []TypeOK
<1>1. Inv => TypeOK
  <2> SUFFICES ASSUME Inv, NEW r \in Clients
               PROVE  /\ pc[r] \in {"decode", "call", "answer", "end"}
                      /\ DOMAIN req[r] = DOMAIN Requests[incoming[r].method]
                      /\ resp[r].is \in {"none", "response", "nil", "error"}
                      /\ resp[r].parts \in 0..MaxRows + 1
                      /\ marshalled[r] \in 0..resp[r].parts
                      /\ Len(written[r]) = IF pc[r] = "end" THEN 1 ELSE 0
    BY DEF TypeOK
  <2>1. Len(written[r]) = IF pc[r] = "end" THEN 1 ELSE 0
    <3>1. CASE pc[r] = "end"
      <4>1. PICK w \in [code : Codes, parts : Nat] : written[r] = <<w>>
        BY <3>1 DEF Inv, HandlerInv, AtEnd, Answered
      <4> QED BY <3>1, <4>1
    <3>2. CASE pc[r] # "end"
      BY <3>2 DEF Inv, HandlerInv, AtEnd
    <3> QED BY <3>1, <3>2
  <2> QED BY <2>1, MaxRowsAssumption DEF Inv, Types, HandlerInv
<1> QED BY <1>1, InvAlways, PTL

\* No 200 to a listing leaves out a record.
THEOREM ListsAreWhole == Spec => []ListsWhole
<1>1. Inv => ListsWhole
  BY DEF Inv, HandlerInv, AtEnd, Answered, ListsWhole
<1> QED BY <1>1, InvAlways, PTL

\* The method never runs with a size, a page or an id that the url did not give.
THEOREM UrlAlwaysDecides == Spec => []UrlDecides
<1>1. Inv => UrlDecides
  <2> SUFFICES ASSUME Inv, NEW r \in Clients, effect[r] > 0
               PROVE  /\ incoming[r].method = "ListRecord" =>
                           /\ req[r].PageSize = incoming[r].url.PageSize
                           /\ Parses(incoming[r].url.PageSize)
                           /\ req[r].Page = incoming[r].url.Page
                           /\ Parses(incoming[r].url.Page)
                      /\ incoming[r].method = "GetRecord" => req[r].ID = incoming[r].url.ID
    BY DEF UrlDecides
  <2> DEFINE m == incoming[r].method
  <2>1. Served(r)
    BY DEF Inv, Types, HandlerInv
  <2>2. DOMAIN incoming[r].url = UrlFields[m]
    BY IncomingAssumption DEF Inv, Types
  <2>3. \A f \in DOMAIN Requests[m] \cap UrlFields[m] : req[r][f] = incoming[r].url[f]
    BY <2>1, <2>2 DEF Served, Bound, Bind
  <2>4. CASE m = "ListRecord"
    <3>1. {"PageSize", "Page"} \subseteq DOMAIN Requests[m] \cap UrlFields[m]
      BY <2>4 DEF Requests, UrlFields
    <3> QED BY <2>1, <2>3, <2>4, <3>1 DEF Served
  <2>5. CASE m = "GetRecord"
    <3>1. "ID" \in DOMAIN Requests[m] \cap UrlFields[m]
      BY <2>5 DEF Requests, UrlFields
    <3> QED BY <2>3, <2>5, <3>1
  <2> QED BY <2>4, <2>5
<1> QED BY <1>1, InvAlways, PTL

-----------------------------------------------------------------------------
(* Refinement *)

\* What is answered as data took effect, and what is answered as refused did not.
AnswersMean ==
  \A r \in Clients :
    /\ AnswerOf(r) \in {"none", "data", "refused", "failed"}
    /\ (AnswerOf(r) = "none") = (pc[r] # "end")
    /\ AnswerOf(r) = "data" => effect[r] = 1
    /\ AnswerOf(r) = "refused" => effect[r] = 0

LEMMA InvMeans == Inv => AnswersMean
<1> SUFFICES ASSUME Inv, NEW r \in Clients
             PROVE  /\ AnswerOf(r) \in {"none", "data", "refused", "failed"}
                    /\ (AnswerOf(r) = "none") = (pc[r] # "end")
                    /\ AnswerOf(r) = "data" => effect[r] = 1
                    /\ AnswerOf(r) = "refused" => effect[r] = 0
  BY DEF AnswersMean
<1>1. CASE pc[r] = "end"
  <2>1. PICK w \in [code : Codes, parts : Nat] : Answered(r, w)
    BY <1>1 DEF Inv, HandlerInv, AtEnd
  <2>2. written[r] # <<>> /\ written[r][1].code = w.code
    BY <2>1 DEF Answered
  <2> QED BY <1>1, <2>1, <2>2 DEF AnswerOf, Answered, Codes
<1>2. CASE pc[r] # "end"
  BY <1>2 DEF Inv, HandlerInv, AtEnd, AnswerOf
<1> QED BY <1>1, <1>2

\* A step of a handler changes the call of that handler only.
LEMMA StepIsCall ==
  ASSUME Inv, AnswersMean, AnswersMean', [Next]_vars
  PROVE  [Caller!Next]_Caller!vars
<1> DEFINE ans == [r \in Clients |-> AnswerOf(r)]
<1>1. CASE UNCHANGED vars
  BY <1>1 DEF vars, Caller!vars, AnswerOf
<1>2. ASSUME NEW r \in Clients, Call(r) \/ Handler(r) PROVE [Caller!Next]_Caller!vars
  <2>1. \A s \in Clients \ {r} : AnswerOf(s)' = AnswerOf(s)
    BY <1>2 DEF Inv, Types, Handler, Decode, RefuseBody, Call, AnswerError, AnswerNothing,
                MarshalPart, MarshalFails, AnswerData, Write, AnswerOf
  <2>2. ans' = [ans EXCEPT ![r] = AnswerOf(r)']
    BY <2>1
  <2>3. CASE Call(r)
    <3>1. AnswerOf(r)' = AnswerOf(r) /\ AnswerOf(r) # "refused"
      BY <2>3 DEF Call, AnswersMean, AnswerOf
    <3>2. ans' = ans
      BY <2>2, <3>1
    <3>3. effect[r] = 0 /\ effect' = [effect EXCEPT ![r] = effect'[r]]
      BY <2>3 DEF Call, Inv, Types, HandlerInv, AtCall
    <3>4. effect'[r] \in {0, 1}
      <4>1. PICK o \in Outcomes(incoming[r].method, req[r]) :
              effect' = [effect EXCEPT ![r] = @ + o.done]
        BY <2>3 DEF Call
      <4>2. o.done \in {0, 1}
        BY ServerKeepsPromise, IncomingAssumption DEF Inv, Types
      <4> QED BY <3>3, <4>1, <4>2 DEF Inv, Types
    <3>5. effect' = effect \/ Caller!TakeEffect(r)
      BY <3>1, <3>2, <3>3, <3>4 DEF Inv, Types, Caller!TakeEffect
    <3> QED BY <3>2, <3>5 DEF Caller!Next, Caller!vars
  <2>4. CASE ~Call(r)
    <3>1. effect' = effect /\ pc[r] # "end"
      BY <1>2, <2>4 DEF Handler, Decode, RefuseBody, AnswerError, AnswerNothing,
                        MarshalPart, MarshalFails, AnswerData, Marshalling
    <3>2. ans[r] = "none"
      BY <3>1 DEF AnswersMean
    <3>3. CASE AnswerOf(r)' = "none"
      BY <2>2, <3>1, <3>2, <3>3 DEF Caller!vars
    <3>4. CASE AnswerOf(r)' # "none"
      <4>1. /\ AnswerOf(r)' \in {"none", "data", "refused", "failed"}
            /\ AnswerOf(r)' = "data" => effect[r] = 1
            /\ AnswerOf(r)' = "refused" => effect[r] = 0
        BY <3>1 DEF AnswersMean
      <4>2. Caller!Answer(r)
        BY <2>2, <3>1, <3>2, <3>4, <4>1 DEF Caller!Answer
      <4> QED BY <4>2 DEF Caller!Next
    <3> QED BY <3>3, <3>4
  <2> QED BY <2>3, <2>4
<1> QED BY <1>1, <1>2 DEF Next

\* Every step of a handler is a step of a call of RemoteCall or invisible.
THEOREM Implements == Spec => ImplementsRemoteCall
<1>1. Init => Caller!Init
  BY DEF Init, Caller!Init, AnswerOf
<1>2. Inv /\ AnswersMean /\ AnswersMean' /\ [Next]_vars => [Caller!Next]_Caller!vars
  BY StepIsCall
<1> QED BY <1>1, <1>2, InvAlways, InvMeans, PTL DEF Spec, ImplementsRemoteCall, Caller!Spec
=============================================================================
