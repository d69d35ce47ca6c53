---------------------------- MODULE GraphqlResolver ----------------------------
(***************************************************************************)
(* The resolvers of amazing.rpc.graphql.go.  Each starts a goroutine, which *)
(* calls the service over gRPC and puts the one result into a buffered     *)
(* channel, and returns a thunk, which takes it out.  The five resolvers   *)
(* differ in the method called.                                            *)
(*                                                                         *)
(* The executor is a part of graphql-go.  Nothing is assumed of the order  *)
(* in which it calls resolvers and thunks, but that it calls each once, a  *)
(* thunk after its resolver, and one thing at a time.                      *)
(*                                                                         *)
(* A resolver's time limit starts from context.Background, so the caller's *)
(* leaving does not reach the goroutine.  The connection may lose a        *)
(* request or a reply, and the server may still run a method whose caller  *)
(* has given up.                                                           *)
(***************************************************************************)
EXTENDS RecordRpc, Sequences

CONSTANTS Width,     \* the number of fields of a request
          Requested  \* the requests: sequences of Width fields [method, args]

ASSUME WidthAssumption == Width \in Nat /\ \A q \in Requested : Len(q) = Width

Fields == 1..Width

VARIABLES query,     \* the fields of the request
          client,    \* whether the request's context holds a gRPC client
          forcing,   \* the field whose thunk the executor is in, or 0
          left,      \* whether the request was given up before its last answer
          go,        \* go[f]: where the goroutine of field f is
          held,      \* held[f]: the result it holds
          ch,        \* ch[f]: the results in its channel
          wire,      \* wire[f]: the request or the reply on the connection
          effect,    \* effect[f]: how often the server ran the method
          answer     \* answer[f]: what the thunk returned

executor == <<forcing, left, answer>>
vars == <<query, client, executor, go, held, ch, wire, effect>>

\* A result, and the field whose call it is of.
Result(f, r) == [of |-> f, is |-> r]

Init ==
  /\ query \in Requested
  /\ client \in BOOLEAN
  /\ forcing = 0 /\ left = FALSE
  /\ go = [f \in Fields |-> "none"]
  /\ held = [f \in Fields |-> "none"]
  /\ ch = [f \in Fields |-> <<>>]
  /\ wire = [f \in Fields |-> [is |-> "nothing"]]
  /\ effect = [f \in Fields |-> 0]
  /\ answer = [f \in Fields |-> Result(0, "none")]

-----------------------------------------------------------------------------
(* The arguments of a field.  mapstructure copies an argument to the field *)
(* of the request that has its name, letter case aside; the rest are left. *)
(* It cannot fail: those copied are strings, like the fields they go to.   *)

Arguments ==
  [Health |-> {}, Config |-> {}, CreateRecord |-> {"the_num", "the_str", "created_at"},
   GetRecord |-> {"id"}, ListRecord |-> {"size", "page"}]

FieldOf == [id |-> "ID", page |-> "Page"]

Decode(field) ==
  LET given(name) == {a \in DOMAIN field.args \cap DOMAIN FieldOf : FieldOf[a] = name}
      zero        == Requests[field.method]
  IN  [name \in DOMAIN zero |->
         IF given(name) = {} THEN zero[name]
         ELSE field.args[CHOOSE a \in given(name) : TRUE]]

-----------------------------------------------------------------------------
(* graphql-go *)

\* Mutant: the resolvers share one channel.
OneChannel(f) == 1

\* Which channel the goroutine and the thunk of field f use.
ChanOf(f) == f

\* A resolver makes the channel, starts the goroutine and returns the thunk.
Resolve(f) ==
  /\ forcing = 0 /\ ~left
  /\ go[f] = "none"
  /\ go' = [go EXCEPT ![f] = "client"]
  /\ UNCHANGED <<query, client, executor, held, ch, wire, effect>>

CallThunk(f) ==
  /\ forcing = 0 /\ ~left
  /\ go[f] # "none" /\ answer[f].is = "none"
  /\ forcing' = f
  /\ UNCHANGED <<query, client, left, answer, go, held, ch, wire, effect>>

\* r := <-ch, the zero value if the goroutine has closed the channel empty.
TakeResult(f) ==
  LET c == ch[ChanOf(f)]
  IN /\ forcing = f /\ ~left
     /\ c = <<>> => go[f] = "ended"
     /\ answer' = [answer EXCEPT ![f] = IF c = <<>> THEN Result(f, "zero") ELSE Head(c)]
     /\ ch' = [ch EXCEPT ![ChanOf(f)] = IF c = <<>> THEN c ELSE Tail(c)]
     /\ forcing' = 0
     /\ UNCHANGED <<query, client, left, go, held, wire, effect>>

\* The executor stops early: a resolver cannot count on its thunk being called,
\* nor a thunk on what it returns being used.
Leave ==
  /\ \E f \in Fields : answer[f].is = "none"
  /\ ~left
  /\ left' = TRUE
  /\ UNCHANGED <<query, client, forcing, answer, go, held, ch, wire, effect>>

-----------------------------------------------------------------------------
(* The goroutine *)

Hold(f, r) ==
  /\ held' = [held EXCEPT ![f] = r]
  /\ go' = [go EXCEPT ![f] = "send"]

\* Mutant: without a client the goroutine returns and leaves no result.
FindClientSilent(f) ==
  /\ go[f] = "client"
  /\ go' = [go EXCEPT ![f] = IF client THEN "args" ELSE "ended"]
  /\ UNCHANGED <<query, client, executor, held, ch, wire, effect>>

\* RefiningGoAmazingGrpcClientFromContext
FindClient(f) ==
  /\ go[f] = "client"
  /\ IF client THEN go' = [go EXCEPT ![f] = "args"] /\ UNCHANGED held
     ELSE Hold(f, "refused")
  /\ UNCHANGED <<query, client, executor, ch, wire, effect>>

\* The request is built and given to the connection.
Invoke(f) ==
  /\ go[f] = "args"
  /\ go' = [go EXCEPT ![f] = "call"]
  /\ wire' = [wire EXCEPT ![f] = [is |-> "request", req |-> Decode(query[f])]]
  /\ UNCHANGED <<query, client, executor, held, ch, effect>>

Receive(f) ==
  /\ go[f] = "call"
  /\ wire[f].is = "reply"
  /\ Hold(f, wire[f].result)
  /\ wire' = [wire EXCEPT ![f] = [is |-> "nothing"]]
  /\ UNCHANGED <<query, client, executor, ch, effect>>

\* Mutant: a call that got no answer in time is made again.
GiveUpRetrying(f) ==
  /\ go[f] = "call"
  /\ go' = [go EXCEPT ![f] = "args"]
  /\ UNCHANGED <<query, client, executor, held, ch, wire, effect>>

\* Mutant: the call has no time limit of its own.
GiveUpNever(f) == FALSE /\ UNCHANGED vars

\* The 30 seconds are over, or the connection is known to be broken.
GiveUp(f) ==
  /\ go[f] = "call"
  /\ Hold(f, "failed")
  /\ UNCHANGED <<query, client, executor, ch, wire, effect>>

\* Mutant: the channel has no buffer.
NoCapacity == 0

Capacity == 1

\* ch <- result, return, close(ch).  The thunk takes a value that finds it waiting.
Send(f) ==
  /\ go[f] = "send"
  /\ Len(ch[ChanOf(f)]) < Capacity \/ (forcing = f /\ ~left)
  /\ ch' = [ch EXCEPT ![ChanOf(f)] = Append(@, Result(f, held[f]))]
  /\ go' = [go EXCEPT ![f] = "ended"]
  /\ UNCHANGED <<query, client, executor, held, wire, effect>>

-----------------------------------------------------------------------------
(* The connection and the server *)

\* A method handler of the service.
Handle(f) ==
  /\ wire[f].is = "request"
  /\ \E o \in Outcomes(query[f].method, wire[f].req) :
       /\ effect' = [effect EXCEPT ![f] = @ + o.done]
       /\ wire' = [wire EXCEPT ![f] = [is |-> "reply", result |-> o.result]]
  /\ UNCHANGED <<query, client, executor, go, held, ch>>

Lose(f) ==
  /\ wire[f].is # "nothing"
  /\ wire' = [wire EXCEPT ![f] = [is |-> "nothing"]]
  /\ UNCHANGED <<query, client, executor, go, held, ch, effect>>

-----------------------------------------------------------------------------
Goroutine(f) == FindClient(f) \/ Invoke(f) \/ Receive(f) \/ GiveUp(f) \/ Send(f)

Executor == \E f \in Fields : Resolve(f) \/ CallThunk(f) \/ TakeResult(f)

Next ==
  \/ Executor \/ Leave
  \/ \E f \in Fields : FindClient(f)
  \/ \E f \in Fields : Invoke(f)
  \/ \E f \in Fields : Receive(f)
  \/ \E f \in Fields : GiveUp(f)
  \/ \E f \in Fields : Send(f)
  \/ \E f \in Fields : Handle(f)
  \/ \E f \in Fields : Lose(f)

Spec == Init /\ [][Next]_vars

\* The Go scheduler runs every goroutine that can go on, and the timer of a
\* call that gets no reply fires.  Nothing is assumed of the server, nor that
\* a request is carried to its end.
FairSpec == Spec /\ \A f \in Fields : WF_vars(Goroutine(f))

-----------------------------------------------------------------------------
(* Properties *)

\* No field is answered with the zero value, neither data nor an error: whatever
\* way its goroutine ends, it has left a result before it closes the channel.
TypeOK ==
  /\ forcing \in {0} \cup Fields
  /\ \A f \in Fields :
       /\ go[f] \in {"none", "client", "args", "call", "send", "ended"}
       /\ held[f] \in {"none", "data", "refused", "failed"}
       /\ answer[f].is \in {"none", "data", "refused", "failed"}

\* Although all goroutines run at once and end in any order, and thunks are called
\* in another, each field is answered with the result of its own call.
OwnResults == \A f \in Fields : answer[f].is # "none" => answer[f].of = f

\* Each field is a call of the service with the promises of RemoteCall: a
\* field with data took effect, one without a client never does, none twice.
Caller == INSTANCE RemoteCall WITH Calls <- Fields,
                                   answer <- [f \in Fields |-> answer[f].is]

ImplementsRemoteCall == Caller!Spec

\* No goroutine is left behind, even of a request dropped before its thunks
\* were called: the buffer takes the result and the time limit ends the call.
GoroutinesEnd == \A f \in Fields : (go[f] # "none") ~> (go[f] = "ended")

\* A request whose own goroutine goes on while it can gets an answer for every
\* field unless it is dropped, whether the server replies or not, and whatever
\* the order the calls end in and the thunks are called in.
RequestsAnswered ==
  WF_vars(Executor) => <>(left \/ \A f \in Fields : answer[f].is # "none")

\* The schema declares the argument `size' of ListRecord (lines 331-334), which
\* rpc.proto:93 makes the JSON name of PageSize: it arrives with the request.
SizeArrives ==
  \A f \in Fields :
    /\ query[f].method = "ListRecord" /\ "size" \in DOMAIN query[f].args
    /\ wire[f].is = "request"
    => wire[f].req.PageSize = query[f].args.size
=============================================================================
