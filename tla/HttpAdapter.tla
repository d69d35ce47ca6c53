------------------------------ MODULE HttpAdapter ------------------------------
(***************************************************************************)
(* The five handlers of amazing.rpc.http.go.  A handler decodes the body   *)
(* into the request, puts the path parameter or the query string over it,  *)
(* calls the server in the same process, marshals the response, and writes *)
(* one answer.  A listing is marshalled record by record.  Each request    *)
(* has a goroutine of its own.                                             *)
(***************************************************************************)
EXTENDS RecordRpc, Sequences

CONSTANTS Clients,   \* the requests under way at the same time
          Incoming,  \* what may come in: [method, body, url]
          MaxRows    \* bound: the most records of a listing

Malformed == [is |-> "malformed"]
Empty     == [is |-> "empty"]       \* io.EOF, which is let pass

\* The fields of each request that the url gives: the path parameter id, the
\* query strings size and page, "" for one that is absent.
UrlFields == [Health |-> {}, Config |-> {}, CreateRecord |-> {},
              GetRecord |-> {"ID"}, ListRecord |-> {"PageSize", "Page"}]

ASSUME IncomingAssumption ==
  \A i \in Incoming :
    /\ i.method \in Methods
    /\ i.body \in {Malformed, Empty} \/ i.body.is = "fields"
    /\ DOMAIN i.url = UrlFields[i.method]
ASSUME MaxRowsAssumption == MaxRows \in Nat

VARIABLES incoming,    \* incoming[r]: the request that came in
          pc,          \* pc[r]: where its handler is
          req,         \* req[r]: the request it built
          resp,        \* resp[r]: what the server returned
          marshalled,  \* marshalled[r]: the parts of the response marshalled so far
          written,     \* written[r]: the answers written
          effect       \* effect[r]: how often the server ran the method

vars == <<incoming, pc, req, resp, marshalled, written, effect>>

NoResp == [is |-> "none", parts |-> 0]

Init ==
  /\ incoming \in [Clients -> Incoming]
  /\ pc = [r \in Clients |-> "decode"]
  /\ req = [r \in Clients |-> Requests[incoming[r].method]]
  /\ resp = [r \in Clients |-> NoResp]
  /\ marshalled = [r \in Clients |-> 0]
  /\ written = [r \in Clients |-> <<>>]
  /\ effect = [r \in Clients |-> 0]

Write(r, code, parts) ==
  /\ written' = [written EXCEPT ![r] = Append(@, [code |-> code, parts |-> parts])]
  /\ pc' = [pc EXCEPT ![r] = "end"]

-----------------------------------------------------------------------------
\* Mutant: the body is decoded last, over the url.
BindBodyLast(i, zero) ==
  [f \in DOMAIN zero |->
     IF i.body.is = "fields" /\ f \in DOMAIN i.body.of THEN i.body.of[f]
     ELSE IF f \in DOMAIN i.url THEN i.url[f]
     ELSE zero[f]]

\* The body, and over it the url, even where the url says nothing.
Bind(i, zero) ==
  [f \in DOMAIN zero |->
     IF f \in DOMAIN i.url THEN i.url[f]
     ELSE IF i.body.is = "fields" /\ f \in DOMAIN i.body.of THEN i.body.of[f]
     ELSE zero[f]]

Decode(r) ==
  /\ pc[r] = "decode"
  /\ incoming[r].body # Malformed
  /\ req' = [req EXCEPT ![r] = Bind(incoming[r], @)]
  /\ pc' = [pc EXCEPT ![r] = "call"]
  /\ UNCHANGED <<incoming, resp, marshalled, written, effect>>

\* Mutant: the handler goes on after it answered 400.
RefuseBodyNoReturn(r) ==
  /\ pc[r] = "decode"
  /\ incoming[r].body = Malformed
  /\ written' = [written EXCEPT ![r] = Append(@, [code |-> "ErrUnmarshalBodyFailed", parts |-> 0])]
  /\ pc' = [pc EXCEPT ![r] = "call"]
  /\ UNCHANGED <<incoming, req, resp, marshalled, effect>>

RefuseBody(r) ==
  /\ pc[r] = "decode"
  /\ incoming[r].body = Malformed
  /\ Write(r, "ErrUnmarshalBodyFailed", 0)
  /\ UNCHANGED <<incoming, req, resp, marshalled, effect>>

\* The messages of a response that are marshalled one by one.
Parts(method) == IF method = "ListRecord" THEN 0..MaxRows ELSE {1}

\* a.server.X.  A server may return neither a response nor an error.
Call(r) ==
  /\ pc[r] = "call"
  /\ \E o \in Outcomes(incoming[r].method, req[r]), n \in Parts(incoming[r].method) :
       /\ effect' = [effect EXCEPT ![r] = @ + o.done]
       /\ \E is \in IF o.result = "data" THEN {"response", "nil"} ELSE {"error"} :
            resp' = [resp EXCEPT ![r] =
                       [is |-> is, parts |-> IF is = "response" THEN n ELSE 0]]
  /\ pc' = [pc EXCEPT ![r] = "answer"]
  /\ UNCHANGED <<incoming, req, marshalled, written>>

\* errorkit.FormatError
AnswerError(r) ==
  /\ pc[r] = "answer"
  /\ resp[r].is = "error"
  /\ Write(r, "error", 0)
  /\ UNCHANGED <<incoming, req, resp, marshalled, effect>>

\* Mutants: the handler goes on after its 204; it has no case for a nil response.
AnswerNothingNoReturn(r) ==
  /\ pc[r] = "answer"
  /\ resp[r].is = "nil"
  /\ pc' = [pc EXCEPT ![r] = "end"]
  /\ written' = [written EXCEPT ![r] = @ \o <<[code |-> "204", parts |-> 0],
                                            [code |-> "error", parts |-> 0]>>]
  /\ UNCHANGED <<incoming, req, resp, marshalled, effect>>

AnswerNothingMissing(r) == FALSE /\ UNCHANGED vars

AnswerNothing(r) ==
  /\ pc[r] = "answer"
  /\ resp[r].is = "nil"
  /\ Write(r, "204", 0)
  /\ UNCHANGED <<incoming, req, resp, marshalled, effect>>

Marshalling(r) == pc[r] = "answer" /\ resp[r].is = "response"

MarshalPart(r) ==
  /\ Marshalling(r)
  /\ marshalled[r] < resp[r].parts
  /\ marshalled' = [marshalled EXCEPT ![r] = @ + 1]
  /\ UNCHANGED <<incoming, pc, req, resp, written, effect>>

\* Mutant: a record that cannot be marshalled is left out of the listing.
MarshalFailsSkipping(r) ==
  /\ Marshalling(r)
  /\ marshalled[r] < resp[r].parts
  /\ Write(r, "200", marshalled[r])
  /\ UNCHANGED <<incoming, req, resp, marshalled, effect>>

\* A part cannot be marshalled, or the parts of a listing not be joined.
MarshalFails(r) ==
  /\ Marshalling(r)
  /\ marshalled[r] < resp[r].parts \/ incoming[r].method = "ListRecord"
  /\ Write(r, "error", 0)
  /\ UNCHANGED <<incoming, req, resp, marshalled, effect>>

\* Health and Config write status 0, for which gin keeps its default, 200.
AnswerData(r) ==
  /\ Marshalling(r)
  /\ marshalled[r] = resp[r].parts
  /\ Write(r, IF incoming[r].method = "CreateRecord" THEN "201" ELSE "200", marshalled[r])
  /\ UNCHANGED <<incoming, req, resp, marshalled, effect>>

-----------------------------------------------------------------------------
\* The steps of a handler but for the server's.
Handler(r) ==
  \/ Decode(r) \/ RefuseBody(r) \/ AnswerError(r) \/ AnswerNothing(r)
  \/ MarshalPart(r) \/ MarshalFails(r) \/ AnswerData(r)

Next == \E r \in Clients : Call(r) \/ Handler(r)

Spec == Init /\ [][Next]_vars

\* The Go scheduler runs every handler that can go on.  That the server returns is
\* not assumed: it waits for MySQL, for which nothing sets a time limit.
FairSpec == Spec /\ \A r \in Clients : WF_vars(Handler(r))

-----------------------------------------------------------------------------
(* Properties *)

TypeOK ==
  \A r \in Clients :
    /\ pc[r] \in {"decode", "call", "answer", "end"}
    /\ DOMAIN req[r] = DOMAIN Requests[incoming[r].method]
    /\ resp[r].is \in {"none", "response", "nil", "error"} /\ resp[r].parts \in 0..MaxRows + 1
    /\ marshalled[r] \in 0..resp[r].parts
    /\ Len(written[r]) = IF pc[r] = "end" THEN 1 ELSE 0

\* Each request is a call of the service with the promises of RemoteCall: 400
\* for its body means it never took effect, a 2xx that it did, any other error
\* that it may have (a create stored whose record cannot be marshalled).
AnswerOf(r) ==
  IF written[r] = <<>> THEN "none"
  ELSE LET code == written[r][1].code
       IN  IF code \in {"200", "201", "204"} THEN "data"
           ELSE IF code = "ErrUnmarshalBodyFailed" THEN "refused" ELSE "failed"

Caller == INSTANCE RemoteCall WITH Calls <- Clients, answer <- [r \in Clients |-> AnswerOf(r)]

ImplementsRemoteCall == Caller!Spec

\* A listing is answered whole or not at all: no 200 leaves out a record that
\* the server returned, wherever the marshalling fails.
ListsWhole ==
  \A r \in Clients : \A i \in DOMAIN written[r] :
    written[r][i].code = "200" => written[r][i].parts = resp[r].parts

\* Only the url decides what is listed and which record is got, whatever the body
\* gives for the same fields: the server lists the size and page of the query
\* string, numerals both, and gets the id of the path.
UrlDecides ==
  \A r \in Clients :
    LET method == incoming[r].method
        url    == incoming[r].url
    IN  effect[r] > 0 =>
          /\ method = "ListRecord" =>
               /\ req[r].PageSize = url.PageSize /\ Parses(url.PageSize)
               /\ req[r].Page = url.Page /\ Parses(url.Page)
          /\ method = "GetRecord" => req[r].ID = url.ID

\* A request is answered, once the server has returned if it was called.
RequestsAnswered ==
  \A r \in Clients : (pc[r] = "call" ~> pc[r] # "call") => <>(written[r] # <<>>)
=============================================================================
