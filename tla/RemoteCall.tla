------------------------------ MODULE RemoteCall ------------------------------
(***************************************************************************)
(* What a front end promises the callers of the service, however it        *)
(* reaches the server: a call takes effect at most once; its data is       *)
(* answered only after it took effect; a call refused by the front end     *)
(* never takes effect; a call answered with any other error may have taken *)
(* effect, or may yet; and no answer is taken back.                        *)
(***************************************************************************)
EXTENDS Naturals

CONSTANT Calls

VARIABLES effect,   \* effect[c]: how often call c took effect on the server
          answer    \* answer[c]: "none", "data", "refused" or "failed"

vars == <<effect, answer>>

Init ==
  /\ effect = [c \in Calls |-> 0]
  /\ answer = [c \in Calls |-> "none"]

TakeEffect(c) ==
  /\ effect[c] = 0
  /\ answer[c] # "refused"
  /\ effect' = [effect EXCEPT ![c] = 1]
  /\ UNCHANGED answer

Answer(c) ==
  /\ answer[c] = "none"
  /\ \E a \in {"data", "refused", "failed"} :
       /\ a = "data" => effect[c] = 1
       /\ a = "refused" => effect[c] = 0
       /\ answer' = [answer EXCEPT ![c] = a]
  /\ UNCHANGED effect

Next == \E c \in Calls : TakeEffect(c) \/ Answer(c)

Spec == Init /\ [][Next]_vars
=============================================================================
