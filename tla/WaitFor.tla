-------------------------------- MODULE WaitFor --------------------------------
(***************************************************************************)
(* script/wait-for: run a command once a host takes connections, or give   *)
(* up.  docker-compose starts the service with it.                         *)
(*                                                                         *)
(* The script keeps its settings in shell variables that the command could *)
(* have inherited: it saves the inherited values behind the arguments, as  *)
(* "-- TIMEOUT QUIET PROTOCOL HOST PORT result", and puts them back before *)
(* the command runs.  The same "--" ends the options of a call that has no *)
(* command.  An argument is a member of a small set; time is in seconds.   *)
(***************************************************************************)
EXTENDS Integers, Sequences

CONSTANTS Words,         \* words of the shell
          Arguments,     \* what the script may be called with
          MaxArgs,       \* bound: the number of arguments
          MaxProbe,      \* bound: the seconds that a probe takes, if it ends
          Environments,  \* what the variables may have been inherited with
          Default,       \* the timeout of a call without -t, "15" in the script
          Number,        \* the numbers from zero on, by the words for them
          Urls,          \* the words http://* and https://*
          HostOf,        \* of each other word with a colon, what cut -d : -f 1 and
          PortOf,        \*   -f 2 make of it
          TimeoutOf,     \* of -tX and --timeout=X, X
          Unbundled      \* of -qX, where X does not begin with a "-", -X

VARIABLES given,    \* the arguments of the call
          env,      \* the inherited values of the variables of the script
          nc,       \* is nc installed?
          args,     \* "$@"
          var,      \* TIMEOUT, PROTOCOL, HOST and PORT
          pc,       \* "options", "check", "probe", "sleep" or "end"
          left,     \* TIMEOUT as wait_for counts it down
          outcome,  \* how the script ended
          ran,      \* the command it was replaced by, with its environment
          failed,   \* the probes that failed
          elapsed   \* the seconds they took, and those slept

vars == <<given, env, nc, args, var, pc, left, outcome, ran, failed, elapsed>>

\* The variables, in the order in which their values are saved.
Names == <<"TIMEOUT", "QUIET", "PROTOCOL", "HOST", "PORT", "result">>

\* The options whose value is the next argument, and those without one.
TakeNext == {"-t", "--timeout"}
Silence == {"-q", "--quiet"}

\* What the cases of the option loop look for, as the first that fits is taken.
Kinds   == <<Urls, DOMAIN HostOf, Silence, DOMAIN Unbundled, TakeNext, DOMAIN TimeoutOf, {"--"}>>
Options == UNION {Kinds[i] : i \in DOMAIN Kinds}

ASSUME WordsAssumption ==
  /\ \A i, j \in DOMAIN Kinds : i # j => Kinds[i] \cap Kinds[j] = {}
  /\ Arguments \subseteq Words /\ "--" \in Words /\ MaxArgs \in Nat /\ MaxProbe \in Nat
  /\ Default \in DOMAIN Number /\ \A n \in DOMAIN Number : Number[n] \in Nat

\* A word that was unbundled is not so again: its -q are taken off in one step.
ASSUME UnbundledAssumption ==
  \A w \in DOMAIN Unbundled : /\ Unbundled[w] \in Words \ {"--"}
                             /\ Unbundled[w] \notin DOMAIN Unbundled

\* A -t at the end of the call makes the loop go on with the inherited values; the
\* first of them, of TIMEOUT, is then no option.
ASSUME EnvironmentsAssumption ==
  /\ Environments \subseteq [1..Len(Names) -> Words]
  /\ \A e \in Environments : e[1] \notin Options

None == [is |-> "none"]

TypeOK ==
  /\ given \in Seq(Arguments) /\ args \in Seq(Words)
  /\ env \in [1..Len(Names) -> Words] /\ nc \in BOOLEAN
  /\ DOMAIN var = {"TIMEOUT", "PROTOCOL", "HOST", "PORT"}
  /\ pc \in {"options", "check", "probe", "sleep", "end"}
  /\ outcome \in {"none", "usage", "no nc", "timed out", "ready", "exec"}
  /\ left \in Nat /\ failed \in Nat /\ elapsed \in Nat

Init ==
  /\ given \in UNION {[1 .. n -> Arguments] : n \in 0 .. MaxArgs}
  /\ env \in Environments
  /\ nc \in BOOLEAN
  /\ args = given \o <<"--">> \o env
  /\ var = [TIMEOUT |-> Default, PROTOCOL |-> "tcp", HOST |-> env[4], PORT |-> env[5]]
  /\ pc = "options"
  /\ left = 0 /\ failed = 0 /\ elapsed = 0
  /\ outcome = "none" /\ ran = None

-----------------------------------------------------------------------------

End(how) ==
  /\ pc' = "end"
  /\ outcome' = how
  /\ UNCHANGED <<given, env, nc, args, var>>

\* An option is taken: the variables become v, and n arguments are shifted away.
Take(v, n) ==
  /\ var' = v
  /\ args' = SubSeq(args, n + 1, Len(args))
  /\ UNCHANGED <<given, env, nc, pc, left, outcome, ran, failed, elapsed>>

\* Mutant: -q is not shifted away.
QuietStays == pc = "options" /\ args[1] \in Silence /\ Take(var, 0)

Quiet == pc = "options" /\ args[1] \in Silence /\ Take(var, 1)

\* -qt0 is -q and -t0, and -qt is -q and -t.
Unbundle ==
  /\ pc = "options" /\ args[1] \in DOMAIN Unbundled
  /\ args' = <<Unbundled[args[1]]>> \o Tail(args)
  /\ UNCHANGED <<given, env, nc, var, pc, left, outcome, ran, failed, elapsed>>

Target ==
  /\ pc = "options"
  /\ \/ args[1] \in Urls /\ Take([var EXCEPT !.HOST = args[1], !.PROTOCOL = "http"], 1)
     \/ args[1] \in DOMAIN HostOf
        /\ Take([var EXCEPT !.HOST = HostOf[args[1]], !.PORT = PortOf[args[1]]], 1)

\* A -t that is the last argument takes the "--" of the saved values.
Timeout ==
  /\ pc = "options"
  /\ \/ args[1] \in TakeNext /\ Take([var EXCEPT !.TIMEOUT = args[2]], 2)
     \/ args[1] \in DOMAIN TimeoutOf /\ Take([var EXCEPT !.TIMEOUT = TimeoutOf[args[1]]], 1)

EndOptions ==
  /\ pc = "options" /\ args[1] = "--"
  /\ args' = Tail(args)
  /\ pc' = "check"
  /\ UNCHANGED <<given, env, nc, var, left, outcome, ran, failed, elapsed>>

\* --help, or an argument the script does not know.
Usage ==
  /\ pc = "options"
  /\ args[1] \notin Options
  /\ End("usage")
  /\ UNCHANGED <<left, ran, failed, elapsed>>

\* Is there a timeout and a target, and the program that probes it?  wait_for
\* looks for wget only if PROTOCOL is "wget", which it never is.
Check ==
  LET bad == \/ var.TIMEOUT \notin DOMAIN Number \/ var.HOST = ""
             \/ var.PROTOCOL = "tcp" /\ var.PORT = ""
  IN /\ pc = "check"
     /\ \/ bad /\ End("usage") /\ left' = left
        \/ ~bad /\ var.PROTOCOL = "tcp" /\ ~nc /\ End("no nc") /\ left' = left
        \/ /\ ~bad /\ (var.PROTOCOL = "tcp" => nc)
           /\ pc' = "probe"
           /\ left' = Number[var.TIMEOUT]
           /\ UNCHANGED <<given, env, nc, args, var, outcome>>
     /\ UNCHANGED <<ran, failed, elapsed>>

\* The rotation puts the command behind the saved values; they are then
\* assigned and shifted away, with the "--".
Rotated(n) == SubSeq(args, n + 1, Len(args)) \o SubSeq(args, 1, n)

\* Mutant: the "--" is not counted.
CommandShort == LET r == Rotated(Len(args) - 6)
                IN [is |-> "command", words |-> SubSeq(r, 7, Len(r)), env |-> SubSeq(r, 1, 6)]

Command == LET r == Rotated(Len(args) - 7)
           IN [is |-> "command", words |-> SubSeq(r, 8, Len(r)), env |-> SubSeq(r, 2, 7)]

ProbeSucceeds ==
  /\ pc = "probe"
  /\ \/ Len(args) > 7 /\ End("exec") /\ ran' = Command
     \/ Len(args) <= 7 /\ End("ready") /\ ran' = ran
  /\ UNCHANGED <<left, failed, elapsed>>

\* Mutant: the countdown stops one early.
GivesUpEarly == left <= 1

GivesUp == left <= 0

\* Nothing bounds a probe as a whole: nc -w 1 does not count the look-up of the
\* name, and wget --timeout=1 limits each wait for the network, of which there may
\* be any number.  It may also never end: then the script waits in it.
ProbeFails ==
  /\ pc = "probe"
  /\ failed' = failed + 1
  /\ \E seconds \in 0 .. MaxProbe : elapsed' = elapsed + seconds
  /\ \/ GivesUp /\ End("timed out") /\ left' = left
     \/ /\ ~GivesUp
        /\ left' = left - 1
        /\ pc' = "sleep"
        /\ UNCHANGED <<given, env, nc, args, var, outcome>>
  /\ ran' = ran

Sleep ==
  /\ pc = "sleep"
  /\ pc' = "probe"
  /\ elapsed' = elapsed + 1
  /\ UNCHANGED <<given, env, nc, args, var, left, outcome, ran, failed>>

\* What the script does itself.
Step == Quiet \/ Unbundle \/ Target \/ Timeout \/ EndOptions \/ Usage \/ Check \/ Sleep

Next == Step \/ ProbeSucceeds \/ ProbeFails

\* The shell goes on with the script; nothing makes a probe end.
Spec == Init /\ [][Next]_vars /\ WF_vars(Step)

-----------------------------------------------------------------------------

\* The value of word w is the next one: -t, --timeout, or -q and then -t.
EndsInT(w) == w \in TakeNext \/ (w \in DOMAIN Unbundled /\ Unbundled[w] \in TakeNext)

\* The command that is run is what the call gives after its first "--" (one
\* that is the value of -t does not count), word by word, and it finds all the
\* variables the script used as they were inherited.
CommandAsGiven ==
  outcome = "exec" =>
    /\ ran.env = env
    /\ \E i \in DOMAIN given :
         /\ given[i] = "--" /\ i < Len(given)
         /\ ran.words = SubSeq(given, i + 1, Len(given))
         /\ \A j \in 1 .. i - 1 : given[j] = "--" => j > 1 /\ EndsInT(given[j - 1])

\* The script gives up after TIMEOUT + 1 probes, whatever each of them took, and
\* not before TIMEOUT seconds.
PatienceBounds ==
  outcome = "timed out" =>
    LET t == Number[var.TIMEOUT] IN failed = t + 1 /\ elapsed >= t

\* Whatever the arguments are, the script hangs only in a probe: it ends if every
\* probe of the target does.
Ends == (pc = "probe" ~> pc # "probe") => <>(pc = "end")
=============================================================================
