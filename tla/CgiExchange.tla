---------------------------- MODULE CgiExchange ----------------------------
(***************************************************************************)
(* What the server owes a client whose request is answered by a CGI        *)
(* script, without pipes, epoll or the event loop.  One exchange: the      *)
(* script is launched or refused, it is given the request body, produces   *)
(* output and ends; at most one answer is sent.  Answer 200 carries all    *)
(* the script produced and is possible only after the script ended well    *)
(* and had been given the whole body; 504 only once the time limit has     *)
(* passed; no script outlives the answer.  Cgi.tla implements this.        *)
(***************************************************************************)
EXTENDS Naturals

CONSTANT Refusals       \* the codes a script that cannot be launched gets

VARIABLES
  toGive,   \* bytes of request body the script is entitled to
  script,   \* "none", "running", "succeeded" or "failed"
  given,    \* bytes of body handed over so far
  output,   \* bytes the script has produced so far
  late,     \* the time limit has passed
  answer    \* NoAnswer, or the one answer sent

vars == <<toGive, script, given, output, late, answer>>

NoAnswer == [code |-> 0, out |-> 0]

Init ==
  /\ toGive \in Nat
  /\ script = "none"
  /\ given = 0
  /\ output = 0
  /\ late = FALSE
  /\ answer = NoAnswer

Pending == answer = NoAnswer

\* The script cannot be launched: the client is told why.
Refuse ==
  /\ Pending
  /\ script = "none"
  /\ \E code \in Refusals : answer' = [code |-> code, out |-> 0]
  /\ UNCHANGED <<toGive, script, given, output, late>>

Launch ==
  /\ Pending
  /\ script = "none"
  /\ script' = "running"
  /\ UNCHANGED <<toGive, given, output, late, answer>>

\* Body is handed over.
Give ==
  /\ Pending
  /\ script = "running"
  /\ given' \in Nat
  /\ given' > given
  /\ given' <= toGive
  /\ UNCHANGED <<toGive, script, output, late, answer>>

Produce ==
  /\ Pending
  /\ script = "running"
  /\ output' \in Nat
  /\ output' > output
  /\ UNCHANGED <<toGive, script, given, late, answer>>

End ==
  /\ Pending
  /\ script = "running"
  /\ script' \in {"succeeded", "failed"}
  /\ UNCHANGED <<toGive, given, output, late, answer>>

BecomeLate ==
  /\ ~late
  /\ late' = TRUE
  /\ UNCHANGED <<toGive, script, given, output, answer>>

\* The one good answer.
Deliver ==
  /\ Pending
  /\ script = "succeeded"
  /\ given = toGive
  /\ answer' = [code |-> 200, out |-> output]
  /\ UNCHANGED <<toGive, script, given, output, late>>

\* A bad one: whatever still runs is killed in the same step.
Abort(code) ==
  /\ Pending
  /\ script # "none"
  /\ answer' = [code |-> code, out |-> 0]
  /\ script' = IF script = "running" THEN "failed" ELSE script
  /\ UNCHANGED <<toGive, given, output, late>>

Fail == Abort(500)

GiveUp == late /\ Abort(504)

Next ==
  \/ Refuse \/ Launch \/ Give \/ Produce \/ End
  \/ BecomeLate \/ Deliver \/ Fail \/ GiveUp

Spec == Init /\ [][Next]_vars
=============================================================================
