----------------------------- MODULE CgiProofs -----------------------------
(***************************************************************************)
(* Proofs about Cgi.tla.  IInv is inductive: one lemma per action, or per  *)
(* way an action can go, whose first step says what the action does to     *)
(* each variable and whose other steps take the parts of IInv in turn.     *)
(* The safety properties are parts of IInv.  The refinement of CgiExchange *)
(* follows the same cases.                                                 *)
(***************************************************************************)
EXTENDS Cgi, TLAPS

\* A script that is never launched leaves everything but the answer alone.
LEMMA StartFailsInv ==
  ASSUME IInv, NEW code \in Refusals, StartFails(code)
  PROVE  IInv'
<1>1. /\ pc = "start" /\ pc' = "loop"
      /\ answer' = [code |-> code, out |-> 0]
      /\ code \in {403, 404, 500}
      /\ UNCHANGED <<isPost, body, batch, ready, fn, pipeIn1, pipeOut0,
                     rawOutput, child, exitedOk, childIn, childOut, inPipe,
                     outPipe, handed, produced, elapsed, due>>
  BY DEF StartFails, Refusals, request, cgi, process, pipes, clock
<1>1a. answer' \in [code : Nat, out : Nat]
  BY <1>1 DEF IInv, TypeOK
<1>2. TypeOK'
  BY <1>1, <1>1a, SizesAssumption, TimeAssumption DEF IInv, TypeOK
<1>3. PhaseInv' /\ ChildInv' /\ BytesInv' /\ FdInv'
  BY <1>1, <1>1a, SizesAssumption, TimeAssumption
     DEF IInv, TypeOK, PhaseInv, ChildInv, BytesInv, FdInv, EdgeInv,
         ListensAfterClosingStdin, Pending, NoAnswer, ToGive, LargeBody,
         Readable
<1>4. EdgeInv' /\ ListensAfterClosingStdin' /\ NeverBlocksInRead'
  BY <1>1, <1>1a, SizesAssumption, TimeAssumption
     DEF IInv, TypeOK, PhaseInv, BytesInv, FdInv, EdgeInv,
         ListensAfterClosingStdin, NeverBlocksInRead, Pending, NoAnswer,
         Readable, ToGive, LargeBody
<1>5. GoodAnswerIsWhole' /\ NoScriptOutlivesItsAnswer'
  BY <1>1, <1>1a, SizesAssumption, TimeAssumption
     DEF IInv, TypeOK, PhaseInv, ChildInv, BytesInv, FdInv,
         ListensAfterClosingStdin, GoodAnswerIsWhole,
         NoScriptOutlivesItsAnswer, Pending, NoAnswer, ToGive
<1> QED
  BY <1>2, <1>3, <1>4, <1>5 DEF IInv

\* fork() opens all four ends.
LEMMA ForkInv ==
  ASSUME IInv, Fork
  PROVE  IInv'
<1>1. /\ pc = "start" /\ pc' = "forked"
      /\ child' = "running" /\ childIn' = TRUE /\ childOut' = TRUE
      /\ pipeIn1' = TRUE /\ pipeOut0' = TRUE
      /\ UNCHANGED <<isPost, body, batch, ready, fn, rawOutput, exitedOk,
                     inPipe, outPipe, handed, produced, elapsed, due, answer>>
  BY DEF Fork, request, cgi, process, pipes, clock
<1>2. TypeOK'
  BY <1>1, SizesAssumption, TimeAssumption DEF IInv, TypeOK
<1>3. PhaseInv' /\ ChildInv' /\ BytesInv' /\ FdInv'
  BY <1>1, SizesAssumption, TimeAssumption
     DEF IInv, TypeOK, PhaseInv, ChildInv, BytesInv, FdInv, EdgeInv,
         ListensAfterClosingStdin, Pending, NoAnswer, ToGive, LargeBody,
         Readable
<1>4. EdgeInv' /\ ListensAfterClosingStdin' /\ NeverBlocksInRead'
  BY <1>1, SizesAssumption, TimeAssumption
     DEF IInv, TypeOK, PhaseInv, BytesInv, FdInv, EdgeInv,
         ListensAfterClosingStdin, NeverBlocksInRead, Pending, NoAnswer,
         Readable, ToGive, LargeBody
<1>5. GoodAnswerIsWhole' /\ NoScriptOutlivesItsAnswer'
  BY <1>1, SizesAssumption, TimeAssumption
     DEF IInv, TypeOK, PhaseInv, ChildInv, BytesInv, FdInv,
         ListensAfterClosingStdin, GoodAnswerIsWhole,
         NoScriptOutlivesItsAnswer, Pending, NoAnswer, ToGive
<1> QED
  BY <1>2, <1>3, <1>4, <1>5 DEF IInv

\* A script dead before the set-up is reaped and answered 500.
LEMMA CheckAliveDeadInv ==
  ASSUME IInv, CheckAlive, child = "zombie"
  PROVE  IInv'
<1>1. /\ pc = "forked" /\ pc' = "loop"
      /\ child = "zombie" /\ child' = "reaped"
      /\ pipeIn1' = FALSE /\ pipeOut0' = FALSE /\ ready' = {}
      /\ answer' = [code |-> 500, out |-> 0]
      /\ UNCHANGED <<isPost, body, batch, fn, rawOutput, exitedOk, childIn,
                     childOut, inPipe, outPipe, handed, produced, elapsed, due>>
  BY DEF CheckAlive, EarlyExitCode, Conclude, CloseAll, request, cgi, process,
         pipes, clock
<1>1a. answer' \in [code : Nat, out : Nat]
  BY <1>1 DEF IInv, TypeOK
<1>2. TypeOK'
  BY <1>1, <1>1a, SizesAssumption, TimeAssumption DEF IInv, TypeOK
<1>3. PhaseInv' /\ ChildInv' /\ BytesInv' /\ FdInv'
  BY <1>1, <1>1a, SizesAssumption, TimeAssumption
     DEF IInv, TypeOK, PhaseInv, ChildInv, BytesInv, FdInv, EdgeInv,
         ListensAfterClosingStdin, Pending, NoAnswer, ToGive, LargeBody,
         Readable
<1>4. EdgeInv' /\ ListensAfterClosingStdin' /\ NeverBlocksInRead'
  BY <1>1, <1>1a, SizesAssumption, TimeAssumption
     DEF IInv, TypeOK, PhaseInv, BytesInv, FdInv, EdgeInv,
         ListensAfterClosingStdin, NeverBlocksInRead, Pending, NoAnswer,
         Readable, ToGive, LargeBody
<1>5. GoodAnswerIsWhole' /\ NoScriptOutlivesItsAnswer'
  BY <1>1, <1>1a, SizesAssumption, TimeAssumption
     DEF IInv, TypeOK, PhaseInv, ChildInv, BytesInv, FdInv,
         ListensAfterClosingStdin, GoodAnswerIsWhole,
         NoScriptOutlivesItsAnswer, Pending, NoAnswer, ToGive
<1> QED
  BY <1>2, <1>3, <1>4, <1>5 DEF IInv

\* A live one goes on to the set-up.
LEMMA CheckAliveLiveInv ==
  ASSUME IInv, CheckAlive, child # "zombie"
  PROVE  IInv'
<1>1. /\ pc = "forked" /\ pc' = "setup"
      /\ child # "zombie"
      /\ UNCHANGED <<isPost, body, batch, ready, fn, pipeIn1, pipeOut0,
                     rawOutput, child, exitedOk, childIn, childOut, inPipe,
                     outPipe, handed, produced, elapsed, due, answer>>
  BY DEF CheckAlive, request, cgi, process, pipes, clock
<1>2. TypeOK'
  BY <1>1, SizesAssumption, TimeAssumption DEF IInv, TypeOK
<1>3. PhaseInv' /\ ChildInv' /\ BytesInv' /\ FdInv'
  BY <1>1, SizesAssumption, TimeAssumption
     DEF IInv, TypeOK, PhaseInv, ChildInv, BytesInv, FdInv, EdgeInv,
         ListensAfterClosingStdin, Pending, NoAnswer, ToGive, LargeBody,
         Readable
<1>4. EdgeInv' /\ ListensAfterClosingStdin' /\ NeverBlocksInRead'
  BY <1>1, SizesAssumption, TimeAssumption
     DEF IInv, TypeOK, PhaseInv, BytesInv, FdInv, EdgeInv,
         ListensAfterClosingStdin, NeverBlocksInRead, Pending, NoAnswer,
         Readable, ToGive, LargeBody
<1>5. GoodAnswerIsWhole' /\ NoScriptOutlivesItsAnswer'
  BY <1>1, SizesAssumption, TimeAssumption
     DEF IInv, TypeOK, PhaseInv, ChildInv, BytesInv, FdInv,
         ListensAfterClosingStdin, GoodAnswerIsWhole,
         NoScriptOutlivesItsAnswer, Pending, NoAnswer, ToGive
<1> QED
  BY <1>2, <1>3, <1>4, <1>5 DEF IInv

\* A large body is left to the event loop.
LEMMA SetupLargeInv ==
  ASSUME IInv, SetupLarge
  PROVE  IInv'
<1>1. /\ pc = "setup" /\ pc' = "loop"
      /\ LargeBody
      /\ fn' = "writeInput"
      /\ ready' \in SUBSET {"in", "out"}
      /\ "in" \in ready' => ~childIn
      /\ UNCHANGED <<isPost, body, batch, pipeIn1, pipeOut0, rawOutput, child,
                     exitedOk, childIn, childOut, inPipe, outPipe, handed,
                     produced, elapsed, due, answer>>
  BY DEF SetupLarge, Register, request, cgi, process, pipes, clock
<1>2. TypeOK'
  BY <1>1, SizesAssumption, TimeAssumption DEF IInv, TypeOK
<1>3. PhaseInv' /\ ChildInv' /\ BytesInv' /\ FdInv'
  BY <1>1, SizesAssumption, TimeAssumption
     DEF IInv, TypeOK, PhaseInv, ChildInv, BytesInv, FdInv, EdgeInv,
         ListensAfterClosingStdin, Pending, NoAnswer, ToGive, LargeBody,
         Readable
<1>4. EdgeInv' /\ ListensAfterClosingStdin' /\ NeverBlocksInRead'
  BY <1>1, SizesAssumption, TimeAssumption
     DEF IInv, TypeOK, PhaseInv, BytesInv, FdInv, EdgeInv,
         ListensAfterClosingStdin, NeverBlocksInRead, Pending, NoAnswer,
         Readable, ToGive, LargeBody
<1>5. GoodAnswerIsWhole' /\ NoScriptOutlivesItsAnswer'
  BY <1>1, SizesAssumption, TimeAssumption
     DEF IInv, TypeOK, PhaseInv, ChildInv, BytesInv, FdInv,
         ListensAfterClosingStdin, GoodAnswerIsWhole,
         NoScriptOutlivesItsAnswer, Pending, NoAnswer, ToGive
<1> QED
  BY <1>2, <1>3, <1>4, <1>5 DEF IInv

\* SIGPIPE ends the server during the set-up.
LEMMA SetupSmallSignalInv ==
  ASSUME IInv, SetupSmall, isPost /\ body > 0 /\ ~childIn
  PROVE  IInv'
<1>1. /\ pc = "setup" /\ pc' = "down"
      /\ UNCHANGED <<isPost, body, batch, ready, fn, pipeIn1, pipeOut0,
                     rawOutput, child, exitedOk, childIn, childOut, inPipe,
                     outPipe, handed, produced, elapsed, due, answer>>
  BY DEF SetupSmall, request, cgi, process, pipes, clock
<1>2. TypeOK'
  BY <1>1, SizesAssumption, TimeAssumption DEF IInv, TypeOK
<1>3. PhaseInv' /\ ChildInv' /\ BytesInv' /\ FdInv'
  BY <1>1, SizesAssumption, TimeAssumption
     DEF IInv, TypeOK, PhaseInv, ChildInv, BytesInv, FdInv, EdgeInv,
         ListensAfterClosingStdin, Pending, NoAnswer, ToGive, LargeBody,
         Readable
<1>4. EdgeInv' /\ ListensAfterClosingStdin' /\ NeverBlocksInRead'
  BY <1>1, SizesAssumption, TimeAssumption
     DEF IInv, TypeOK, PhaseInv, BytesInv, FdInv, EdgeInv,
         ListensAfterClosingStdin, NeverBlocksInRead, Pending, NoAnswer,
         Readable, ToGive, LargeBody
<1>5. GoodAnswerIsWhole' /\ NoScriptOutlivesItsAnswer'
  BY <1>1, SizesAssumption, TimeAssumption
     DEF IInv, TypeOK, PhaseInv, ChildInv, BytesInv, FdInv,
         ListensAfterClosingStdin, GoodAnswerIsWhole,
         NoScriptOutlivesItsAnswer, Pending, NoAnswer, ToGive
<1> QED
  BY <1>2, <1>3, <1>4, <1>5 DEF IInv

\* A small body is in the pipe and stdin closed before anything is read.
LEMMA SetupSmallInv ==
  ASSUME IInv, SetupSmall, ~(isPost /\ body > 0 /\ ~childIn)
  PROVE  IInv'
<1>1. /\ pc = "setup" /\ pc' = "loop"
      /\ ~LargeBody
      /\ handed' = ToGive /\ inPipe' = ToGive
      /\ pipeIn1' = FALSE
      /\ fn' = "readOutput"
      /\ ready' \in SUBSET {"out"}
      /\ UNCHANGED <<isPost, body, batch, pipeOut0, rawOutput, child,
                     exitedOk, childIn, childOut, outPipe, produced, elapsed,
                     due, answer>>
  BY DEF SetupSmall, Register, ToGive, request, cgi, process, pipes, clock
<1>1a. ToGive \in Nat /\ ToGive <= PipeCap
  BY <1>1, SizesAssumption DEF IInv, TypeOK, ToGive, LargeBody
<1>1b. inPipe' \in 0..PipeCap /\ handed' \in Nat /\ ready' \in SUBSET {"in", "out"}
  BY <1>1, <1>1a, SizesAssumption
<1>2. TypeOK'
  BY <1>1, <1>1a, <1>1b, SizesAssumption, TimeAssumption DEF IInv, TypeOK
<1>3. PhaseInv' /\ ChildInv' /\ BytesInv' /\ FdInv'
  BY <1>1, <1>1a, <1>1b, SizesAssumption, TimeAssumption
     DEF IInv, TypeOK, PhaseInv, ChildInv, BytesInv, FdInv, EdgeInv,
         ListensAfterClosingStdin, Pending, NoAnswer, ToGive, LargeBody,
         Readable
<1>4. EdgeInv' /\ ListensAfterClosingStdin' /\ NeverBlocksInRead'
  BY <1>1, <1>1a, <1>1b, SizesAssumption, TimeAssumption
     DEF IInv, TypeOK, PhaseInv, BytesInv, FdInv, EdgeInv,
         ListensAfterClosingStdin, NeverBlocksInRead, Pending, NoAnswer,
         Readable, ToGive, LargeBody
<1>5. GoodAnswerIsWhole' /\ NoScriptOutlivesItsAnswer'
  BY <1>1, <1>1a, <1>1b, SizesAssumption, TimeAssumption
     DEF IInv, TypeOK, PhaseInv, ChildInv, BytesInv, FdInv,
         ListensAfterClosingStdin, GoodAnswerIsWhole,
         NoScriptOutlivesItsAnswer, Pending, NoAnswer, ToGive
<1> QED
  BY <1>2, <1>3, <1>4, <1>5 DEF IInv

\* The interval timer kills an overdue script that still runs.
LEMMA TimerKillsInv ==
  ASSUME IInv, TimerCheck, due /\ Overdue, child = "running"
  PROVE  IInv'
<1>1. /\ pc = "loop" /\ pc' \in {"wait", "down"}
      /\ due' = FALSE /\ fn # "none"
      /\ isOverTimeLimit /\ Pending
      /\ pipeIn1' = FALSE /\ pipeOut0' = FALSE /\ ready' = {}
      /\ answer' = [code |-> 504, out |-> 0]
      /\ child' = "zombie" /\ exitedOk' = FALSE
      /\ childIn' = FALSE /\ childOut' = FALSE
      /\ UNCHANGED <<isPost, body, batch, fn, rawOutput, inPipe, outPipe,
                     handed, produced, elapsed>>
  BY DEF TimerCheck, TimeOut, Conclude, CloseAll, Kill, Overdue, Registered,
         request, cgi, process, pipes, clock
<1>1a. answer' \in [code : Nat, out : Nat]
  BY <1>1 DEF IInv, TypeOK
<1>2. TypeOK'
  BY <1>1, <1>1a, SizesAssumption, TimeAssumption DEF IInv, TypeOK
<1>3. PhaseInv' /\ ChildInv' /\ BytesInv' /\ FdInv'
  BY <1>1, <1>1a, SizesAssumption, TimeAssumption
     DEF IInv, TypeOK, PhaseInv, ChildInv, BytesInv, FdInv, EdgeInv,
         ListensAfterClosingStdin, Pending, NoAnswer, ToGive, LargeBody,
         Readable
<1>4. EdgeInv' /\ ListensAfterClosingStdin' /\ NeverBlocksInRead'
  BY <1>1, <1>1a, SizesAssumption, TimeAssumption
     DEF IInv, TypeOK, PhaseInv, BytesInv, FdInv, EdgeInv,
         ListensAfterClosingStdin, NeverBlocksInRead, Pending, NoAnswer,
         Readable, ToGive, LargeBody
<1>5. GoodAnswerIsWhole' /\ NoScriptOutlivesItsAnswer'
  BY <1>1, <1>1a, SizesAssumption, TimeAssumption
     DEF IInv, TypeOK, PhaseInv, ChildInv, BytesInv, FdInv,
         ListensAfterClosingStdin, GoodAnswerIsWhole,
         NoScriptOutlivesItsAnswer, Pending, NoAnswer, ToGive
<1> QED
  BY <1>2, <1>3, <1>4, <1>5 DEF IInv

\* The interval timer answers for an overdue script that has ended.
LEMMA TimerAnswersInv ==
  ASSUME IInv, TimerCheck, due /\ Overdue, child # "running"
  PROVE  IInv'
<1>1. /\ pc = "loop" /\ pc' \in {"wait", "down"}
      /\ due' = FALSE /\ child # "running" /\ fn # "none"
      /\ isOverTimeLimit /\ Pending
      /\ pipeIn1' = FALSE /\ pipeOut0' = FALSE /\ ready' = {}
      /\ answer' = [code |-> 504, out |-> 0]
      /\ UNCHANGED <<isPost, body, batch, fn, rawOutput, child, exitedOk,
                     childIn, childOut, inPipe, outPipe, handed, produced,
                     elapsed>>
  BY DEF TimerCheck, TimeOut, Conclude, CloseAll, Kill, Overdue, Registered,
         request, cgi, process, pipes, clock
<1>1a. answer' \in [code : Nat, out : Nat]
  BY <1>1 DEF IInv, TypeOK
<1>2. TypeOK'
  BY <1>1, <1>1a, SizesAssumption, TimeAssumption DEF IInv, TypeOK
<1>3. PhaseInv' /\ ChildInv' /\ BytesInv' /\ FdInv'
  BY <1>1, <1>1a, SizesAssumption, TimeAssumption
     DEF IInv, TypeOK, PhaseInv, ChildInv, BytesInv, FdInv, EdgeInv,
         ListensAfterClosingStdin, Pending, NoAnswer, ToGive, LargeBody,
         Readable
<1>4. EdgeInv' /\ ListensAfterClosingStdin' /\ NeverBlocksInRead'
  BY <1>1, <1>1a, SizesAssumption, TimeAssumption
     DEF IInv, TypeOK, PhaseInv, BytesInv, FdInv, EdgeInv,
         ListensAfterClosingStdin, NeverBlocksInRead, Pending, NoAnswer,
         Readable, ToGive, LargeBody
<1>5. GoodAnswerIsWhole' /\ NoScriptOutlivesItsAnswer'
  BY <1>1, <1>1a, SizesAssumption, TimeAssumption
     DEF IInv, TypeOK, PhaseInv, ChildInv, BytesInv, FdInv,
         ListensAfterClosingStdin, GoodAnswerIsWhole,
         NoScriptOutlivesItsAnswer, Pending, NoAnswer, ToGive
<1> QED
  BY <1>2, <1>3, <1>4, <1>5 DEF IInv

\* Nothing is overdue, or no second has passed.
LEMMA TimerIdleInv ==
  ASSUME IInv, TimerCheck, ~(due /\ Overdue)
  PROVE  IInv'
<1>1. /\ pc = "loop" /\ pc' = "wait"
      /\ due' = FALSE
      /\ UNCHANGED <<isPost, body, batch, ready, fn, pipeIn1, pipeOut0,
                     rawOutput, child, exitedOk, childIn, childOut, inPipe,
                     outPipe, handed, produced, elapsed, answer>>
  BY DEF TimerCheck, request, cgi, process, pipes, clock
<1>2. TypeOK'
  BY ZenonT(60), <1>1, SizesAssumption, TimeAssumption DEF IInv, TypeOK
<1>3. PhaseInv' /\ ChildInv' /\ BytesInv' /\ FdInv'
  BY <1>1, SizesAssumption, TimeAssumption
     DEF IInv, TypeOK, PhaseInv, ChildInv, BytesInv, FdInv, EdgeInv,
         ListensAfterClosingStdin, Pending, NoAnswer, ToGive, LargeBody,
         Readable
<1>4. EdgeInv' /\ ListensAfterClosingStdin' /\ NeverBlocksInRead'
  BY <1>1, SizesAssumption, TimeAssumption
     DEF IInv, TypeOK, PhaseInv, BytesInv, FdInv, EdgeInv,
         ListensAfterClosingStdin, NeverBlocksInRead, Pending, NoAnswer,
         Readable, ToGive, LargeBody
<1>5. GoodAnswerIsWhole' /\ NoScriptOutlivesItsAnswer'
  BY <1>1, SizesAssumption, TimeAssumption
     DEF IInv, TypeOK, PhaseInv, ChildInv, BytesInv, FdInv,
         ListensAfterClosingStdin, GoodAnswerIsWhole,
         NoScriptOutlivesItsAnswer, Pending, NoAnswer, ToGive
<1> QED
  BY <1>2, <1>3, <1>4, <1>5 DEF IInv

\* epoll_wait moves the edges that still hold into the batch.
LEMMA EpollWaitInv ==
  ASSUME IInv, EpollWait
  PROVE  IInv'
<1>1. /\ pc = "wait"
      /\ batch' = {e \in ready : e = "out" => Readable}
      /\ ready' = {}
      /\ pc' \in {"loop", "batch"}
      /\ batch' # {} => pc' = "batch"
      /\ UNCHANGED <<isPost, body, fn, pipeIn1, pipeOut0, rawOutput, child,
                     exitedOk, childIn, childOut, inPipe, outPipe, handed,
                     produced, elapsed, due, answer>>
  BY DEF EpollWait, request, cgi, process, pipes, clock
<1>2. TypeOK'
  <2>1. TypeOK
    BY DEF IInv
  <2>2. batch' \in SUBSET {"in", "out"} /\ ready' \in SUBSET {"in", "out"}
    BY <1>1, <2>1 DEF TypeOK
  <2> QED BY <1>1, <2>1, <2>2 DEF TypeOK
<1>3. PhaseInv' /\ ChildInv' /\ BytesInv' /\ FdInv'
  BY <1>1, SizesAssumption, TimeAssumption
     DEF IInv, TypeOK, PhaseInv, ChildInv, BytesInv, FdInv, EdgeInv,
         ListensAfterClosingStdin, Pending, NoAnswer, ToGive, LargeBody,
         Readable
<1>4. EdgeInv' /\ ListensAfterClosingStdin' /\ NeverBlocksInRead'
  BY <1>1, SizesAssumption, TimeAssumption
     DEF IInv, TypeOK, PhaseInv, BytesInv, FdInv, EdgeInv,
         ListensAfterClosingStdin, NeverBlocksInRead, Pending, NoAnswer,
         Readable, ToGive, LargeBody
<1>5. GoodAnswerIsWhole' /\ NoScriptOutlivesItsAnswer'
  BY <1>1, SizesAssumption, TimeAssumption
     DEF IInv, TypeOK, PhaseInv, ChildInv, BytesInv, FdInv,
         ListensAfterClosingStdin, GoodAnswerIsWhole,
         NoScriptOutlivesItsAnswer, Pending, NoAnswer, ToGive
<1> QED
  BY <1>2, <1>3, <1>4, <1>5 DEF IInv

\* An event left over from a Cgi that is gone changes nothing.
LEMMA StaleEventInv ==
  ASSUME IInv, NEW e \in {"in", "out"}, HandleEvent(e),
         ~Pending
  PROVE  IInv'
<1>1. /\ e \in batch /\ batch' = batch \ {e}
      /\ pc = "batch"
      /\ ~Pending /\ pc' = pc
      /\ UNCHANGED <<isPost, body, pc, ready, fn, pipeIn1, pipeOut0,
                     rawOutput, child, exitedOk, childIn, childOut, inPipe,
                     outPipe, handed, produced, elapsed, due, answer>>
  BY DEF HandleEvent, FoundInCgis, request, cgi, process, pipes, clock
<1>2. TypeOK'
  BY <1>1, SizesAssumption, TimeAssumption DEF IInv, TypeOK
<1>3. PhaseInv' /\ ChildInv' /\ BytesInv' /\ FdInv'
  BY <1>1, SizesAssumption, TimeAssumption
     DEF IInv, TypeOK, PhaseInv, ChildInv, BytesInv, FdInv, EdgeInv,
         ListensAfterClosingStdin, Pending, NoAnswer, ToGive, LargeBody,
         Readable
<1>4. EdgeInv' /\ ListensAfterClosingStdin' /\ NeverBlocksInRead'
  BY <1>1, SizesAssumption, TimeAssumption
     DEF IInv, TypeOK, PhaseInv, BytesInv, FdInv, EdgeInv,
         ListensAfterClosingStdin, NeverBlocksInRead, Pending, NoAnswer,
         Readable, ToGive, LargeBody
<1>5. GoodAnswerIsWhole' /\ NoScriptOutlivesItsAnswer'
  BY <1>1, SizesAssumption, TimeAssumption
     DEF IInv, TypeOK, PhaseInv, ChildInv, BytesInv, FdInv,
         ListensAfterClosingStdin, GoodAnswerIsWhole,
         NoScriptOutlivesItsAnswer, Pending, NoAnswer, ToGive
<1> QED
  BY <1>2, <1>3, <1>4, <1>5 DEF IInv

\* An event past the limit kills the running script.
LEMMA EventKillsInv ==
  ASSUME IInv, NEW e \in {"in", "out"}, HandleEvent(e),
         Pending, isOverTimeLimit, child = "running"
  PROVE  IInv'
<1>1. /\ e \in batch /\ batch' = batch \ {e}
      /\ pc = "batch"
      /\ pc' = "batch"
      /\ isOverTimeLimit /\ Pending
      /\ pipeIn1' = FALSE /\ pipeOut0' = FALSE /\ ready' = {}
      /\ answer' = [code |-> 504, out |-> 0]
      /\ child = "running" /\ child' = "zombie" /\ exitedOk' = FALSE
      /\ childIn' = FALSE /\ childOut' = FALSE
      /\ UNCHANGED <<isPost, body, fn, rawOutput, inPipe, outPipe, handed,
                     produced, elapsed, due>>
  BY DEF HandleEvent, FoundInCgis, ProcessCgi, TimeOut, Conclude, CloseAll,
         Kill, request, cgi, process, pipes, clock
<1>1a. answer' \in [code : Nat, out : Nat]
  BY <1>1 DEF IInv, TypeOK
<1>2. TypeOK'
  BY <1>1, <1>1a, SizesAssumption, TimeAssumption DEF IInv, TypeOK
<1>3. PhaseInv' /\ ChildInv' /\ BytesInv' /\ FdInv'
  BY <1>1, <1>1a, SizesAssumption, TimeAssumption
     DEF IInv, TypeOK, PhaseInv, ChildInv, BytesInv, FdInv, EdgeInv,
         ListensAfterClosingStdin, Pending, NoAnswer, ToGive, LargeBody,
         Readable
<1>4. EdgeInv' /\ ListensAfterClosingStdin' /\ NeverBlocksInRead'
  BY <1>1, <1>1a, SizesAssumption, TimeAssumption
     DEF IInv, TypeOK, PhaseInv, BytesInv, FdInv, EdgeInv,
         ListensAfterClosingStdin, NeverBlocksInRead, Pending, NoAnswer,
         Readable, ToGive, LargeBody
<1>5. GoodAnswerIsWhole' /\ NoScriptOutlivesItsAnswer'
  BY <1>1, <1>1a, SizesAssumption, TimeAssumption
     DEF IInv, TypeOK, PhaseInv, ChildInv, BytesInv, FdInv,
         ListensAfterClosingStdin, GoodAnswerIsWhole,
         NoScriptOutlivesItsAnswer, Pending, NoAnswer, ToGive
<1> QED
  BY <1>2, <1>3, <1>4, <1>5 DEF IInv

\* An event past the limit gives up a script that has ended.
LEMMA EventTimesOutInv ==
  ASSUME IInv, NEW e \in {"in", "out"}, HandleEvent(e),
         Pending, isOverTimeLimit, child # "running"
  PROVE  IInv'
<1>1. /\ e \in batch /\ batch' = batch \ {e}
      /\ pc = "batch"
      /\ pc' = "batch"
      /\ child # "running"
      /\ isOverTimeLimit /\ Pending
      /\ pipeIn1' = FALSE /\ pipeOut0' = FALSE /\ ready' = {}
      /\ answer' = [code |-> 504, out |-> 0]
      /\ UNCHANGED <<isPost, body, fn, rawOutput, child, exitedOk, childIn,
                     childOut, inPipe, outPipe, handed, produced, elapsed, due>>
  BY DEF HandleEvent, FoundInCgis, ProcessCgi, TimeOut, Conclude, CloseAll,
         Kill, request, cgi, process, pipes, clock
<1>1a. answer' \in [code : Nat, out : Nat]
  BY <1>1 DEF IInv, TypeOK
<1>2. TypeOK'
  BY <1>1, <1>1a, SizesAssumption, TimeAssumption DEF IInv, TypeOK
<1>3. PhaseInv' /\ ChildInv' /\ BytesInv' /\ FdInv'
  BY <1>1, <1>1a, SizesAssumption, TimeAssumption
     DEF IInv, TypeOK, PhaseInv, ChildInv, BytesInv, FdInv, EdgeInv,
         ListensAfterClosingStdin, Pending, NoAnswer, ToGive, LargeBody,
         Readable
<1>4. EdgeInv' /\ ListensAfterClosingStdin' /\ NeverBlocksInRead'
  BY <1>1, <1>1a, SizesAssumption, TimeAssumption
     DEF IInv, TypeOK, PhaseInv, BytesInv, FdInv, EdgeInv,
         ListensAfterClosingStdin, NeverBlocksInRead, Pending, NoAnswer,
         Readable, ToGive, LargeBody
<1>5. GoodAnswerIsWhole' /\ NoScriptOutlivesItsAnswer'
  BY <1>1, <1>1a, SizesAssumption, TimeAssumption
     DEF IInv, TypeOK, PhaseInv, ChildInv, BytesInv, FdInv,
         ListensAfterClosingStdin, GoodAnswerIsWhole,
         NoScriptOutlivesItsAnswer, Pending, NoAnswer, ToGive
<1> QED
  BY <1>2, <1>3, <1>4, <1>5 DEF IInv

\* A script found dead before the write is reaped and answered 500.
LEMMA WriteToDeadInv ==
  ASSUME IInv, NEW e \in {"in", "out"}, HandleEvent(e),
         Pending, ~isOverTimeLimit, fn = "writeInput", child = "zombie"
  PROVE  IInv'
<1>1. /\ e \in batch /\ batch' = batch \ {e}
      /\ pc = "batch"
      /\ pc' = "batch"
      /\ fn = "writeInput"
      /\ child = "zombie" /\ child' = "reaped"
      /\ pipeIn1' = FALSE /\ pipeOut0' = FALSE /\ ready' = {}
      /\ answer' = [code |-> 500, out |-> 0]
      /\ UNCHANGED <<isPost, body, fn, rawOutput, exitedOk, childIn, childOut,
                     inPipe, outPipe, handed, produced, elapsed, due>>
  BY DEF HandleEvent, FoundInCgis, ProcessCgi, WriteInput, Conclude, CloseAll,
         request, cgi, process, pipes, clock
<1>1a. answer' \in [code : Nat, out : Nat]
  BY <1>1 DEF IInv, TypeOK
<1>2. TypeOK'
  BY <1>1, <1>1a, SizesAssumption, TimeAssumption DEF IInv, TypeOK
<1>3. PhaseInv' /\ ChildInv' /\ BytesInv' /\ FdInv'
  BY <1>1, <1>1a, SizesAssumption, TimeAssumption
     DEF IInv, TypeOK, PhaseInv, ChildInv, BytesInv, FdInv, EdgeInv,
         ListensAfterClosingStdin, Pending, NoAnswer, ToGive, LargeBody,
         Readable
<1>4. EdgeInv' /\ ListensAfterClosingStdin' /\ NeverBlocksInRead'
  BY <1>1, <1>1a, SizesAssumption, TimeAssumption
     DEF IInv, TypeOK, PhaseInv, BytesInv, FdInv, EdgeInv,
         ListensAfterClosingStdin, NeverBlocksInRead, Pending, NoAnswer,
         Readable, ToGive, LargeBody
<1>5. GoodAnswerIsWhole' /\ NoScriptOutlivesItsAnswer'
  BY <1>1, <1>1a, SizesAssumption, TimeAssumption
     DEF IInv, TypeOK, PhaseInv, ChildInv, BytesInv, FdInv,
         ListensAfterClosingStdin, GoodAnswerIsWhole,
         NoScriptOutlivesItsAnswer, Pending, NoAnswer, ToGive
<1> QED
  BY <1>2, <1>3, <1>4, <1>5 DEF IInv

\* Writing to a live script that closed its stdin ends the server.
LEMMA WriteSignalInv ==
  ASSUME IInv, NEW e \in {"in", "out"}, HandleEvent(e),
         Pending, ~isOverTimeLimit, fn = "writeInput",
         child # "zombie", ~childIn
  PROVE  IInv'
<1>1. /\ e \in batch /\ batch' = batch \ {e}
      /\ pc = "batch"
      /\ pc' = "down"
      /\ fn = "writeInput"
      /\ UNCHANGED <<isPost, body, ready, fn, pipeIn1, pipeOut0, rawOutput,
                     child, exitedOk, childIn, childOut, inPipe, outPipe,
                     handed, produced, elapsed, due, answer>>
  BY DEF HandleEvent, FoundInCgis, ProcessCgi, WriteInput, WriteBody, Room,
         IsWriteDone, request, cgi, process, pipes, clock
<1>2. TypeOK'
  BY <1>1, SizesAssumption, TimeAssumption DEF IInv, TypeOK
<1>3. PhaseInv' /\ ChildInv' /\ BytesInv' /\ FdInv'
  BY <1>1, SizesAssumption, TimeAssumption
     DEF IInv, TypeOK, PhaseInv, ChildInv, BytesInv, FdInv, EdgeInv,
         ListensAfterClosingStdin, Pending, NoAnswer, ToGive, LargeBody,
         Readable
<1>4. EdgeInv' /\ ListensAfterClosingStdin' /\ NeverBlocksInRead'
  BY <1>1, SizesAssumption, TimeAssumption
     DEF IInv, TypeOK, PhaseInv, BytesInv, FdInv, EdgeInv,
         ListensAfterClosingStdin, NeverBlocksInRead, Pending, NoAnswer,
         Readable, ToGive, LargeBody
<1>5. GoodAnswerIsWhole' /\ NoScriptOutlivesItsAnswer'
  BY <1>1, SizesAssumption, TimeAssumption
     DEF IInv, TypeOK, PhaseInv, ChildInv, BytesInv, FdInv,
         ListensAfterClosingStdin, GoodAnswerIsWhole,
         NoScriptOutlivesItsAnswer, Pending, NoAnswer, ToGive
<1> QED
  BY <1>2, <1>3, <1>4, <1>5 DEF IInv

\* The write hands over what fits; the whole body, or the thread waits.
LEMMA WriteInv ==
  ASSUME IInv, NEW e \in {"in", "out"}, HandleEvent(e),
         Pending, ~isOverTimeLimit, fn = "writeInput",
         child # "zombie", childIn
  PROVE  IInv'
<1> DEFINE n == Least(PipeCap - inPipe, body - handed)
<1>0. /\ n \in Nat /\ n <= PipeCap - inPipe /\ n <= body - handed
      /\ handed < body
  BY SizesAssumption DEF IInv, TypeOK, BytesInv, FdInv, LargeBody, ToGive, Least
<1>1. /\ e \in batch /\ batch' = batch \ {e}
      /\ pc = "batch"
      /\ fn = "writeInput" /\ childIn /\ Pending
      /\ inPipe' = inPipe + n /\ handed' = handed + n
      /\ \/ /\ handed + n = body /\ pc' = "batch"
            /\ pipeIn1' = FALSE /\ fn' = "readOutput"
         \/ /\ handed + n # body /\ pc' = "writeBlocked"
            /\ UNCHANGED <<pipeIn1, fn>>
      /\ UNCHANGED <<isPost, body, ready, pipeOut0, rawOutput, child,
                     exitedOk, childIn, childOut, outPipe, produced, elapsed,
                     due, answer>>
  BY DEF HandleEvent, FoundInCgis, ProcessCgi, WriteInput, WriteBody, Room,
         IsWriteDone, request, cgi, process, pipes, clock
<1> HIDE DEF n
<1>1a. inPipe' \in 0..PipeCap /\ handed' \in Nat
  BY <1>0, <1>1, SizesAssumption DEF IInv, TypeOK
<1>1b. /\ fn' \in {"writeInput", "readOutput"} /\ pipeIn1' \in BOOLEAN
       /\ pc' \in {"batch", "writeBlocked"}
  BY <1>1 DEF IInv, TypeOK
<1>2. TypeOK'
  BY <1>0, <1>1, <1>1a, <1>1b, SizesAssumption, TimeAssumption DEF IInv, TypeOK
<1>3a. PhaseInv'
  BY <1>0, <1>1, <1>1a, <1>1b, SizesAssumption, TimeAssumption
     DEF IInv, TypeOK, PhaseInv, Pending, NoAnswer
<1>3b. ChildInv'
  BY <1>0, <1>1, <1>1a, <1>1b, SizesAssumption, TimeAssumption
     DEF IInv, ChildInv, Pending, NoAnswer
<1>3c. BytesInv'
  BY <1>0, <1>1, <1>1a, <1>1b, SizesAssumption, TimeAssumption
     DEF IInv, TypeOK, BytesInv, LargeBody, ToGive, Pending, NoAnswer
<1>3d. FdInv'
  <2>1. CASE pc' = "batch" /\ pipeIn1' = FALSE /\ fn' = "readOutput"
    BY <2>1, <1>1 DEF IInv, FdInv, Pending
  <2>2. CASE pc' = "writeBlocked" /\ UNCHANGED <<pipeIn1, fn>>
    BY <2>2, <1>1 DEF IInv, FdInv, Pending
  <2> QED
    BY <2>1, <2>2, <1>1
<1>4. EdgeInv' /\ ListensAfterClosingStdin' /\ NeverBlocksInRead'
  BY <1>0, <1>1, <1>1a, <1>1b, SizesAssumption, TimeAssumption
     DEF IInv, TypeOK, PhaseInv, BytesInv, FdInv, EdgeInv,
         ListensAfterClosingStdin, NeverBlocksInRead, Pending, NoAnswer,
         Readable, ToGive, LargeBody
<1>5. GoodAnswerIsWhole' /\ NoScriptOutlivesItsAnswer'
  BY <1>0, <1>1, <1>1a, <1>1b, SizesAssumption, TimeAssumption
     DEF IInv, TypeOK, PhaseInv, ChildInv, BytesInv, FdInv,
         ListensAfterClosingStdin, GoodAnswerIsWhole,
         NoScriptOutlivesItsAnswer, Pending, NoAnswer, ToGive
<1> QED
  BY <1>2, <1>3a, <1>3b, <1>3c, <1>3d, <1>4, <1>5 DEF IInv

\* End of file from a script that still runs: the thread waits for it.
LEMMA EofWaitsInv ==
  ASSUME IInv, NEW e \in {"in", "out"}, HandleEvent(e),
         Pending, ~isOverTimeLimit, fn # "writeInput", outPipe = 0, child = "running"
  PROVE  IInv'
<1>1. /\ e \in batch /\ batch' = batch \ {e}
      /\ pc = "batch"
      /\ fn = "readOutput" /\ Pending /\ ~childOut
      /\ pc' = "waitBlocked"
      /\ pipeOut0' = FALSE
      /\ ready' = ready \ {"out"}
      /\ UNCHANGED <<isPost, body, fn, pipeIn1, rawOutput, child, exitedOk,
                     childIn, childOut, inPipe, outPipe, handed, produced,
                     elapsed, due, answer>>
  BY DEF HandleEvent, FoundInCgis, ProcessCgi, ReadOutput, ReadBlocks,
         FinishCgi, Readable, IInv, PhaseInv, EdgeInv, TypeOK, request, cgi,
         process, pipes, clock
<1>2. TypeOK'
  BY <1>1, SizesAssumption, TimeAssumption DEF IInv, TypeOK
<1>3. PhaseInv' /\ ChildInv' /\ BytesInv' /\ FdInv'
  BY <1>1, SizesAssumption, TimeAssumption
     DEF IInv, TypeOK, PhaseInv, ChildInv, BytesInv, FdInv, EdgeInv,
         ListensAfterClosingStdin, Pending, NoAnswer, ToGive, LargeBody,
         Readable
<1>4. EdgeInv' /\ ListensAfterClosingStdin' /\ NeverBlocksInRead'
  BY <1>1, SizesAssumption, TimeAssumption
     DEF IInv, TypeOK, PhaseInv, BytesInv, FdInv, EdgeInv,
         ListensAfterClosingStdin, NeverBlocksInRead, Pending, NoAnswer,
         Readable, ToGive, LargeBody
<1>5. GoodAnswerIsWhole' /\ NoScriptOutlivesItsAnswer'
  BY <1>1, SizesAssumption, TimeAssumption
     DEF IInv, TypeOK, PhaseInv, ChildInv, BytesInv, FdInv,
         ListensAfterClosingStdin, GoodAnswerIsWhole,
         NoScriptOutlivesItsAnswer, Pending, NoAnswer, ToGive
<1> QED
  BY <1>2, <1>3, <1>4, <1>5 DEF IInv

\* End of file from a script that has ended: its status decides.
LEMMA EofAnswersInv ==
  ASSUME IInv, NEW e \in {"in", "out"}, HandleEvent(e),
         Pending, ~isOverTimeLimit, fn # "writeInput", outPipe = 0, child # "running"
  PROVE  IInv'
<1>1. /\ e \in batch /\ batch' = batch \ {e}
      /\ pc = "batch"
      /\ fn = "readOutput" /\ outPipe = 0
      /\ pc' = "batch"
      /\ child \in {"zombie", "reaped"} /\ child' = "reaped"
      /\ pipeIn1' = FALSE /\ pipeOut0' = FALSE /\ ready' = {}
      /\ \/ /\ child = "zombie" /\ exitedOk
            /\ answer' = [code |-> 200, out |-> rawOutput]
         \/ answer' = [code |-> 500, out |-> 0]
      /\ UNCHANGED <<isPost, body, fn, rawOutput, exitedOk, childIn, childOut,
                     inPipe, outPipe, handed, produced, elapsed, due>>
  BY DEF HandleEvent, FoundInCgis, ProcessCgi, ReadOutput, ReadBlocks,
         FinishCgi, ExitCode, Conclude, CloseAll, Readable, IInv, PhaseInv,
         EdgeInv, TypeOK, request, cgi, process, pipes, clock
<1>1a. answer' \in [code : Nat, out : Nat]
  BY <1>1 DEF IInv, TypeOK
<1>2. TypeOK'
  BY <1>1, <1>1a, SizesAssumption, TimeAssumption DEF IInv, TypeOK
<1>3. PhaseInv' /\ ChildInv' /\ BytesInv' /\ FdInv'
  BY <1>1, <1>1a, SizesAssumption, TimeAssumption
     DEF IInv, TypeOK, PhaseInv, ChildInv, BytesInv, FdInv, EdgeInv,
         ListensAfterClosingStdin, Pending, NoAnswer, ToGive, LargeBody,
         Readable
<1>4. EdgeInv' /\ ListensAfterClosingStdin' /\ NeverBlocksInRead'
  BY <1>1, <1>1a, SizesAssumption, TimeAssumption
     DEF IInv, TypeOK, PhaseInv, BytesInv, FdInv, EdgeInv,
         ListensAfterClosingStdin, NeverBlocksInRead, Pending, NoAnswer,
         Readable, ToGive, LargeBody
<1>5. GoodAnswerIsWhole' /\ NoScriptOutlivesItsAnswer'
  BY <1>1, <1>1a, SizesAssumption, TimeAssumption
     DEF IInv, TypeOK, PhaseInv, ChildInv, BytesInv, FdInv,
         ListensAfterClosingStdin, GoodAnswerIsWhole,
         NoScriptOutlivesItsAnswer, Pending, NoAnswer, ToGive
<1> QED
  BY <1>2, <1>3, <1>4, <1>5 DEF IInv

\* A read moves at most ReadChunk bytes from the pipe to the output.
LEMMA ReadInv ==
  ASSUME IInv, NEW e \in {"in", "out"}, HandleEvent(e),
         Pending, ~isOverTimeLimit, fn # "writeInput", outPipe # 0
  PROVE  IInv'
<1> DEFINE n == Least(ReadChunk, outPipe)
<1>0. n \in Nat /\ n > 0 /\ n <= outPipe
  BY SizesAssumption DEF IInv, TypeOK, Least
<1>1. /\ e \in batch /\ batch' = batch \ {e}
      /\ pc = "batch"
      /\ fn = "readOutput" /\ Pending
      /\ pc' = "batch"
      /\ rawOutput' = rawOutput + n /\ outPipe' = outPipe - n
      /\ UNCHANGED <<isPost, body, ready, fn, pipeIn1, pipeOut0, child,
                     exitedOk, childIn, childOut, inPipe, handed, produced,
                     elapsed, due, answer>>
  BY DEF HandleEvent, FoundInCgis, ProcessCgi, ReadOutput, ReadBlocks,
         Readable, IInv, PhaseInv, EdgeInv, TypeOK, request, cgi, process,
         pipes, clock
<1> HIDE DEF n
<1>2. TypeOK'
  BY <1>0, <1>1, SizesAssumption, TimeAssumption DEF IInv, TypeOK
<1>3. PhaseInv' /\ ChildInv' /\ BytesInv' /\ FdInv'
  BY <1>0, <1>1, SizesAssumption, TimeAssumption
     DEF IInv, TypeOK, PhaseInv, ChildInv, BytesInv, FdInv, EdgeInv,
         ListensAfterClosingStdin, Pending, NoAnswer, ToGive, LargeBody,
         Readable
<1>4. EdgeInv' /\ ListensAfterClosingStdin' /\ NeverBlocksInRead'
  BY <1>0, <1>1, SizesAssumption, TimeAssumption
     DEF IInv, TypeOK, PhaseInv, BytesInv, FdInv, EdgeInv,
         ListensAfterClosingStdin, NeverBlocksInRead, Pending, NoAnswer,
         Readable, ToGive, LargeBody
<1>5. GoodAnswerIsWhole' /\ NoScriptOutlivesItsAnswer'
  BY <1>0, <1>1, SizesAssumption, TimeAssumption
     DEF IInv, TypeOK, PhaseInv, ChildInv, BytesInv, FdInv,
         ListensAfterClosingStdin, GoodAnswerIsWhole,
         NoScriptOutlivesItsAnswer, Pending, NoAnswer, ToGive
<1> QED
  BY <1>2, <1>3, <1>4, <1>5 DEF IInv

\* The batch is done.
LEMMA BatchDoneInv ==
  ASSUME IInv, BatchDone
  PROVE  IInv'
<1>1. /\ pc = "batch" /\ batch = {} /\ pc' = "loop"
      /\ UNCHANGED <<isPost, body, batch, ready, fn, pipeIn1, pipeOut0,
                     rawOutput, child, exitedOk, childIn, childOut, inPipe,
                     outPipe, handed, produced, elapsed, due, answer>>
  BY DEF BatchDone, request, cgi, process, pipes, clock
<1>2. TypeOK'
  BY <1>1, SizesAssumption, TimeAssumption DEF IInv, TypeOK
<1>3. PhaseInv' /\ ChildInv' /\ BytesInv' /\ FdInv'
  BY <1>1, SizesAssumption, TimeAssumption
     DEF IInv, TypeOK, PhaseInv, ChildInv, BytesInv, FdInv, EdgeInv,
         ListensAfterClosingStdin, Pending, NoAnswer, ToGive, LargeBody,
         Readable
<1>4. EdgeInv' /\ ListensAfterClosingStdin' /\ NeverBlocksInRead'
  BY <1>1, SizesAssumption, TimeAssumption
     DEF IInv, TypeOK, PhaseInv, BytesInv, FdInv, EdgeInv,
         ListensAfterClosingStdin, NeverBlocksInRead, Pending, NoAnswer,
         Readable, ToGive, LargeBody
<1>5. GoodAnswerIsWhole' /\ NoScriptOutlivesItsAnswer'
  BY <1>1, SizesAssumption, TimeAssumption
     DEF IInv, TypeOK, PhaseInv, ChildInv, BytesInv, FdInv,
         ListensAfterClosingStdin, GoodAnswerIsWhole,
         NoScriptOutlivesItsAnswer, Pending, NoAnswer, ToGive
<1> QED
  BY <1>2, <1>3, <1>4, <1>5 DEF IInv

\* The blocked write goes on.
LEMMA ResumeWriteInv ==
  ASSUME IInv, ResumeWrite, childIn
  PROVE  IInv'
<1> DEFINE n == Least(PipeCap - inPipe, body - handed)
<1>0. /\ n \in Nat /\ n <= PipeCap - inPipe /\ n <= body - handed
      /\ handed < body
  BY SizesAssumption DEF IInv, TypeOK, BytesInv, FdInv, ResumeWrite, LargeBody, ToGive, Least
<1>1. /\ pc = "writeBlocked"
      /\ fn = "writeInput" /\ childIn /\ Pending
      /\ inPipe' = inPipe + n /\ handed' = handed + n
      /\ \/ /\ handed + n = body /\ pc' = "batch"
            /\ pipeIn1' = FALSE /\ fn' = "readOutput"
         \/ /\ handed + n # body /\ pc' = "writeBlocked"
            /\ UNCHANGED <<pipeIn1, fn>>
      /\ UNCHANGED <<isPost, body, batch, ready, pipeOut0, rawOutput, child,
                     exitedOk, childIn, childOut, outPipe, produced, elapsed,
                     due, answer>>
  BY DEF ResumeWrite, WriteBody, Room, IsWriteDone, IInv, FdInv, request, cgi,
         process, pipes, clock
<1> HIDE DEF n
<1>1a. inPipe' \in 0..PipeCap /\ handed' \in Nat
  BY <1>0, <1>1, SizesAssumption DEF IInv, TypeOK
<1>1b. /\ fn' \in {"writeInput", "readOutput"} /\ pipeIn1' \in BOOLEAN
       /\ pc' \in {"batch", "writeBlocked"}
  BY <1>1 DEF IInv, TypeOK
<1>2. TypeOK'
  BY <1>0, <1>1, <1>1a, <1>1b, SizesAssumption, TimeAssumption DEF IInv, TypeOK
<1>3a. PhaseInv'
  BY <1>0, <1>1, <1>1a, <1>1b, SizesAssumption, TimeAssumption
     DEF IInv, TypeOK, PhaseInv, Pending, NoAnswer
<1>3b. ChildInv'
  BY <1>0, <1>1, <1>1a, <1>1b, SizesAssumption, TimeAssumption
     DEF IInv, ChildInv, Pending, NoAnswer
<1>3c. BytesInv'
  BY <1>0, <1>1, <1>1a, <1>1b, SizesAssumption, TimeAssumption
     DEF IInv, TypeOK, BytesInv, LargeBody, ToGive, Pending, NoAnswer
<1>3d. FdInv'
  <2>1. CASE pc' = "batch" /\ pipeIn1' = FALSE /\ fn' = "readOutput"
    BY <2>1, <1>1 DEF IInv, FdInv, Pending
  <2>2. CASE pc' = "writeBlocked" /\ UNCHANGED <<pipeIn1, fn>>
    BY <2>2, <1>1 DEF IInv, FdInv, Pending
  <2> QED
    BY <2>1, <2>2, <1>1
<1>4. EdgeInv' /\ ListensAfterClosingStdin' /\ NeverBlocksInRead'
  BY <1>0, <1>1, <1>1a, <1>1b, SizesAssumption, TimeAssumption
     DEF IInv, TypeOK, PhaseInv, BytesInv, FdInv, EdgeInv,
         ListensAfterClosingStdin, NeverBlocksInRead, Pending, NoAnswer,
         Readable, ToGive, LargeBody
<1>5. GoodAnswerIsWhole' /\ NoScriptOutlivesItsAnswer'
  BY <1>0, <1>1, <1>1a, <1>1b, SizesAssumption, TimeAssumption
     DEF IInv, TypeOK, PhaseInv, ChildInv, BytesInv, FdInv,
         ListensAfterClosingStdin, GoodAnswerIsWhole,
         NoScriptOutlivesItsAnswer, Pending, NoAnswer, ToGive
<1> QED
  BY <1>2, <1>3a, <1>3b, <1>3c, <1>3d, <1>4, <1>5 DEF IInv

\* SIGPIPE ends the server in the blocked write.
LEMMA ResumeWriteSignalInv ==
  ASSUME IInv, ResumeWrite, ~childIn
  PROVE  IInv'
<1>1. /\ pc' = "down"
      /\ fn = "writeInput"
      /\ UNCHANGED <<isPost, body, batch, ready, fn, pipeIn1, pipeOut0,
                     rawOutput, child, exitedOk, childIn, childOut, inPipe,
                     outPipe, handed, produced, elapsed, due, answer>>
  BY DEF ResumeWrite, WriteBody, Room, IsWriteDone, IInv, FdInv, request, cgi,
         process, pipes, clock
<1>2. TypeOK'
  BY <1>1, SizesAssumption, TimeAssumption DEF IInv, TypeOK
<1>3. PhaseInv' /\ ChildInv' /\ BytesInv' /\ FdInv'
  BY <1>1, SizesAssumption, TimeAssumption
     DEF IInv, TypeOK, PhaseInv, ChildInv, BytesInv, FdInv, EdgeInv,
         ListensAfterClosingStdin, Pending, NoAnswer, ToGive, LargeBody,
         Readable
<1>4. EdgeInv' /\ ListensAfterClosingStdin' /\ NeverBlocksInRead'
  BY <1>1, SizesAssumption, TimeAssumption
     DEF IInv, TypeOK, PhaseInv, BytesInv, FdInv, EdgeInv,
         ListensAfterClosingStdin, NeverBlocksInRead, Pending, NoAnswer,
         Readable, ToGive, LargeBody
<1>5. GoodAnswerIsWhole' /\ NoScriptOutlivesItsAnswer'
  BY <1>1, SizesAssumption, TimeAssumption
     DEF IInv, TypeOK, PhaseInv, ChildInv, BytesInv, FdInv,
         ListensAfterClosingStdin, GoodAnswerIsWhole,
         NoScriptOutlivesItsAnswer, Pending, NoAnswer, ToGive
<1> QED
  BY <1>2, <1>3, <1>4, <1>5 DEF IInv

\* The script the thread waited for has ended.
LEMMA ResumeFinishInv ==
  ASSUME IInv, ResumeFinish
  PROVE  IInv'
<1>1. /\ fn = "readOutput" /\ outPipe = 0
      /\ pc' = "batch"
      /\ child \in {"zombie", "reaped"} /\ child' = "reaped"
      /\ pipeIn1' = FALSE /\ pipeOut0' = FALSE /\ ready' = {}
      /\ \/ /\ child = "zombie" /\ exitedOk
            /\ answer' = [code |-> 200, out |-> rawOutput]
         \/ answer' = [code |-> 500, out |-> 0]
      /\ UNCHANGED <<isPost, body, batch, fn, rawOutput, exitedOk, childIn,
                     childOut, inPipe, outPipe, handed, produced, elapsed, due>>
  BY DEF ResumeFinish, FinishCgi, ExitCode, Conclude, CloseAll, IInv, FdInv,
         request, cgi, process, pipes, clock
<1>1a. answer' \in [code : Nat, out : Nat]
  BY <1>1 DEF IInv, TypeOK
<1>2. TypeOK'
  BY <1>1, <1>1a, SizesAssumption, TimeAssumption DEF IInv, TypeOK
<1>3. PhaseInv' /\ ChildInv' /\ BytesInv' /\ FdInv'
  BY <1>1, <1>1a, SizesAssumption, TimeAssumption
     DEF IInv, TypeOK, PhaseInv, ChildInv, BytesInv, FdInv, EdgeInv,
         ListensAfterClosingStdin, Pending, NoAnswer, ToGive, LargeBody,
         Readable
<1>4. EdgeInv' /\ ListensAfterClosingStdin' /\ NeverBlocksInRead'
  BY <1>1, <1>1a, SizesAssumption, TimeAssumption
     DEF IInv, TypeOK, PhaseInv, BytesInv, FdInv, EdgeInv,
         ListensAfterClosingStdin, NeverBlocksInRead, Pending, NoAnswer,
         Readable, ToGive, LargeBody
<1>5. GoodAnswerIsWhole' /\ NoScriptOutlivesItsAnswer'
  BY <1>1, <1>1a, SizesAssumption, TimeAssumption
     DEF IInv, TypeOK, PhaseInv, ChildInv, BytesInv, FdInv,
         ListensAfterClosingStdin, GoodAnswerIsWhole,
         NoScriptOutlivesItsAnswer, Pending, NoAnswer, ToGive
<1> QED
  BY <1>2, <1>3, <1>4, <1>5 DEF IInv

\* The script reads.
LEMMA ScriptReadsInv ==
  ASSUME IInv, ScriptReads
  PROVE  IInv'
<1>1. /\ child = "running"
      /\ inPipe' \in 0..PipeCap /\ inPipe' < inPipe
      /\ UNCHANGED <<isPost, body, pc, batch, ready, fn, pipeIn1, pipeOut0,
                     rawOutput, child, exitedOk, childIn, childOut, outPipe,
                     handed, produced, elapsed, due, answer>>
  BY DEF ScriptReads, Script, request, cgi, process, pipes, clock
<1>2. TypeOK'
  BY <1>1, SizesAssumption, TimeAssumption DEF IInv, TypeOK
<1>3. PhaseInv' /\ ChildInv' /\ BytesInv' /\ FdInv'
  BY <1>1, SizesAssumption, TimeAssumption
     DEF IInv, TypeOK, PhaseInv, ChildInv, BytesInv, FdInv, EdgeInv,
         ListensAfterClosingStdin, Pending, NoAnswer, ToGive, LargeBody,
         Readable
<1>4. EdgeInv' /\ ListensAfterClosingStdin' /\ NeverBlocksInRead'
  BY <1>1, SizesAssumption, TimeAssumption
     DEF IInv, TypeOK, PhaseInv, BytesInv, FdInv, EdgeInv,
         ListensAfterClosingStdin, NeverBlocksInRead, Pending, NoAnswer,
         Readable, ToGive, LargeBody
<1>5. GoodAnswerIsWhole' /\ NoScriptOutlivesItsAnswer'
  BY <1>1, SizesAssumption, TimeAssumption
     DEF IInv, TypeOK, PhaseInv, ChildInv, BytesInv, FdInv,
         ListensAfterClosingStdin, GoodAnswerIsWhole,
         NoScriptOutlivesItsAnswer, Pending, NoAnswer, ToGive
<1> QED
  BY <1>2, <1>3, <1>4, <1>5 DEF IInv

\* The script writes, with an edge if the Cgi is registered.
LEMMA ScriptWritesInv ==
  ASSUME IInv, ScriptWrites
  PROVE  IInv'
<1>1. /\ child = "running" /\ pipeOut0
      /\ \E n \in 1..PipeCap : /\ n <= PipeCap - outPipe
                          /\ outPipe' = outPipe + n
                          /\ produced' = produced + n
      /\ ready' \in SUBSET {"in", "out"} /\ ("in" \in ready' => "in" \in ready)
      /\ fn = "none" => ready' = ready
      /\ UNCHANGED <<isPost, body, pc, batch, fn, pipeIn1, pipeOut0,
                     rawOutput, child, exitedOk, childIn, childOut, inPipe,
                     handed, elapsed, due, answer>>
  BY DEF ScriptWrites, Wake, Registered, IInv, TypeOK, Script, request, cgi,
         process, pipes, clock
<1>2. TypeOK'
  BY <1>1, SizesAssumption, TimeAssumption DEF IInv, TypeOK
<1>3. PhaseInv' /\ ChildInv' /\ BytesInv' /\ FdInv'
  BY <1>1, SizesAssumption, TimeAssumption
     DEF IInv, TypeOK, PhaseInv, ChildInv, BytesInv, FdInv, EdgeInv,
         ListensAfterClosingStdin, Pending, NoAnswer, ToGive, LargeBody,
         Readable
<1>4. EdgeInv' /\ ListensAfterClosingStdin' /\ NeverBlocksInRead'
  BY <1>1, SizesAssumption, TimeAssumption
     DEF IInv, TypeOK, PhaseInv, BytesInv, FdInv, EdgeInv,
         ListensAfterClosingStdin, NeverBlocksInRead, Pending, NoAnswer,
         Readable, ToGive, LargeBody
<1>5. GoodAnswerIsWhole' /\ NoScriptOutlivesItsAnswer'
  BY <1>1, SizesAssumption, TimeAssumption
     DEF IInv, TypeOK, PhaseInv, ChildInv, BytesInv, FdInv,
         ListensAfterClosingStdin, GoodAnswerIsWhole,
         NoScriptOutlivesItsAnswer, Pending, NoAnswer, ToGive
<1> QED
  BY <1>2, <1>3, <1>4, <1>5 DEF IInv

\* The script closes its stdin.
LEMMA ScriptClosesStdinInv ==
  ASSUME IInv, ScriptClosesStdin
  PROVE  IInv'
<1>1. /\ child = "running" /\ childIn' = FALSE
      /\ fn = "none" => ready' = ready
      /\ UNCHANGED <<isPost, body, pc, batch, fn, pipeIn1, pipeOut0,
                     rawOutput, child, exitedOk, childOut, inPipe, outPipe,
                     handed, produced, elapsed, due, answer>>
  BY DEF ScriptClosesStdin, Wake, Registered, Script, request, cgi, process,
         pipes, clock
<1>1a. ready' \in SUBSET {"in", "out"}
  BY DEF IInv, TypeOK, ScriptClosesStdin, Wake, ReaderGone
<1>1b. "in" \in ready' => "in" \in ready \/ (LargeBody /\ pipeIn1 /\ fn # "none")
  BY DEF ScriptClosesStdin, Wake, ReaderGone, Registered
<1>2. TypeOK'
  BY ZenonT(60), <1>1, <1>1a, <1>1b, SizesAssumption, TimeAssumption DEF IInv, TypeOK
<1>3. PhaseInv' /\ ChildInv' /\ BytesInv' /\ FdInv'
  BY <1>1, <1>1a, <1>1b, SizesAssumption, TimeAssumption
     DEF IInv, TypeOK, PhaseInv, ChildInv, BytesInv, FdInv, EdgeInv,
         ListensAfterClosingStdin, Pending, NoAnswer, ToGive, LargeBody,
         Readable
<1>4. EdgeInv' /\ ListensAfterClosingStdin' /\ NeverBlocksInRead'
  BY <1>1, <1>1a, <1>1b, SizesAssumption, TimeAssumption
     DEF IInv, TypeOK, PhaseInv, BytesInv, FdInv, EdgeInv,
         ListensAfterClosingStdin, NeverBlocksInRead, Pending, NoAnswer,
         Readable, ToGive, LargeBody
<1>5. GoodAnswerIsWhole' /\ NoScriptOutlivesItsAnswer'
  BY <1>1, <1>1a, <1>1b, SizesAssumption, TimeAssumption
     DEF IInv, TypeOK, PhaseInv, ChildInv, BytesInv, FdInv,
         ListensAfterClosingStdin, GoodAnswerIsWhole,
         NoScriptOutlivesItsAnswer, Pending, NoAnswer, ToGive
<1> QED
  BY <1>2, <1>3, <1>4, <1>5 DEF IInv

\* The script closes its stdout.
LEMMA ScriptClosesStdoutInv ==
  ASSUME IInv, ScriptClosesStdout
  PROVE  IInv'
<1>1. /\ child = "running" /\ childOut' = FALSE
      /\ ready' \in SUBSET {"in", "out"}
      /\ "in" \in ready' => "in" \in ready
      /\ fn = "none" => ready' = ready
      /\ UNCHANGED <<isPost, body, pc, batch, fn, pipeIn1, pipeOut0,
                     rawOutput, child, exitedOk, childIn, inPipe, outPipe,
                     handed, produced, elapsed, due, answer>>
  BY DEF ScriptClosesStdout, Wake, WriterGone, Registered, IInv, TypeOK,
         Script, request, cgi, process, pipes, clock
<1>2. TypeOK'
  BY ZenonT(60), <1>1, SizesAssumption, TimeAssumption DEF IInv, TypeOK
<1>3. PhaseInv' /\ ChildInv' /\ BytesInv' /\ FdInv'
  BY <1>1, SizesAssumption, TimeAssumption
     DEF IInv, TypeOK, PhaseInv, ChildInv, BytesInv, FdInv, EdgeInv,
         ListensAfterClosingStdin, Pending, NoAnswer, ToGive, LargeBody,
         Readable
<1>4. EdgeInv' /\ ListensAfterClosingStdin' /\ NeverBlocksInRead'
  BY <1>1, SizesAssumption, TimeAssumption
     DEF IInv, TypeOK, PhaseInv, BytesInv, FdInv, EdgeInv,
         ListensAfterClosingStdin, NeverBlocksInRead, Pending, NoAnswer,
         Readable, ToGive, LargeBody
<1>5. GoodAnswerIsWhole' /\ NoScriptOutlivesItsAnswer'
  BY <1>1, SizesAssumption, TimeAssumption
     DEF IInv, TypeOK, PhaseInv, ChildInv, BytesInv, FdInv,
         ListensAfterClosingStdin, GoodAnswerIsWhole,
         NoScriptOutlivesItsAnswer, Pending, NoAnswer, ToGive
<1> QED
  BY <1>2, <1>3, <1>4, <1>5 DEF IInv

\* The script ends.
LEMMA ScriptExitsInv ==
  ASSUME IInv, ScriptExits
  PROVE  IInv'
<1>1. /\ child = "running" /\ child' = "zombie" /\ exitedOk' \in BOOLEAN
      /\ childIn' = FALSE /\ childOut' = FALSE
      /\ fn = "none" => ready' = ready
      /\ UNCHANGED <<isPost, body, pc, batch, fn, pipeIn1, pipeOut0,
                     rawOutput, inPipe, outPipe, handed, produced, elapsed,
                     due, answer>>
  BY DEF ScriptExits, Wake, Registered, Script, request, cgi, process, pipes,
         clock
<1>1a. ready' \in SUBSET {"in", "out"}
  BY DEF IInv, TypeOK, ScriptExits, Wake, ReaderGone, WriterGone
<1>1b. "in" \in ready' => "in" \in ready \/ (LargeBody /\ pipeIn1 /\ fn # "none")
  BY DEF ScriptExits, Wake, ReaderGone, WriterGone, Registered
<1>2. TypeOK'
  BY <1>1, <1>1a, <1>1b, SizesAssumption, TimeAssumption DEF IInv, TypeOK
<1>3. PhaseInv' /\ ChildInv' /\ BytesInv' /\ FdInv'
  BY <1>1, <1>1a, <1>1b, SizesAssumption, TimeAssumption
     DEF IInv, TypeOK, PhaseInv, ChildInv, BytesInv, FdInv, EdgeInv,
         ListensAfterClosingStdin, Pending, NoAnswer, ToGive, LargeBody,
         Readable
<1>4. EdgeInv' /\ ListensAfterClosingStdin' /\ NeverBlocksInRead'
  BY <1>1, <1>1a, <1>1b, SizesAssumption, TimeAssumption
     DEF IInv, TypeOK, PhaseInv, BytesInv, FdInv, EdgeInv,
         ListensAfterClosingStdin, NeverBlocksInRead, Pending, NoAnswer,
         Readable, ToGive, LargeBody
<1>5. GoodAnswerIsWhole' /\ NoScriptOutlivesItsAnswer'
  BY <1>1, <1>1a, <1>1b, SizesAssumption, TimeAssumption
     DEF IInv, TypeOK, PhaseInv, ChildInv, BytesInv, FdInv,
         ListensAfterClosingStdin, GoodAnswerIsWhole,
         NoScriptOutlivesItsAnswer, Pending, NoAnswer, ToGive
<1> QED
  BY <1>2, <1>3, <1>4, <1>5 DEF IInv

\* Time passes.
LEMMA TickInv ==
  ASSUME IInv, Tick
  PROVE  IInv'
<1>1. /\ elapsed' \in 0..MaxTime /\ due' = TRUE
      /\ UNCHANGED <<isPost, body, pc, batch, ready, fn, pipeIn1, pipeOut0,
                     rawOutput, child, exitedOk, childIn, childOut, inPipe,
                     outPipe, handed, produced, answer>>
  BY TimeAssumption DEF Tick, Least, IInv, TypeOK, request, cgi, process,
                        pipes
<1>2. TypeOK'
  BY <1>1, SizesAssumption, TimeAssumption DEF IInv, TypeOK
<1>3. PhaseInv' /\ ChildInv' /\ BytesInv' /\ FdInv'
  BY <1>1, SizesAssumption, TimeAssumption
     DEF IInv, TypeOK, PhaseInv, ChildInv, BytesInv, FdInv, EdgeInv,
         ListensAfterClosingStdin, Pending, NoAnswer, ToGive, LargeBody,
         Readable
<1>4. EdgeInv' /\ ListensAfterClosingStdin' /\ NeverBlocksInRead'
  BY <1>1, SizesAssumption, TimeAssumption
     DEF IInv, TypeOK, PhaseInv, BytesInv, FdInv, EdgeInv,
         ListensAfterClosingStdin, NeverBlocksInRead, Pending, NoAnswer,
         Readable, ToGive, LargeBody
<1>5. GoodAnswerIsWhole' /\ NoScriptOutlivesItsAnswer'
  BY <1>1, SizesAssumption, TimeAssumption
     DEF IInv, TypeOK, PhaseInv, ChildInv, BytesInv, FdInv,
         ListensAfterClosingStdin, GoodAnswerIsWhole,
         NoScriptOutlivesItsAnswer, Pending, NoAnswer, ToGive
<1> QED
  BY <1>2, <1>3, <1>4, <1>5 DEF IInv

----------------------------------------------------------------------------
(* The invariant and what follows from it.                                 *)

\* The initial states satisfy the invariant.
LEMMA InitInv == Init => IInv
<1> SUFFICES ASSUME Init PROVE IInv
  OBVIOUS
<1>1. TypeOK
  <2>1. answer \in [code : Nat, out : Nat]
    BY DEF Init, NoAnswer
  <2>2. /\ body \in Nat /\ inPipe \in 0..PipeCap /\ outPipe \in 0..PipeCap
        /\ elapsed \in 0..MaxTime
    BY SizesAssumption, TimeAssumption DEF Init
  <2> QED
    BY <2>1, <2>2 DEF Init, TypeOK
<1>2. PhaseInv /\ ChildInv /\ BytesInv /\ FdInv
  BY SizesAssumption DEF Init, PhaseInv, ChildInv, BytesInv, FdInv, Pending,
     ToGive
<1>3. /\ EdgeInv /\ ListensAfterClosingStdin /\ NeverBlocksInRead
      /\ GoodAnswerIsWhole /\ NoScriptOutlivesItsAnswer
  BY DEF Init, EdgeInv, ListensAfterClosingStdin, NeverBlocksInRead,
     GoodAnswerIsWhole, NoScriptOutlivesItsAnswer, Pending, NoAnswer
<1> QED
  BY <1>1, <1>2, <1>3 DEF IInv

\* A stuttering step keeps it.
LEMMA StutterInv == IInv /\ UNCHANGED vars => IInv'
  BY DEF IInv, vars, request, cgi, process, pipes, clock, TypeOK, PhaseInv,
         ChildInv, BytesInv, FdInv, EdgeInv, ListensAfterClosingStdin,
         NeverBlocksInRead, GoodAnswerIsWhole, NoScriptOutlivesItsAnswer,
         Pending, NoAnswer, ToGive, LargeBody, Readable

\* Every way an event can be handled.
LEMMA HandleEventInv ==
  ASSUME IInv, NEW e \in {"in", "out"}, HandleEvent(e)
  PROVE  IInv'
<1>1. CASE ~Pending
  BY <1>1, StaleEventInv
<1>2. CASE Pending /\ isOverTimeLimit
  BY <1>2, EventKillsInv, EventTimesOutInv
<1>3. CASE Pending /\ ~isOverTimeLimit /\ fn = "writeInput"
  BY <1>3, WriteToDeadInv, WriteSignalInv, WriteInv
<1>4. CASE Pending /\ ~isOverTimeLimit /\ fn # "writeInput"
  BY <1>4, EofWaitsInv, EofAnswersInv, ReadInv
<1> QED
  BY <1>1, <1>2, <1>3, <1>4

\* Every step of the server, the script and the clock keeps it.
LEMMA NextInv == IInv /\ [Next]_vars => IInv'
<1> SUFFICES ASSUME IInv, [Next]_vars PROVE IInv'
  OBVIOUS
<1>1. CASE \E code \in Refusals : StartFails(code)
  BY <1>1, StartFailsInv
<1>2. CASE Fork
  BY <1>2, ForkInv
<1>3. CASE CheckAlive
  BY <1>3, CheckAliveDeadInv, CheckAliveLiveInv
<1>4. CASE SetupLarge
  BY <1>4, SetupLargeInv
<1>5. CASE SetupSmall
  BY <1>5, SetupSmallSignalInv, SetupSmallInv
<1>6. CASE TimerCheck
  BY <1>6, TimerKillsInv, TimerAnswersInv, TimerIdleInv
<1>7. CASE EpollWait
  BY <1>7, EpollWaitInv
<1>8. CASE \E e \in {"in", "out"} : HandleEvent(e)
  BY <1>8, HandleEventInv
<1>9. CASE BatchDone
  BY <1>9, BatchDoneInv
<1>10. CASE ResumeWrite
  BY <1>10, ResumeWriteInv, ResumeWriteSignalInv
<1>11. CASE ResumeFinish
  BY <1>11, ResumeFinishInv
<1>12. CASE ScriptStep
  BY <1>12, ScriptReadsInv, ScriptWritesInv, ScriptClosesStdinInv,
     ScriptClosesStdoutInv, ScriptExitsInv DEF ScriptStep
<1>13. CASE Tick
  BY <1>13, TickInv
<1>14. CASE UNCHANGED vars
  BY <1>14, StutterInv
<1> QED
  BY <1>1, <1>2, <1>3, <1>4, <1>5, <1>6, <1>7, <1>8, <1>9, <1>10, <1>11,
     <1>12, <1>13, <1>14 DEF Next, Server

\* The inductive invariant holds in every run of the Cgi, the script and the
\* event loop, for all sizes of bodies, pipes, buffers and outputs.
THEOREM Invariance == Spec => []IInv
<1>1. Init => IInv
  BY InitInv
<1>2. IInv /\ [Next]_vars => IInv'
  BY NextInv
<1> QED
  BY <1>1, <1>2, PTL DEF Spec

\* Type correctness of the Cgi, its pipes and the loop that drives it.
THEOREM TypeCorrect == Spec => []TypeOK
<1>1. IInv => TypeOK
  BY DEF IInv
<1> QED
  BY <1>1, Invariance, PTL

\* Answer 200 is only given by _finishCgi for a script that was given the whole
\* body, exited with 0 and was read to the end.
THEOREM GoodAnswersAreWhole == Spec => []GoodAnswerIsWhole
<1>1. IInv => GoodAnswerIsWhole
  BY DEF IInv
<1> QED
  BY <1>1, Invariance, PTL

\* _readOutput becomes the current function only after the script's stdin has
\* been closed with the whole body written.
THEOREM StdinClosedFirst == Spec => []ListensAfterClosingStdin
<1>1. IInv => ListensAfterClosingStdin
  BY DEF IInv
<1> QED
  BY <1>1, Invariance, PTL

\* The blocking read() of _readOutput never blocks.
THEOREM ReadsDoNotBlock == Spec => []NeverBlocksInRead
<1>1. IInv => NeverBlocksInRead
  BY DEF IInv
<1> QED
  BY <1>1, Invariance, PTL

\* No process is left running for a request that has been answered.
THEOREM NoOrphans == Spec => []NoScriptOutlivesItsAnswer
<1>1. IInv => NoScriptOutlivesItsAnswer
  BY DEF IInv
<1> QED
  BY <1>1, Invariance, PTL
----------------------------------------------------------------------------
(* Cgi implements CgiExchange.                                             *)

\* What the exchange sees of a state.
View == <<isPost, body, child, exitedOk, handed, produced, elapsed, answer>>

\* Before the start nothing has been given, produced or answered.
LEMMA InitRefines == Init => Exchange!Init
  BY SizesAssumption, TimeAssumption
     DEF Init, Exchange!Init, ToGive, NoAnswer, Exchange!NoAnswer,
         isOverTimeLimit

\* A step the exchange does not see.
LEMMA ViewKept == UNCHANGED View => UNCHANGED Exchange!vars
  BY DEF View, Exchange!vars, ToGive, isOverTimeLimit

\* Bytes handed to a script that reads, or none.
LEMMA WriteRefines ==
  ASSUME IInv, childIn, Pending, fn = "writeInput",
         WriteBody, UNCHANGED <<isPost, body, process, produced, elapsed, answer>>
  PROVE  [Exchange!Next]_Exchange!vars
<1> DEFINE n == Least(PipeCap - inPipe, body - handed)
<1>1. n \in Nat /\ handed' = handed + n /\ n <= body - handed
  BY SizesAssumption DEF WriteBody, Room, Least, IInv, TypeOK, BytesInv, LargeBody,
     ToGive
<1>2. child = "running" /\ isPost /\ body \in Nat /\ handed \in Nat
  BY DEF IInv, ChildInv, BytesInv, LargeBody, TypeOK
<1> HIDE DEF n
<1>3. CASE n = 0
  BY <1>1, <1>2, <1>3, ViewKept DEF View, process
<1>4. CASE n > 0
  <2>1. handed' \in Nat /\ handed' > handed /\ handed' <= ToGive
    BY <1>1, <1>2, <1>4 DEF ToGive
  <2>2. Exchange!Give
    BY <1>2, <2>1 DEF Exchange!Give, Exchange!Pending, Exchange!NoAnswer,
       Pending, NoAnswer, process, ToGive, isOverTimeLimit
  <2> QED
    BY <2>2 DEF Exchange!Next
<1> QED
  BY <1>1, <1>3, <1>4

\* Answers sent after the script was started.
LEMMA AbortRefines ==
  ASSUME Pending, child \notin {"none"}, NEW code \in {500, 504},
         code = 504 => isOverTimeLimit,
         answer' = [code |-> code, out |-> 0],
         \/ child = "running" /\ child' = "zombie" /\ exitedOk' = FALSE
         \/ /\ child \in {"zombie", "reaped"} /\ child' \in {"zombie", "reaped"}
            /\ exitedOk' = exitedOk,
         UNCHANGED <<isPost, body, handed, produced, elapsed>>
  PROVE  Exchange!Next
<1>1. Exchange!Abort(code)
  BY DEF Exchange!Abort, Exchange!Pending, Exchange!NoAnswer, Pending,
     NoAnswer, ToGive, isOverTimeLimit
<1> QED
  BY <1>1 DEF Exchange!Next, Exchange!Fail, Exchange!GiveUp

\* The good answer of _finishCgi is the one the exchange allows.
LEMMA DeliverRefines ==
  ASSUME IInv, Pending, fn = "readOutput", outPipe = 0,
         child = "zombie", exitedOk, child' = "reaped", exitedOk' = exitedOk,
         answer' = [code |-> 200, out |-> rawOutput],
         UNCHANGED <<isPost, body, handed, produced, elapsed>>
  PROVE  Exchange!Next
<1>1. handed = ToGive /\ produced = rawOutput
  BY DEF IInv, ListensAfterClosingStdin, BytesInv, TypeOK
<1>2. Exchange!Deliver
  BY <1>1 DEF Exchange!Deliver, Exchange!Pending, Exchange!NoAnswer, Pending,
     NoAnswer, ToGive, isOverTimeLimit
<1> QED
  BY <1>2 DEF Exchange!Next

\* _finishCgi: the thread waits, or the script's status decides.
LEMMA FinishRefines ==
  ASSUME IInv, Pending, fn = "readOutput", outPipe = 0, FinishCgi,
         UNCHANGED <<isPost, body, exitedOk, handed, produced, elapsed>>
  PROVE  [Exchange!Next]_Exchange!vars
<1>1. child \in {"running", "zombie"}
  BY DEF IInv, PhaseInv
<1>2. CASE child = "running"
  BY <1>2, ViewKept DEF FinishCgi, View
<1>3. CASE child = "zombie" /\ exitedOk
  BY <1>3, DeliverRefines DEF FinishCgi, ExitCode, Conclude
<1>4. CASE child = "zombie" /\ ~exitedOk
  <2>1. answer' = [code |-> 500, out |-> 0] /\ child' = "reaped"
    BY <1>4 DEF FinishCgi, ExitCode, Conclude
  <2> QED
    BY <1>4, <2>1, AbortRefines
<1> QED
  BY <1>1, <1>2, <1>3, <1>4

\* A 504 gives the exchange up and leaves no script running.
LEMMA TimeOutRefines ==
  ASSUME IInv, Pending, fn # "none", isOverTimeLimit, TimeOut,
         UNCHANGED <<isPost, body, elapsed>>
  PROVE  Exchange!Next
<1>1. child \in {"running", "zombie"}
  BY DEF IInv, PhaseInv
<1>2. answer' = [code |-> 504, out |-> 0] /\ UNCHANGED <<handed, produced>>
  BY DEF TimeOut, Conclude, pipes
<1>3. \/ child = "running" /\ child' = "zombie" /\ exitedOk' = FALSE
      \/ child = "zombie" /\ child' = "zombie" /\ exitedOk' = exitedOk
  BY <1>1 DEF TimeOut, Kill, process
<1> QED
  BY ZenonT(60), <1>1, <1>2, <1>3, AbortRefines

\* One event of the loop is at most one step of the exchange.
LEMMA HandleEventRefines ==
  ASSUME IInv, NEW e \in {"in", "out"}, HandleEvent(e)
  PROVE  [Exchange!Next]_Exchange!vars
<1>1. UNCHANGED <<isPost, body, elapsed>> /\ pc = "batch" /\ e \in batch
  BY DEF HandleEvent, request, clock
<1>2. CASE ~Pending
  BY <1>2, <1>1, ViewKept DEF FoundInCgis, HandleEvent, View, process, pipes
<1>3. CASE Pending /\ isOverTimeLimit
  <2>1. TimeOut /\ fn # "none"
    BY <1>1, <1>3 DEF FoundInCgis, HandleEvent, ProcessCgi, IInv, PhaseInv
  <2> QED
    BY <1>1, <1>3, <2>1, TimeOutRefines
<1>4. CASE Pending /\ ~isOverTimeLimit /\ fn = "writeInput"
  <2>1. WriteInput
    BY <1>4 DEF FoundInCgis, HandleEvent, ProcessCgi
  <2>2. CASE child = "zombie"
    <3>1. /\ child' = "reaped" /\ answer' = [code |-> 500, out |-> 0]
          /\ UNCHANGED <<exitedOk, handed, produced>>
      BY <2>1, <2>2 DEF WriteInput, Conclude, pipes
    <3> QED
      BY <1>1, <1>4, <2>2, <3>1, AbortRefines
  <2>3. CASE child # "zombie" /\ childIn
    <3>1. WriteBody /\ UNCHANGED <<process, produced, answer>>
      BY <2>1, <2>3 DEF WriteInput
    <3> QED
      BY <1>1, <1>4, <2>3, <3>1, WriteRefines
  <2>4. CASE child # "zombie" /\ ~childIn
    BY <1>1, <2>1, <2>4, ViewKept DEF WriteInput, WriteBody, View, process
  <2> QED
    BY <2>2, <2>3, <2>4
<1>5. CASE Pending /\ ~isOverTimeLimit /\ fn # "writeInput"
  <2>1. ReadOutput /\ fn = "readOutput" /\ Readable
    BY <1>1, <1>5 DEF FoundInCgis, HandleEvent, ProcessCgi, IInv, TypeOK, PhaseInv, EdgeInv
  <2>2. CASE outPipe = 0
    <3>1. FinishCgi /\ UNCHANGED <<exitedOk, handed, produced>>
      BY <2>1, <2>2 DEF ReadOutput
    <3> QED
      BY <1>1, <1>5, <2>1, <2>2, <3>1, FinishRefines
  <2>3. CASE outPipe # 0
    BY <1>1, <2>1, <2>3, ViewKept DEF ReadOutput, View
  <2> QED
    BY <2>2, <2>3
<1> QED
  BY <1>2, <1>3, <1>4, <1>5

\* startCgi refuses, launches, fails or hands over the small body.
LEMMA StartRefines ==
  ASSUME IInv,
         \/ \E code \in Refusals : StartFails(code)
         \/ Fork \/ CheckAlive \/ SetupLarge \/ SetupSmall
  PROVE  [Exchange!Next]_Exchange!vars
<1>1. CASE \E code \in Refusals : StartFails(code)
  <2>1. Exchange!Refuse
    BY <1>1 DEF StartFails, IInv, PhaseInv, Exchange!Refuse, Exchange!Pending,
       Exchange!NoAnswer, Pending, NoAnswer, request, process, pipes, clock,
       ToGive, isOverTimeLimit
  <2> QED
    BY <2>1 DEF Exchange!Next
<1>2. CASE Fork
  <2>1. Exchange!Launch
    BY <1>2 DEF Fork, IInv, PhaseInv, Exchange!Launch, Exchange!Pending,
       Exchange!NoAnswer, Pending, NoAnswer, request, pipes, clock, ToGive,
       isOverTimeLimit
  <2> QED
    BY <2>1 DEF Exchange!Next
<1>3. CASE CheckAlive /\ child = "zombie"
  <2>1. /\ Pending /\ child' = "reaped" /\ answer' = [code |-> 500, out |-> 0]
        /\ UNCHANGED <<isPost, body, exitedOk, handed, produced, elapsed>>
    BY <1>3 DEF CheckAlive, EarlyExitCode, Conclude, IInv, PhaseInv, request, pipes, clock
  <2> QED
    BY <1>3, <2>1, AbortRefines
<1>4. CASE CheckAlive /\ child # "zombie"
  BY <1>4, ViewKept DEF CheckAlive, View, request, pipes, clock
<1>5. CASE SetupLarge
  BY <1>5, ViewKept DEF SetupLarge, View, request, process, pipes, clock
<1>6. CASE SetupSmall
  <2>1. /\ Pending /\ handed = 0
        /\ UNCHANGED <<isPost, body, child, exitedOk, produced, elapsed, answer>>
    BY <1>6 DEF SetupSmall, IInv, PhaseInv, request, process, clock
  <2>2. ToGive \in Nat /\ body \in Nat
    BY DEF IInv, TypeOK, ToGive
  <2>2a. handed' \in {0, ToGive} /\ (handed' # 0 => child = "running")
    <3>1. CASE isPost /\ body > 0 /\ ~childIn
      BY <1>6, <2>1, <3>1 DEF SetupSmall
    <3>2. CASE isPost /\ body > 0 /\ childIn
      BY <1>6, <3>2 DEF SetupSmall, ToGive, IInv, ChildInv
    <3>3. CASE ~(isPost /\ body > 0)
      BY <1>6, <2>2, <3>3 DEF SetupSmall, ToGive
    <3> QED
      BY <3>1, <3>2, <3>3
  <2>3. CASE handed' = 0
    BY <2>1, <2>3, ViewKept DEF View
  <2>4. CASE handed' # 0
    <3>1. handed' \in Nat /\ handed' > handed /\ handed' <= ToGive
      BY <2>1, <2>2, <2>2a, <2>4
    <3>2. Exchange!Give
      BY <2>1, <2>2a, <2>4, <3>1 DEF Exchange!Give, Exchange!Pending,
         Exchange!NoAnswer, Pending, NoAnswer, ToGive, isOverTimeLimit
    <3> QED
      BY <3>2 DEF Exchange!Next
  <2> QED
    BY <2>3, <2>4
<1> QED
  BY <1>1, <1>2, <1>3, <1>4, <1>5, <1>6

\* The script produces and ends; what it reads is not seen.
LEMMA ScriptRefines ==
  ASSUME IInv, ScriptStep
  PROVE  [Exchange!Next]_Exchange!vars
<1>1. /\ child = "running" /\ Pending
      /\ UNCHANGED <<isPost, body, elapsed, answer>>
  BY DEF ScriptStep, ScriptReads, ScriptWrites, ScriptClosesStdin,
     ScriptClosesStdout, ScriptExits, Script, request, clock, IInv,
     NoScriptOutlivesItsAnswer
<1>2. CASE ScriptReads \/ ScriptClosesStdin \/ ScriptClosesStdout
  BY <1>1, <1>2, ViewKept DEF ScriptReads, ScriptClosesStdin,
     ScriptClosesStdout, View, process, pipes
<1>3. CASE ScriptWrites
  <2>1. produced' \in Nat /\ produced' > produced
    BY <1>3, SizesAssumption DEF ScriptWrites, IInv, TypeOK
  <2>2. Exchange!Produce
    BY <1>1, <1>3, <2>1 DEF ScriptWrites, Exchange!Produce, Exchange!Pending,
       Exchange!NoAnswer, Pending, NoAnswer, process, ToGive, isOverTimeLimit
  <2> QED
    BY <2>2 DEF Exchange!Next
<1>4. CASE ScriptExits
  <2>1. child' = "zombie" /\ UNCHANGED <<handed, produced>>
    BY <1>4 DEF ScriptExits, pipes
  <2>2. Exchange!End
    BY <1>1, <2>1 DEF Exchange!End, Exchange!Pending, Exchange!NoAnswer,
       Pending, NoAnswer, ToGive, isOverTimeLimit
  <2> QED
    BY <2>2 DEF Exchange!Next
<1> QED
  BY <1>2, <1>3, <1>4 DEF ScriptStep

\* The clock makes the exchange late once.
LEMMA TickRefines ==
  ASSUME IInv, Tick
  PROVE  [Exchange!Next]_Exchange!vars
<1>1. /\ UNCHANGED <<isPost, body, child, exitedOk, handed, produced, answer>>
      /\ isOverTimeLimit => isOverTimeLimit'
  BY TimeAssumption DEF Tick, Least, IInv, TypeOK, isOverTimeLimit, request,
     process, pipes
<1>2. CASE isOverTimeLimit' = isOverTimeLimit
  BY <1>1, <1>2 DEF Exchange!vars, ToGive
<1>3. CASE ~isOverTimeLimit /\ isOverTimeLimit'
  <2>1. Exchange!BecomeLate
    BY <1>1, <1>3 DEF Exchange!BecomeLate, ToGive
  <2> QED
    BY <2>1 DEF Exchange!Next
<1> QED
  BY <1>1, <1>2, <1>3 DEF isOverTimeLimit

\* Every step is a step of the exchange or invisible to it.
LEMMA NextRefines ==
  ASSUME IInv, [Next]_vars
  PROVE  [Exchange!Next]_Exchange!vars
<1>1. CASE \/ \E code \in Refusals : StartFails(code)
           \/ Fork \/ CheckAlive \/ SetupLarge \/ SetupSmall
  BY <1>1, StartRefines
<1>2. CASE TimerCheck
  <2>1. UNCHANGED <<isPost, body, elapsed>>
    BY <1>2 DEF TimerCheck, request
  <2>2. CASE due /\ Overdue
    BY <1>2, <2>1, <2>2, TimeOutRefines DEF TimerCheck, Overdue, Registered
  <2>3. CASE ~(due /\ Overdue)
    BY <1>2, <2>1, <2>3, ViewKept DEF TimerCheck, View, process, pipes
  <2> QED
    BY <2>2, <2>3
<1>3. CASE EpollWait \/ BatchDone
  BY <1>3, ViewKept DEF EpollWait, BatchDone, View, request, process, pipes,
     clock
<1>4. CASE \E e \in {"in", "out"} : HandleEvent(e)
  BY <1>4, HandleEventRefines
<1>5. CASE ResumeWrite
  <2>1. /\ fn = "writeInput" /\ Pending /\ WriteBody
        /\ UNCHANGED <<isPost, body, process, produced, elapsed, answer>>
    BY <1>5 DEF ResumeWrite, IInv, FdInv, request, clock
  <2>2. CASE childIn
    BY <2>1, <2>2, WriteRefines
  <2>3. CASE ~childIn
    BY <2>1, <2>3, ViewKept DEF WriteBody, View, process
  <2> QED
    BY <2>2, <2>3
<1>6. CASE ResumeFinish
  <2>1. /\ fn = "readOutput" /\ Pending /\ outPipe = 0 /\ FinishCgi
        /\ UNCHANGED <<isPost, body, exitedOk, handed, produced, elapsed>>
    BY <1>6 DEF ResumeFinish, IInv, FdInv, request, pipes, clock
  <2> QED
    BY <2>1, FinishRefines
<1>7. CASE ScriptStep
  BY <1>7, ScriptRefines
<1>8. CASE Tick
  BY <1>8, TickRefines
<1>9. CASE UNCHANGED vars
  BY <1>9, ViewKept DEF vars, View, request, process, pipes, clock
<1> QED
  BY <1>1, <1>2, <1>3, <1>4, <1>5, <1>6, <1>7, <1>8, <1>9 DEF Next, Server

\* The pipes, the event loop and the script together implement the exchange:
\* one answer, good only if the exchange was complete, 504 only when late.
THEOREM RefinesExchange == Spec => ImplementsExchange
<1>1. Init => Exchange!Init
  BY InitRefines
<1>2. IInv /\ [Next]_vars => [Exchange!Next]_Exchange!vars
  BY NextRefines
<1> QED
  BY <1>1, <1>2, Invariance, PTL DEF Spec, ImplementsExchange, Exchange!Spec

\* No answer is taken back or repeated, and 504 is sent only past the limit:
\* only _processCgi answers, and it deletes the Cgi it answers for.
THEOREM AnswersOnceHolds == Spec => AnswersOnce
<1> DEFINE Once == answer' # answer =>
                     /\ answer = NoAnswer
                     /\ answer'.code = 504 => isOverTimeLimit
<1>1. ASSUME Exchange!Next PROVE Once
  <2>1. CASE Exchange!Refuse
    <3>1. PICK code \in Refusals : answer' = [code |-> code, out |-> 0]
      BY <2>1 DEF Exchange!Refuse
    <3>2. answer'.code # 504
      BY <3>1 DEF Refusals
    <3> QED
      BY <2>1, <3>2 DEF Exchange!Refuse, Exchange!Pending, Exchange!NoAnswer,
         NoAnswer
  <2>2. CASE Exchange!Deliver \/ Exchange!Fail
    <3>1. answer'.code # 504 /\ answer = NoAnswer
      BY <2>2 DEF Exchange!Deliver, Exchange!Fail, Exchange!Abort,
         Exchange!Pending, Exchange!NoAnswer, NoAnswer
    <3> QED
      BY <3>1
  <2>3. CASE Exchange!GiveUp
    BY <2>3 DEF Exchange!GiveUp, Exchange!Abort, Exchange!Pending,
       Exchange!NoAnswer, NoAnswer
  <2>4. CASE \/ Exchange!Launch \/ Exchange!Give \/ Exchange!Produce
             \/ Exchange!End \/ Exchange!BecomeLate
    BY <2>4 DEF Exchange!Launch, Exchange!Give, Exchange!Produce, Exchange!End,
       Exchange!BecomeLate
  <2> QED
    BY <1>1, <2>1, <2>2, <2>3, <2>4 DEF Exchange!Next
<1>2. ASSUME UNCHANGED Exchange!vars PROVE Once
  BY <1>2 DEF Exchange!vars
<1>3. IInv /\ [Next]_vars => [Once]_vars
  BY <1>1, <1>2, NextRefines
<1> QED
  BY <1>3, Invariance, PTL DEF Spec, AnswersOnce

----------------------------------------------------------------------------
(* The first edge of the output.                                           *)

\* What the first edge is owed in a state: nothing was read of a Cgi whose body
\* was written at once, and there is something to read.
Owed == Registered /\ ~LargeBody /\ rawOutput = 0 /\ Readable

\* A body that was written at once is behind the Cgi when it is registered, and its
\* end of the output is open as long as the loop goes round.
LEMMA OwedReads ==
  ASSUME IInv, Registered, ~LargeBody
  PROVE  /\ fn = "readOutput" /\ Pending
         /\ pc # "waitBlocked" => pipeOut0
         /\ pc # "writeBlocked"
         /\ "in" \notin batch
BY DEF IInv, TypeOK, BytesInv, FdInv, EdgeInv, Registered

\* The end of the output has more than one way to be reached, and none of them
\* leaves the Cgi both registered and in the loop with nothing read.
LEMMA ProcessCgiKeepsEdge ==
  ASSUME IInv, Registered, ~LargeBody, Readable, ProcessCgi, UNCHANGED request
  PROVE  ~(Owed' /\ pc' \in {"loop", "wait", "batch"})
<1>1. fn = "readOutput"
  BY OwedReads
<1>2. CASE isOverTimeLimit
  BY <1>2 DEF ProcessCgi, TimeOut, Conclude, Owed, Registered, Pending, NoAnswer
<1>3. CASE ~isOverTimeLimit /\ outPipe = 0
  <2>1. FinishCgi
    BY <1>1, <1>3 DEF ProcessCgi, ReadOutput
  <2>2. CASE child = "running"
    BY <2>1, <2>2 DEF FinishCgi
  <2>3. CASE child # "running"
    BY <2>1, <2>3 DEF FinishCgi, Conclude, ExitCode, Owed, Registered, Pending, NoAnswer
  <2> QED BY <2>2, <2>3
<1>4. CASE ~isOverTimeLimit /\ outPipe # 0
  <2>1. rawOutput' = rawOutput + Least(ReadChunk, outPipe)
    BY <1>1, <1>4 DEF ProcessCgi, ReadOutput
  <2>2. rawOutput' # 0
    BY <1>4, <2>1, SizesAssumption DEF IInv, TypeOK, Least
  <2> QED BY <2>2 DEF Owed
<1> QED BY <1>2, <1>3, <1>4

LEMMA FirstEdgeStep == IInv /\ FirstEdgeIsKept /\ [Next]_vars => FirstEdgeIsKept'
<1> SUFFICES ASSUME IInv, FirstEdgeIsKept, [Next]_vars,
                    Owed', pc' \in {"loop", "wait", "batch"}
             PROVE  "out" \in ready' \cup batch'
  BY DEF FirstEdgeIsKept, Owed
<1>1. ASSUME UNCHANGED <<request, ready, batch, cgi, childOut, outPipe, answer>>,
             pc \in {"loop", "wait", "batch"}
      PROVE  "out" \in ready' \cup batch'
  BY <1>1 DEF FirstEdgeIsKept, Owed, request, cgi, Registered, Pending, LargeBody, Readable
<1>2. CASE (\E code \in Refusals : StartFails(code)) \/ Fork \/ CheckAlive
  <2>1. pc \in {"start", "forked"}
    BY <1>2 DEF StartFails, Fork, CheckAlive
  <2>2. fn' = "none"
    BY <1>2, <2>1 DEF IInv, PhaseInv, StartFails, Fork, CheckAlive, Conclude, cgi
  <2> QED BY <2>2 DEF Owed, Registered
<1>3. CASE SetupLarge
  BY <1>3 DEF SetupLarge, Owed, LargeBody, request
<1>4. CASE SetupSmall
  <2>1. Register
    BY <1>4 DEF SetupSmall
  <2>2. Readable' => Readable
    BY <1>4 DEF SetupSmall, Readable, process
  <2> QED BY <2>1, <2>2 DEF Owed, Register
<1>5. CASE TimerCheck
  <2>1. CASE due /\ Overdue
    BY <1>5, <2>1 DEF TimerCheck, TimeOut, Conclude, Owed, Registered, Pending, NoAnswer
  <2>2. CASE ~(due /\ Overdue)
    BY <1>1, <1>5, <2>2 DEF TimerCheck, process, pipes
  <2> QED BY <2>1, <2>2
<1>6. CASE EpollWait
  <2>1. Owed /\ batch = {}
    BY <1>6 DEF EpollWait, Owed, Registered, Pending, LargeBody, Readable, request, cgi,
                process, pipes, IInv, PhaseInv
  <2>2. "out" \in ready
    BY <1>6, <2>1 DEF FirstEdgeIsKept, Owed, EpollWait
  <2> QED BY <1>6, <2>1, <2>2 DEF EpollWait, Owed
<1>7. ASSUME NEW e \in {"in", "out"}, HandleEvent(e) PROVE "out" \in ready' \cup batch'
  <2>1. CASE Pending
    <3>1. Registered /\ ~LargeBody
      <4>1. ProcessCgi /\ UNCHANGED request /\ pc = "batch"
        BY <1>7, <2>1 DEF HandleEvent, FoundInCgis
      <4> QED BY <2>1, <4>1 DEF IInv, PhaseInv, Registered, Owed, LargeBody, request
    <3>2. e = "out"
      BY <1>7, <3>1, OwedReads DEF HandleEvent
    <3>3. Readable
      BY <1>7, <2>1, <3>2 DEF HandleEvent, IInv, EdgeInv
    <3>4. ProcessCgi /\ UNCHANGED request
      BY <1>7, <2>1 DEF HandleEvent, FoundInCgis
    <3> QED BY <3>1, <3>3, <3>4, ProcessCgiKeepsEdge
  <2>2. CASE ~Pending
    BY <1>7, <2>2 DEF HandleEvent, FoundInCgis, Owed, Registered, Pending
  <2> QED BY <2>1, <2>2
<1>8. CASE BatchDone
  BY <1>1, <1>8 DEF BatchDone, process, pipes
<1>9. CASE ResumeWrite
  <2>1. LargeBody
    BY <1>9 DEF ResumeWrite, IInv, FdInv, BytesInv
  <2> QED BY <1>9, <2>1 DEF ResumeWrite, Owed, LargeBody, request
<1>10. CASE ResumeFinish
  BY <1>10 DEF ResumeFinish, FinishCgi, Conclude, ExitCode, Owed, Registered, Pending,
               NoAnswer
<1>11. CASE ScriptStep
  <2>1. /\ UNCHANGED <<request, pc, batch, cgi, answer>>
        /\ ready \subseteq ready'
        /\ Registered /\ ~LargeBody /\ rawOutput = 0
    <3>1. Script
      BY <1>11 DEF ScriptStep, ScriptReads, ScriptWrites, ScriptClosesStdin,
                   ScriptClosesStdout, ScriptExits
    <3>2. ready \subseteq ready'
      BY <1>11 DEF ScriptStep, ScriptReads, ScriptWrites, ScriptClosesStdin,
                   ScriptClosesStdout, ScriptExits, Wake
    <3> QED BY <3>1, <3>2 DEF Script, Owed, Registered, Pending, LargeBody, request, cgi
  <2>2. CASE Readable
    BY <2>1, <2>2 DEF FirstEdgeIsKept
  <2>3. CASE ~Readable
    <3>1. childOut /\ pipeOut0
      BY <2>1, <2>3, OwedReads DEF Readable
    <3>2. CASE ScriptReads \/ ScriptClosesStdin
      BY <2>3, <3>2 DEF ScriptReads, ScriptClosesStdin, process, pipes, Owed, Readable
    <3>3. CASE ScriptWrites
      BY <2>1, <3>3 DEF ScriptWrites, Wake
    <3>4. CASE ScriptClosesStdout \/ ScriptExits
      BY <2>1, <3>1, <3>4 DEF ScriptClosesStdout, ScriptExits, Wake, WriterGone
    <3> QED BY <1>11, <3>2, <3>3, <3>4 DEF ScriptStep
  <2> QED BY <2>2, <2>3
<1>12. CASE Tick
  BY <1>1, <1>12 DEF Tick, process, pipes
<1>13. CASE UNCHANGED vars
  BY <1>1, <1>13 DEF vars, process, pipes
<1> QED
  BY <1>2, <1>3, <1>4, <1>5, <1>6, <1>7, <1>8, <1>9, <1>10, <1>11, <1>12, <1>13
     DEF Next, Server

\* Output that appears between fork and epoll_ctl, or at any time before the loop
\* has read for the first time, has an event on its way (_addCgi, _readOutput).
THEOREM FirstEdgesAreKept == Spec => []FirstEdgeIsKept
<1>1. Init => FirstEdgeIsKept
  BY DEF Init, FirstEdgeIsKept
<1> QED
  BY <1>1, FirstEdgeStep, Invariance, PTL DEF Spec
=============================================================================
