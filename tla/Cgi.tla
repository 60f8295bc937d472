-------------------------------- MODULE Cgi --------------------------------
(***************************************************************************)
(* One Cgi object (src/src/CGI/Cgi.cpp), the script it runs, the two pipes *)
(* between them and the turns of the server's event loop that drive it     *)
(* (src/src/Server/HTTPServer.cpp, HTTPSserverCgi.cpp).  The server is one *)
(* thread; the script is another process, so between any two of the        *)
(* server's system calls the script may read, write, close or exit.        *)
(*                                                                         *)
(* Data are byte counts.  The parent's ends of both pipes are blocking     *)
(* (_makeNonBlocking sets O_NONBLOCK on the ends the script gets).  epoll  *)
(* is edge triggered: "ready" holds the descriptors with an event not yet  *)
(* delivered, "batch" those epoll_wait returned and the loop has not       *)
(* handled yet.  SIGPIPE has its default action, which ends the server.    *)
(* The client stays connected here; HTTPServer.tla lets it leave.          *)
(***************************************************************************)
EXTENDS Naturals

CONSTANTS
  MaxBody,    \* bound: largest request body
  SmallBody,  \* a body up to this size is written at once (4096)
  PipeCap,    \* capacity of a pipe (65536 on Linux)
  ReadChunk,  \* size of _readOutput's buffer (16384)
  MaxOut,     \* bound: most output a script produces
  TimeLimit,  \* CGITIMEOUT, in seconds
  MaxTime     \* bound: the clock stops counting here

ASSUME SizesAssumption ==
  /\ MaxBody \in Nat /\ MaxOut \in Nat
  /\ SmallBody \in Nat
  /\ PipeCap \in Nat \ {0}
  /\ SmallBody <= PipeCap
  /\ ReadChunk \in Nat \ {0}

ASSUME TimeAssumption ==
  TimeLimit \in Nat /\ MaxTime \in Nat /\ TimeLimit < MaxTime

VARIABLES
  isPost, body,       \* the request: POST or not, size of its body
  pc,                 \* where the server thread is
  batch,              \* delivered and not yet handled events
  ready,              \* events epoll has not delivered yet
  fn,                 \* Cgi::_currentFunction
  pipeIn1, pipeOut0,  \* the parent's ends of the pipes are open
  rawOutput,          \* size of Cgi::_rawOutput
  child, exitedOk,    \* the script's process; did it exit with status 0
  childIn, childOut,  \* the script's ends of the pipes are open
  inPipe, outPipe,    \* bytes in the pipes
  handed,             \* bytes ever written to the script's stdin
  produced,           \* bytes the script ever wrote to its stdout
  elapsed, due,       \* Cgi::_timer; a second has passed since the last check
  answer              \* the response sent to the client

request == <<isPost, body>>
cgi     == <<fn, pipeIn1, pipeOut0, rawOutput>>
process == <<child, exitedOk, childIn, childOut>>
pipes   == <<inPipe, outPipe, handed, produced>>
clock   == <<elapsed, due>>
vars    == <<request, pc, batch, ready, cgi, process, pipes, clock, answer>>

NoAnswer == [code |-> 0, out |-> 0]

\* Codes startCgi ends with when it never gets to fork: not executable, not
\* found, or pipe(), fcntl() or fork() failed.
Refusals == {403, 404, 500}

Least(a, b) == IF a <= b THEN a ELSE b

Pending == answer = NoAnswer

\* The Cgi is in HTTPServer::_cgis.
Registered == fn # "none" /\ Pending

\* _cgiFds[1] is set: the write end is registered too.
LargeBody == isPost /\ body > SmallBody

isOverTimeLimit == elapsed > TimeLimit

\* What epoll reports for the read end: bytes, or no writer left.
Readable == outPipe > 0 \/ ~childOut

Init ==
  /\ isPost \in BOOLEAN
  /\ body \in 0..MaxBody
  /\ pc = "start"
  /\ batch = {} /\ ready = {}
  /\ fn = "none"
  /\ pipeIn1 = FALSE /\ pipeOut0 = FALSE
  /\ rawOutput = 0
  /\ child = "none" /\ exitedOk = FALSE
  /\ childIn = FALSE /\ childOut = FALSE
  /\ inPipe = 0 /\ outPipe = 0 /\ handed = 0 /\ produced = 0
  /\ elapsed = 0 /\ due = FALSE
  /\ answer = NoAnswer

----------------------------------------------------------------------------
(* The end of a Cgi: sendCgiResponse, _closeConnection of its descriptors  *)
(* and ~Cgi, which closes the pipes and sends SIGKILL to _pid.             *)

NoKill == UNCHANGED process

\* kill(_pid, SIGKILL)
Kill ==
  IF child = "running"
    THEN /\ child' = "zombie" /\ exitedOk' = FALSE
         /\ childIn' = FALSE /\ childOut' = FALSE
    ELSE UNCHANGED process

CloseOutputOnly == pipeIn1' = pipeIn1 /\ pipeOut0' = FALSE /\ ready' = {}

\* closePipe of both pipes; closing takes a descriptor out of epoll.
CloseAll == pipeIn1' = FALSE /\ pipeOut0' = FALSE /\ ready' = {}

\* sendCgiResponse: a page with the script's output, or an error page.
Conclude(code) ==
  /\ answer' = [code |-> code, out |-> IF code = 200 THEN rawOutput ELSE 0]
  /\ CloseAll
  /\ UNCHANGED <<fn, rawOutput>>

----------------------------------------------------------------------------
(* Starting: HTTPAction::run calls startCgi.                               *)

StartFails(code) ==
  /\ pc = "start"
  /\ answer' = [code |-> code, out |-> 0]
  /\ pc' = "loop"
  /\ UNCHANGED <<request, batch, ready, cgi, process, pipes, clock>>

Fork ==
  /\ pc = "start"
  /\ pc' = "forked"
  /\ child' = "running"
  /\ childIn' = TRUE /\ childOut' = TRUE
  /\ pipeIn1' = TRUE /\ pipeOut0' = TRUE
  /\ UNCHANGED <<request, batch, ready, fn, rawOutput, exitedOk, pipes, clock,
                 answer>>

EarlyExitTrusted == IF exitedOk THEN 200 ELSE 500

\* A script that is dead already: however it ended.
EarlyExitCode == 500

\* waitpid(WNOHANG) in startCgi.
CheckAlive ==
  /\ pc = "forked"
  /\ IF child = "zombie"
       THEN /\ child' = "reaped"
            /\ Conclude(EarlyExitCode)
            /\ pc' = "loop"
       ELSE /\ pc' = "setup"
            /\ UNCHANGED <<ready, cgi, child, answer>>
  /\ UNCHANGED <<request, batch, exitedOk, childIn, childOut, pipes, clock>>

\* epoll_ctl(ADD) of the Cgi's descriptors in _addCgi.
Register ==
  ready' = {e \in {"in", "out"} : \/ e = "out" /\ Readable
                                  \/ e = "in" /\ LargeBody /\ ~childIn}

\* _setupParentPipes and, when the calls have returned, _addCgi.
SetupLarge ==
  /\ pc = "setup"
  /\ LargeBody
  /\ fn' = "writeInput"
  /\ Register
  /\ pc' = "loop"
  /\ UNCHANGED <<request, batch, pipeIn1, pipeOut0, rawOutput, process, pipes,
                 clock, answer>>

\* A small body fits in the empty pipe.  Writing it to a script that closed
\* its stdin raises SIGPIPE; writing no bytes does not.
SetupSmall ==
  /\ pc = "setup"
  /\ ~LargeBody
  /\ IF isPost /\ body > 0 /\ ~childIn
       THEN /\ pc' = "down"
            /\ UNCHANGED <<ready, fn, pipeIn1, inPipe, handed>>
       ELSE /\ handed' = IF isPost THEN body ELSE 0
            /\ inPipe' = IF isPost THEN body ELSE 0
            /\ pipeIn1' = FALSE
            /\ fn' = "readOutput"
            /\ Register
            /\ pc' = "loop"
  /\ UNCHANGED <<request, batch, pipeOut0, rawOutput, process, outPipe,
                 produced, clock, answer>>
----------------------------------------------------------------------------
(* processCgi and the functions it dispatches to.  Each returns to the     *)
(* event loop with pc = "batch" unless it blocks or ends the server.       *)

\* What write() puts into the pipe before it has to wait for room.
Room == Least(PipeCap - inPipe, body - handed)

AnyWriteIsAll == TRUE

\* _isWriteDone: nothing of the body is left.
IsWriteDone == handed + Room = body

\* write() to a blocking pipe returns when all is written.
WriteBody ==
  IF ~childIn
    THEN /\ pc' = "down"
         /\ UNCHANGED <<fn, pipeIn1, inPipe, handed>>
    ELSE /\ inPipe' = inPipe + Room
         /\ handed' = handed + Room
         /\ IF IsWriteDone
              THEN pc' = "batch" /\ pipeIn1' = FALSE /\ fn' = "readOutput"
              ELSE pc' = "writeBlocked" /\ UNCHANGED <<fn, pipeIn1>>

\* A script that ended is reaped here, whatever its status, and answered 500.
WriteInput ==
  IF child = "zombie"
    THEN /\ child' = "reaped"
         /\ Conclude(500)
         /\ pc' = "batch"
         /\ UNCHANGED <<exitedOk, childIn, childOut, pipes>>
    ELSE /\ WriteBody
         /\ UNCHANGED <<pipeOut0, rawOutput, process, outPipe, produced, ready,
                        answer>>

AnyExitIsGood == 200

\* WIFEXITED and WEXITSTATUS of the reaped script.
ExitCode == IF child = "zombie" /\ exitedOk THEN 200 ELSE 500

\* _finishCgi after end of file: waitpid blocks until the script has ended.
FinishCgi ==
  IF child = "running"
    THEN /\ pc' = "waitBlocked"
         /\ pipeOut0' = FALSE
         /\ ready' = ready \ {"out"}
         /\ UNCHANGED <<fn, pipeIn1, rawOutput, child, answer>>
    ELSE /\ child' = "reaped"
         /\ Conclude(ExitCode)
         /\ pc' = "batch"

ReadToEndOfFile == childOut

\* A single read() blocks only when there is nothing to read.
ReadBlocks == ~Readable

\* One read() of at most ReadChunk bytes per event.
ReadOutput ==
  /\ IF Readable /\ outPipe = 0
       THEN FinishCgi /\ UNCHANGED outPipe
       ELSE LET n == Least(ReadChunk, outPipe) IN
            /\ rawOutput' = rawOutput + n
            /\ outPipe' = outPipe - n
            /\ pc' = IF ReadBlocks THEN "readBlocked" ELSE "batch"
            /\ UNCHANGED <<fn, pipeIn1, pipeOut0, ready, child, answer>>
  /\ UNCHANGED <<exitedOk, childIn, childOut, inPipe, handed, produced>>

\* processCgi past the limit: _processCgi sends 504 and deletes the Cgi.
TimeOut ==
  /\ Conclude(504)
  /\ Kill
  /\ UNCHANGED pipes

ProcessCgi ==
  IF isOverTimeLimit
    THEN TimeOut /\ pc' = "batch"
    ELSE IF fn = "writeInput" THEN WriteInput ELSE ReadOutput
----------------------------------------------------------------------------
(* The event loop: HTTPServer::start.                                      *)

NeverOverdue == FALSE
OverdueAtOnce == Registered
OverdueIfRunning == Registered /\ isOverTimeLimit /\ child = "running"

\* The Cgis checkCgiTimeouts collects.
Overdue == Registered /\ isOverTimeLimit

\* _intervalTimer.update().  checkCgiTimeouts collects the handler once for
\* each of its descriptors in _cgis; the second _processCgi of the same handler
\* finds its Cgi gone and calls processCgi on a null pointer.
TimerCheck ==
  /\ pc = "loop"
  /\ due' = FALSE
  /\ IF due /\ Overdue
       THEN /\ TimeOut
            /\ pc' = IF LargeBody THEN "down" ELSE "wait"
       ELSE /\ pc' = "wait"
            /\ UNCHANGED <<ready, cgi, process, pipes, answer>>
  /\ UNCHANGED <<request, batch, elapsed>>

\* epoll_wait delivers an edge only if the descriptor still is as reported;
\* a write end has only the event that its reader is gone.
EpollWait ==
  /\ pc = "wait"
  /\ batch' = {e \in ready : e = "out" => Readable}
  /\ ready' = {}
  /\ pc' = IF batch' = {} THEN "loop" ELSE "batch"
  /\ UNCHANGED <<request, cgi, process, pipes, clock, answer>>

FoundWithInput == Pending /\ outPipe > 0

\* _cgis.find(fd)
FoundInCgis == Pending

\* An event for a descriptor that left _cgis with an earlier event of the batch
\* finds neither a Cgi nor a connection.
HandleEvent(e) ==
  /\ pc = "batch"
  /\ e \in batch
  /\ batch' = batch \ {e}
  /\ IF FoundInCgis
       THEN ProcessCgi
       ELSE UNCHANGED <<pc, ready, cgi, process, pipes, answer>>
  /\ UNCHANGED <<request, clock>>

BatchDone ==
  /\ pc = "batch"
  /\ batch = {}
  /\ pc' = "loop"
  /\ UNCHANGED <<request, batch, ready, cgi, process, pipes, clock, answer>>

\* A blocked write() goes on when there is room or the reader is gone.
ResumeWrite ==
  /\ pc = "writeBlocked"
  /\ inPipe < PipeCap \/ ~childIn
  /\ WriteBody
  /\ UNCHANGED <<request, batch, ready, pipeOut0, rawOutput, process, outPipe,
                 produced, clock, answer>>

\* The blocked waitpid() returns when the script has ended.
ResumeFinish ==
  /\ pc = "waitBlocked"
  /\ child = "zombie"
  /\ FinishCgi
  /\ UNCHANGED <<request, batch, exitedOk, childIn, childOut, pipes, clock>>

Server ==
  \/ \E code \in Refusals : StartFails(code)
  \/ Fork \/ CheckAlive \/ SetupLarge \/ SetupSmall
  \/ TimerCheck \/ EpollWait \/ (\E e \in {"in", "out"} : HandleEvent(e))
  \/ BatchDone \/ ResumeWrite \/ ResumeFinish
----------------------------------------------------------------------------
(* The script: any program.                                                *)

Wake(E) == ready' = IF Registered THEN ready \cup E ELSE ready

ReaderGone == IF LargeBody /\ pipeIn1 /\ childIn THEN {"in"} ELSE {}
WriterGone == IF pipeOut0 /\ childOut THEN {"out"} ELSE {}

Script ==
  /\ child = "running"
  /\ UNCHANGED <<request, pc, batch, cgi, clock, answer>>

ScriptReads ==
  /\ Script
  /\ childIn
  /\ \E left \in 0..PipeCap : left < inPipe /\ inPipe' = left
  /\ UNCHANGED <<ready, process, outPipe, handed, produced>>

ScriptWrites ==
  /\ Script
  /\ childOut /\ pipeOut0
  /\ \E n \in 1..PipeCap :
       /\ n <= PipeCap - outPipe
       /\ produced + n <= MaxOut
       /\ outPipe' = outPipe + n
       /\ produced' = produced + n
  /\ Wake({"out"})
  /\ UNCHANGED <<process, inPipe, handed>>

ScriptClosesStdin ==
  /\ Script
  /\ childIn
  /\ childIn' = FALSE
  /\ Wake(ReaderGone)
  /\ UNCHANGED <<child, exitedOk, childOut, pipes>>

ScriptClosesStdout ==
  /\ Script
  /\ childOut
  /\ childOut' = FALSE
  /\ Wake(WriterGone)
  /\ UNCHANGED <<child, exitedOk, childIn, pipes>>

ScriptExits ==
  /\ Script
  /\ child' = "zombie"
  /\ exitedOk' \in BOOLEAN
  /\ childIn' = FALSE /\ childOut' = FALSE
  /\ Wake(ReaderGone \cup WriterGone)
  /\ UNCHANGED pipes

ScriptStep ==
  \/ ScriptReads \/ ScriptWrites
  \/ ScriptClosesStdin \/ ScriptClosesStdout \/ ScriptExits

Tick ==
  /\ elapsed' = Least(elapsed + 1, MaxTime)
  /\ due' = TRUE
  /\ UNCHANGED <<request, pc, batch, ready, cgi, process, pipes, answer>>

Next == Server \/ ScriptStep \/ Tick

Spec == Init /\ [][Next]_vars

\* The server thread runs whenever it can, and time passes.  Nothing is asked of
\* the script.
LiveSpec == Spec /\ WF_vars(Server) /\ WF_vars(Tick)
----------------------------------------------------------------------------
TypeOK ==
  /\ isPost \in BOOLEAN /\ body \in Nat
  /\ pc \in {"start", "forked", "setup", "loop", "wait", "batch",
             "writeBlocked", "readBlocked", "waitBlocked", "down"}
  /\ batch \in SUBSET {"in", "out"} /\ ready \in SUBSET {"in", "out"}
  /\ fn \in {"none", "writeInput", "readOutput"}
  /\ pipeIn1 \in BOOLEAN /\ pipeOut0 \in BOOLEAN
  /\ rawOutput \in Nat
  /\ child \in {"none", "running", "zombie", "reaped"}
  /\ exitedOk \in BOOLEAN /\ childIn \in BOOLEAN /\ childOut \in BOOLEAN
  /\ inPipe \in 0..PipeCap /\ outPipe \in 0..PipeCap
  /\ handed \in Nat /\ produced \in Nat
  /\ elapsed \in 0..MaxTime /\ due \in BOOLEAN
  /\ answer \in [code : Nat, out : Nat]

\* The body the script is entitled to.
ToGive == IF isPost THEN body ELSE 0

\* A good answer is the answer of a script that was given the whole body, ended
\* with status 0 and was heard to the end: nothing it wrote is left in the pipe
\* (_readOutput, _finishCgi, sendCgiResponse).
GoodAnswerIsWhole ==
  answer.code = 200 =>
    /\ child = "reaped" /\ exitedOk
    /\ handed = ToGive
    /\ answer.out = produced
    /\ outPipe = 0

\* The server listens to a script only after it closed the script's stdin, or
\* a script that reads to end of file and the server would wait for each other
\* (_setupParentPipes, _isWriteDone).
ListensAfterClosingStdin ==
  fn = "readOutput" => ~pipeIn1 /\ handed = ToGive

\* read() on the blocking pipe always finds bytes or end of file: the loop
\* never reads twice for one edge, and epoll does not deliver an edge whose
\* data have been read (_readOutput, processCgi).
NeverBlocksInRead == pc # "readBlocked"

\* Once a client has its answer no process runs on its behalf, on any of the
\* ways an answer comes about (_finishCgi, _writeInput, ~Cgi).
NoScriptOutlivesItsAnswer == ~Pending => child # "running"

\* For a request whose body was written at once, the first edge of the output
\* is never lost between fork and epoll_ctl: as long as nothing was read,
\* readable output has an event on its way (_addCgi, _handleConnectionEvent).
FirstEdgeIsKept ==
  /\ Registered /\ ~LargeBody /\ rawOutput = 0 /\ Readable
  /\ pc \in {"loop", "wait", "batch"}
  => "out" \in ready \cup batch

\* A 504 is sent only past the limit, and an answer is never taken back or sent
\* twice (processCgi, checkCgiTimeouts, _processCgi).
AnswersOnce ==
  [][answer' # answer =>
       /\ answer = NoAnswer
       /\ answer'.code = 504 => isOverTimeLimit]_vars

\* A request a script was started for is answered, with whatever code, unless
\* the server thread is stuck in a system call on the pipes or was ended by a
\* signal: the interval timer finds every overdue script (checkCgiTimeouts).
EventuallyAnswered ==
  Registered ~> (~Pending \/ pc \in {"writeBlocked", "waitBlocked", "down"})

\* If the script ends, the thread is not stuck for ever: only the end of the
\* server itself leaves the client without an answer.
EndedScriptIsAnswered ==
  (Registered /\ child = "zombie") ~> (~Pending \/ pc = "down")

\* Cgi implements the contract of CgiExchange: every step of the pipes, the
\* loop and the script is a step of the exchange or leaves it unchanged.
Exchange == INSTANCE CgiExchange WITH
  toGive <- ToGive,
  script <- IF child \in {"none", "running"} THEN child
            ELSE IF exitedOk THEN "succeeded" ELSE "failed",
  given  <- handed,
  output <- produced,
  late   <- isOverTimeLimit

ImplementsExchange == Exchange!Spec

\* README.md:192, on running a script: "server should be non blocking".
\* The code writes to a blocking pipe and waits for the script's end.
ServerNeverWaitsForScript == pc \notin {"writeBlocked", "waitBlocked"}

\* README.md:193: the pipe's read end is registered with epoll "en dan read
\* hetzelfde zoals inkomende requests" (and then read like incoming requests,
\* which are read until nothing is left).  Whenever the loop is about to wait,
\* output that can be read must have an event on its way; one read() per edge
\* leaves some behind.
ReadableOutputIsAnnounced ==
  pc = "wait" /\ Registered /\ fn = "readOutput" /\ pipeOut0 /\ Readable
    => "out" \in ready
----------------------------------------------------------------------------
(* The invariant the proofs use, in named parts.                           *)

\* Where the thread is tells how far the Cgi has come.
PhaseInv ==
  /\ pc = "start" => child = "none" /\ ~pipeIn1 /\ ~pipeOut0
  /\ pc \in {"start", "forked", "setup"} =>
       /\ fn = "none" /\ Pending /\ handed = 0 /\ inPipe = 0 /\ rawOutput = 0
       /\ batch = {} /\ ready = {}
  /\ pc \in {"forked", "setup"} =>
       /\ child \in {"running", "zombie"} /\ pipeIn1 /\ pipeOut0
  /\ pc \in {"loop", "wait", "batch"} /\ Pending => fn # "none"
  /\ fn # "none" /\ Pending => child \in {"running", "zombie"}
  /\ child = "none" => fn = "none" /\ produced = 0 /\ handed = 0 /\ ~exitedOk
  /\ batch # {} => pc \in {"batch", "writeBlocked", "waitBlocked", "down"}

\* A process that runs holds no end a dead one could; a dead one holds none.
ChildInv ==
  /\ child # "running" => ~childIn /\ ~childOut
  /\ child = "running" => ~exitedOk

\* Bytes are neither lost nor made.
BytesInv ==
  /\ produced = rawOutput + outPipe
  /\ inPipe <= handed
  /\ handed <= ToGive
  /\ fn = "writeInput" => handed < body
  /\ fn = "writeInput" => LargeBody

\* Descriptors are closed exactly when the phase is over.
FdInv ==
  /\ fn = "writeInput" /\ Pending => pipeIn1 /\ pipeOut0
  /\ pc = "writeBlocked" => fn = "writeInput" /\ Pending
  /\ pc = "waitBlocked" => /\ fn = "readOutput" /\ Pending /\ ~pipeOut0
                           /\ outPipe = 0 /\ ~childOut
  /\ fn = "readOutput" /\ Pending /\ ~pipeOut0 => pc = "waitBlocked"
  /\ ~Pending => ~pipeIn1 /\ ~pipeOut0

\* A delivered edge still finds something to read; the write end's edge means
\* the body can no longer be handed over.
EdgeInv ==
  Pending =>
    /\ "out" \in batch => Readable
    /\ "in" \in ready \cup batch => fn = "writeInput" /\ ~childIn

IInv ==
  /\ TypeOK /\ PhaseInv /\ ChildInv /\ BytesInv /\ FdInv /\ EdgeInv
  /\ ListensAfterClosingStdin /\ NeverBlocksInRead
  /\ GoodAnswerIsWhole /\ NoScriptOutlivesItsAnswer
=============================================================================
