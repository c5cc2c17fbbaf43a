-------------------------------- MODULE Program --------------------------------
(***************************************************************************)
(* The life of the bridgekeeper process: the Ollama server it may start    *)
(* and has to stop, the read loop, the approval prompts inside a turn, the *)
(* console sessions both read from, and the signal goroutine.  What a turn *)
(* does between its prompts is in OllamaChat and GeminiAgent.              *)
(*                                                                         *)
(* The read loop reads standard input, a terminal or a pipe; the approver  *)
(* reads /dev/tty, through a session of its own.  A session keeps what it  *)
(* has read ahead of the line it returns.  A read ends at any byte, so     *)
(* what is typed comes in pieces: a "part" of a line that goes on, or a    *)
(* piece that ends one.  Such a piece has a number and what its reader     *)
(* makes of it alone: "exit" ends the loop, "blank" is no prompt, "yes"    *)
(* approves; "interrupt" is Ctrl-C, or Ctrl-D where no line has begun, and *)
(* ends ReadLine without a line.                                           *)
(***************************************************************************)
EXTENDS Naturals, Sequences, SequencesExt

CONSTANTS Setups,     \* how the program was started
          MaxPieces   \* bound: pieces written to the terminal and the pipe

Sessions == {"loop", "approver"}
Devices  == {"tty", "pipe"}
Lines    == {"yes", "exit", "blank"}
Keys     == Lines \cup {"interrupt", "part"}

Setup == [mode : {"ollama", "gemini"}, stdin : Devices, approver : {"terminal", "auto"}]

ASSUME ProgramAssumption == MaxPieces \in Nat /\ Setups \subseteq Setup

VARIABLES
  setup,
  at,          \* where the main goroutine is
  raw,         \* the terminal is in raw mode
  arrived,     \* device -> pieces not read yet
  closed,      \* the writer of the pipe has closed it
  ahead,       \* session -> pieces read but not returned yet
  signal,      \* sigCh and its goroutine: "none", "pending", "cancelled"
  foreign,     \* somebody else's Ollama server: "absent", "starting", "up"
  own,         \* the process the program started, if it has
  ollamaProc   \* the variable that should hold it

VARIABLES      \* history
  written,     \* device -> how many pieces were written to it
  taken,       \* session -> the numbers of the pieces of the lines it returned
  flushed,     \* numbers of the pieces the terminal's driver threw away
  ending       \* why the program ended

console == <<raw, arrived, closed, ahead, written, taken, flushed>>
server == <<foreign, own, ollamaProc>>
vars == <<setup, at, signal, ending, console, server>>

Device(s) == IF s = "loop" THEN setup.stdin ELSE "tty"

Ended(why) == at' = "exited" /\ ending' = why

Alive == own \in {"starting", "up"}
Serving == foreign = "up" \/ own = "up"

-----------------------------------------------------------------------------
(* Initialize: a server that answers is used, whoever started it.          *)
UseServer ==
  /\ at \in {"initialize", "polling"} /\ Serving
  /\ at' = "loop"
  /\ UNCHANGED <<setup, signal, ending, console, server>>

(* One that does not answer, or not in time, is taken for none.            *)
StartServer ==
  /\ at = "initialize"
  /\ own' = "starting" /\ ollamaProc' = TRUE
  /\ at' = "polling"
  /\ UNCHANGED <<setup, signal, ending, console, foreign>>

StartFails ==
  /\ at = "initialize"
  /\ Ended("fatal")
  /\ UNCHANGED <<setup, signal, console, server>>

(* Kill, of a process that may have ended by itself.                       *)
Kill == own' = IF Alive THEN "dead" ELSE own

(* Mutant: the server is left to come up later.                            *)
LeaveServer ==
  /\ at = "polling"
  /\ ollamaProc' = FALSE
  /\ Ended("fatal")
  /\ UNCHANGED <<setup, signal, console, foreign, own>>

(* Fifteen seconds without an answer: killed, not waited for, and the      *)
(* error is fatal in main.                                                 *)
GiveUp ==
  /\ at = "polling"
  /\ Kill /\ ollamaProc' = FALSE
  /\ Ended("fatal")
  /\ UNCHANGED <<setup, signal, console, foreign>>

(* Shutdown, deferred by main in Ollama mode.                              *)
NothingToStop ==
  /\ at = "stopping" /\ ~ollamaProc
  /\ Ended("normal")
  /\ UNCHANGED <<setup, signal, console, server>>

StopServer ==
  /\ at = "stopping" /\ ollamaProc
  /\ Kill
  /\ at' = "waiting"
  /\ UNCHANGED <<setup, signal, ending, console, foreign, ollamaProc>>

KillFails ==
  /\ at = "stopping" /\ ollamaProc
  /\ Ended("killFailed")
  /\ UNCHANGED <<setup, signal, console, server>>

WaitServer ==
  /\ at = "waiting"
  /\ own' = "reaped" /\ ollamaProc' = FALSE
  /\ Ended("normal")
  /\ UNCHANGED <<setup, signal, console, foreign>>

(* Somebody else's server comes and goes; after Initialize nothing depends *)
(* on it any more.  The program's own ends when it fails or when the port  *)
(* is taken.                                                               *)
ForeignServer ==
  /\ at \in {"initialize", "polling"}
  /\ foreign' = CASE foreign = "absent" -> "starting"
                  [] foreign = "starting" /\ own # "up" -> "up"
                  [] OTHER -> "absent"
  /\ UNCHANGED <<setup, at, signal, ending, console, own, ollamaProc>>

OwnServer ==
  /\ at # "exited" /\ Alive
  /\ own' \in {"dead"} \cup IF foreign = "up" THEN {} ELSE {"up"}
  /\ UNCHANGED <<setup, at, signal, ending, console, foreign, ollamaProc>>

-----------------------------------------------------------------------------
(* Standard library and kernel.  In raw mode Ctrl-C is a character like    *)
(* any other; otherwise the kernel drops what was typed and signals the    *)
(* program and the server it started, which are one process group: the     *)
(* server may end then, as at any time.                                    *)
Notify == signal' = IF signal = "none" THEN "pending" ELSE signal

WritePiece(d, key) ==
  /\ at # "exited" /\ written["tty"] + written["pipe"] < MaxPieces
  /\ d = "tty" => key # "interrupt" \/ raw
  /\ d = "pipe" => setup.stdin = d /\ ~closed /\ key # "interrupt"
  /\ written' = [written EXCEPT ![d] = @ + 1]
  /\ arrived' = [arrived EXCEPT ![d] = Append(@, [n |-> written'[d], key |-> key])]
  /\ UNCHANGED <<setup, at, signal, ending, raw, closed, ahead, taken, flushed, server>>

ClosePipe ==
  /\ at # "exited" /\ setup.stdin = "pipe" /\ ~closed
  /\ closed' = TRUE
  /\ UNCHANGED <<setup, at, signal, ending, raw, arrived, ahead, written, taken, flushed,
                 server>>

CookedInterrupt ==
  /\ at # "exited" /\ ~raw
  /\ Notify
  /\ arrived' = [arrived EXCEPT !.tty = <<>>]
  /\ flushed' = flushed \cup {p.n : p \in ToSet(arrived.tty)}
  /\ UNCHANGED <<setup, at, ending, raw, closed, ahead, written, taken, server>>

Terminate ==
  /\ at # "exited"
  /\ Notify
  /\ UNCHANGED <<setup, at, ending, console, server>>

(* The signal goroutine takes one signal; later ones change nothing.       *)
SignalGoroutine ==
  /\ signal = "pending" /\ at # "exited"
  /\ signal' = "cancelled"
  /\ UNCHANGED <<setup, at, ending, console, server>>

-----------------------------------------------------------------------------
(* ReadLine of a session begins with MakeRaw and ends, deferred, with      *)
(* Restore; a session on a pipe does neither.                              *)
BeginReadLine(s) ==
  /\ raw' = (Device(s) = "tty")
  /\ UNCHANGED <<arrived, closed, ahead, written, taken, flushed>>

(* Mutant: only a line that was read restores the terminal.                *)
RestoreAfterLine == raw' = raw

Restore == raw' = FALSE

Reading(s) == at = IF s = "loop" THEN "reading" ELSE "asking"

(* What is read ahead holds a whole line.                                  *)
HasLine(s) == \E i \in DOMAIN ahead[s] : ahead[s][i].key # "part"

NothingArrived(s) == arrived[Device(s)] = <<>>
AtEnd(s) == Device(s) = "pipe" /\ closed /\ NothingArrived(s)

(* Mutant: what was read ahead is dropped with the buffer.                 *)
ReadFirst(s) ==
  /\ Reading(s) /\ ~HasLine(s) /\ ~NothingArrived(s)
  /\ ahead' = [ahead EXCEPT ![s] = <<Head(arrived[Device(s)])>>]
  /\ arrived' = [arrived EXCEPT ![Device(s)] = <<>>]
  /\ UNCHANGED <<setup, at, signal, ending, raw, closed, written, taken, flushed, server>>

(* One read takes whatever has arrived, or the part that fits, and is      *)
(* repeated until there is a line: the line may begin with what a former   *)
(* read took, and another session may have taken its beginning.            *)
ReadAhead(s) ==
  /\ Reading(s) /\ ~HasLine(s)
  /\ \E k \in 1..Len(arrived[Device(s)]) :
       /\ ahead' = [ahead EXCEPT ![s] = @ \o SubSeq(arrived[Device(s)], 1, k)]
       /\ arrived' = [arrived EXCEPT ![Device(s)] = SubSeq(@, k + 1, Len(@))]
  /\ UNCHANGED <<setup, at, signal, ending, raw, closed, written, taken, flushed, server>>

Numbers(pieces) == [i \in DOMAIN pieces |-> pieces[i].n]

(* The first k pieces read ahead are a line: none but the last ends one,   *)
(* and at the end of a pipe the last need not either.                      *)
IsLine(s, k) ==
  /\ \A i \in 1..(k - 1) : ahead[s][i].key = "part"
  /\ ahead[s][k].key # "part" \/ (k = Len(ahead[s]) /\ AtEnd(s))

(* What the pieces of a line join to is left open; an interrupt drops what *)
(* was typed before it.                                                    *)
ReadsAs(line) ==
  IF Last(line).key = "interrupt" \/ (Len(line) = 1 /\ Last(line).key # "part")
    THEN {Last(line).key}
    ELSE Lines

TakeLine(s, key) ==
  /\ Reading(s)
  /\ \E k \in 1..Len(ahead[s]) :
       /\ IsLine(s, k) /\ key \in ReadsAs(SubSeq(ahead[s], 1, k))
       /\ ahead' = [ahead EXCEPT ![s] = SubSeq(@, k + 1, Len(@))]
       /\ taken' = [taken EXCEPT ![s] = @ \o Numbers(SubSeq(ahead[s], 1, k))]
  /\ Restore
  /\ UNCHANGED <<arrived, closed, written, flushed>>

EndOfInput(s) ==
  /\ Reading(s) /\ ahead[s] = <<>> /\ AtEnd(s)
  /\ Restore
  /\ UNCHANGED <<arrived, closed, ahead, written, taken, flushed>>

(* The terminal is gone; a line that has begun stays where it is.          *)
ReadFails(s) ==
  /\ Reading(s) /\ ~HasLine(s) /\ NothingArrived(s)
  /\ Restore
  /\ UNCHANGED <<arrived, closed, ahead, written, taken, flushed>>

-----------------------------------------------------------------------------
(* main returns from runOllamaModel to the deferred shutdown, and from     *)
(* runGeminiModel to the end.                                              *)
LeaveLoop ==
  IF setup.mode = "ollama" THEN at' = "stopping" /\ UNCHANGED ending ELSE Ended("normal")

BeginLoop ==
  /\ at = "loop"
  /\ BeginReadLine("loop")
  /\ at' = "reading"
  /\ UNCHANGED <<setup, signal, ending, server>>

(* log.Fatal: an error of ReadLine skips the deferred shutdown.            *)
LoopFails ==
  /\ \/ at = "loop" /\ UNCHANGED console   \* MakeRaw or the prompt failed
     \/ ReadFails("loop")
  /\ Ended("fatal")
  /\ UNCHANGED <<setup, signal, server>>

TakeInput(key) ==
  /\ TakeLine("loop", key)
  /\ CASE key \in {"interrupt", "exit"} -> LeaveLoop
       [] key = "blank" -> at' = "loop" /\ UNCHANGED ending
       [] OTHER -> at' = "turn" /\ UNCHANGED ending
  /\ UNCHANGED <<setup, signal, server>>

InputEnds ==
  /\ EndOfInput("loop")
  /\ LeaveLoop
  /\ UNCHANGED <<setup, signal, server>>

(* A turn ends with a text or with an error, which is logged.              *)
EndTurn ==
  /\ at = "turn"
  /\ at' = "loop"
  /\ UNCHANGED <<setup, signal, ending, console, server>>

(* A tool call of the turn needs an approval.  The context of the Gemini   *)
(* agent is never cancelled.                                               *)
Ask ==
  /\ at = "turn" /\ setup.approver = "terminal"
  /\ setup.mode = "gemini" \/ signal # "cancelled"
  /\ BeginReadLine("approver")
  /\ at' = "asking"
  /\ UNCHANGED <<setup, signal, ending, server>>

(* Mutant: the loop takes an interrupted prompt for an error to log.       *)
LogAnswer(key) ==
  /\ TakeLine("approver", key)
  /\ at' = IF key = "interrupt" THEN "loop" ELSE "turn"
  /\ UNCHANGED <<setup, signal, ending, server>>

(* Approved or denied, the turn goes on; an interrupted prompt ends the    *)
(* turn and the loop.                                                      *)
TakeAnswer(key) ==
  /\ TakeLine("approver", key)
  /\ IF key = "interrupt" THEN LeaveLoop ELSE at' = "turn" /\ UNCHANGED ending
  /\ UNCHANGED <<setup, signal, server>>

AnswerFails ==
  /\ ReadFails("approver")
  /\ at' = "loop"
  /\ UNCHANGED <<setup, signal, ending, server>>

Exited == at = "exited" /\ UNCHANGED vars

-----------------------------------------------------------------------------
Init ==
  /\ setup \in Setups
  /\ at = IF setup.mode = "ollama" THEN "initialize" ELSE "loop"
  /\ raw = FALSE /\ closed = FALSE
  /\ arrived = [d \in Devices |-> <<>>] /\ ahead = [s \in Sessions |-> <<>>]
  /\ signal = "none"
  /\ foreign \in {"absent", "up"} /\ own = "none" /\ ollamaProc = FALSE
  /\ written = [d \in Devices |-> 0] /\ taken = [s \in Sessions |-> <<>>]
  /\ flushed = {} /\ ending = "none"

Main ==
  \/ UseServer \/ StartServer \/ StartFails \/ GiveUp
  \/ BeginLoop \/ InputEnds
  \/ \E key \in Keys : TakeInput(key) \/ TakeAnswer(key)
  \/ \E s \in Sessions : ReadAhead(s)
  \/ NothingToStop \/ StopServer \/ KillFails \/ WaitServer

Environment ==
  \/ ForeignServer \/ OwnServer
  \/ \E d \in Devices, key \in Keys : WritePiece(d, key)
  \/ ClosePipe \/ CookedInterrupt \/ Terminate
  \/ LoopFails \/ AnswerFails
  \/ EndTurn \/ Ask     \* what the model and the tools do decides

Next == Main \/ SignalGoroutine \/ Environment \/ Exited

Spec == Init /\ [][Next]_vars

(* The main goroutine runs unless it waits for a line or in a turn.        *)
FairSpec == Spec /\ WF_vars(Main)

-----------------------------------------------------------------------------
From(d) == {s \in Sessions : Device(s) = d}

(* The pieces of a session in the order in which it gives them out.        *)
Given(s) == taken[s] \o Numbers(ahead[s])

(* No piece of what was typed is lost between two prompts, or read by two  *)
(* readers, or twice; each reader gets its pieces in the order in which    *)
(* they were typed (console.Session keeps its terminal and reader,         *)
(* console.go:24-60, and the approver has a session of its own,            *)
(* approval.go:27-56).  The pieces of one line may go to two sessions that *)
(* share the terminal: nothing in the code keeps such a line whole.        *)
EveryPieceHasOneReader ==
  /\ \A s \in Sessions : \A i, j \in DOMAIN Given(s) : i < j => Given(s)[i] < Given(s)[j]
  /\ \A s, t \in Sessions :
       s # t /\ Device(s) = Device(t) => ToSet(Given(s)) \cap ToSet(Given(t)) = {}
  /\ \A d \in Devices :
       1..written[d] = ToSet(Numbers(arrived[d])) \cup (UNION {ToSet(Given(s)) : s \in From(d)})
                         \cup (IF d = "tty" THEN flushed ELSE {})

(* The terminal is raw exactly while ReadLine reads from it: an approval   *)
(* inside a turn, an interrupt and a fatal error leave it as it was        *)
(* (console.go:61-79).                                                     *)
RawWhileReading ==
  raw <=> at = "asking" \/ (at = "reading" /\ setup.stdin = "tty")

(* When the program has ended the server it started does not run on,       *)
(* unless the kill failed, which the user is told, or reading a line did,  *)
(* after which log.Fatal skips the deferred shutdown (main.go:29-34, 148,  *)
(* 382-389, runtime.go:260-303).  A server it did not start is not its to  *)
(* stop.                                                                   *)
NoServerLeftRunning ==
  /\ at = "exited" /\ Alive =>
       \/ ending = "killFailed"
       \/ ending = "fatal" /\ ollamaProc
  /\ ollamaProc => own # "none"
  /\ ending = "normal" => own \in {"none", "reaped"}

(* An interrupt that a waiting prompt reads before a line ends the         *)
(* program, the prompt of the loop and, through the errors of Execute and  *)
(* of the agent, that of an approval, also when a line has begun           *)
(* (console.go:75-77 and 85-87, approval.go:87-90, main.go:77-84, 121-127, *)
(* 142-149, 180-186).                                                      *)
Pending(s) == ahead[s] \o arrived[Device(s)]
InterruptNext(s) ==
  \E k \in DOMAIN Pending(s) :
    /\ Pending(s)[k].key = "interrupt"
    /\ \A i \in 1..(k - 1) : Pending(s)[i].key = "part"
InterruptEndsProgram ==
  \A s \in Sessions : Reading(s) /\ InterruptNext(s) ~> at = "exited"
================================================================================
