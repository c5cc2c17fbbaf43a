----------------------------- MODULE Subprocess ------------------------------
(***************************************************************************)
(* tools.Registry.runSubprocess: a command with a deadline and a limit on  *)
(* its output.  Standard output and error are one pipe, which os/exec (an  *)
(* external library) drains into the limitedBuffer in a goroutine of its   *)
(* own; what the command starts inherits the pipe.  Bytes are counted.     *)
(***************************************************************************)
EXTENDS Naturals

CONSTANTS Command,      \* the process that is started
          Descendants,  \* processes that it and they may start
          Limits,       \* values of spec.maxOutput, 0 for none
          Timeouts,     \* values of spec.timeout, 0 for none
          Capacity,     \* of the pipe
          MaxWritten    \* bound: bytes that all of them write

ASSUME SubprocessAssumption ==
  /\ Command \notin Descendants
  /\ Limits \subseteq Nat /\ Timeouts \subseteq Nat
  /\ Capacity \in Nat \ {0} /\ MaxWritten \in Nat

VARIABLES
  maxOutput, timeout,  \* of the spec
  ctx,        \* "live", or what ended the context: "deadline" or "canceled"
  command,    \* where the command is
  status,     \* how it ended: "ok", "error", or "killed" for the context
  holders,    \* processes that have the pipe open
  unborn,     \* descendants not yet started
  pipe,       \* bytes in the pipe
  copier,     \* the goroutine that drains it: "none", "copying" or "done"
  kept, exceeded,  \* limitedBuffer
  result      \* what runSubprocess returned

VARIABLE written  \* history: bytes written to the pipe

vars == <<maxOutput, timeout, ctx, command, status, holders, unborn, pipe,
          copier, kept, exceeded, result, written>>

Nothing == [kind |-> "none", bytes |-> 0]
Least(a, b) == IF a < b THEN a ELSE b

Init ==
  /\ maxOutput \in Limits /\ timeout \in Timeouts
  /\ ctx = "live" /\ command = "new" /\ status = "none"
  /\ holders = {} /\ unborn = Descendants
  /\ pipe = 0 /\ copier = "none"
  /\ kept = 0 /\ exceeded = FALSE
  /\ result = Nothing /\ written = 0

-----------------------------------------------------------------------------
(* cmd.Start.                                                              *)
Start ==
  /\ command = "new" /\ ctx = "live"
  /\ command' = "running"
  /\ holders' = {Command} /\ copier' = "copying"
  /\ UNCHANGED <<maxOutput, timeout, ctx, status, unborn, pipe, kept, exceeded,
                 result, written>>

(* The context has already ended, or there is no such command.             *)
StartFails ==
  /\ command = "new"
  /\ command' = "unstarted" /\ status' = "error"
  /\ UNCHANGED <<maxOutput, timeout, ctx, holders, unborn, pipe, copier, kept,
                 exceeded, result, written>>

(* The context: its timer, or the caller's signal.                         *)
Deadline ==
  /\ timeout > 0 /\ ctx = "live" /\ ctx' = "deadline"
  /\ UNCHANGED <<maxOutput, timeout, command, status, holders, unborn, pipe,
                 copier, kept, exceeded, result, written>>

Cancel ==
  /\ ctx = "live" /\ ctx' = "canceled"
  /\ UNCHANGED <<maxOutput, timeout, command, status, holders, unborn, pipe,
                 copier, kept, exceeded, result, written>>

-----------------------------------------------------------------------------
(* The processes.                                                          *)
Emit ==
  /\ holders # {}
  /\ pipe < Capacity /\ written < MaxWritten
  /\ pipe' = pipe + 1 /\ written' = written + 1
  /\ UNCHANGED <<maxOutput, timeout, ctx, command, status, holders, unborn,
                 copier, kept, exceeded, result>>

Fork ==
  /\ holders # {}
  /\ \E d \in unborn : holders' = holders \cup {d} /\ unborn' = unborn \ {d}
  /\ UNCHANGED <<maxOutput, timeout, ctx, command, status, pipe, copier, kept,
                 exceeded, result, written>>

Exit ==
  /\ command = "running"
  /\ command' = "exited" /\ status' \in {"ok", "error"}
  /\ holders' = holders \ {Command}
  /\ UNCHANGED <<maxOutput, timeout, ctx, unborn, pipe, copier, kept, exceeded,
                 result, written>>

(* A descendant exits, or closes the pipe.                                 *)
Close ==
  /\ \E d \in holders \cap Descendants : holders' = holders \ {d}
  /\ UNCHANGED <<maxOutput, timeout, ctx, command, status, unborn, pipe, copier,
                 kept, exceeded, result, written>>

-----------------------------------------------------------------------------
(* os/exec: the goroutine that watches the context kills the command, and  *)
(* nothing that the command has started.                                   *)
Watch ==
  /\ ctx # "live" /\ command \in {"running", "exited"} /\ status # "killed"
  /\ command' = "exited" /\ status' = "killed"
  /\ holders' = holders \ {Command}
  /\ UNCHANGED <<maxOutput, timeout, ctx, unborn, pipe, copier, kept, exceeded, result,
                 written>>

(* Process.Wait                                                            *)
Reap ==
  /\ command = "exited"
  /\ command' = "reaped"
  /\ UNCHANGED <<maxOutput, timeout, ctx, status, holders, unborn, pipe, copier,
                 kept, exceeded, result, written>>

(* Mutant: what does not fit is dropped without a note.                    *)
DropQuietly(n) ==
  /\ kept' = IF maxOutput = 0 THEN kept + n ELSE Least(kept + n, maxOutput)
  /\ UNCHANGED exceeded

(* limitedBuffer.Write takes what fits and drops the rest.                 *)
Write(n) ==
  IF maxOutput = 0 \/ kept + n <= maxOutput
  THEN kept' = kept + n /\ UNCHANGED exceeded
  ELSE kept' = maxOutput /\ exceeded' = TRUE

(* Mutant: once the buffer is full, it waits for room.                     *)
CopyWaits ==
  /\ copier = "copying" /\ pipe > 0
  /\ IF exceeded THEN UNCHANGED vars
     ELSE /\ \E n \in 1..pipe : Write(n) /\ pipe' = pipe - n
          /\ UNCHANGED <<maxOutput, timeout, ctx, command, status, holders, unborn,
                         copier, result, written>>

(* io.Copy from the pipe.                                                  *)
Copy ==
  /\ copier = "copying"
  /\ \E n \in 1..pipe : Write(n) /\ pipe' = pipe - n
  /\ UNCHANGED <<maxOutput, timeout, ctx, command, status, holders, unborn,
                 copier, result, written>>

(* Mutant: the copying ends with the command.                              *)
CopyStops ==
  /\ copier = "copying" /\ pipe = 0 /\ command = "reaped"
  /\ copier' = "done"
  /\ UNCHANGED <<maxOutput, timeout, ctx, command, status, holders, unborn, pipe,
                 kept, exceeded, result, written>>

(* End of file: nobody has the pipe open any more.                         *)
CopyEnds ==
  /\ copier = "copying" /\ pipe = 0 /\ holders = {}
  /\ copier' = "done"
  /\ UNCHANGED <<maxOutput, timeout, ctx, command, status, holders, unborn, pipe,
                 kept, exceeded, result, written>>

-----------------------------------------------------------------------------
(* The error of cmd.Run: that of the command or that of the context.       *)
RunError == status # "ok"

(* Mutant: only the context is asked.                                      *)
OutcomeOfContext ==
  CASE ctx = "deadline" -> [kind |-> "late", bytes |-> 0]
    [] exceeded         -> [kind |-> "exceeded", bytes |-> 0]
    [] status = "killed" -> [kind |-> "failed", bytes |-> kept]
    [] OTHER            -> [kind |-> "output", bytes |-> kept]

(* The switch after cmd.Run: the deadline is told first.                   *)
Outcome ==
  CASE ctx = "deadline" -> [kind |-> "late", bytes |-> 0]
    [] exceeded /\ ctx # "deadline" -> [kind |-> "exceeded", bytes |-> 0]
    [] RunError /\ ~exceeded /\ ctx # "deadline" -> [kind |-> "failed", bytes |-> kept]
    [] OTHER -> [kind |-> "output", bytes |-> kept]

Return ==
  /\ result = Nothing
  /\ command \in {"reaped", "unstarted"} /\ copier # "copying"
  /\ result' = Outcome
  /\ UNCHANGED <<maxOutput, timeout, ctx, command, status, holders, unborn, pipe,
                 copier, kept, exceeded, written>>

Returned == result # Nothing /\ UNCHANGED vars

(* What runs in the program, and what the processes do.                    *)
Program == Start \/ StartFails \/ Watch \/ Reap \/ Copy \/ CopyEnds \/ Return
Processes == Emit \/ Fork \/ Exit \/ Close

Next == Program \/ Processes \/ Deadline \/ Cancel \/ Returned

Spec == Init /\ [][Next]_vars

(* The scheduler runs every goroutine and the timer fires.  A command need *)
(* not end, and a descendant need not close the pipe.                      *)
FairSpec ==
  /\ Spec
  /\ WF_vars(Start \/ StartFails) /\ WF_vars(Deadline)
  /\ WF_vars(Watch) /\ WF_vars(Reap)
  /\ WF_vars(Copy) /\ WF_vars(CopyEnds) /\ WF_vars(Return)

-----------------------------------------------------------------------------
(* Every variable has its type; the command has the pipe open exactly      *)
(* while it runs.                                                          *)
TypeOK ==
  /\ maxOutput \in Limits /\ timeout \in Timeouts
  /\ ctx \in {"live", "deadline", "canceled"}
  /\ command \in {"new", "unstarted", "running", "exited", "reaped"}
  /\ status \in {"none", "ok", "error", "killed"}
  /\ holders \subseteq {Command} \cup Descendants /\ unborn \subseteq Descendants
  /\ Command \in holders <=> command = "running"
  /\ pipe \in 0..Capacity /\ written \in 0..MaxWritten
  /\ copier \in {"none", "copying", "done"} /\ exceeded \in BOOLEAN
  /\ kept \in Nat /\ result.bytes \in Nat
  /\ result.kind \in {"none", "late", "exceeded", "failed", "output"}

(* The buffer holds what has come through the pipe, up to the limit, and   *)
(* notes exactly when that was not all, however the output is cut into     *)
(* reads (subprocess.go:104-123).                                          *)
BufferExact ==
  LET through == written - pipe IN
  /\ kept = IF maxOutput = 0 THEN through ELSE Least(through, maxOutput)
  /\ exceeded <=> kept # through

(* Where nothing drains the pipe nobody has it open, and it is empty.      *)
Drained == copier # "copying" => pipe = 0 /\ holders = {}

(* A command that has ended has a status; what is returned is settled.     *)
Ended == command \in {"unstarted", "exited", "reaped"} => status # "none"

Settled ==
  result # Nothing =>
    /\ command \in {"unstarted", "reaped"} /\ copier # "copying"
    /\ result.kind \in {"output", "failed"} => ~exceeded /\ result.bytes = kept
    /\ result.kind = "output" => status = "ok"

(* The inductive invariant: the count of the buffer is exact, and the      *)
(* goroutines have left behind what the next one relies on.                *)
IInv == TypeOK /\ BufferExact /\ Drained /\ Ended /\ Settled

(* A text the caller gets, as the output or with the error of a command,   *)
(* is all that the command and its descendants wrote before the last of    *)
(* them let go of the pipe, and is called output only if the command       *)
(* succeeded (subprocess.go:55-70).                                        *)
TextIsWhole ==
  result.kind \in {"output", "failed"} =>
    /\ result.bytes = written
    /\ result.kind = "output" => status = "ok"

(* When runSubprocess returns, with whatever result, neither the command   *)
(* nor anything that holds its pipe runs on (subprocess.go:55).            *)
NothingRunsOn ==
  result # Nothing => command \in {"reaped", "unstarted"} /\ holders = {}

(* runSubprocess with a timeout returns, unless a descendant holds the     *)
(* pipe open for good: the timeout does not reach it.                      *)
ReturnsWhenLetGo ==
  timeout > 0 /\ <>[](holders \cap Descendants = {}) => <>(result # Nothing)
=============================================================================
