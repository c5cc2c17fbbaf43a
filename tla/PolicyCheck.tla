-------------------------------- MODULE PolicyCheck --------------------------------
(***************************************************************************)
(* cmd/policycheck: reads lines, finds a tool call in each, and writes one *)
(* decision or error per line.  What the decision is, is PolicyEngine's.   *)
(* A tool call in a line is absent, incomplete (no tool or no action),     *)
(* anonymous (without an id) or named; encoding/json is external.          *)
(***************************************************************************)
EXTENDS Naturals, SequencesExt

Calls == {"absent", "incomplete", "anonymous", "named"}
Methods == {"", "tool_call", "other"}

(* A JSON object: a request with method and params, if it decodes as one,  *)
(* or a call itself; a line also one inside {"call"}, {"request"} or the   *)
(* first item of {"workflow"}.  Params that are no object, for one, do not *)
(* decode, whatever the method.                                            *)
Inner == [decodes : BOOLEAN, method : Methods, params : Calls, itself : Calls]

IsRequest(object) == object.decodes /\ object.method # ""

Complete(call) == call \in {"anonymous", "named"}

(* A call without an id gets one.                                          *)
Found(from, call) ==
  <<[from |-> from, call |-> call, id |-> IF call = "named" THEN "own" ELSE "line"]>>

parseToolCallFromParams(params) == IF Complete(params) THEN Found("params", params) ELSE <<>>

(* The method of a request decides, and nothing else in it is looked at.   *)
CallOfRequest(object) ==
  IF object.method = "tool_call" THEN parseToolCallFromParams(object.params) ELSE <<>>

parseInnerRequest(inner) ==
  IF IsRequest(inner) THEN CallOfRequest(inner)
  ELSE IF Complete(inner.itself) THEN Found("itself", inner.itself)
  ELSE <<>>

parseToolCallLine(line) ==
  IF IsRequest(line) THEN CallOfRequest(line)
  ELSE IF Complete(line.itself) THEN Found("itself", line.itself)
  ELSE IF Complete(line.call) THEN Found("call", line.call)
  ELSE IF line.request # <<>> THEN parseInnerRequest(line.request[1])
  ELSE IF line.workflow # <<>> THEN parseInnerRequest(line.workflow[1])
  ELSE <<>>

(* Mutant: empty lines are not counted.                                    *)
CountAnswered(result) == Len(result.output) + 1

LineNumber(result) == result.lines + 1

(* run, on lines of text: "empty", "call" or "error" is what parse finds   *)
(* in one, "long" one above the limit of the scanner.  The writer takes    *)
(* so many outputs and then fails.                                         *)
Answered(result, line, room) ==
  LET n == LineNumber(result)
      out == [line |-> n, of |-> IF line = "call" THEN "decision" ELSE "error"]
  IN IF result.failed THEN result
     ELSE IF line = "long" THEN [result EXCEPT !.failed = TRUE]
     ELSE IF line = "empty" THEN [result EXCEPT !.lines = n]
     ELSE [lines |-> n,
           parseErrors |-> result.parseErrors + IF line = "error" THEN 1 ELSE 0,
           failed |-> Len(result.output) = room,
           output |-> IF Len(result.output) = room THEN result.output
                      ELSE Append(result.output, out)]

NoResult == [lines |-> 0, parseErrors |-> 0, failed |-> FALSE, output |-> <<>>]

run(lines, room) ==
  FoldLeft(LAMBDA result, line : Answered(result, line, room), NoResult, lines)

ExitCode(result) ==
  IF result.failed THEN 1 ELSE IF result.parseErrors > 0 THEN 2 ELSE 0
====================================================================================
