--------------------------- MODULE SubprocessProofs ---------------------------
(***************************************************************************)
(* The safety of Subprocess, for any set of descendants, any limits and    *)
(* any pipe.                                                               *)
(***************************************************************************)
EXTENDS Subprocess, TLAPS

(* The initial states satisfy the invariant.                               *)
LEMMA InitIInv == Init => IInv
<1> SUFFICES ASSUME Init PROVE IInv
  OBVIOUS
<1> USE SubprocessAssumption DEF Init
<1>1. exceeded \in BOOLEAN BY Zenon
<1>2. TypeOK BY <1>1 DEF TypeOK, Nothing
<1>3. BufferExact BY DEF BufferExact, Least
<1>4. Drained /\ Ended /\ Settled BY DEF Drained, Ended, Settled
<1> QED BY <1>2, <1>3, <1>4 DEF IInv

(* A write keeps the buffer exact.                                         *)
LEMMA WriteExact ==
  ASSUME TypeOK, BufferExact, NEW n \in 1..pipe, Write(n), pipe' = pipe - n,
         UNCHANGED <<maxOutput, written>>
  PROVE  /\ BufferExact'
         /\ kept' \in Nat /\ exceeded' \in BOOLEAN /\ pipe' \in 0..Capacity
<1> USE SubprocessAssumption DEF TypeOK
<1> DEFINE through == written - pipe
<1>1. pipe' \in 0..Capacity /\ maxOutput \in Nat /\ (written - pipe)' = through + n
  OBVIOUS
<1>2. CASE maxOutput = 0 \/ kept + n <= maxOutput
  <2>1. kept' = kept + n /\ exceeded' = exceeded
    BY <1>2 DEF Write
  <2>2. kept' = IF maxOutput = 0 THEN (written - pipe)' ELSE Least((written - pipe)', maxOutput)
    BY <1>1, <1>2, <2>1 DEF BufferExact, Least
  <2>3. kept # through <=> kept' # (written - pipe)'
    BY <1>1, <1>2, <2>1 DEF BufferExact, Least
  <2> QED BY <1>1, <2>1, <2>2, <2>3 DEF BufferExact
<1>3. CASE maxOutput # 0 /\ kept + n > maxOutput
  <2>1. kept' = maxOutput /\ exceeded' = TRUE
    BY <1>3 DEF Write
  <2>2. (written - pipe)' > maxOutput
    BY <1>1, <1>3 DEF BufferExact, Least
  <2>3. kept' = Least((written - pipe)', maxOutput) /\ kept' # (written - pipe)'
    BY <1>1, <2>1, <2>2 DEF Least
  <2> QED BY <1>1, <1>3, <2>1, <2>3 DEF BufferExact
<1> QED BY <1>1, <1>2, <1>3

(* Every step keeps the types.                                             *)
LEMMA TypeStep == ASSUME IInv, [Next]_vars PROVE TypeOK'
<1> USE SubprocessAssumption DEF IInv, TypeOK
<1>1. CASE Start BY <1>1 DEF Start
<1>2. CASE StartFails BY <1>2 DEF StartFails, Drained
<1>3. CASE Watch BY <1>3 DEF Watch
<1>4. CASE Reap BY <1>4 DEF Reap
<1>5. CASE Copy
  <2>1. PICK n \in 1..pipe : Write(n) /\ pipe' = pipe - n
    BY <1>5 DEF Copy
  <2>2. kept' \in Nat /\ exceeded' \in BOOLEAN /\ pipe' \in 0..Capacity
    BY <1>5, <2>1, WriteExact DEF Copy
  <2> QED BY <1>5, <2>2 DEF Copy
<1>6. CASE CopyEnds BY <1>6 DEF CopyEnds
<1>7. CASE Return
  <2>1. /\ Outcome.bytes \in Nat
        /\ Outcome.kind \in {"none", "late", "exceeded", "failed", "output"}
    BY DEF Outcome
  <2> QED BY <1>7, <2>1 DEF Return
<1>8. CASE Emit BY <1>8 DEF Emit
<1>9. CASE Fork BY <1>9 DEF Fork
<1>10. CASE Exit BY <1>10 DEF Exit
<1>11. CASE Close BY <1>11 DEF Close
<1>12. CASE Deadline \/ Cancel BY <1>12 DEF Deadline, Cancel
<1>13. CASE Returned \/ UNCHANGED vars BY <1>13 DEF Returned, vars
<1> QED
  BY <1>1, <1>2, <1>3, <1>4, <1>5, <1>6, <1>7, <1>8, <1>9, <1>10, <1>11, <1>12, <1>13
  DEF Next, Program, Processes

(* Every step keeps the buffer exact, and the pipe empty once it is let go.*)
LEMMA BufferStep == ASSUME IInv, [Next]_vars PROVE BufferExact' /\ Drained'
<1> USE SubprocessAssumption DEF IInv, TypeOK, BufferExact, Drained, Least
<1>1. CASE Copy
  <2>1. PICK n \in 1..pipe : Write(n) /\ pipe' = pipe - n
    BY <1>1 DEF Copy
  <2>2. BufferExact'
    BY <1>1, <2>1, WriteExact DEF Copy
  <2> QED BY <1>1, <2>2 DEF Copy
<1>2. CASE Emit BY <1>2 DEF Emit
<1>3. CASE Start \/ StartFails \/ Watch \/ Reap \/ CopyEnds \/ Return
  BY <1>3 DEF Start, StartFails, Watch, Reap, CopyEnds, Return
<1>4. CASE Fork \/ Exit \/ Close \/ Deadline \/ Cancel
  BY <1>4 DEF Fork, Exit, Close, Deadline, Cancel
<1>5. CASE Returned \/ UNCHANGED vars BY <1>5 DEF Returned, vars
<1> QED BY <1>1, <1>2, <1>3, <1>4, <1>5 DEF Next, Program, Processes

(* Every step leaves what was returned settled.                            *)
LEMMA SettledStep == ASSUME IInv, [Next]_vars PROVE Ended' /\ Settled'
<1> USE DEF IInv, TypeOK, Drained, Ended, Settled
<1>1. CASE Return
  <2>1. /\ Outcome.kind \in {"output", "failed"} => ~exceeded /\ Outcome.bytes = kept
        /\ Outcome.kind = "output" => ~RunError
    BY <1>1 DEF Return, Outcome
  <2>2. ~RunError => status = "ok"
    BY <1>1 DEF Return, RunError
  <2> QED BY <1>1, <2>1, <2>2 DEF Return
<1>2. CASE Start \/ StartFails \/ Watch \/ Reap
  BY <1>2 DEF Start, StartFails, Watch, Reap
<1>3. CASE Copy \/ CopyEnds BY <1>3 DEF Copy, CopyEnds
<1>4. CASE Emit \/ Fork \/ Exit \/ Close \/ Deadline \/ Cancel
  BY <1>4 DEF Emit, Fork, Exit, Close, Deadline, Cancel
<1>5. CASE Returned \/ UNCHANGED vars BY <1>5 DEF Returned, vars
<1> QED BY <1>1, <1>2, <1>3, <1>4, <1>5 DEF Next, Program, Processes

(* The invariant: types, the exact buffer, and what each stage implies.    *)
THEOREM SubprocessInvariant == Spec => []IInv
<1>1. IInv /\ [Next]_vars => IInv'
  BY TypeStep, BufferStep, SettledStep DEF IInv
<1> QED BY InitIInv, <1>1, PTL DEF Spec

(* A text the caller gets is whole, and is called output only if the       *)
(* command succeeded (subprocess.go:55-70).                                *)
THEOREM TextWhole == Spec => []TextIsWhole
<1>1. ASSUME IInv, result.kind \in {"output", "failed"}
      PROVE  result.bytes = written /\ (result.kind = "output" => status = "ok")
  <2>1. result # Nothing
    BY <1>1 DEF Nothing
  <2>2. /\ pipe = 0 /\ ~exceeded /\ result.bytes = kept
        /\ result.kind = "output" => status = "ok"
    BY <1>1, <2>1 DEF IInv, Settled, Drained
  <2>3. kept = written - pipe
    BY <1>1, <2>2 DEF IInv, BufferExact
  <2>4. written \in Nat
    BY <1>1, SubprocessAssumption DEF IInv, TypeOK
  <2> QED BY <2>2, <2>3, <2>4
<1>2. IInv => TextIsWhole
  BY <1>1 DEF TextIsWhole
<1> QED BY SubprocessInvariant, <1>2, PTL

(* Nothing that could still write to the caller's pipe runs on after the   *)
(* return (subprocess.go:55).                                              *)
THEOREM NothingLeftRunning == Spec => []NothingRunsOn
<1>1. IInv => NothingRunsOn
  BY DEF IInv, Drained, Settled, NothingRunsOn
<1> QED BY SubprocessInvariant, <1>1, PTL
=============================================================================
