---------------------------- MODULE ProgramProofs ----------------------------
(***************************************************************************)
(* However the program is started, whatever is typed and whoever else runs *)
(* a server: the server it started does not outlive it unnoticed, the      *)
(* terminal is raw exactly while a prompt reads from it, and every piece   *)
(* of what is typed has one reader.                                        *)
(***************************************************************************)
EXTENDS Program, SequenceTheorems, TLAPS

(* Where the main goroutine can be.                                        *)
Places == {"initialize", "polling", "loop", "reading", "turn", "asking", "stopping",
           "waiting", "exited"}

(* The modes and places of the main goroutine.                             *)
PlaceOK ==
  /\ setup \in Setups /\ at \in Places /\ raw \in BOOLEAN
  /\ ollamaProc \in BOOLEAN /\ own \in {"none", "starting", "up", "dead", "reaped"}
  /\ ending \in {"none", "fatal", "normal", "killFailed"}
  /\ at = "exited" <=> ending # "none"

(* Who has the server: Gemini mode has none, one that was started is in    *)
(* ollamaProc until it was given up or waited for.                         *)
ServerOK ==
  /\ setup.mode = "gemini" =>
       /\ own = "none" /\ ~ollamaProc
       /\ at \notin {"initialize", "polling", "stopping", "waiting"}
  /\ at = "initialize" => own = "none"
  /\ at = "polling" => ollamaProc
  /\ at = "waiting" => ~Alive
  /\ ollamaProc => own \notin {"none", "reaped"}
  /\ ~ollamaProc /\ at # "exited" => own = "none"

(* The inductive invariant: the two properties and what they rest on.      *)
IInv == PlaceOK /\ ServerOK /\ RawWhileReading /\ NoServerLeftRunning

(* The invariant holds when the program starts, in either mode.            *)
LEMMA InitIInv == Init => IInv
<1> SUFFICES ASSUME Init PROVE IInv
  OBVIOUS
<1>1. setup \in Setup
  BY ProgramAssumption DEF Init
<1>2. setup.mode \in {"ollama", "gemini"}
  BY <1>1 DEF Setup
<1> QED BY <1>2 DEF Init, IInv, PlaceOK, ServerOK, RawWhileReading, NoServerLeftRunning, Places, Alive

(* The parts of the invariant speak of these variables only.               *)
used == <<setup, at, raw, ending, own, ollamaProc>>

(* So a step that leaves these variables alone keeps it: what is typed,    *)
(* what is read ahead and the signals.                                     *)
LEMMA Unused == ASSUME IInv, UNCHANGED used PROVE IInv'
BY DEF used, IInv, PlaceOK, ServerOK, RawWhileReading, NoServerLeftRunning, Places, Alive

(* Every step keeps the invariant, whatever the environment does.          *)
LEMMA StepIInv == ASSUME IInv, [Next]_vars PROVE IInv'
<1> USE DEF IInv, PlaceOK, ServerOK, RawWhileReading, NoServerLeftRunning, Places, Alive
<1>mode. setup.mode \in {"ollama", "gemini"}
  BY ProgramAssumption DEF Setup
<1>1. CASE UseServer
  BY <1>1 DEF UseServer, Serving, console, server
<1>2. CASE StartServer
  BY <1>2 DEF StartServer, console
<1>3. CASE StartFails
  BY <1>3 DEF StartFails, Ended, console, server
<1>4. CASE GiveUp
  BY <1>4 DEF GiveUp, Kill, Ended, console
<1>5. CASE NothingToStop
  BY <1>5 DEF NothingToStop, Ended, console, server
<1>6. CASE StopServer
  BY <1>6 DEF StopServer, Kill, console
<1>7. CASE KillFails
  BY <1>7 DEF KillFails, Ended, console, server
<1>8. CASE WaitServer
  BY <1>8 DEF WaitServer, Ended, console
<1>9. CASE OwnServer
  BY <1>9 DEF OwnServer, console
<1>10. CASE BeginLoop
  BY <1>10 DEF BeginLoop, BeginReadLine, Device, server
<1>11. CASE LoopFails
  <2>1. /\ at \in {"loop", "reading"} /\ at' = "exited" /\ ending' = "fatal"
        /\ UNCHANGED <<setup, own, ollamaProc>>
    BY <1>11 DEF LoopFails, ReadFails, Reading, Ended, server
  <2>2. raw' = FALSE
    <3>1. CASE at = "loop" /\ UNCHANGED console
      BY <3>1 DEF console
    <3>2. CASE ReadFails("loop")
      BY <3>2 DEF ReadFails, Restore
    <3> QED BY <1>11, <3>1, <3>2 DEF LoopFails
  <2> QED BY <1>mode, <2>1, <2>2
<1>12. ASSUME NEW key \in Keys, TakeInput(key) PROVE IInv'
  <2>1. at = "reading" /\ raw' = FALSE /\ UNCHANGED <<setup, own, ollamaProc>>
    BY <1>12 DEF TakeInput, TakeLine, Reading, Restore, server
  <2>2. LeaveLoop \/ (at' \in {"loop", "turn"} /\ UNCHANGED ending)
    BY <1>12 DEF TakeInput
  <2> QED BY <1>mode, <2>1, <2>2 DEF LeaveLoop, Ended
<1>13. CASE InputEnds
  BY <1>mode, <1>13 DEF InputEnds, EndOfInput, Reading, Restore, LeaveLoop, Ended, server
<1>14. CASE EndTurn
  BY <1>14 DEF EndTurn, console, server
<1>15. CASE Ask
  BY <1>15 DEF Ask, BeginReadLine, Device, server
<1>16. ASSUME NEW key \in Keys, TakeAnswer(key) PROVE IInv'
  <2>1. at = "asking" /\ raw' = FALSE /\ UNCHANGED <<setup, own, ollamaProc>>
    BY <1>16 DEF TakeAnswer, TakeLine, Reading, Restore, server
  <2>2. LeaveLoop \/ (at' = "turn" /\ UNCHANGED ending)
    BY <1>16 DEF TakeAnswer
  <2> QED BY <1>mode, <2>1, <2>2 DEF LeaveLoop, Ended
<1>17. CASE AnswerFails
  BY <1>17 DEF AnswerFails, ReadFails, Reading, Restore, server
<1>18. ASSUME NEW s \in Sessions, ReadAhead(s) PROVE IInv'
  BY <1>18, Unused DEF ReadAhead, used, server
<1>19. ASSUME NEW d \in Devices, NEW key \in Keys, WritePiece(d, key) PROVE IInv'
  BY <1>19, Unused DEF WritePiece, used, server
<1>20. CASE ForeignServer \/ ClosePipe \/ CookedInterrupt \/ Terminate \/ SignalGoroutine
  BY <1>20, Unused DEF ForeignServer, ClosePipe, CookedInterrupt, Terminate, SignalGoroutine,
     used, console, server
<1>21. CASE Exited \/ UNCHANGED vars
  BY <1>21, Unused DEF Exited, vars, used, console, server
<1> QED
  BY <1>1, <1>2, <1>3, <1>4, <1>5, <1>6, <1>7, <1>8, <1>9, <1>10, <1>11, <1>12, <1>13, <1>14,
     <1>15, <1>16, <1>17, <1>18, <1>19, <1>20, <1>21 DEF Next, Main, Environment

(* When the program has ended the server it started does not run on, but   *)
(* after a failed kill or past a log.Fatal (main.go:29-34, 148, 382-389,   *)
(* runtime.go:260-303); and at no place of the program is the terminal     *)
(* raw without a prompt that reads from it (console.go:61-79).             *)
THEOREM ServerDoesNotRunOn == Spec => []NoServerLeftRunning
<1>1. IInv /\ [Next]_vars => IInv'
  BY StepIInv
<1>2. IInv => NoServerLeftRunning
  BY DEF IInv
<1> QED BY InitIInv, <1>1, <1>2, PTL DEF Spec

(* The terminal is raw exactly while a prompt reads from it.               *)
THEOREM RawOnlyWhileReading == Spec => []RawWhileReading
<1>1. IInv /\ [Next]_vars => IInv'
  BY StepIInv
<1>2. IInv => RawWhileReading
  BY DEF IInv
<1> QED BY InitIInv, <1>1, <1>2, PTL DEF Spec

(***************************************************************************)
(* The pieces: what each session has given out, or will, and what waits in *)
(* each device are increasing sequences of numbers that share nothing.     *)
(***************************************************************************)
TypedPiece == [n : Nat, key : Keys]
Waiting(d) == Numbers(arrived[d])

Increasing(q) == \A i, j \in DOMAIN q : i < j => q[i] < q[j]
Below(p, q) == \A x \in ToSet(p), y \in ToSet(q) : x < y

(* The types of the console's variables.                                   *)
LinesTyped ==
  /\ setup \in Setups
  /\ arrived \in [Devices -> Seq(TypedPiece)] /\ ahead \in [Sessions -> Seq(TypedPiece)]
  /\ taken \in [Sessions -> Seq(Nat)] /\ written \in [Devices -> Nat]

(* The inductive invariant: what the property says, and that a session     *)
(* never waits for a piece that comes before one it has.                   *)
InOrder ==
  /\ \A d \in Devices : Increasing(Waiting(d))
  /\ \A s \in Sessions : Increasing(Given(s)) /\ Below(Given(s), Waiting(Device(s)))
Apart ==
  \A s, t \in Sessions :
    s # t /\ Device(s) = Device(t) => ToSet(Given(s)) \cap ToSet(Given(t)) = {}
GivenFrom(d) == UNION {ToSet(Given(s)) : s \in From(d)}
Dropped(d) == IF d = "tty" THEN flushed ELSE {}
NoneLost ==
  \A d \in Devices : 1..written[d] = ToSet(Waiting(d)) \cup GivenFrom(d) \cup Dropped(d)

LinesInv == LinesTyped /\ InOrder /\ Apart /\ NoneLost

(* The numbers of pieces are a sequence as long as the pieces.             *)
LEMMA NumbersType ==
  ASSUME NEW q \in Seq(TypedPiece)
  PROVE  /\ Numbers(q) \in Seq(Nat) /\ Len(Numbers(q)) = Len(q)
         /\ DOMAIN Numbers(q) = 1..Len(q)
         /\ \A i \in 1..Len(q) : Numbers(q)[i] = q[i].n
<1>1. \A i \in 1..Len(q) : q[i] \in TypedPiece
  OBVIOUS
<1>2. \A i \in 1..Len(q) : q[i].n \in Nat
  BY <1>1 DEF TypedPiece
<1> QED BY <1>2 DEF Numbers

(* What waits and what is given are sequences of numbers.                  *)
LEMMA GivenType ==
  ASSUME LinesTyped
  PROVE  /\ \A d \in Devices : Waiting(d) \in Seq(Nat)
         /\ \A s \in Sessions : Given(s) \in Seq(Nat) /\ Device(s) \in Devices
<1>1. \A d \in Devices : Waiting(d) \in Seq(Nat)
  BY NumbersType DEF LinesTyped, Waiting
<1>2. \A s \in Sessions : Numbers(ahead[s]) \in Seq(Nat) /\ taken[s] \in Seq(Nat)
  BY NumbersType DEF LinesTyped
<1>3. \A s \in Sessions : Device(s) \in Devices
  BY ProgramAssumption DEF LinesTyped, Setup, Device, Devices
<1> QED BY <1>1, <1>2, <1>3 DEF Given

(* Two sequences of numbers, one after the other.                          *)
LEMMA Concat ==
  ASSUME NEW p \in Seq(Nat), NEW q \in Seq(Nat)
  PROVE  /\ p \o q \in Seq(Nat) /\ Len(p \o q) = Len(p) + Len(q)
         /\ DOMAIN (p \o q) = 1..(Len(p) + Len(q))
         /\ DOMAIN p = 1..Len(p) /\ DOMAIN q = 1..Len(q)
         /\ Len(p) \in Nat /\ Len(q) \in Nat
         /\ \A i \in 1..Len(p) : (p \o q)[i] = p[i]
         /\ \A i \in 1..(Len(p) + Len(q)) : i > Len(p) => (p \o q)[i] = q[i - Len(p)]
OBVIOUS

(* An increasing sequence is cut into two, all of the first below all of   *)
(* the second.                                                             *)
LEMMA Cut ==
  ASSUME NEW q \in Seq(Nat), Increasing(q), NEW k \in 1..Len(q)
  PROVE  LET a == SubSeq(q, 1, k)  b == SubSeq(q, k + 1, Len(q)) IN
         /\ a \in Seq(Nat) /\ b \in Seq(Nat)
         /\ Increasing(a) /\ Increasing(b) /\ Below(a, b)
         /\ ToSet(a) \cup ToSet(b) = ToSet(q)
<1> DEFINE a == SubSeq(q, 1, k)
           b == SubSeq(q, k + 1, Len(q))
<1>1. /\ a \in Seq(Nat) /\ Len(a) = k /\ DOMAIN a = 1..k
      /\ \A i \in 1..k : a[i] = q[i]
      /\ Len(q) \in Nat /\ k <= Len(q) /\ k \in Nat /\ DOMAIN q = 1..Len(q)
  OBVIOUS
<1>2. /\ b \in Seq(Nat) /\ Len(b) = Len(q) - k /\ DOMAIN b = 1..(Len(q) - k)
      /\ \A i \in 1..(Len(q) - k) : b[i] = q[k + i]
  OBVIOUS
<1> HIDE DEF a, b
<1>8. Len(q) \in Nat /\ k \in Nat /\ k <= Len(q)
  BY <1>1
<1>3. \A i, j \in 1..Len(q) : i < j => q[i] < q[j]
  BY <1>1 DEF Increasing
<1>5. Increasing(a)
  <2> SUFFICES ASSUME NEW i \in 1..k, NEW j \in 1..k, i < j PROVE a[i] < a[j]
    BY <1>1 DEF Increasing
  <2>1. i \in 1..Len(q) /\ j \in 1..Len(q)
    BY <1>1
  <2> QED BY <1>1, <1>3, <2>1
<1>6. Increasing(b)
  <2> SUFFICES ASSUME NEW i \in 1..(Len(q) - k), NEW j \in 1..(Len(q) - k), i < j
               PROVE  b[i] < b[j]
    BY <1>2 DEF Increasing
  <2>1. k + i \in 1..Len(q) /\ k + j \in 1..Len(q) /\ k + i < k + j
    BY <1>8
  <2> QED BY <1>2, <1>3, <2>1
<1>7. Below(a, b)
  <2> SUFFICES ASSUME NEW i \in 1..k, NEW j \in 1..(Len(q) - k) PROVE a[i] < b[j]
    BY <1>1, <1>2 DEF Below, ToSet
  <2>1. i \in 1..Len(q) /\ k + j \in 1..Len(q) /\ i < k + j
    BY <1>8
  <2>2. q[i] < q[k + j]
    BY <1>3, <2>1
  <2>3. a[i] = q[i]
    BY <1>1, Zenon
  <2>4. b[j] = q[k + j]
    BY <1>2, Zenon
  <2> QED BY <2>2, <2>3, <2>4
<1>4. ToSet(a) \cup ToSet(b) = ToSet(q)
  <2>1. ASSUME NEW i \in 1..Len(q) PROVE q[i] \in ToSet(a) \cup ToSet(b)
    <3>1. CASE i <= k
      <4>1. i \in DOMAIN a /\ a[i] = q[i]
        BY <1>1, <3>1
      <4> QED BY <4>1 DEF ToSet
    <3>2. CASE i > k
      <4>1. i - k \in 1..(Len(q) - k) /\ k + (i - k) = i
        BY <1>1, <3>2
      <4>2. i - k \in DOMAIN b /\ b[i - k] = q[i]
        BY <1>2, <4>1
      <4> QED BY <4>2 DEF ToSet
    <3> QED BY <1>1, <3>1, <3>2
  <2>2. ToSet(a) \subseteq ToSet(q) /\ ToSet(b) \subseteq ToSet(q)
    <3>1. \A i \in DOMAIN a : i \in DOMAIN q /\ a[i] = q[i]
      BY <1>1
    <3>2. \A i \in DOMAIN b : k + i \in DOMAIN q /\ b[i] = q[k + i]
      <4> SUFFICES ASSUME NEW i \in 1..(Len(q) - k) PROVE k + i \in 1..Len(q)
        BY <1>1, <1>2
      <4> QED BY <1>1
    <3> QED BY <3>1, <3>2 DEF ToSet
  <2>3. \A e \in ToSet(q) : \E i \in 1..Len(q) : e = q[i]
    BY <1>1 DEF ToSet
  <2> QED BY <2>1, <2>2, <2>3
<1> QED BY <1>1, <1>2, <1>4, <1>5, <1>6, <1>7 DEF a, b

(* Joining two increasing sequences, the first below the second.           *)
LEMMA Join ==
  ASSUME NEW p \in Seq(Nat), NEW q \in Seq(Nat), Increasing(p), Increasing(q), Below(p, q)
  PROVE  /\ p \o q \in Seq(Nat) /\ Increasing(p \o q)
         /\ ToSet(p \o q) = ToSet(p) \cup ToSet(q)
<1> DEFINE r == p \o q
<1>1. /\ r \in Seq(Nat) /\ Len(r) = Len(p) + Len(q) /\ Len(p) \in Nat /\ Len(q) \in Nat
      /\ DOMAIN r = 1..(Len(p) + Len(q)) /\ DOMAIN p = 1..Len(p) /\ DOMAIN q = 1..Len(q)
      /\ \A i \in 1..Len(p) : r[i] = p[i]
      /\ \A i \in 1..(Len(p) + Len(q)) : i > Len(p) => r[i] = q[i - Len(p)]
  BY Concat
<1> HIDE DEF r
<1>2. Increasing(r)
  <2> SUFFICES ASSUME NEW i \in 1..(Len(p) + Len(q)), NEW j \in 1..(Len(p) + Len(q)), i < j
               PROVE  r[i] < r[j]
    BY <1>1 DEF Increasing
  <2>1. CASE j <= Len(p)
    <3>1. j \in DOMAIN p /\ i \in DOMAIN p
      BY <1>1, <2>1
    <3>2. p[i] < p[j]
      BY <3>1 DEF Increasing
    <3> QED BY <1>1, <3>1, <3>2
  <2>2. CASE j > Len(p) /\ i <= Len(p)
    <3>1. j - Len(p) \in DOMAIN q /\ i \in DOMAIN p
      BY <1>1, <2>2
    <3>2. p[i] < q[j - Len(p)]
      BY <3>1 DEF Below, ToSet
    <3> QED BY <1>1, <2>2, <3>2
  <2>3. CASE i > Len(p)
    <3>1. j - Len(p) \in DOMAIN q /\ i - Len(p) \in DOMAIN q /\ i - Len(p) < j - Len(p)
      BY <1>1, <2>3
    <3>2. q[i - Len(p)] < q[j - Len(p)]
      BY <3>1 DEF Increasing
    <3>4. i > Len(p) /\ j > Len(p)
      BY <1>1, <2>3
    <3>3. r[i] = q[i - Len(p)] /\ r[j] = q[j - Len(p)]
      BY <1>1, <3>4
    <3> QED BY <3>2, <3>3
  <2> QED BY <1>1, <2>1, <2>2, <2>3
<1>3. ToSet(r) = ToSet(p) \cup ToSet(q)
  <2>1. \A i \in DOMAIN p : p[i] \in ToSet(r)
    BY <1>1 DEF ToSet
  <2>2. ASSUME NEW i \in DOMAIN q PROVE q[i] \in ToSet(r)
    <3>3. /\ Len(p) \in Nat /\ Len(q) \in Nat /\ i \in 1..Len(q)
          /\ DOMAIN r = 1..(Len(p) + Len(q))
      BY <1>1
    <3>1. Len(p) + i \in DOMAIN r /\ Len(p) + i > Len(p) /\ (Len(p) + i) - Len(p) = i
      BY <3>3
    <3>2. r[Len(p) + i] = q[i]
      BY <1>1, <3>1
    <3> QED BY <3>1, <3>2 DEF ToSet
  <2>3. ASSUME NEW i \in DOMAIN r PROVE r[i] \in ToSet(p) \cup ToSet(q)
    <3>1. CASE i <= Len(p)
      BY <1>1, <3>1 DEF ToSet
    <3>2. CASE i > Len(p)
      <4>1. i - Len(p) \in DOMAIN q /\ r[i] = q[i - Len(p)]
        BY <1>1, <3>2
      <4> QED BY <4>1 DEF ToSet
    <3> QED BY <1>1, <3>1, <3>2
  <2>4. \A e \in ToSet(r) : \E i \in DOMAIN r : e = r[i]
    BY DEF ToSet
  <2>5. \A e \in ToSet(p) : \E i \in DOMAIN p : e = p[i]
    BY DEF ToSet
  <2>6. \A e \in ToSet(q) : \E i \in DOMAIN q : e = q[i]
    BY DEF ToSet
  <2> QED BY <2>1, <2>2, <2>3, <2>4, <2>5, <2>6
<1> QED BY <1>1, <1>2, <1>3 DEF r

(* Cutting pieces is cutting their numbers.                                *)
LEMMA NumbersCut ==
  ASSUME NEW q \in Seq(TypedPiece), NEW k \in 1..Len(q)
  PROVE  LET a == SubSeq(q, 1, k)  b == SubSeq(q, k + 1, Len(q)) IN
         /\ a \in Seq(TypedPiece) /\ b \in Seq(TypedPiece)
         /\ Numbers(a) = SubSeq(Numbers(q), 1, k)
         /\ Numbers(b) = SubSeq(Numbers(q), k + 1, Len(Numbers(q)))
<1> DEFINE a == SubSeq(q, 1, k)
           b == SubSeq(q, k + 1, Len(q))
           m == Numbers(q)
<1>1. /\ a \in Seq(TypedPiece) /\ Len(a) = k /\ Len(q) \in Nat /\ k \in Nat
      /\ \A i \in 1..k : i \in 1..Len(q) /\ a[i] = q[i]
  OBVIOUS
<1>2. b \in Seq(TypedPiece) /\ Len(b) = Len(q) - k
  OBVIOUS
<1>3. \A i \in 1..(Len(q) - k) : k + i \in 1..Len(q) /\ b[i] = q[k + i]
  OBVIOUS
<1>4. m \in Seq(Nat) /\ Len(m) = Len(q) /\ \A i \in 1..Len(q) : m[i] = q[i].n
  BY NumbersType
<1> HIDE DEF a, b, m
<1>5. SubSeq(m, 1, k) = [i \in 1..k |-> m[i]]
  BY <1>1, <1>4
<1>6. SubSeq(m, k + 1, Len(m)) = [i \in 1..(Len(q) - k) |-> m[k + i]]
  <2>1. SubSeq(m, k + 1, Len(m)) = [i \in 1..(Len(m) - k) |-> m[i + k]]
    BY <1>1, <1>4
  <2>2. \A i \in 1..(Len(q) - k) : i + k = k + i
    BY <1>1
  <2> QED BY <1>4, <2>1, <2>2
<1>7. Numbers(a) = [i \in 1..k |-> a[i].n] /\ Numbers(b) = [i \in 1..(Len(q) - k) |-> b[i].n]
  BY <1>1, <1>2 DEF Numbers
<1>8. Numbers(a) = SubSeq(m, 1, k)
  BY <1>1, <1>4, <1>5, <1>7
<1>9. Numbers(b) = SubSeq(m, k + 1, Len(m))
  BY <1>3, <1>4, <1>6, <1>7
<1> QED BY <1>1, <1>2, <1>8, <1>9 DEF a, b, m

(* Putting sequences together is associative. The library says so too; its *)
(* theorem is for any set of elements, which the provers do not find here. *)
LEMMA Associative ==
  ASSUME NEW p \in Seq(Nat), NEW q \in Seq(Nat), NEW r \in Seq(Nat)
  PROVE  (p \o q) \o r = p \o (q \o r)
<1> DEFINE a == p \o q
           b == q \o r
           x == a \o r
           y == p \o b
<1>1. /\ Len(p) \in Nat /\ Len(q) \in Nat /\ Len(r) \in Nat
      /\ a \in Seq(Nat) /\ Len(a) = Len(p) + Len(q)
      /\ b \in Seq(Nat) /\ Len(b) = Len(q) + Len(r)
  BY ConcatProperties
<1>2. \A i \in 1..(Len(p) + Len(q)) : a[i] = IF i <= Len(p) THEN p[i] ELSE q[i - Len(p)]
  BY ConcatProperties
<1>3. \A i \in 1..(Len(q) + Len(r)) : b[i] = IF i <= Len(q) THEN q[i] ELSE r[i - Len(q)]
  BY ConcatProperties
<1> HIDE DEF a, b
<1>4. /\ x \in Seq(Nat) /\ Len(x) = Len(a) + Len(r)
      /\ \A i \in 1..(Len(a) + Len(r)) : x[i] = IF i <= Len(a) THEN a[i] ELSE r[i - Len(a)]
  <2>1. a \in Seq(Nat)
    BY <1>1
  <2> QED BY <2>1, ConcatProperties
<1>5. /\ y \in Seq(Nat) /\ Len(y) = Len(p) + Len(b)
      /\ \A i \in 1..(Len(p) + Len(b)) : y[i] = IF i <= Len(p) THEN p[i] ELSE b[i - Len(p)]
  <2>1. b \in Seq(Nat)
    BY <1>1
  <2> QED BY <2>1, ConcatProperties
<1> HIDE DEF x, y
<1> DEFINE n == Len(p) + Len(q) + Len(r)
<1>6. Len(x) = n /\ Len(y) = n /\ Len(a) + Len(r) = n /\ Len(p) + Len(b) = n /\ n \in Nat
  BY <1>1, <1>4, <1>5
<1>7. ASSUME NEW i \in 1..n PROVE x[i] = y[i]
  <2>1. i \in Nat /\ i \in 1..(Len(a) + Len(r)) /\ i \in 1..(Len(p) + Len(b))
    BY <1>6
  <2>2. CASE i <= Len(p)
    <3>1. i \in 1..(Len(p) + Len(q)) /\ i <= Len(a)
      BY <1>1, <2>1, <2>2
    <3> QED BY <1>2, <1>4, <1>5, <2>1, <2>2, <3>1
  <2>3. CASE ~(i <= Len(p)) /\ i <= Len(a)
    <3>1. /\ i \in 1..(Len(p) + Len(q)) /\ i - Len(p) \in 1..(Len(q) + Len(r))
          /\ i - Len(p) <= Len(q)
      BY <1>1, <2>1, <2>3
    <3>2. x[i] = q[i - Len(p)]
      BY <1>2, <1>4, <2>1, <2>3, <3>1
    <3>3. y[i] = q[i - Len(p)]
      BY <1>3, <1>5, <2>1, <2>3, <3>1
    <3> QED BY <3>2, <3>3
  <2>4. CASE ~(i <= Len(a))
    <3>1. /\ i - Len(p) \in 1..(Len(q) + Len(r)) /\ ~(i - Len(p) <= Len(q)) /\ ~(i <= Len(p))
          /\ (i - Len(p)) - Len(q) = i - Len(a)
      BY <1>1, <1>6, <2>1, <2>4
    <3>2. x[i] = r[i - Len(a)]
      BY <1>4, <2>1, <2>4
    <3>3. y[i] = b[i - Len(p)]
      BY <1>5, <2>1, <3>1
    <3>4. b[i - Len(p)] = r[(i - Len(p)) - Len(q)]
      BY <1>3, <3>1
    <3> QED BY <3>1, <3>2, <3>3, <3>4
  <2> QED BY <2>2, <2>3, <2>4
<1>8. x = [i \in 1..n |-> x[i]] /\ y = [i \in 1..n |-> y[i]]
  BY <1>4, <1>5, <1>6
<1>9. x = y
  BY <1>7, <1>8
<1> QED BY <1>9 DEF x, y, a, b

(* Taking what was read ahead up to a piece moves it between the parts of  *)
(* what is given.                                                          *)
LEMMA TakeSome ==
  ASSUME NEW t \in Seq(Nat), NEW a \in Seq(TypedPiece), NEW k \in 1..Len(a)
  PROVE  LET l == SubSeq(a, 1, k)  b == SubSeq(a, k + 1, Len(a)) IN
         /\ (t \o Numbers(l)) \o Numbers(b) = t \o Numbers(a)
         /\ t \o Numbers(l) \in Seq(Nat) /\ b \in Seq(TypedPiece)
<1> DEFINE m == Numbers(a)
           x == SubSeq(m, 1, k)
           y == SubSeq(m, k + 1, Len(m))
<1>1. /\ Numbers(SubSeq(a, 1, k)) = x /\ Numbers(SubSeq(a, k + 1, Len(a))) = y
      /\ SubSeq(a, k + 1, Len(a)) \in Seq(TypedPiece)
  BY NumbersCut
<1>2. m \in Seq(Nat) /\ Len(m) = Len(a) /\ Len(a) \in Nat
  BY NumbersType
<1> HIDE DEF m
<1>3. x \in Seq(Nat) /\ y \in Seq(Nat)
  BY <1>2
<1>4. x \o y = m
  <2>1. 1 \in 1..(Len(m) + 1) /\ k \in (1 - 1)..Len(m) /\ Len(m) \in k..Len(m)
    BY <1>2
  <2>2. x \o y = SubSeq(m, 1, Len(m))
    BY <1>2, <2>1, ConcatAdjacentSubSeq
  <2> QED BY <1>2, <2>2, SubSeqFull
<1> HIDE DEF x, y
<1>5. (t \o x) \o y = t \o m
  <2>1. (t \o x) \o y = t \o (x \o y)
    BY <1>3, Associative
  <2> QED BY <1>4, <2>1
<1>6. t \o x \in Seq(Nat)
  BY <1>3, ConcatProperties
<1> QED BY <1>1, <1>5, <1>6 DEF m

(* The numbers of two sequences of pieces, one after the other.            *)
LEMMA NumbersJoin ==
  ASSUME NEW p \in Seq(TypedPiece), NEW q \in Seq(TypedPiece)
  PROVE  /\ p \o q \in Seq(TypedPiece)
         /\ Numbers(p \o q) = Numbers(p) \o Numbers(q)
<1> DEFINE r == p \o q
           m == Numbers(p) \o Numbers(q)
<1>1. /\ r \in Seq(TypedPiece) /\ Len(r) = Len(p) + Len(q)
      /\ Len(p) \in Nat /\ Len(q) \in Nat
      /\ \A i \in 1..(Len(p) + Len(q)) : r[i] = IF i <= Len(p) THEN p[i] ELSE q[i - Len(p)]
  BY ConcatProperties
<1>2. /\ Numbers(p) \in Seq(Nat) /\ Len(Numbers(p)) = Len(p)
      /\ \A i \in 1..Len(p) : Numbers(p)[i] = p[i].n
  BY NumbersType
<1>3. /\ Numbers(q) \in Seq(Nat) /\ Len(Numbers(q)) = Len(q)
      /\ \A i \in 1..Len(q) : Numbers(q)[i] = q[i].n
  BY NumbersType
<1>4. /\ m \in Seq(Nat) /\ Len(m) = Len(p) + Len(q)
      /\ \A i \in 1..(Len(p) + Len(q)) :
           m[i] = IF i <= Len(p) THEN Numbers(p)[i] ELSE Numbers(q)[i - Len(p)]
  BY <1>2, <1>3, ConcatProperties
<1> HIDE DEF r, m
<1>5. ASSUME NEW i \in 1..(Len(p) + Len(q)) PROVE r[i].n = m[i]
  <2>1. CASE i <= Len(p)
    <3>1. i \in 1..Len(p)
      BY <1>1, <2>1
    <3> QED BY <1>1, <1>2, <1>4, <2>1, <3>1
  <2>2. CASE ~(i <= Len(p))
    <3>1. i - Len(p) \in 1..Len(q)
      BY <1>1, <2>2
    <3> QED BY <1>1, <1>3, <1>4, <2>2, <3>1
  <2> QED BY <2>1, <2>2
<1>6. Numbers(r) = [i \in 1..(Len(p) + Len(q)) |-> r[i].n]
  BY <1>1 DEF Numbers
<1>7. m = [i \in 1..(Len(p) + Len(q)) |-> m[i]]
  BY <1>1, <1>4
<1>8. Numbers(r) = m
  BY <1>5, <1>6, <1>7
<1> QED BY <1>1, <1>8 DEF r, m

(* A piece more is a number more.                                          *)
LEMMA NumbersAppend ==
  ASSUME NEW q \in Seq(TypedPiece), NEW l \in TypedPiece
  PROVE  /\ Numbers(Append(q, l)) = Append(Numbers(q), l.n)
         /\ ToSet(Append(Numbers(q), l.n)) = ToSet(Numbers(q)) \cup {l.n}
<1> DEFINE m == Numbers(q)
           r == Append(m, l.n)
<1>1. m \in Seq(Nat) /\ Len(m) = Len(q) /\ Len(q) \in Nat /\ \A i \in 1..Len(q) : m[i] = q[i].n
  BY NumbersType
<1>2. l.n \in Nat
  BY DEF TypedPiece
<1> HIDE DEF m
<1>3. /\ r \in Seq(Nat) /\ DOMAIN r = 1..(Len(q) + 1) /\ r[Len(q) + 1] = l.n
      /\ \A i \in 1..Len(q) : r[i] = m[i]
      /\ DOMAIN m = 1..Len(q)
  BY <1>1, <1>2
<1>4. Numbers(Append(q, l)) = r
  <2>1. /\ DOMAIN Append(q, l) = 1..(Len(q) + 1)
        /\ Append(q, l)[Len(q) + 1] = l /\ \A i \in 1..Len(q) : Append(q, l)[i] = q[i]
    OBVIOUS
  <2>2. ASSUME NEW i \in 1..(Len(q) + 1) PROVE Append(q, l)[i].n = r[i]
    BY <1>1, <1>3, <2>1
  <2>3. r = [i \in 1..(Len(q) + 1) |-> r[i]]
    BY <1>3
  <2> HIDE DEF r
  <2> QED BY <2>1, <2>2, <2>3 DEF Numbers
<1>5. ToSet(r) = ToSet(m) \cup {l.n}
  <2> HIDE DEF r
  <2>1. \A i \in 1..(Len(q) + 1) : i \in 1..Len(q) \/ i = Len(q) + 1
    BY <1>1
  <2>2. 1..Len(q) \subseteq 1..(Len(q) + 1) /\ Len(q) + 1 \in 1..(Len(q) + 1)
    BY <1>1
  <2> QED BY <1>3, <2>1, <2>2 DEF ToSet
<1> QED BY <1>4, <1>5 DEF m

(* Every number given or waiting was written.                              *)
LEMMA Numbered ==
  ASSUME LinesInv
  PROVE  /\ \A d \in Devices : \A x \in ToSet(Waiting(d)) : x \in 1..written[d]
         /\ \A s \in Sessions : \A x \in ToSet(Given(s)) : x \in 1..written[Device(s)]
<1>1. \A s \in Sessions : Device(s) \in Devices /\ s \in From(Device(s))
  BY GivenType DEF LinesInv, From
<1>2. \A s \in Sessions : ToSet(Given(s)) \subseteq GivenFrom(Device(s))
  BY <1>1 DEF GivenFrom
<1> QED BY <1>1, <1>2 DEF LinesInv, NoneLost

(* A step that moves no piece between a device and a session keeps it.     *)
LEMMA LinesStay ==
  ASSUME LinesInv, LinesTyped', UNCHANGED <<setup, arrived, written, flushed>>,
         \A s \in Sessions : Given(s)' = Given(s)
  PROVE  LinesInv'
<1>1. \A s \in Sessions : Device(s)' = Device(s)
  BY DEF Device
<1>2. \A d \in Devices : Waiting(d)' = Waiting(d) /\ Dropped(d)' = Dropped(d)
  BY DEF Waiting, Dropped
<1>3. \A d \in Devices : GivenFrom(d)' = GivenFrom(d)
  BY <1>1 DEF GivenFrom, From
<1>4. InOrder'
  <2>1. \A d \in Devices : Increasing(Waiting(d)')
    BY <1>2 DEF LinesInv, InOrder
  <2>2. \A s \in Sessions : Waiting(Device(s))' = Waiting(Device(s))
    BY <1>1 DEF Waiting
  <2>3. \A s \in Sessions : Increasing(Given(s)') /\ Below(Given(s)', Waiting(Device(s))')
    BY <2>2 DEF LinesInv, InOrder
  <2> QED BY <2>1, <2>3 DEF InOrder, Increasing, Below
<1>5. Apart'
  BY <1>1 DEF LinesInv, Apart
<1>6. NoneLost'
  BY <1>2, <1>3 DEF LinesInv, NoneLost
<1> QED BY <1>4, <1>5, <1>6 DEF LinesInv

(* The pieces that are taken were the next ones to be given.               *)
LEMMA TakeKeeps ==
  ASSUME LinesInv, NEW s \in Sessions, NEW key, TakeLine(s, key), UNCHANGED setup
  PROVE  LinesInv'
<1>1. /\ ahead[s] \in Seq(TypedPiece) /\ taken[s] \in Seq(Nat)
      /\ UNCHANGED <<arrived, written, flushed>>
  BY DEF TakeLine, LinesInv, LinesTyped
<1>2. PICK k \in 1..Len(ahead[s]) :
        /\ ahead' = [ahead EXCEPT ![s] = SubSeq(@, k + 1, Len(@))]
        /\ taken' = [taken EXCEPT ![s] = @ \o Numbers(SubSeq(ahead[s], 1, k))]
  BY DEF TakeLine
<1> DEFINE l == SubSeq(ahead[s], 1, k)
           b == SubSeq(ahead[s], k + 1, Len(ahead[s]))
<1>3. /\ ahead'[s] = b /\ taken'[s] = taken[s] \o Numbers(l)
      /\ \A t \in Sessions : t # s => ahead'[t] = ahead[t] /\ taken'[t] = taken[t]
  BY <1>2 DEF LinesInv, LinesTyped
<1>4. /\ (taken[s] \o Numbers(l)) \o Numbers(b) = taken[s] \o Numbers(ahead[s])
      /\ taken[s] \o Numbers(l) \in Seq(Nat) /\ b \in Seq(TypedPiece)
  BY <1>1, TakeSome
<1> HIDE DEF l, b
<1>5. LinesTyped'
  <2>1. ahead' = [ahead EXCEPT ![s] = b] /\ taken' = [taken EXCEPT ![s] = taken[s] \o Numbers(l)]
    BY <1>2 DEF l, b
  <2> QED BY <1>1, <1>4, <2>1 DEF LinesInv, LinesTyped
<1>6. \A t \in Sessions : Given(t)' = Given(t)
  BY <1>3, <1>4 DEF Given
<1> QED BY <1>1, <1>5, <1>6, LinesStay

(* A piece that is written comes after all that were.                      *)
LEMMA WriteKeeps ==
  ASSUME LinesInv, NEW d \in Devices, NEW key \in Keys, WritePiece(d, key)
  PROVE  LinesInv'
<1> DEFINE w == written[d]
           l == [n |-> w + 1, key |-> key]
<1>1. /\ written' = [written EXCEPT ![d] = w + 1]
      /\ written'[d] = w + 1 /\ w \in Nat /\ arrived[d] \in Seq(TypedPiece)
      /\ arrived' = [arrived EXCEPT ![d] = Append(@, l)]
      /\ UNCHANGED <<setup, ahead, taken, flushed>>
  BY DEF WritePiece, LinesInv, LinesTyped
<1>2. l \in TypedPiece /\ l.n = w + 1
  BY <1>1 DEF TypedPiece
<1> HIDE DEF l
<1>3. LinesTyped'
  <2>1. Append(arrived[d], l) \in Seq(TypedPiece)
    BY <1>1, <1>2
  <2> QED BY <1>1, <2>1 DEF LinesInv, LinesTyped
<1>4. \A s \in Sessions : Given(s)' = Given(s) /\ Device(s)' = Device(s)
  BY <1>1 DEF Given, Device
<1>5. \A e \in Devices : GivenFrom(e)' = GivenFrom(e) /\ Dropped(e)' = Dropped(e)
  BY <1>1, <1>4 DEF GivenFrom, From, Dropped
<1>6. /\ \A e \in Devices : e # d => Waiting(e)' = Waiting(e) /\ written'[e] = written[e]
      /\ Waiting(d)' = Append(Waiting(d), w + 1)
      /\ ToSet(Waiting(d)') = ToSet(Waiting(d)) \cup {w + 1}
  <2>1. /\ arrived'[d] = Append(arrived[d], l)
        /\ \A e \in Devices : e # d => arrived'[e] = arrived[e] /\ written'[e] = written[e]
    BY <1>1 DEF LinesInv, LinesTyped
  <2>2. /\ Waiting(d)' = Append(Numbers(arrived[d]), w + 1)
        /\ ToSet(Waiting(d)') = ToSet(Numbers(arrived[d])) \cup {w + 1}
    <3>1. Waiting(d)' = Numbers(Append(arrived[d], l))
      BY <2>1 DEF Waiting
    <3> QED BY <1>1, <1>2, <3>1, NumbersAppend
  <2> QED BY <2>1, <2>2 DEF Waiting
<1>7. Waiting(d) \in Seq(Nat) /\ \A x \in ToSet(Waiting(d)) : x \in 1..w
  BY GivenType, Numbered DEF LinesInv
<1>8. \A s \in Sessions : Device(s) = d => \A x \in ToSet(Given(s)) : x \in 1..w
  BY Numbered
<1>9. InOrder'
  <2>1. Increasing(Append(Waiting(d), w + 1))
    <3> DEFINE q == Waiting(d)
    <3>1. Increasing(q)
      BY DEF LinesInv, InOrder
    <3>2. /\ q \in Seq(Nat) /\ DOMAIN q = 1..Len(q) /\ Len(q) \in Nat
          /\ \A i \in 1..Len(q) : q[i] \in 1..w
      BY <1>7 DEF ToSet
    <3> HIDE DEF q
    <3>3. /\ DOMAIN Append(q, w + 1) = 1..(Len(q) + 1)
          /\ Append(q, w + 1)[Len(q) + 1] = w + 1
          /\ \A i \in 1..Len(q) : Append(q, w + 1)[i] = q[i]
      BY <1>1, <3>2
    <3>4. ASSUME NEW i \in 1..(Len(q) + 1), NEW j \in 1..(Len(q) + 1), i < j
          PROVE  Append(q, w + 1)[i] < Append(q, w + 1)[j]
      <4>1. i \in 1..Len(q)
        BY <3>2, <3>4
      <4>2. CASE j \in 1..Len(q)
        <5>1. q[i] < q[j]
          BY <3>1, <3>2, <3>4, <4>1, <4>2 DEF Increasing
        <5> QED BY <3>3, <4>1, <4>2, <5>1
      <4>3. CASE j = Len(q) + 1
        <5>1. q[i] < w + 1
          BY <1>1, <3>2, <4>1
        <5> QED BY <3>3, <4>1, <4>3, <5>1
      <4> QED BY <3>2, <4>2, <4>3
    <3>5. Increasing(Append(q, w + 1))
      BY <3>3, <3>4 DEF Increasing
    <3> QED BY <3>5 DEF q
  <2>2. \A e \in Devices : Increasing(Waiting(e)')
    BY <1>6, <2>1 DEF LinesInv, InOrder
  <2>3. ASSUME NEW s \in Sessions
        PROVE  Below(Given(s), Waiting(Device(s))')
    <3>1. Below(Given(s), Waiting(Device(s))) /\ Device(s) \in Devices
      BY GivenType DEF LinesInv, InOrder
    <3>2. CASE Device(s) = d
      <4>1. \A x \in ToSet(Given(s)) : x < w + 1
        BY <1>1, <1>8, <3>2
      <4>2. Waiting(Device(s))' = Waiting(d)'
        BY <1>4, <3>2
      <4> QED BY <1>6, <3>1, <3>2, <4>1, <4>2 DEF Below
    <3>3. CASE Device(s) # d
      <4>1. Waiting(Device(s))' = Waiting(Device(s))
        BY <1>1, <1>6, <3>1, <3>3 DEF Waiting, Device, LinesInv, LinesTyped
      <4> QED BY <3>1, <4>1
    <3> QED BY <3>2, <3>3
  <2>4. \A s \in Sessions : Increasing(Given(s)')
    BY <1>4 DEF LinesInv, InOrder
  <2>5. \A s \in Sessions : Below(Given(s)', Waiting(Device(s))')
    BY <1>4, <2>3
  <2> QED BY <2>2, <2>4, <2>5 DEF InOrder, Increasing, Below
<1>10. Apart'
  BY <1>4 DEF LinesInv, Apart
<1>11. NoneLost'
  <2> SUFFICES ASSUME NEW e \in Devices
               PROVE  1..written'[e] = ToSet(Waiting(e)') \cup GivenFrom(e)' \cup Dropped(e)'
    BY DEF NoneLost, ToSet
  <2>1. 1..written[e] = ToSet(Waiting(e)) \cup GivenFrom(e) \cup Dropped(e)
    BY DEF LinesInv, NoneLost
  <2>2. CASE e # d
    BY <1>5, <1>6, <2>1, <2>2
  <2>3. CASE e = d
    <3>1. 1..(w + 1) = (1..w) \cup {w + 1}
      BY <1>1
    <3>2. 1..w = ToSet(Waiting(d)) \cup GivenFrom(d) \cup Dropped(d)
      BY <2>1, <2>3
    <3>3. GivenFrom(d)' = GivenFrom(d) /\ Dropped(d)' = Dropped(d)
      BY <1>5
    <3>4. /\ written'[d] = w + 1
          /\ ToSet(Waiting(d)') = ToSet(Waiting(d)) \cup {w + 1}
      BY <1>1, <1>6
    <3>5. 1..written'[d] = ToSet(Waiting(d)') \cup GivenFrom(d)' \cup Dropped(d)'
      BY <3>1, <3>2, <3>3, <3>4
    <3> QED BY <2>3, <3>5
  <2> QED BY <2>2, <2>3
<1> QED BY <1>3, <1>9, <1>10, <1>11 DEF LinesInv

(* What the kernel throws away is counted.                                 *)
LEMMA FlushKeeps ==
  ASSUME LinesInv, CookedInterrupt
  PROVE  LinesInv'
<1>1. /\ arrived' = [arrived EXCEPT !["tty"] = <<>>]
      /\ flushed' = flushed \cup {l.n : l \in ToSet(arrived["tty"])}
      /\ UNCHANGED <<setup, ahead, written, taken>>
  BY DEF CookedInterrupt
<1>2. "tty" \in Devices /\ arrived["tty"] \in Seq(TypedPiece)
  BY DEF Devices, LinesInv, LinesTyped
<1>3. /\ arrived'["tty"] = <<>>
      /\ \A d \in Devices : d # "tty" => arrived'[d] = arrived[d]
  BY <1>1, <1>2 DEF LinesInv, LinesTyped
<1>4. LinesTyped'
  <2>1. << >> \in Seq(TypedPiece)
    OBVIOUS
  <2> QED BY <1>1, <2>1 DEF LinesInv, LinesTyped
<1>5. \A s \in Sessions : Given(s)' = Given(s) /\ Device(s)' = Device(s)
  BY <1>1 DEF Given, Device
<1>6. /\ ToSet(Waiting("tty")') = {}
      /\ \A d \in Devices : d # "tty" => Waiting(d)' = Waiting(d) /\ Dropped(d)' = Dropped(d)
  BY <1>3 DEF Waiting, Numbers, ToSet, Dropped
<1>7. Dropped("tty")' = Dropped("tty") \cup ToSet(Waiting("tty"))
  <2>1. {l.n : l \in ToSet(arrived["tty"])} = ToSet(Numbers(arrived["tty"]))
    BY <1>2 DEF ToSet, Numbers
  <2> QED BY <1>1, <2>1 DEF Dropped, Waiting
<1>8. InOrder'
  <2>1. \A d \in Devices : Increasing(Waiting(d)')
    <3>1. Waiting("tty")' = <<>> /\ DOMAIN <<>> = {}
      BY <1>3 DEF Waiting, Numbers
    <3> QED BY <1>6, <3>1 DEF LinesInv, InOrder, Increasing
  <2>2. ASSUME NEW s \in Sessions
        PROVE  Increasing(Given(s)') /\ Below(Given(s)', Waiting(Device(s))')
    <3>1. /\ Increasing(Given(s)) /\ Below(Given(s), Waiting(Device(s)))
          /\ Device(s) \in Devices
      BY GivenType DEF LinesInv, InOrder
    <3>2. CASE Device(s) = "tty"
      <4>1. ToSet(Waiting(Device(s))') = {}
        BY <1>5, <1>6, <3>2
      <4> QED BY <1>5, <3>1, <4>1 DEF Below
    <3>3. CASE Device(s) # "tty"
      <4>1. Waiting(Device(s))' = Waiting(Device(s))
        BY <1>3, <1>5, <3>1, <3>3 DEF Waiting
      <4> QED BY <1>5, <3>1, <4>1
    <3> QED BY <3>2, <3>3
  <2> QED BY <2>1, <2>2 DEF InOrder, Increasing, Below
<1>9. Apart'
  BY <1>5 DEF LinesInv, Apart
<1>10. \A d \in Devices : GivenFrom(d)' = GivenFrom(d)
  BY <1>5 DEF GivenFrom, From
<1>11. NoneLost'
  <2> SUFFICES ASSUME NEW d \in Devices
               PROVE  1..written[d] = ToSet(Waiting(d)') \cup GivenFrom(d)' \cup Dropped(d)'
    BY <1>1 DEF NoneLost, ToSet
  <2>1. 1..written[d] = ToSet(Waiting(d)) \cup GivenFrom(d) \cup Dropped(d)
    BY DEF LinesInv, NoneLost
  <2>2. CASE d = "tty"
    BY <1>6, <1>7, <1>10, <2>1, <2>2
  <2>3. CASE d # "tty"
    BY <1>6, <1>10, <2>1, <2>3
  <2> QED BY <2>2, <2>3
<1> QED BY <1>4, <1>8, <1>9, <1>11 DEF LinesInv

(* What is read ahead goes to the one session that reads, in order: it     *)
(* comes after all that was given to anybody from this device.              *)
LEMMA ReadKeeps ==
  ASSUME LinesInv, NEW s \in Sessions, ReadAhead(s)
  PROVE  LinesInv'
<1> DEFINE d == Device(s)
           q == arrived[d]
           m == Numbers(q)
<1>1. d \in Devices /\ q \in Seq(TypedPiece) /\ m = Waiting(d) /\ m \in Seq(Nat) /\ Len(m) = Len(q)
  BY GivenType, NumbersType DEF LinesInv, LinesTyped, Waiting
<1>2. PICK k \in 1..Len(q) :
        /\ ahead' = [ahead EXCEPT ![s] = @ \o SubSeq(q, 1, k)]
        /\ arrived' = [arrived EXCEPT ![d] = SubSeq(q, k + 1, Len(q))]
  BY DEF ReadAhead
<1>3. UNCHANGED <<setup, written, taken, flushed>>
  BY DEF ReadAhead
<1> DEFINE a == SubSeq(m, 1, k)
           b == SubSeq(m, k + 1, Len(m))
<1>4. /\ a \in Seq(Nat) /\ b \in Seq(Nat)
      /\ Increasing(a) /\ Increasing(b) /\ Below(a, b)
      /\ ToSet(a) \cup ToSet(b) = ToSet(m)
  <2>1. Increasing(m)
    BY <1>1 DEF LinesInv, InOrder
  <2>2. k \in 1..Len(m)
    BY <1>1
  <2> HIDE DEF m
  <2> QED BY <1>1, <2>1, <2>2, Cut
<1>5. /\ SubSeq(q, 1, k) \in Seq(TypedPiece) /\ SubSeq(q, k + 1, Len(q)) \in Seq(TypedPiece)
      /\ Numbers(SubSeq(q, 1, k)) = a /\ Numbers(SubSeq(q, k + 1, Len(q))) = b
  BY <1>1, NumbersCut
<1>17. /\ ahead[s] \in Seq(TypedPiece) /\ taken[s] \in Seq(Nat)
       /\ ahead[s] \o SubSeq(q, 1, k) \in Seq(TypedPiece)
       /\ Numbers(ahead[s] \o SubSeq(q, 1, k)) = Numbers(ahead[s]) \o a
       /\ Numbers(ahead[s]) \in Seq(Nat)
  <2>1. ahead[s] \in Seq(TypedPiece) /\ taken[s] \in Seq(Nat)
    BY DEF LinesInv, LinesTyped
  <2> HIDE DEF a, q
  <2> QED BY <1>5, <2>1, NumbersJoin, NumbersType
<1>6. LinesTyped'
  <2>1. ahead' = [ahead EXCEPT ![s] = ahead[s] \o SubSeq(q, 1, k)]
    BY <1>2
  <2> HIDE DEF a, q
  <2> QED BY <1>1, <1>2, <1>3, <1>5, <1>17, <2>1 DEF LinesInv, LinesTyped
<1>7. /\ ahead'[s] = ahead[s] \o SubSeq(q, 1, k) /\ arrived'[d] = SubSeq(q, k + 1, Len(q))
      /\ \A t \in Sessions : t # s => ahead'[t] = ahead[t]
      /\ \A e \in Devices : e # d => arrived'[e] = arrived[e]
  BY <1>1, <1>2 DEF LinesInv, LinesTyped
<1>8. \A t \in Sessions : Device(t)' = Device(t) /\ Device(t) \in Devices
  BY <1>3, GivenType DEF Device, LinesInv
<1>9. Waiting(d)' = b /\ \A e \in Devices : e # d => Waiting(e)' = Waiting(e)
  <2>1. Waiting(d)' = Numbers(arrived'[d])
    BY <1>8 DEF Waiting
  <2>2. \A e \in Devices : e # d => Waiting(e)' = Waiting(e)
    BY <1>7 DEF Waiting
  <2> QED BY <1>5, <1>7, <2>1, <2>2
<1>10. Given(s)' = Given(s) \o a /\ \A t \in Sessions : t # s => Given(t)' = Given(t)
  <2>1. Given(s)' = taken[s] \o (Numbers(ahead[s]) \o a)
    BY <1>3, <1>7, <1>17 DEF Given
  <2>2. taken[s] \o (Numbers(ahead[s]) \o a) = (taken[s] \o Numbers(ahead[s])) \o a
    <3> DEFINE m2 == Numbers(ahead[s])
               t == taken[s]
    <3>1. t \in Seq(Nat) /\ m2 \in Seq(Nat) /\ a \in Seq(Nat)
      BY <1>4, <1>17
    <3> HIDE DEF a, m2, t
    <3>2. (t \o m2) \o a = t \o (m2 \o a)
      BY <3>1, Associative
    <3> QED BY <3>2 DEF m2, t
  <2>3. \A t \in Sessions : t # s => Given(t)' = Given(t)
    BY <1>3, <1>7 DEF Given
  <2> QED BY <2>1, <2>2, <2>3 DEF Given
<1> HIDE DEF a, b
<1>11. \A t \in Sessions : Device(t) = d => Below(Given(t), a) /\ Below(Given(t), b)
  BY <1>1, <1>4 DEF LinesInv, InOrder, Below
<1>12. /\ Given(s) \o a \in Seq(Nat) /\ Increasing(Given(s) \o a)
       /\ ToSet(Given(s) \o a) = ToSet(Given(s)) \cup ToSet(a)
  <2>1. Given(s) \in Seq(Nat) /\ Increasing(Given(s)) /\ Below(Given(s), a)
    BY <1>11, GivenType DEF LinesInv, InOrder
  <2> QED BY <1>4, <2>1, Join
<1> HIDE DEF d, q, m
<1>13. InOrder'
  <2>1. ASSUME NEW e \in Devices PROVE Increasing(Waiting(e)')
    <3>1. CASE e = d
      <4>1. Waiting(e)' = b
        BY <1>3, <1>9, <3>1 DEF Waiting, Device, d
      <4> QED BY <1>4, <4>1
    <3>2. CASE e # d
      BY <1>9, <3>2 DEF LinesInv, InOrder
    <3> QED BY <3>1, <3>2
  <2>2. ASSUME NEW t \in Sessions
        PROVE  Increasing(Given(t)') /\ Below(Given(t)', Waiting(Device(t))')
    <3>1. Increasing(Given(t)) /\ Below(Given(t), Waiting(Device(t)))
      BY DEF LinesInv, InOrder
    <3>2. CASE t = s
      <4>1. Waiting(Device(t))' = b
        BY <1>7, <1>8, <1>9, <3>2 DEF Waiting, d
      <4>2. Below(Given(s) \o a, b)
        BY <1>4, <1>11, <1>12 DEF Below, d
      <4> QED BY <1>10, <1>12, <3>2, <4>1, <4>2
    <3>3. CASE t # s /\ Device(t) = d
      <4>1. Waiting(Device(t))' = b
        BY <1>7, <1>8, <1>9, <3>3 DEF Waiting, d
      <4> QED BY <1>10, <1>11, <3>1, <3>3, <4>1
    <3>4. CASE t # s /\ Device(t) # d
      <4>1. Waiting(Device(t))' = Waiting(Device(t))
        BY <1>7, <1>8, <3>4 DEF Waiting
      <4> QED BY <1>10, <3>1, <3>4, <4>1
    <3> QED BY <3>2, <3>3, <3>4
  <2> QED BY <2>1, <2>2 DEF InOrder, Increasing, Below
<1>14. \A t \in Sessions : t # s /\ Device(t) = d => ToSet(Given(t)) \cap ToSet(Given(s)') = {}
  <2> SUFFICES ASSUME NEW t \in Sessions, t # s, Device(t) = d, NEW x \in ToSet(Given(t)),
                      x \in ToSet(Given(s)')
               PROVE  FALSE
    OBVIOUS
  <2>1. ToSet(Given(t)) \cap ToSet(Given(s)) = {}
    BY DEF LinesInv, Apart, d
  <2>2. x \in ToSet(a)
    BY <1>10, <1>12, <2>1
  <2>3. x < x
    BY <1>11, <2>2 DEF Below
  <2>4. x \in Nat
    BY Numbered
  <2> QED BY <2>3, <2>4
<1>15. Apart'
  <2> SUFFICES ASSUME NEW t \in Sessions, NEW u \in Sessions, t # u, Device(t) = Device(u)
               PROVE  ToSet(Given(t)') \cap ToSet(Given(u)') = {}
    BY <1>8 DEF Apart, ToSet
  <2>1. ToSet(Given(t)) \cap ToSet(Given(u)) = {}
    BY DEF LinesInv, Apart
  <2>2. CASE t = s
    BY <1>10, <1>14, <2>2 DEF d
  <2>3. CASE u = s
    BY <1>10, <1>14, <2>3 DEF d
  <2>4. CASE t # s /\ u # s
    BY <1>10, <2>1, <2>4
  <2> QED BY <2>2, <2>3, <2>4
<1>16. NoneLost'
  <2> SUFFICES ASSUME NEW e \in Devices
               PROVE  1..written[e] = ToSet(Waiting(e)') \cup GivenFrom(e)' \cup Dropped(e)'
    BY <1>3 DEF NoneLost, ToSet
  <2>1. 1..written[e] = ToSet(Waiting(e)) \cup GivenFrom(e) \cup Dropped(e)
    BY DEF LinesInv, NoneLost
  <2>2. Dropped(e)' = Dropped(e) /\ From(e)' = From(e)
    BY <1>3, <1>8 DEF Dropped, From
  <2>3. CASE e = d
    <3>1. s \in From(e)
      BY <2>3 DEF From, d
    <3>2. GivenFrom(e)' = GivenFrom(e) \cup ToSet(a)
      <4>1. \A t \in From(e) : t \in Sessions /\ (t # s => ToSet(Given(t)') = ToSet(Given(t)))
        BY <1>10 DEF From
      <4>2. ToSet(Given(s)') = ToSet(Given(s)) \cup ToSet(a)
        BY <1>10, <1>12
      <4>3. GivenFrom(e)' = UNION {ToSet(Given(t)') : t \in From(e)}
        BY <2>2 DEF GivenFrom, ToSet
      <4> QED BY <3>1, <4>1, <4>2, <4>3 DEF GivenFrom
    <3>3. ToSet(Waiting(e)) = ToSet(a) \cup ToSet(b)
      BY <1>1, <1>4, <2>3
    <3>4. ToSet(Waiting(e)') = ToSet(b)
      BY <1>3, <1>9, <2>3 DEF Waiting, Device, d
    <3> QED BY <2>1, <2>2, <3>2, <3>3, <3>4
  <2>4. CASE e # d
    <3>1. \A t \in From(e) : t \in Sessions /\ ToSet(Given(t)') = ToSet(Given(t))
      BY <1>10, <2>4 DEF From, d
    <3>2. GivenFrom(e)' = UNION {ToSet(Given(t)') : t \in From(e)}
      BY <2>2 DEF GivenFrom, ToSet
    <3>3. GivenFrom(e)' = GivenFrom(e)
      BY <3>1, <3>2 DEF GivenFrom
    <3> QED BY <1>9, <2>1, <2>2, <2>4, <3>3
  <2> QED BY <2>3, <2>4
<1> QED BY <1>6, <1>13, <1>15, <1>16 DEF LinesInv

(* Nothing is written, and nothing given.                                  *)
LEMMA InitLines == Init => LinesInv
<1> SUFFICES ASSUME Init PROVE LinesInv
  OBVIOUS
<1>1. << >> \in Seq(TypedPiece) /\ << >> \in Seq(Nat) /\ DOMAIN <<>> = {} /\ <<>> \o <<>> = <<>>
  OBVIOUS
<1>2. Numbers(<<>>) = <<>>
  BY DEF Numbers
<1>3. LinesTyped
  BY <1>1 DEF Init, LinesTyped
<1>4. \A d \in Devices : Waiting(d) = <<>> /\ written[d] = 0
  BY <1>2 DEF Init, Waiting
<1>5. \A s \in Sessions : Given(s) = <<>> /\ Device(s) \in Devices
  BY <1>1, <1>2, <1>3, GivenType DEF Init, Given
<1>6. ToSet(<<>>) = {} /\ Increasing(<<>>) /\ Below(<<>>, <<>>)
  BY <1>1 DEF ToSet, Increasing, Below
<1>7. InOrder /\ Apart
  BY <1>4, <1>5, <1>6 DEF InOrder, Apart
<1>8. NoneLost
  <2>1. \A d \in Devices : GivenFrom(d) = {} /\ Dropped(d) = {}
    BY <1>5, <1>6 DEF GivenFrom, Dropped, From, Init
  <2>2. 1..0 = {}
    OBVIOUS
  <2> QED BY <1>4, <1>6, <2>1, <2>2 DEF NoneLost
<1> QED BY <1>3, <1>7, <1>8 DEF LinesInv

(* Every step keeps the pieces in order.                                   *)
LEMMA NextLines == LinesInv /\ [Next]_vars => LinesInv'
<1> SUFFICES ASSUME LinesInv, [Next]_vars PROVE LinesInv'
  OBVIOUS
<1>1. ASSUME UNCHANGED <<setup, arrived, ahead, written, taken, flushed>>
      PROVE  LinesInv'
  <2>1. LinesTyped'
    BY <1>1 DEF LinesInv, LinesTyped
  <2>2. \A s \in Sessions : Given(s)' = Given(s)
    BY <1>1 DEF Given
  <2> QED BY <1>1, <2>1, <2>2, LinesStay
<1>2. CASE UseServer \/ StartServer \/ StartFails \/ GiveUp \/ NothingToStop \/ StopServer
           \/ KillFails \/ WaitServer \/ ForeignServer \/ OwnServer
  BY <1>1, <1>2 DEF UseServer, StartServer, StartFails, GiveUp, NothingToStop, StopServer,
     KillFails, WaitServer, ForeignServer, OwnServer, console
<1>3. CASE BeginLoop \/ Ask
  BY <1>1, <1>3 DEF BeginLoop, Ask, BeginReadLine
<1>4. CASE InputEnds \/ AnswerFails \/ LoopFails
  BY <1>1, <1>4 DEF InputEnds, AnswerFails, LoopFails, EndOfInput, ReadFails, console
<1>5. CASE ClosePipe \/ Terminate \/ SignalGoroutine \/ EndTurn \/ Exited \/ UNCHANGED vars
  BY <1>1, <1>5 DEF ClosePipe, Terminate, SignalGoroutine, EndTurn, Exited, vars, console
<1>6. ASSUME NEW key \in Keys, TakeInput(key) \/ TakeAnswer(key) PROVE LinesInv'
  BY <1>6, TakeKeeps DEF TakeInput, TakeAnswer, Sessions
<1>7. ASSUME NEW s \in Sessions, ReadAhead(s) PROVE LinesInv'
  BY <1>7, ReadKeeps
<1>8. ASSUME NEW d \in Devices, NEW key \in Keys, WritePiece(d, key) PROVE LinesInv'
  BY <1>8, WriteKeeps
<1>9. CASE CookedInterrupt
  BY <1>9, FlushKeeps
<1> QED BY <1>2, <1>3, <1>4, <1>5, <1>6, <1>7, <1>8, <1>9 DEF Next, Main, Environment

(* Wherever the reads end, no piece of what is typed is lost between two   *)
(* prompts, or read by two readers, or twice, or out of order              *)
(* (console.go:24-60, approval.go:27-56).                                  *)
THEOREM PiecesAreRead == Spec => []EveryPieceHasOneReader
<1>1. LinesInv => EveryPieceHasOneReader
  <2> SUFFICES ASSUME LinesInv PROVE EveryPieceHasOneReader
    OBVIOUS
  <2>1. \A s \in Sessions : \A i, j \in DOMAIN Given(s) : i < j => Given(s)[i] < Given(s)[j]
    BY DEF LinesInv, InOrder, Increasing
  <2>2. \A d \in Devices :
          1..written[d] = ToSet(Numbers(arrived[d])) \cup (UNION {ToSet(Given(s)) : s \in From(d)})
                            \cup (IF d = "tty" THEN flushed ELSE {})
    BY DEF LinesInv, NoneLost, Waiting, GivenFrom, Dropped
  <2> QED BY <2>1, <2>2 DEF LinesInv, Apart, EveryPieceHasOneReader
<1> QED BY <1>1, InitLines, NextLines, PTL DEF Spec
================================================================================
