--------------------------- MODULE MediatorProofs ---------------------------
(***************************************************************************)
(* Proofs about Mediator, for any callers, trackers, words, proposals and  *)
(* results, any policy and any way of putting the mediator together: its   *)
(* types, the safety of what handlers do and callers get, what the audit   *)
(* trail tells, and that Execute implements the reference monitor.         *)
(***************************************************************************)
EXTENDS Mediator, TLAPS

(***************************************************************************)
(* Facts about the operators the actions are built from.                   *)
(***************************************************************************)

(* What the sandbox normalises is a call again.                            *)
LEMMA NormalisedType ==
  ASSUME NEW c \in Call
  PROVE  Normalised(c) \in Call
<1>1. \A n \in ArgNames : c.args[n] \in Value  BY DEF Call
<1>2. ASSUME NEW n \in ArgNames
      PROVE  NormalisedArg(c, n) \in Value
  BY <1>1 DEF NormalisedArg, Value, Forms, Text
<1> QED  BY <1>2 DEF Normalised, Call

(* So is every call the mediator handles.                                  *)
LEMMA CallsType == Calls \subseteq Call
<1>1. Proposals \subseteq Call  BY MediatorAssumption
<1>2. Absent \in Value  BY DEF Absent, Value, Forms, Text
<1>3. [n \in ArgNames |-> Absent] \in [ArgNames -> Value]  BY <1>2
<1>4. NoCall \in Call  BY <1>3 DEF NoCall, Call, Tools, Actions
<1> QED  BY <1>1, <1>4, NormalisedType DEF Calls

(* Its arguments are texts, and so is what an error or a reason quotes.    *)
LEMMA QuotedType ==
  ASSUME NEW c \in Calls
  PROVE  /\ \A n \in ArgNames : c.args[n] \in Value /\ c.args[n].words \in Text
         /\ ArgumentWords(c) \in Text
         /\ RejectionTexts(c) \subseteq Text
         /\ \A v : ReasonTexts(c, v) \subseteq Text
<1>1. \A n \in ArgNames : c.args[n] \in Value /\ c.args[n].words \in Text
  BY CallsType DEF Call, Value
<1>2. ArgumentWords(c) \in Text  BY <1>1 DEF ArgumentWords, Text
<1>3. RefusedArgs(c) \subseteq ArgNames
  BY DEF RefusedArgs, RequiredArgs, OptionalArgs, ArgNames
<1>4. {} \in Text  BY DEF Text
<1>5. RejectionTexts(c) \subseteq Text  BY <1>1, <1>3, <1>4 DEF RejectionTexts
<1>6. \A v : ReasonTexts(c, v) \subseteq Text
  BY <1>1, <1>4 DEF ReasonTexts, ArgNames
<1> QED  BY <1>1, <1>2, <1>5, <1>6

(* Redaction and fragments of a text are texts.                            *)
LEMMA RedactedType ==
  ASSUME NEW t \in Text
  PROVE  Redacted(t) \in Text /\ TaintFragments(t) \in Text
BY DEF Redacted, RedactText, TaintFragments, Text

(* A context leads to a tracker.                                           *)
LEMMA TrackerType == \A x : Tracker(x) \in Stores
BY DEF Tracker, Stores

(* A log with an event more, or none, is a log.                            *)
LEMMA LoggedType ==
  ASSUME NEW log \in Seq(Event), NEW severity, NEW msg \in Messages, NEW words \in Text
  PROVE  Logged(log, severity, msg, words) \in Seq(Event)
<1>1. [msg |-> msg, words |-> words] \in Event  BY DEF Event
<1> QED  BY <1>1 DEF Logged

(***************************************************************************)
(* Type correctness.                                                       *)
(***************************************************************************)
(* One conjunct for each group of variables the actions change together.   *)
LEMMA FinishType ==
  ASSUME TypeOK, NEW p \in Callers, NEW kind \in {"result", "denied", "error"},
         NEW words \in Text, NEW untrusted \in BOOLEAN,
         Finish(p, kind, words, untrusted)
  PROVE  pc' \in [Callers -> Locations] /\ reply' \in [Callers -> Reply]
BY DEF TypeOK, Finish, Locations, Reply

LEMMA GotoType ==
  ASSUME TypeOK, NEW p \in Callers, NEW label \in Locations, Goto(p, label)
  PROVE  pc' \in [Callers -> Locations] /\ reply' \in [Callers -> Reply]
BY DEF TypeOK, Goto

LEMMA LogType ==
  ASSUME TypeOK, NEW p \in Callers, NEW severity, NEW msg \in Messages,
         NEW words \in Text, Log(p, severity, msg, words)
  PROVE  trail' \in [Callers -> Seq(Event)]
<1>1. trail[p] \in Seq(Event)  BY DEF TypeOK
<1>2. Logged(trail[p], severity, msg, words) \in Seq(Event)  BY <1>1, LoggedType
<1> QED  BY <1>2 DEF TypeOK, Log

(* The initial values are of their types.                                  *)
LEMMA InitType == Init => TypeOK
<1> SUFFICES ASSUME Init PROVE TypeOK
  OBVIOUS
<1>1. {} \in Text  BY DEF Text
<1>2. "idle" \in Locations  BY DEF Locations
<1>3. NoTracker \in Contexts /\ NoCall \in Calls  BY DEF Contexts, Calls
<1>4. [decision |-> "deny", audit |-> FALSE] \in Verdict  BY DEF Verdict
<1>5. [words |-> {}, long |-> FALSE, untrusted |-> FALSE] \in Result
  BY <1>1 DEF Result
<1>6. [kind |-> "denied", words |-> {}, untrusted |-> FALSE] \in Reply
  BY <1>1 DEF Reply
<1>7. << >> \in Seq(Event)  OBVIOUS
<1> QED  BY <1>1, <1>2, <1>3, <1>4, <1>5, <1>6, <1>7 DEF Init, TypeOK

(* So is what a step makes of them.                                        *)
LEMMA NextType == TypeOK /\ [Next]_vars => TypeOK'
<1> SUFFICES ASSUME TypeOK, [Next]_vars PROVE TypeOK'
  OBVIOUS
<1> USE DEF history
<1>e. {} \in Text  BY DEF Text
<1>l. /\ "idle" \in Locations /\ "taint" \in Locations /\ "decide" \in Locations
      /\ "approve" \in Locations /\ "prompt" \in Locations /\ "handler" \in Locations
      /\ "result" \in Locations /\ "return" \in Locations
  BY DEF Locations
<1>m. Messages = {"tool_call_rejected_by_sandbox", "tool_call_rejected_by_taint",
             "tool_call_received", "policy_decision", "approval_missing",
             "approval_granted", "approval_denied", "approval_error",
             "tool_execution_failed", "tool_result_rejected_by_sandbox",
             "tool_execution_succeeded"}
  BY DEF Messages
<1>1. ASSUME NEW p \in Callers, NEW x \in Contexts, NEW c \in Proposals, Execute(p, x, c)
      PROVE  TypeOK'
  <2>1. c \in Calls /\ Normalised(c) \in Calls  BY DEF Calls
  <2>2. call' \in [Callers -> Calls]  BY <1>1, <2>1 DEF Execute, TypeOK
  <2>3. ctx' \in [Callers -> Contexts] /\ known' \in [Callers -> Text]
    BY <1>1, TrackerType DEF Execute, TypeOK
  <2>4. granted' \in [Callers -> BOOLEAN] /\ ran' \in [Callers -> BOOLEAN]
    BY <1>1 DEF Execute, TypeOK
  <2>5. /\ pc' \in [Callers -> Locations]
        /\ reply' \in [Callers -> Reply]
        /\ trail' \in [Callers -> Seq(Event)]
    <3>1. CASE conf.sandbox /\ Rejects(c)
      <4>1. PICK quoted \in RejectionTexts(c) :
              /\ trail' = [trail EXCEPT ![p] =
                   Logged(<<>>, Warning, "tool_call_rejected_by_sandbox", quoted)]
              /\ Denied(p, quoted)
        BY <1>1, <3>1 DEF Execute
      <4>2. quoted \in Text  BY <2>1, QuotedType
      <4>3. << >> \in Seq(Event)  OBVIOUS
      <4>4. Logged(<<>>, Warning, "tool_call_rejected_by_sandbox", quoted) \in Seq(Event)
        BY <1>m, <4>2, <4>3, LoggedType
      <4>5. trail' \in [Callers -> Seq(Event)]  BY <4>1, <4>4 DEF TypeOK
      <4> QED  BY <4>1, <4>2, <4>5, FinishType DEF Denied
    <3>2. CASE ~(conf.sandbox /\ Rejects(c))
      <4>1. Goto(p, "taint") /\ trail' = [trail EXCEPT ![p] = <<>>]
        BY <1>1, <3>2 DEF Execute
      <4>2. << >> \in Seq(Event)  OBVIOUS
      <4>3. trail' \in [Callers -> Seq(Event)]  BY <4>1, <4>2 DEF TypeOK
      <4> QED  BY <1>l, <4>1, <4>3, GotoType
    <3> QED  BY <3>1, <3>2
  <2> QED  BY <1>1, <2>2, <2>3, <2>4, <2>5 DEF Execute, TypeOK
<1>2. ASSUME NEW p \in Callers, CheckTaint(p)
      PROVE  TypeOK'
  <2>1. Redacted(ArgumentWords(call[p])) \in Text
    BY QuotedType, RedactedType DEF TypeOK
  <2>2. /\ pc' \in [Callers -> Locations]
        /\ reply' \in [Callers -> Reply]
        /\ trail' \in [Callers -> Seq(Event)]
    <3>1. CASE TaintedArguments(call[p], taint[Tracker(ctx[p])]) # {}
      BY <1>2, <1>e, <1>m, <2>1, <3>1, LogType, FinishType DEF CheckTaint, Denied
    <3>2. CASE ~(TaintedArguments(call[p], taint[Tracker(ctx[p])]) # {})
      BY <1>2, <1>l, <1>m, <2>1, <3>2, LogType, GotoType DEF CheckTaint
    <3> QED  BY <3>1, <3>2
  <2> QED  BY <1>2, <2>2 DEF CheckTaint, TypeOK
<1>3. ASSUME NEW p \in Callers, Evaluate(p)
      PROVE  TypeOK'
  <2>1. call[p] \in Calls  BY DEF TypeOK
  <2>2. verdict' \in [Callers -> Verdict]
    BY <1>3, <2>1, MediatorAssumption DEF Evaluate, TypeOK
  <2>3. PICK reason \in ReasonTexts(call[p], Decide(call[p])) :
          /\ Log(p, Info, "policy_decision", reason)
          /\ \/ Denied(p, {})
             \/ Denied(p, reason)
             \/ Goto(p, "approve")
             \/ Goto(p, "handler")
    BY <1>3 DEF Evaluate
  <2>4. reason \in Text  BY <2>1, QuotedType
  <2>5. trail' \in [Callers -> Seq(Event)]  BY <1>m, <2>3, <2>4, LogType
  <2>6. pc' \in [Callers -> Locations] /\ reply' \in [Callers -> Reply]
    BY <1>e, <1>l, <2>3, <2>4, FinishType, GotoType DEF Denied
  <2> QED  BY <1>3, <2>2, <2>5, <2>6 DEF Evaluate, TypeOK
<1>4. ASSUME NEW p \in Callers, Approve(p) \/ Answer(p)
      PROVE  TypeOK'
  <2>1. granted' \in [Callers -> BOOLEAN]
    BY <1>4 DEF Approve, Answer, Granted, Refused, ApprovalFailed, TypeOK
  <2>2. trail' \in [Callers -> Seq(Event)]
    <3>1. \/ Log(p, Warning, "approval_missing", {})
          \/ Log(p, Info, "approval_granted", {})
          \/ Log(p, Warning, "approval_denied", {})
          \/ Log(p, Error, "approval_error", {})
          \/ UNCHANGED trail
      BY <1>4 DEF Approve, Answer, Granted, Refused, ApprovalFailed
    <3> QED  BY <1>e, <1>m, <3>1, LogType DEF TypeOK
  <2>3. \/ Goto(p, "handler") \/ Goto(p, "prompt") \/ Denied(p, {}) \/ Failed(p, {})
    BY <1>4 DEF Approve, Answer, Granted, Refused, ApprovalFailed
  <2>4. pc' \in [Callers -> Locations] /\ reply' \in [Callers -> Reply]
    BY <1>e, <1>l, <2>3, FinishType, GotoType DEF Denied, Failed
  <2> QED  BY <1>4, <2>1, <2>2, <2>4 DEF Approve, Answer, TypeOK
<1>5. ASSUME NEW p \in Callers, Handle(p)
      PROVE  TypeOK'
  <2>1. ran' \in [Callers -> BOOLEAN]  BY <1>5 DEF Handle, TypeOK
  <2>2. PICK o \in Outputs :
          \/ /\ output' = [output EXCEPT ![p] =
                  [words |-> o.words, long |-> o.long, untrusted |-> FALSE]]
             /\ Goto(p, "result")
             /\ UNCHANGED trail
          \/ /\ Log(p, Error, "tool_execution_failed", o.words)
             /\ Failed(p, o.words)
             /\ UNCHANGED output
    BY <1>5 DEF Handle
  <2>3. o.words \in Text /\ o.long \in BOOLEAN  BY MediatorAssumption DEF Output
  <2>4. output' \in [Callers -> Result]
    <3>1. [words |-> o.words, long |-> o.long, untrusted |-> FALSE] \in Result
      BY <2>3 DEF Result
    <3> QED  BY <2>2, <3>1 DEF TypeOK
  <2>5. trail' \in [Callers -> Seq(Event)]  BY <1>m, <2>2, <2>3, LogType DEF TypeOK
  <2>6. pc' \in [Callers -> Locations] /\ reply' \in [Callers -> Reply]
    BY <1>l, <2>2, <2>3, FinishType, GotoType DEF Failed
  <2> QED  BY <1>5, <2>1, <2>4, <2>5, <2>6 DEF Handle, TypeOK
<1>6. ASSUME NEW p \in Callers, CheckResult(p)
      PROVE  TypeOK'
  <2>1. CASE conf.sandbox /\ OversizeResult(output[p])
    <3>1. /\ pc' \in [Callers -> Locations]
          /\ reply' \in [Callers -> Reply]
          /\ trail' \in [Callers -> Seq(Event)]
      BY <1>6, <1>e, <1>m, <2>1, LogType, FinishType DEF CheckResult, Denied
    <3> QED  BY <1>6, <2>1, <3>1 DEF CheckResult, TypeOK
  <2>2. CASE ~(conf.sandbox /\ OversizeResult(output[p]))
    <3> DEFINE safe == Redacted(output[p].words)
               untrusted == Untrusted(call[p], output[p].words)
    <3>1. output[p] \in Result /\ output[p].words \in Text  BY DEF TypeOK, Result
    <3>2. safe \in Text /\ TaintFragments(safe) \in Text  BY <3>1, RedactedType
    <3>3. untrusted \in BOOLEAN  BY DEF Untrusted, UntrustedSource, Detect
    <3>4. output' \in [Callers -> Result]
      <4>1. [words |-> safe, long |-> output[p].long, untrusted |-> untrusted] \in Result
        BY <3>1, <3>2, <3>3 DEF Result
      <4>2. output' = [output EXCEPT ![p] =
              [words |-> safe, long |-> output[p].long, untrusted |-> untrusted]]
        BY <1>6, <2>2 DEF CheckResult
      <4> QED  BY <4>1, <4>2 DEF TypeOK
    <3>5. taint' \in [Stores -> Text]
      <4>1. taint[Tracker(ctx[p])] \cup TaintFragments(safe) \in Text
        BY <3>2, TrackerType DEF TypeOK, Text
      <4>2. \/ taint' = [taint EXCEPT ![Tracker(ctx[p])] = @ \cup TaintFragments(safe)]
            \/ UNCHANGED taint
        BY <1>6, <2>2 DEF CheckResult, AddOutput
      <4> QED  BY <4>1, <4>2 DEF TypeOK
    <3>6. pc' \in [Callers -> Locations] /\ reply' \in [Callers -> Reply]
      BY <1>6, <1>l, <2>2, GotoType DEF CheckResult
    <3> QED  BY <1>6, <2>2, <3>4, <3>5, <3>6 DEF CheckResult, TypeOK
  <2> QED  BY <2>1, <2>2
<1>7. ASSUME NEW p \in Callers, Return(p)
      PROVE  TypeOK'
  <2>1. output[p].words \in Text /\ output[p].untrusted \in BOOLEAN
    BY DEF TypeOK, Result
  <2>2. trail' \in [Callers -> Seq(Event)]  BY <1>7, <1>e, <1>m, LogType DEF Return
  <2>3. pc' \in [Callers -> Locations] /\ reply' \in [Callers -> Reply]
    BY <1>7, <2>1, FinishType DEF Return
  <2>4. shown' \in [Stores -> Text]
    BY <1>7, <2>1, TrackerType DEF Return, TypeOK, Text
  <2> QED  BY <1>7, <2>2, <2>3, <2>4 DEF Return, TypeOK
<1>8. CASE Cancel
  BY <1>8 DEF Cancel, TypeOK
<1>9. CASE UNCHANGED vars
  BY <1>9 DEF vars, state, TypeOK
<1> QED  BY <1>1, <1>2, <1>3, <1>4, <1>5, <1>6, <1>7, <1>8, <1>9 DEF Next, Step, OwnStep

(* Every reachable state is of the types TypeOK gives.                     *)
THEOREM TypeCorrect == Spec => []TypeOK
<1>1. Init => TypeOK  BY InitType
<1>2. TypeOK /\ [Next]_vars => TypeOK'  BY NextType
<1> QED  BY <1>1, <1>2, PTL DEF Spec

(***************************************************************************)
(* The inductive invariant.  Each conjunct says what Execute has already   *)
(* established for a caller by the time it reaches a location.             *)
(***************************************************************************)
Judged == {"decide", "approve", "prompt", "handler", "result", "return"}

(* Past the sandbox: the call is one it does not reject, in the form that  *)
(* it gives a call.                                                        *)
Settled(c) == ~Rejects(c) /\ Normalised(c) = c
Accepted(p) ==
  pc[p] # "idle" \/ ran[p] => (conf.sandbox => Settled(call[p]))

(* The conversation's memory of untrusted text only grows.                 *)
Remembered(p) == known[p] \subseteq shown[Tracker(ctx[p])]

(* Past the taint check: no sensitive argument repeats what was known.     *)
Unrepeated(p) ==
  \A n \in SensitiveArguments(call[p]) :
    ~FindInValue(TaintFragments(known[p]), call[p].args[n].words)

Clean(p) == pc[p] \in Judged \/ ran[p] => Unrepeated(p)

(* Past the policy: the decision asks, or it is met.                       *)
Asked(p) ==
  /\ Decide(call[p]).decision = "ask"
  /\ Decide(call[p]).audit => AuditEnabled

Approved(p) ==
  /\ pc[p] \in {"approve", "prompt"} => Asked(p)
  /\ pc[p] \in {"handler", "result", "return"} \/ ran[p] => Authorised(p)

(* Past classification: the result is masked, marked and tracked.          *)
Marked(c, words, untrusted) ==
  conf.redactor =>
    /\ words \cap Secrets = {}
    /\ UntrustedSource(c) \/ words \cap Injections # {} => untrusted

Classified(p) ==
  pc[p] = "return" =>
    /\ Marked(call[p], output[p].words, output[p].untrusted)
    /\ output[p].untrusted =>
         TaintFragments(output[p].words) \subseteq taint[Tracker(ctx[p])]

Established(p) ==
  /\ Accepted(p) /\ Remembered(p) /\ Clean(p) /\ Approved(p) /\ Classified(p)

(* A finished call: what it returned is masked and marked.                 *)
Delivered(p) ==
  pc[p] = "idle" /\ reply[p].kind = "result" =>
    Marked(call[p], reply[p].words, reply[p].untrusted)

IInv ==
  /\ TypeOK
  /\ SeenIsTracked
  /\ \A p \in Callers : Established(p) /\ Delivered(p)

(***************************************************************************)
(* Facts about the sandbox and the trackers.                               *)
(***************************************************************************)
(* A call the sandbox accepts is one it would accept again, normalised.    *)
LEMMA NormalisedAccepted ==
  ASSUME NEW c \in Call, ~Rejects(c)
  PROVE  ~Rejects(Normalised(c))
<1> DEFINE d == Normalised(c)
<1>1. d.tool = c.tool /\ d.action = c.action  BY DEF Normalised, Call
<1>2. ASSUME NEW n \in ArgNames
      PROVE  d.args[n] = NormalisedArg(c, n)
  BY DEF Normalised, Call
<1>3. RequiredArgs(c) \subseteq ArgNames /\ OptionalArgs(c) \subseteq ArgNames
  BY DEF RequiredArgs, OptionalArgs, ArgNames
<1>4. ASSUME NEW n \in ArgNames
      PROVE  /\ Usable(d, n) <=> Usable(c, n)
             /\ Present(d, n) <=> Present(c, n)
             /\ Acceptable(c, n) => Acceptable(d, n)
             /\ d.args[n].form = "refused" <=> c.args[n].form = "refused"
  <2>1. CASE d.args[n] = c.args[n]
    BY <2>1 DEF Usable, Present, Acceptable
  <2>2. CASE d.args[n] = [form |-> "rooted", words |-> c.args[n].words] /\ Usable(c, n)
    BY <2>2 DEF Usable, Present, Acceptable
  <2>3. CASE /\ d.args[n] = [form |-> "empty", words |-> {}]
             /\ n = "package" /\ c.args[n].form \in {"blank", "other"}
    BY <2>3 DEF Usable, Present, Acceptable
  <2> QED  BY <1>2, <2>1, <2>2, <2>3 DEF NormalisedArg
<1>5. "package" \in ArgNames  BY DEF ArgNames
<1>6. RequiredArgs(d) = RequiredArgs(c)  BY <1>1 DEF RequiredArgs
<1>7. OptionalArgs(d) = OptionalArgs(c)  BY <1>1, <1>4, <1>5 DEF OptionalArgs
<1>8. RefusedArgs(d) \subseteq RefusedArgs(c)
  BY <1>1, <1>3, <1>4, <1>5, <1>6, <1>7 DEF RefusedArgs
<1>9. RefusedAction(d) <=> RefusedAction(c)  BY <1>1 DEF RefusedAction
<1> QED  BY <1>8, <1>9 DEF Rejects

(***************************************************************************)
(* A step of one caller leaves the others as they are, and a tracker and a *)
(* conversation only gain.                                                 *)
(***************************************************************************)
Same(q) ==
  /\ pc'[q] = pc[q] /\ ctx'[q] = ctx[q] /\ call'[q] = call[q]
  /\ output'[q] = output[q] /\ reply'[q] = reply[q]
  /\ known'[q] = known[q] /\ granted'[q] = granted[q] /\ ran'[q] = ran[q]

Gains ==
  /\ conf' = conf
  /\ \A s \in Stores : taint[s] \subseteq taint'[s] /\ shown[s] \subseteq shown'[s]

(* What was established for a caller that did not move still is.           *)
LEMMA Undisturbed ==
  ASSUME NEW q \in Callers, Established(q), Delivered(q), Gains, Same(q)
  PROVE  Established(q)' /\ Delivered(q)'
<1>1. Accepted(q)'
  BY DEF Established, Accepted, Gains, Same
<1>2. Remembered(q)'
  <2>1. Tracker(ctx[q]) \in Stores  BY TrackerType
  <2> QED  BY <2>1 DEF Established, Remembered, Gains, Same
<1>3. Clean(q)'
  BY DEF Established, Clean, Unrepeated, Same
<1>4. Approved(q)'
  BY DEF Established, Approved, Asked, Authorised, AuditEnabled, Gains, Same
<1>5. Classified(q)'
  <2>1. Tracker(ctx[q]) \in Stores  BY TrackerType
  <2> QED  BY <2>1 DEF Established, Classified, Marked, Gains, Same
<1>6. Delivered(q)'
  BY DEF Delivered, Marked, Gains, Same
<1> QED  BY <1>1, <1>2, <1>3, <1>4, <1>5, <1>6 DEF Established

(* Only the caller that steps moves.                                       *)
LEMMA StepsAlone ==
  ASSUME TypeOK, NEW p \in Callers,
         \/ \E x \in Contexts, c \in Proposals : Execute(p, x, c)
         \/ Step(p) \/ Answer(p)
  PROVE  \A q \in Callers \ {p} : Same(q)
<1>1. ASSUME NEW x \in Contexts, NEW c \in Proposals, Execute(p, x, c)
      PROVE  \A q \in Callers \ {p} : Same(q)
  BY <1>1 DEF Execute, Goto, Denied, Finish, TypeOK, Same
<1>2. CASE CheckTaint(p)
  BY <1>2 DEF CheckTaint, history, Goto, Denied, Finish, TypeOK, Same
<1>3. CASE Evaluate(p)
  BY <1>3 DEF Evaluate, history, Goto, Denied, Finish, TypeOK, Same
<1>4. CASE Approve(p) \/ Answer(p)
  <2>1. \/ Granted(p) \/ Refused(p) \/ ApprovalFailed(p)
        \/ UNCHANGED granted /\ (Denied(p, {}) \/ Goto(p, "prompt"))
    BY <1>4 DEF Approve, Answer
  <2>2. \A q \in Callers \ {p} : pc'[q] = pc[q] /\ reply'[q] = reply[q]
    BY <2>1 DEF Granted, Refused, ApprovalFailed, Goto, Denied, Failed, Finish, TypeOK
  <2>3. \A q \in Callers \ {p} : granted'[q] = granted[q]
    BY <2>1 DEF Granted, Refused, ApprovalFailed, TypeOK
  <2> QED  BY <1>4, <2>2, <2>3 DEF Approve, Answer, Same
<1>5. CASE Handle(p)
  BY <1>5 DEF Handle, Goto, Failed, Finish, TypeOK, Same
<1>6. CASE CheckResult(p)
  BY <1>6 DEF CheckResult, history, Goto, Denied, Finish, TypeOK, Same
<1>7. CASE Return(p)
  BY <1>7 DEF Return, Finish, TypeOK, Same
<1> QED  BY <1>1, <1>2, <1>3, <1>4, <1>5, <1>6, <1>7 DEF Step, OwnStep

(* The step of a caller p keeps the invariant when it keeps it for p.      *)
Moved(p) ==
  /\ Established(p)' /\ Delivered(p)' /\ SeenIsTracked' /\ Gains
  /\ \A q \in Callers \ {p} : Same(q)

LEMMA MovedKeeps ==
  ASSUME IInv, TypeOK', NEW p \in Callers, Moved(p)
  PROVE  IInv'
<1>1. ASSUME NEW q \in Callers
      PROVE  Established(q)' /\ Delivered(q)'
  <2>1. CASE q = p  BY <2>1 DEF Moved
  <2>2. CASE q # p  BY <2>2, Undisturbed DEF Moved, IInv
  <2> QED  BY <2>1, <2>2
<1> QED  BY <1>1 DEF IInv, Moved

(***************************************************************************)
(* The steps of Execute.                                                   *)
(***************************************************************************)
(* A call enters with nothing established but the sandbox's consent.      *)
(* What the sandbox has normalised it leaves as it is.                     *)
LEMMA NormalisedTwice ==
  ASSUME NEW c \in Call
  PROVE  Normalised(Normalised(c)) = Normalised(c)
<1> DEFINE d == Normalised(c)
<1>1. d.tool = c.tool /\ d.action = c.action  BY DEF Normalised, Call
<1>2. d.args = [n \in ArgNames |-> NormalisedArg(c, n)]  BY DEF Normalised, Call
<1>3. ASSUME NEW n \in ArgNames
      PROVE  NormalisedArg(d, n) = d.args[n]
  <2>1. d.args[n] = NormalisedArg(c, n)  BY <1>2
  <2>2. CASE NormalisedArg(c, n) = c.args[n]
    BY <1>1, <2>1, <2>2 DEF NormalisedArg, Usable
  <2>3. CASE /\ n = "path" /\ c.tool \in {"fs", "git", "shell", "pkg"}
             /\ NormalisedArg(c, n) = [form |-> "rooted", words |-> c.args[n].words]
    BY <1>1, <2>1, <2>3 DEF NormalisedArg, Usable
  <2>4. CASE n = "package" /\ NormalisedArg(c, n) = [form |-> "empty", words |-> {}]
    BY <1>1, <2>1, <2>4 DEF NormalisedArg, Usable
  <2> QED  BY <2>2, <2>3, <2>4 DEF NormalisedArg
<1>4. [n \in ArgNames |-> NormalisedArg(d, n)] = d.args
  BY <1>2, <1>3
<1>5. d \in Call  BY NormalisedType
<1>6. Normalised(d) = [d EXCEPT !.args = d.args]  BY <1>4 DEF Normalised
<1> HIDE DEF d
<1>7. [d EXCEPT !.args = d.args] = d  BY <1>5 DEF Call
<1> QED  BY <1>6, <1>7 DEF d

LEMMA ExecuteKeeps ==
  ASSUME IInv, TypeOK', NEW p \in Callers, NEW x \in Contexts, NEW c \in Proposals,
         Execute(p, x, c)
  PROVE  IInv'
<1> USE DEF IInv
<1>1. /\ ctx'[p] = x /\ known'[p] = shown[Tracker(x)] /\ ran'[p] = FALSE
      /\ conf' = conf /\ taint' = taint /\ shown' = shown /\ output' = output
  BY DEF Execute, TypeOK
<1>2. \A q \in Callers \ {p} : Same(q)
  BY StepsAlone
<1>3. \/ pc'[p] = "idle" /\ reply'[p].kind = "denied"
      \/ /\ pc'[p] = "taint"
         /\ conf.sandbox => Settled(call'[p])
  <2>1. CASE conf.sandbox /\ Rejects(c)
    BY <2>1 DEF Execute, Denied, Finish, TypeOK
  <2>2. CASE ~(conf.sandbox /\ Rejects(c))
    <3>1. c \in Call  BY MediatorAssumption
    <3>2. pc'[p] = "taint" /\ call'[p] = IF conf.sandbox THEN Normalised(c) ELSE c
      BY <2>2 DEF Execute, Goto, TypeOK
    <3> QED  BY <2>2, <3>1, <3>2, NormalisedAccepted, NormalisedTwice DEF Settled
  <2> QED  BY <2>1, <2>2
<1>4. Established(p)' /\ Delivered(p)'
  BY <1>1, <1>3 DEF Established, Accepted, Remembered, Clean, Judged, Approved,
     Classified, Delivered
<1>5. SeenIsTracked' /\ Gains  BY <1>1 DEF SeenIsTracked, Gains
<1> QED  BY <1>2, <1>4, <1>5, MovedKeeps DEF Moved

(* The taint check establishes Clean.                                      *)
LEMMA CheckTaintKeeps ==
  ASSUME IInv, TypeOK', NEW p \in Callers, CheckTaint(p)
  PROVE  IInv'
<1> USE DEF IInv
<1>1. /\ pc[p] = "taint" /\ UNCHANGED <<conf, ctx, call, output, taint, shown, known, granted, ran>>
  BY DEF CheckTaint, history
<1>2. \A q \in Callers \ {p} : Same(q)
  BY StepsAlone DEF Step, OwnStep
<1>3. \/ pc'[p] = "idle" /\ reply'[p].kind = "denied"
      \/ pc'[p] = "decide" /\ TaintedArguments(call[p], taint[Tracker(ctx[p])]) = {}
  BY DEF CheckTaint, Goto, Denied, Finish, TypeOK
<1>4. TaintFragments(known[p]) \subseteq taint[Tracker(ctx[p])]
  BY TrackerType DEF Established, Remembered, SeenIsTracked, TaintFragments
<1>5. TaintedArguments(call[p], taint[Tracker(ctx[p])]) = {} => Unrepeated(p)
  BY <1>4 DEF TaintedArguments, Unrepeated, FindInValue
<1>6. Clean(p)'
  BY <1>1, <1>3, <1>5 DEF Established, Clean, Unrepeated, Judged
<1>7. Accepted(p)' /\ Remembered(p)'
  BY <1>1, <1>3 DEF Established, Accepted, Remembered
<1>8. Approved(p)' /\ Classified(p)' /\ Delivered(p)'
  BY <1>1, <1>3 DEF Established, Approved, Authorised, AuditEnabled, Classified, Delivered
<1>9. SeenIsTracked' /\ Gains  BY <1>1 DEF SeenIsTracked, Gains
<1> QED  BY <1>2, <1>6, <1>7, <1>8, <1>9, MovedKeeps DEF Moved, Established

(* The policy decision establishes Asked, or Authorised.                   *)
LEMMA EvaluateKeeps ==
  ASSUME IInv, TypeOK', NEW p \in Callers, Evaluate(p)
  PROVE  IInv'
<1> USE DEF IInv
<1>1. /\ pc[p] = "decide" /\ UNCHANGED <<conf, ctx, call, output, taint, shown, known, granted, ran>>
  BY DEF Evaluate, history
<1>2. \A q \in Callers \ {p} : Same(q)
  BY StepsAlone DEF Step, OwnStep
<1>3. \/ pc'[p] = "idle" /\ reply'[p].kind = "denied"
      \/ pc'[p] = "approve" /\ Asked(p)
      \/ pc'[p] = "handler" /\ Authorised(p)
  BY DEF Evaluate, Goto, Denied, Finish, TypeOK, Asked, Authorised
<1>4. Clean(p)'
  BY <1>1, <1>3 DEF Established, Clean, Unrepeated, Judged
<1>5. Accepted(p)' /\ Remembered(p)'
  BY <1>1, <1>3 DEF Established, Accepted, Remembered
<1>6. Approved(p)'
  BY <1>1, <1>3 DEF Established, Approved, Asked, Authorised, AuditEnabled
<1>7. Classified(p)' /\ Delivered(p)'
  BY <1>1, <1>3 DEF Classified, Delivered
<1>8. SeenIsTracked' /\ Gains  BY <1>1 DEF SeenIsTracked, Gains
<1> QED  BY <1>2, <1>4, <1>5, <1>6, <1>7, <1>8, MovedKeeps DEF Moved, Established

(* The approval makes Asked Authorised.                                    *)
LEMMA ApproveKeeps ==
  ASSUME IInv, TypeOK', NEW p \in Callers, Approve(p) \/ Answer(p)
  PROVE  IInv'
<1> USE DEF IInv
<1>1. /\ pc[p] \in {"approve", "prompt"}
      /\ UNCHANGED <<conf, ctx, call, output, taint, shown, known, ran>>
  BY DEF Approve, Answer
<1>2. \A q \in Callers \ {p} : Same(q)
  BY StepsAlone DEF Step, OwnStep
<1>3. \/ pc'[p] = "idle" /\ reply'[p].kind # "result" /\ granted' = granted
      \/ pc'[p] = "prompt" /\ granted' = granted
      \/ pc'[p] = "handler" /\ granted'[p] = TRUE
  BY DEF Approve, Answer, Granted, Refused, ApprovalFailed, Goto, Denied, Failed,
     Finish, TypeOK
<1>4. Clean(p)'
  BY <1>1, <1>3 DEF Established, Clean, Unrepeated, Judged
<1>5. Accepted(p)' /\ Remembered(p)'
  BY <1>1, <1>3 DEF Established, Accepted, Remembered
<1>6. Approved(p)'
  <2>1. Asked(p)  BY <1>1 DEF Established, Approved
  <2>2. CASE pc'[p] = "handler" /\ granted'[p] = TRUE
    BY <1>1, <2>1, <2>2 DEF Approved, Asked, Authorised, AuditEnabled
  <2>3. CASE pc'[p] # "handler" /\ granted' = granted
    BY <1>1, <1>3, <2>1, <2>3 DEF Established, Approved, Asked, Authorised, AuditEnabled
  <2> QED  BY <1>3, <2>2, <2>3
<1>7. Classified(p)' /\ Delivered(p)'
  BY <1>1, <1>3 DEF Classified, Delivered
<1>8. SeenIsTracked' /\ Gains  BY <1>1 DEF SeenIsTracked, Gains
<1> QED  BY <1>2, <1>4, <1>5, <1>6, <1>7, <1>8, MovedKeeps DEF Moved, Established

(* The handler runs on what is Authorised and Clean.                       *)
LEMMA HandleKeeps ==
  ASSUME IInv, TypeOK', NEW p \in Callers, Handle(p)
  PROVE  IInv'
<1> USE DEF IInv
<1>1. /\ pc[p] = "handler"
      /\ UNCHANGED <<conf, ctx, call, taint, shown, known, granted>>
  BY DEF Handle
<1>2. \A q \in Callers \ {p} : Same(q)
  BY StepsAlone DEF Step, OwnStep
<1>3. \/ pc'[p] = "idle" /\ reply'[p].kind = "error"
      \/ pc'[p] = "result"
  BY DEF Handle, Goto, Failed, Finish, TypeOK
<1>4. Clean(p)'
  BY <1>1, <1>3 DEF Established, Clean, Unrepeated, Judged
<1>5. Accepted(p)' /\ Remembered(p)'
  BY <1>1, <1>3 DEF Established, Accepted, Remembered
<1>6. Approved(p)'
  BY <1>1, <1>3 DEF Established, Approved, Asked, Authorised, AuditEnabled
<1>7. Classified(p)' /\ Delivered(p)'
  BY <1>1, <1>3 DEF Classified, Delivered
<1>8. SeenIsTracked' /\ Gains  BY <1>1 DEF SeenIsTracked, Gains
<1> QED  BY <1>2, <1>4, <1>5, <1>6, <1>7, <1>8, MovedKeeps DEF Moved, Established

(* The classification establishes Classified.                              *)
LEMMA CheckResultKeeps ==
  ASSUME IInv, TypeOK', NEW p \in Callers, CheckResult(p)
  PROVE  IInv'
<1> USE DEF IInv
<1> DEFINE safe == Redacted(output[p].words)
           untrusted == Untrusted(call[p], output[p].words)
           s == Tracker(ctx[p])
<1>1. /\ pc[p] = "result"
      /\ UNCHANGED <<conf, ctx, call, shown, known, granted, ran>>
  BY DEF CheckResult, history
<1>2. s \in Stores  BY TrackerType
<1>3. \A q \in Callers \ {p} : Same(q)
  BY StepsAlone DEF Step, OwnStep
<1>4. \/ pc'[p] = "idle" /\ reply'[p].kind = "denied" /\ taint' = taint
      \/ /\ pc'[p] = "return"
         /\ output'[p] = [words |-> safe, long |-> output[p].long, untrusted |-> untrusted]
         /\ taint' = IF untrusted THEN [taint EXCEPT ![s] = @ \cup TaintFragments(safe)]
                                  ELSE taint
  BY DEF CheckResult, AddOutput, Goto, Denied, Finish, TypeOK
<1>5. Gains
  <2>1. CASE taint' = taint  BY <2>1, <1>1 DEF Gains
  <2>2. CASE taint' = [taint EXCEPT ![s] = @ \cup TaintFragments(safe)]
    <3>1. \A r \in Stores : taint'[r] = IF r = s THEN taint[s] \cup TaintFragments(safe)
                                      ELSE taint[r]
      <4> HIDE DEF s
      <4> QED BY <2>2 DEF TypeOK
    <3> QED BY <1>1, <3>1 DEF Gains
  <2> QED BY <1>4, <2>1, <2>2
<1>6. SeenIsTracked'  BY <1>1, <1>5 DEF SeenIsTracked, Gains
<1>7. Classified(p)'
  <2>1. CASE pc'[p] = "idle"  BY <2>1 DEF Classified
  <2>2. CASE pc'[p] # "idle"
    <3>1. conf.redactor => safe \cap Secrets = {}
      BY DEF Redacted, RedactText
    <3>2. conf.redactor /\ (UntrustedSource(call[p]) \/ safe \cap Injections # {}) => untrusted
      BY DEF Redacted, RedactText, Untrusted, Detect
    <3>3. untrusted => TaintFragments(safe) \subseteq taint'[s]
      BY <1>2, <1>4, <2>2 DEF TypeOK
    <3>4. output'[p].words = safe /\ output'[p].untrusted = untrusted
      BY <1>4, <2>2
    <3> HIDE DEF safe, untrusted
    <3> QED  BY <1>1, <3>1, <3>2, <3>3, <3>4 DEF Classified, Marked
  <2> QED  BY <2>1, <2>2
<1>8. Clean(p)'
  BY <1>1, <1>4 DEF Established, Clean, Unrepeated, Judged
<1>9. Accepted(p)' /\ Remembered(p)'
  BY <1>1, <1>4 DEF Established, Accepted, Remembered
<1>10. Approved(p)'
  BY <1>1, <1>4 DEF Established, Approved, Asked, Authorised, AuditEnabled
<1>11. Delivered(p)'
  BY <1>1, <1>4 DEF Delivered
<1> QED  BY <1>3, <1>5, <1>6, <1>7, <1>8, <1>9, <1>10, <1>11, MovedKeeps
         DEF Moved, Established

(* The conversation is told only what its tracker holds.                   *)
LEMMA ReturnKeeps ==
  ASSUME IInv, TypeOK', NEW p \in Callers, Return(p)
  PROVE  IInv'
<1> USE DEF IInv
<1> DEFINE s == Tracker(ctx[p])
<1>1. /\ pc[p] = "return" /\ pc'[p] = "idle"
      /\ reply'[p].words = output[p].words /\ reply'[p].untrusted = output[p].untrusted
      /\ UNCHANGED <<conf, ctx, call, output, taint, known, granted, ran>>
  BY DEF Return, Finish, TypeOK
<1>2. s \in Stores  BY TrackerType
<1>3. \A q \in Callers \ {p} : Same(q)
  BY StepsAlone DEF Step, OwnStep
<1>4. shown' = IF output[p].untrusted
               THEN [shown EXCEPT ![s] = @ \cup output[p].words] ELSE shown
  BY DEF Return
<1>5. Gains  BY <1>1, <1>4 DEF Gains, TypeOK
<1>6. SeenIsTracked'
  <2>1. output[p].untrusted => TaintFragments(output[p].words) \subseteq taint[s]
    BY <1>1 DEF Established, Classified
  <2>2. ASSUME NEW t \in Stores
        PROVE  TaintFragments(shown'[t]) \subseteq taint[t]
    <3>1. TaintFragments(shown[t]) \subseteq taint[t]  BY DEF SeenIsTracked
    <3>2. \/ shown'[t] = shown[t]
          \/ t = s /\ output[p].untrusted /\ shown'[t] = shown[t] \cup output[p].words
      BY <1>4 DEF TypeOK
    <3> QED  BY <2>1, <3>1, <3>2 DEF TaintFragments
  <2> QED  BY <1>1, <2>2 DEF SeenIsTracked
<1>7. Delivered(p)'
  BY <1>1 DEF Established, Classified, Delivered, Marked
<1>8. Clean(p)'
  BY <1>1 DEF Established, Clean, Unrepeated, Judged
<1>9. Accepted(p)'
  BY <1>1 DEF Established, Accepted
<1>10. Remembered(p)'
  BY <1>1, <1>2, <1>5 DEF Established, Remembered, Gains
<1>11. Approved(p)'
  BY <1>1 DEF Established, Approved, Authorised, AuditEnabled
<1>12. Classified(p)'  BY <1>1 DEF Classified
<1> QED  BY <1>3, <1>5, <1>6, <1>7, <1>8, <1>9, <1>10, <1>11, <1>12, MovedKeeps
         DEF Moved, Established

(***************************************************************************)
(* The invariant holds, and with it the safety properties.                 *)
(***************************************************************************)
(* The invariant holds initially, and every step keeps it.                 *)
LEMMA InitInvariant == Init => IInv
<1> SUFFICES ASSUME Init PROVE IInv
  OBVIOUS
<1>1. TypeOK  BY InitType
<1>2. SeenIsTracked  BY DEF Init, SeenIsTracked, TaintFragments
<1>3. ASSUME NEW p \in Callers
      PROVE  Established(p) /\ Delivered(p)
  BY DEF Init, Established, Accepted, Remembered, Clean, Judged, Approved,
     Classified, Delivered
<1> QED  BY <1>1, <1>2, <1>3 DEF IInv

LEMMA NextInvariant == IInv /\ [Next]_vars => IInv'
<1> SUFFICES ASSUME IInv, [Next]_vars PROVE IInv'
  OBVIOUS
<1>1. TypeOK'  BY NextType DEF IInv
<1>2. ASSUME UNCHANGED <<conf, pc, ctx, call, output, reply, taint, shown, known, granted, ran>>
      PROVE  IInv'
  <2>1. Gains /\ \A q \in Callers : Same(q)  BY <1>2 DEF Gains, Same
  <2>2. SeenIsTracked'  BY <1>2 DEF IInv, SeenIsTracked
  <2> QED  BY <1>1, <2>1, <2>2, Undisturbed DEF IInv
<1>3. CASE Cancel  BY <1>2, <1>3 DEF Cancel, history
<1>4. CASE UNCHANGED vars  BY <1>2, <1>4 DEF vars, state, history
<1>5. ASSUME NEW p \in Callers, NEW x \in Contexts, NEW c \in Proposals, Execute(p, x, c)
      PROVE  IInv'
  BY <1>1, <1>5, ExecuteKeeps
<1>6. ASSUME NEW p \in Callers, Step(p) \/ Answer(p)
      PROVE  IInv'
  BY <1>1, <1>6, CheckTaintKeeps, EvaluateKeeps, ApproveKeeps, HandleKeeps,
     CheckResultKeeps, ReturnKeeps DEF Step, OwnStep
<1> QED  BY <1>3, <1>4, <1>5, <1>6 DEF Next

(* So it holds always.                                                    *)
THEOREM Invariant == Spec => []IInv
<1>1. Init => IInv  BY InitInvariant
<1>2. IInv /\ [Next]_vars => IInv'  BY NextInvariant
<1> QED  BY <1>1, <1>2, PTL DEF Spec

(* No handler runs without the policy's consent, the approval and the      *)
(* audit trail it asks for, on a call the sandbox accepts.                 *)
THEOREM EffectsAreAuthorised == Spec => []EffectsAuthorised
<1>1. IInv => EffectsAuthorised
  BY DEF IInv, Established, Approved, Accepted, Settled, EffectsAuthorised
<1> QED  BY <1>1, Invariant, PTL

(* Untrusted text is in the tracker before the conversation has it.        *)
THEOREM TrackedBeforeSeen == Spec => []SeenIsTracked
<1>1. IInv => SeenIsTracked  BY DEF IInv
<1> QED  BY <1>1, Invariant, PTL

(* No handler runs on a call that repeats, in a sensitive argument,        *)
(* untrusted text its conversation had.                                    *)
THEOREM NothingTaintedRuns == Spec => []NoTaintedRun
<1>1. IInv => NoTaintedRun
  BY DEF IInv, Established, Clean, Judged, Unrepeated, NoTaintedRun
<1> QED  BY <1>1, Invariant, PTL

(* With a redactor, a result holds no secret, and is marked untrusted when *)
(* its source is or when it holds an injection.                            *)
THEOREM DeliversSafely == Spec => []DeliveredIsSafe
<1>1. IInv => DeliveredIsSafe
  BY DEF IInv, Delivered, Marked, DeliveredIsSafe
<1> QED  BY <1>1, Invariant, PTL

(***************************************************************************)
(* What the caller of Execute may rely on.                                 *)
(***************************************************************************)
(* A call enters with its context and all its conversation was told so     *)
(* far, and one that is denied at once tells the conversation nothing.     *)
LEMMA ExecuteEnters ==
  ASSUME TypeOK, NEW p \in Callers, NEW x \in Contexts, NEW c \in Proposals,
         Execute(p, x, c)
  PROVE  /\ conf' = conf /\ shown' = shown /\ taint' = taint
         /\ ctx'[p] = x /\ known'[p] = shown[Tracker(x)] /\ ran'[p] = FALSE
         /\ \/ pc'[p] = "idle" /\ reply'[p].kind = "denied" /\ ~reply'[p].untrusted
            \/ /\ pc'[p] = "taint" /\ ~(conf.sandbox /\ Rejects(c))
               /\ call'[p] = IF conf.sandbox THEN Normalised(c) ELSE c
<1>1. /\ conf' = conf /\ shown' = shown /\ taint' = taint
      /\ ctx'[p] = x /\ known'[p] = shown[Tracker(x)] /\ ran'[p] = FALSE
  BY DEF Execute, TypeOK
<1>2. CASE conf.sandbox /\ Rejects(c)
  BY <1>1, <1>2 DEF Execute, Denied, Finish, TypeOK
<1>3. CASE ~(conf.sandbox /\ Rejects(c))
  BY <1>1, <1>3 DEF Execute, Goto, TypeOK
<1> QED BY <1>2, <1>3

(* Until it returns, the call, its context and what was known stay; what   *)
(* is returned as untrusted is then part of what the conversation was told.*)
LEMMA ExecuteProceeds ==
  ASSUME TypeOK, NEW p \in Callers, Step(p) \/ Answer(p)
  PROVE  /\ conf' = conf /\ ctx' = ctx /\ call' = call /\ known' = known
         /\ pc[p] # "idle"
         /\ \A s \in Stores : shown[s] \subseteq shown'[s]
         /\ pc'[p] = "idle" =>
              /\ reply'[p].kind \in {"result", "denied", "error"}
              /\ reply'[p].untrusted => reply'[p].words \subseteq shown'[Tracker(ctx[p])]
<1>1. /\ conf' = conf /\ ctx' = ctx /\ call' = call /\ known' = known /\ pc[p] # "idle"
  BY DEF Step, OwnStep, CheckTaint, Evaluate, Approve, Answer, Handle, CheckResult, Return, history
<1>2. CASE Return(p)
  <2>1. Tracker(ctx[p]) \in Stores
    BY TrackerType
  <2>2. /\ reply'[p].kind = "result" /\ reply'[p].words = output[p].words
        /\ reply'[p].untrusted = output[p].untrusted
    BY <1>2 DEF Return, Finish, TypeOK
  <2>3. shown' = IF output[p].untrusted
                 THEN [shown EXCEPT ![Tracker(ctx[p])] = @ \cup output[p].words] ELSE shown
    BY <1>2 DEF Return
  <2>4. \A s \in Stores : shown[s] \subseteq shown'[s]
    BY <2>3 DEF TypeOK
  <2>5. output[p].untrusted => output[p].words \subseteq shown'[Tracker(ctx[p])]
    BY <2>1, <2>3 DEF TypeOK
  <2> QED BY <1>1, <2>2, <2>4, <2>5
<1>3. CASE ~Return(p)
  <2>1. shown' = shown
    BY <1>3 DEF Step, OwnStep, CheckTaint, Evaluate, Approve, Answer, Handle, CheckResult, history
  <2>2. \/ \E label \in Locations \ {"idle"} : Goto(p, label)
        \/ \E words : Denied(p, words) \/ Failed(p, words)
    <3>1. CASE CheckTaint(p) \/ Evaluate(p)
      BY <3>1 DEF CheckTaint, Evaluate, Locations
    <3>2. CASE Approve(p) \/ Answer(p)
      BY <3>2 DEF Approve, Answer, Granted, Refused, ApprovalFailed, Locations
    <3>3. CASE Handle(p) \/ CheckResult(p)
      BY <3>3 DEF Handle, CheckResult, Locations
    <3> QED BY <1>3, <3>1, <3>2, <3>3 DEF Step, OwnStep
  <2>3. pc'[p] = "idle" => reply'[p].kind \in {"denied", "error"} /\ ~reply'[p].untrusted
    BY <2>2 DEF Goto, Denied, Failed, Finish, TypeOK
  <2> QED BY <1>1, <2>1, <2>3
<1> QED BY <1>2, <1>3

(***************************************************************************)
(* The audit trail, when the logger writes every severity.                 *)
(***************************************************************************)
(* The last event of the trail is one of these.                            *)
LastIs(p, msgs) ==
  trail[p] # <<>> /\ trail[p][Len(trail[p])].msg \in msgs

(* Past the taint check the call is on record, past the policy the         *)
(* decision too, and a handler runs after an approval that was asked for.  *)
OnRecord(p) ==
  /\ pc[p] \in Judged \/ ran[p] => Recorded(p, "tool_call_received")
  /\ pc[p] \in Judged \ {"decide"} \/ ran[p] => Recorded(p, "policy_decision")
  /\ pc[p] \in {"handler", "result", "return"} \/ ran[p] =>
       (verdict[p].decision = "ask" => Recorded(p, "approval_granted"))

(* Inside Execute the handler was invoked exactly when it is past it.      *)
Invoked(p) == pc[p] # "idle" => (ran[p] <=> pc[p] \in {"result", "return"})

(* What the last event of a finished call tells.                           *)
Told(p) ==
  /\ ran[p] <=> LastIs(p, {"tool_execution_succeeded", "tool_execution_failed",
                           "tool_result_rejected_by_sandbox"})
  /\ reply[p].kind = "result" <=> LastIs(p, {"tool_execution_succeeded"})
  /\ reply[p].kind = "error" <=> LastIs(p, {"tool_execution_failed", "approval_error"})

(* The two, and where the handler was invoked.                             *)
Traced(p) ==
  /\ Invoked(p)
  /\ conf.level <= Info => OnRecord(p) /\ (pc[p] = "idle" /\ trail[p] # <<>> => Told(p))

TraceInv == \A p \in Callers : Traced(p)

(* With every severity written, an event that is logged is the last, and   *)
(* no earlier one is lost.                                                 *)
LEMMA LogRecords ==
  ASSUME TypeOK, NEW p \in Callers, NEW severity \in {Info, Warning, Error},
         NEW msg \in Messages, NEW words, Log(p, severity, msg, words), conf.level <= Info
  PROVE  /\ LastIs(p, {msg})' /\ Recorded(p, msg)'
         /\ \A m : Recorded(p, m) => Recorded(p, m)'
<1>1. conf.level \in 0..4
  BY MediatorAssumption DEF TypeOK, Config, NoLogger
<1>2. ~(severity < conf.level)
  BY <1>1 DEF Info, Warning, Error
<1> DEFINE e == [msg |-> msg, words |-> words]
<1>3. trail[p] \in Seq(Event) /\ trail'[p] = Append(trail[p], e)
  BY <1>2 DEF Log, Logged, TypeOK
<1>4. /\ Len(trail'[p]) = Len(trail[p]) + 1 /\ DOMAIN trail'[p] = 1..Len(trail'[p])
      /\ trail'[p][Len(trail'[p])] = e /\ trail'[p] # <<>>
      /\ DOMAIN trail[p] = 1..Len(trail[p]) /\ Len(trail[p]) \in Nat
      /\ \A i \in DOMAIN trail[p] : trail'[p][i] = trail[p][i]
  <2> HIDE DEF e
  <2> QED BY <1>3
<1>5. e.msg = msg
  OBVIOUS
<1> HIDE DEF e
<1>6. LastIs(p, {msg})' /\ Recorded(p, msg)'
  BY <1>4, <1>5 DEF LastIs, Recorded
<1>7. \A m : Recorded(p, m) => Recorded(p, m)'
  BY <1>4 DEF Recorded
<1> QED BY <1>6, <1>7

(* The trail of another caller, and what was decided for it, stay.         *)
LEMMA TrailAlone ==
  ASSUME TypeOK, NEW p \in Callers,
         \/ \E x \in Contexts, c \in Proposals : Execute(p, x, c)
         \/ Step(p) \/ Answer(p)
  PROVE  /\ conf' = conf
         /\ \A q \in Callers \ {p} : trail'[q] = trail[q] /\ verdict'[q] = verdict[q]
<1>1. ASSUME NEW x \in Contexts, NEW c \in Proposals, Execute(p, x, c)
      PROVE  \A q \in Callers \ {p} : trail'[q] = trail[q]
  BY <1>1 DEF Execute, TypeOK
<1>2. ASSUME CheckTaint(p) \/ Evaluate(p)
      PROVE  \A q \in Callers \ {p} : trail'[q] = trail[q]
  BY <1>2 DEF CheckTaint, Evaluate, Log, TypeOK
<1>3. ASSUME Approve(p) \/ Answer(p)
      PROVE  \A q \in Callers \ {p} : trail'[q] = trail[q]
  BY <1>3 DEF Approve, Answer, Granted, Refused, ApprovalFailed, Log, TypeOK
<1>4. ASSUME Handle(p) \/ CheckResult(p) \/ Return(p)
      PROVE  \A q \in Callers \ {p} : trail'[q] = trail[q]
  BY <1>4 DEF Handle, CheckResult, Return, Log, TypeOK
<1>5. conf' = conf
  BY DEF Execute, Step, OwnStep, CheckTaint, Evaluate, Approve, Answer, Handle, CheckResult, Return
<1>6. \A q \in Callers \ {p} : verdict'[q] = verdict[q]
  BY DEF Execute, Step, OwnStep, CheckTaint, Evaluate, Approve, Answer, Handle, CheckResult, Return, TypeOK
<1> QED BY <1>1, <1>2, <1>3, <1>4, <1>5, <1>6 DEF Step, OwnStep

(* The step of a caller keeps the trails in order when it keeps its own so.*)
LEMMA TracedKeeps ==
  ASSUME TypeOK, TraceInv, NEW p \in Callers, Traced(p)',
         \/ \E x \in Contexts, c \in Proposals : Execute(p, x, c)
         \/ Step(p) \/ Answer(p)
  PROVE  TraceInv'
<1>1. /\ conf' = conf /\ \A q \in Callers \ {p} : Same(q)
      /\ \A q \in Callers \ {p} : trail'[q] = trail[q] /\ verdict'[q] = verdict[q]
  BY StepsAlone, TrailAlone
<1>2. ASSUME NEW q \in Callers \ {p}
      PROVE  Traced(q)'
  BY <1>1 DEF TraceInv, Traced, Invoked, OnRecord, Told, LastIs, Recorded, Same
<1> QED BY <1>2 DEF TraceInv

(* A refusal of the sandbox is the only event of its call.                 *)
LEMMA ExecuteTraced ==
  ASSUME TypeOK, NEW p \in Callers, NEW x \in Contexts, NEW c \in Proposals,
         Execute(p, x, c)
  PROVE  Traced(p)'
<1>1. ran'[p] = FALSE /\ conf' = conf /\ conf.level \in 0..4
  BY MediatorAssumption DEF Execute, TypeOK, Config, NoLogger
<1>2. CASE pc'[p] = "taint" /\ trail'[p] = <<>>
  BY <1>1, <1>2 DEF Traced, Invoked, OnRecord, Judged
<1>3. CASE /\ pc'[p] = "idle" /\ reply'[p].kind = "denied"
           /\ \E quoted : trail'[p] =
                Logged(<<>>, Warning, "tool_call_rejected_by_sandbox", quoted)
  <2>1. conf.level <= Info => /\ Len(trail'[p]) = 1
                              /\ trail'[p][1].msg = "tool_call_rejected_by_sandbox"
    BY <1>1, <1>3 DEF Logged, Info, Warning
  <2> QED BY <1>1, <1>3, <2>1 DEF Traced, Invoked, OnRecord, Judged, Told, LastIs
<1> QED BY <1>2, <1>3 DEF Execute, Goto, Denied, Finish, TypeOK

(* A call that passes the taint check is on record, one that does not ends *)
(* with the refusal as its last event.                                     *)
LEMMA CheckTaintTraced ==
  ASSUME TypeOK, TraceInv, NEW p \in Callers, CheckTaint(p)
  PROVE  Traced(p)'
<1>1. pc[p] = "taint" /\ ran'[p] = FALSE /\ conf' = conf
  BY DEF CheckTaint, history, TraceInv, Traced, Invoked
<1>2. \/ /\ pc'[p] = "idle" /\ reply'[p].kind = "denied"
         /\ \E words : Log(p, Warning, "tool_call_rejected_by_taint", words)
      \/ pc'[p] = "decide" /\ \E words : Log(p, Info, "tool_call_received", words)
  BY DEF CheckTaint, Goto, Denied, Finish, TypeOK
<1>3. conf.level <= Info =>
        \/ pc'[p] = "idle" /\ reply'[p].kind = "denied" /\ LastIs(p, {"tool_call_rejected_by_taint"})'
        \/ pc'[p] = "decide" /\ Recorded(p, "tool_call_received")'
  BY <1>2, LogRecords DEF Messages
<1> QED BY <1>1, <1>2, <1>3 DEF Traced, Invoked, OnRecord, Judged, Told, LastIs

(* The decision is on record, whatever it is; only an allowed call is in   *)
(* the handler without an approval.                                        *)
LEMMA EvaluateTraced ==
  ASSUME TypeOK, TraceInv, NEW p \in Callers, Evaluate(p)
  PROVE  Traced(p)'
<1>1. pc[p] = "decide" /\ ran'[p] = FALSE /\ conf' = conf
  BY DEF Evaluate, history, TraceInv, Traced, Invoked
<1>2. /\ \/ pc'[p] = "idle" /\ reply'[p].kind = "denied"
         \/ pc'[p] = "approve"
         \/ pc'[p] = "handler" /\ verdict'[p].decision = "allow"
      /\ \E words : Log(p, Info, "policy_decision", words)
  BY DEF Evaluate, Goto, Denied, Finish, TypeOK
<1>3. conf.level <= Info =>
        /\ LastIs(p, {"policy_decision"})' /\ Recorded(p, "policy_decision")'
        /\ Recorded(p, "tool_call_received")'
  BY <1>1, <1>2, LogRecords DEF Messages, TraceInv, Traced, OnRecord, Judged
<1> QED BY <1>1, <1>2, <1>3 DEF Traced, Invoked, OnRecord, Judged, Told, LastIs

(* Each outcome of the approval has its event, and only the grant leads to *)
(* the handler.                                                            *)
LEMMA ApproveTraced ==
  ASSUME TypeOK, TraceInv, NEW p \in Callers, Approve(p) \/ Answer(p)
  PROVE  Traced(p)'
<1>1. pc[p] \in {"approve", "prompt"} /\ ran'[p] = FALSE /\ conf' = conf
  BY DEF Approve, Answer, TraceInv, Traced, Invoked
<1>2. \/ /\ pc'[p] = "idle" /\ reply'[p].kind = "denied"
         /\ \/ Log(p, Warning, "approval_missing", {})
            \/ Log(p, Warning, "approval_denied", {})
      \/ pc'[p] = "idle" /\ reply'[p].kind = "error" /\ Log(p, Error, "approval_error", {})
      \/ pc'[p] = "handler" /\ Log(p, Info, "approval_granted", {})
      \/ pc'[p] = "prompt" /\ trail' = trail
  BY DEF Approve, Answer, Granted, Refused, ApprovalFailed, Goto, Denied, Failed, Finish, TypeOK
<1>3. conf.level <= Info =>
        /\ Recorded(p, "policy_decision") /\ Recorded(p, "tool_call_received")
  BY <1>1 DEF TraceInv, Traced, OnRecord, Judged
<1>4. conf.level <= Info =>
        /\ Recorded(p, "policy_decision")' /\ Recorded(p, "tool_call_received")'
        /\ \/ /\ pc'[p] = "idle" /\ reply'[p].kind = "denied"
              /\ LastIs(p, {"approval_missing"})' \/ LastIs(p, {"approval_denied"})'
           \/ pc'[p] = "idle" /\ reply'[p].kind = "error" /\ LastIs(p, {"approval_error"})'
           \/ pc'[p] = "handler" /\ Recorded(p, "approval_granted")'
           \/ pc'[p] = "prompt"
  <2>1. CASE pc'[p] = "prompt" /\ trail' = trail
    BY <1>3, <2>1 DEF Recorded
  <2>2. CASE pc'[p] # "prompt"
    BY <1>2, <1>3, <2>2, LogRecords DEF Messages
  <2> QED BY <1>2, <2>1, <2>2
<1>5. pc'[p] \in {"idle", "handler", "prompt"}
  BY <1>2
<1> QED BY <1>1, <1>4, <1>5 DEF Traced, Invoked, OnRecord, Judged, Told, LastIs

(* From here on the handler was invoked; its failure is the last event.    *)
LEMMA HandleTraced ==
  ASSUME TypeOK, TraceInv, NEW p \in Callers, Handle(p)
  PROVE  Traced(p)'
<1>1. pc[p] = "handler" /\ ran'[p] = TRUE /\ conf' = conf /\ verdict' = verdict
  BY DEF Handle, TypeOK
<1>2. \/ /\ pc'[p] = "idle" /\ reply'[p].kind = "error"
         /\ \E words : Log(p, Error, "tool_execution_failed", words)
      \/ pc'[p] = "result" /\ trail' = trail
  BY DEF Handle, Goto, Failed, Finish, TypeOK
<1>3. conf.level <= Info => OnRecord(p)
  BY DEF TraceInv, Traced
<1>4. conf.level <= Info => \A m : Recorded(p, m) => Recorded(p, m)'
  <2>1. CASE trail' = trail
    BY <2>1 DEF Recorded
  <2>2. CASE \E words : Log(p, Error, "tool_execution_failed", words)
    BY <2>2, LogRecords DEF Messages
  <2> QED BY <1>2, <2>1, <2>2
<1>5. conf.level <= Info /\ pc'[p] = "idle" => LastIs(p, {"tool_execution_failed"})'
  BY <1>2, LogRecords DEF Messages
<1>6. conf.level <= Info => OnRecord(p)'
  BY <1>1, <1>3, <1>4 DEF OnRecord, Judged
<1> QED BY <1>1, <1>2, <1>5, <1>6 DEF Traced, Invoked, Told, LastIs

(* A result that is refused is told from one that is returned.             *)
LEMMA ResultTraced ==
  ASSUME TypeOK, TraceInv, NEW p \in Callers, CheckResult(p) \/ Return(p)
  PROVE  Traced(p)'
<1>1. /\ pc[p] \in {"result", "return"} /\ ran'[p] = TRUE
      /\ conf' = conf /\ verdict' = verdict
  BY DEF CheckResult, Return, history, TraceInv, Traced, Invoked, TypeOK
<1>2. \/ /\ pc'[p] = "idle" /\ reply'[p].kind = "denied"
         /\ Log(p, Warning, "tool_result_rejected_by_sandbox", {})
      \/ /\ pc'[p] = "idle" /\ reply'[p].kind = "result"
         /\ Log(p, Info, "tool_execution_succeeded", {})
      \/ pc'[p] = "return" /\ trail' = trail
  BY DEF CheckResult, Return, Goto, Denied, Finish, TypeOK
<1>3. conf.level <= Info => OnRecord(p)
  BY DEF TraceInv, Traced
<1>4. conf.level <= Info => \A m : Recorded(p, m) => Recorded(p, m)'
  <2>1. CASE trail' = trail
    BY <2>1 DEF Recorded
  <2>2. CASE \/ Log(p, Warning, "tool_result_rejected_by_sandbox", {})
             \/ Log(p, Info, "tool_execution_succeeded", {})
    BY <2>2, LogRecords DEF Messages
  <2> QED BY <1>2, <2>1, <2>2
<1>5. conf.level <= Info /\ pc'[p] = "idle" =>
        \/ reply'[p].kind = "denied" /\ LastIs(p, {"tool_result_rejected_by_sandbox"})'
        \/ reply'[p].kind = "result" /\ LastIs(p, {"tool_execution_succeeded"})'
  BY <1>2, LogRecords DEF Messages
<1>6. conf.level <= Info => OnRecord(p)'
  BY <1>1, <1>3, <1>4 DEF OnRecord, Judged
<1> QED BY <1>1, <1>2, <1>5, <1>6 DEF Traced, Invoked, Told, LastIs

(* No call is in, and no event is written.                                 *)
LEMMA InitTrace == Init => TraceInv
BY DEF Init, TraceInv, Traced, Invoked, OnRecord, Judged

(* Every step keeps the trails in order.                                   *)
LEMMA NextTrace == TypeOK /\ TraceInv /\ [Next]_vars => TraceInv'
<1> SUFFICES ASSUME TypeOK, TraceInv, [Next]_vars PROVE TraceInv'
  OBVIOUS
<1>1. ASSUME NEW p \in Callers, NEW x \in Contexts, NEW c \in Proposals, Execute(p, x, c)
      PROVE  TraceInv'
  BY <1>1, ExecuteTraced, TracedKeeps
<1>2. ASSUME NEW p \in Callers, Step(p) \/ Answer(p)
      PROVE  TraceInv'
  <2>1. Traced(p)'
    BY <1>2, CheckTaintTraced, EvaluateTraced, ApproveTraced, HandleTraced, ResultTraced DEF Step, OwnStep
  <2> QED BY <1>2, <2>1, TracedKeeps
<1>3. CASE Cancel \/ UNCHANGED vars
  BY <1>3 DEF Cancel, vars, state, history, TraceInv, Traced, Invoked, OnRecord, Told, LastIs,
     Recorded
<1> QED BY <1>1, <1>2, <1>3 DEF Next

(* The trail says what was done with each call, and where it stands.       *)
THEOREM TraceHolds == Spec => []TraceInv
<1> QED BY InitType, NextType, InitTrace, NextTrace, PTL DEF Spec

(* Before a handler runs, its call, the decision and the approval that was *)
(* asked for are on record (mediator.go:73, 85, 148).                      *)
THEOREM AuthorisationIsRecorded == Spec => []AuthorisedOnRecord
<1>1. TraceInv => AuthorisedOnRecord
  BY DEF TraceInv, Traced, OnRecord, Judged, AuthorisedOnRecord
<1> QED BY <1>1, TraceHolds, PTL

(* The last event of a finished call tells whether the tool was invoked and*)
(* what the caller was told (mediator.go:156-196).                         *)
THEOREM TrailTells == Spec => []TrailTellsOutcome
<1>1. TraceInv => TrailTellsOutcome
  BY DEF TraceInv, Traced, Told, LastIs, TrailTellsOutcome
<1> QED BY <1>1, TraceHolds, PTL

(***************************************************************************)
(* Mediator implements ReferenceMonitor: every step of a caller is a step  *)
(* of the monitor, or none.                                                *)
(***************************************************************************)
PhaseOf == [q \in Callers |-> Phase(pc[q])]
RequestAt(q) ==
  IF pc[q] = "idle" THEN [idle |-> TRUE]
  ELSE [of |-> call[q], by |-> Tracker(ctx[q]), before |-> known[q]]
RequestOf == [q \in Callers |-> RequestAt(q)]

(* The monitor sees of a step only what it changes for the caller.         *)
LEMMA View ==
  ASSUME NEW p \in Callers, \A q \in Callers \ {p} : Same(q)
  PROVE  /\ PhaseOf' = [PhaseOf EXCEPT ![p] = Phase(pc'[p])]
         /\ RequestOf' = [RequestOf EXCEPT ![p] = RequestAt(p)']
<1>1. \A q \in Callers \ {p} : RequestAt(q)' = RequestAt(q)
  BY DEF RequestAt, Same
<1> QED  BY <1>1 DEF PhaseOf, RequestOf, Same

(* A refusal, wherever the mediator is.                                    *)
LEMMA RefuseStep ==
  ASSUME NEW p \in Callers, \A q \in Callers \ {p} : Same(q),
         pc[p] \in Locations \ {"idle"}, pc'[p] = "idle", shown' = shown
  PROVE  Monitor!Next
<1>1. PhaseOf[p] # "idle" /\ Phase(pc'[p]) = "idle"
  BY DEF PhaseOf, Phase, Locations
<1>2. RequestAt(p)' = [idle |-> TRUE]  BY DEF RequestAt
<1>3. Monitor!Refuse(p)
  BY <1>1, <1>2, View DEF Monitor!Refuse, Monitor!NoRequest, PhaseOf, RequestOf, RequestAt
<1> QED  BY <1>3 DEF Monitor!Next

(* A step that the monitor does not see.                                   *)
LEMMA HiddenStep ==
  ASSUME NEW p \in Callers, \A q \in Callers \ {p} : Same(q),
         Phase(pc'[p]) = Phase(pc[p]), RequestAt(p)' = RequestAt(p), shown' = shown
  PROVE  UNCHANGED Monitor!vars
<1>1. PhaseOf' = PhaseOf /\ RequestOf' = RequestOf
  BY View DEF PhaseOf, RequestOf
<1> QED  BY <1>1 DEF Monitor!vars, PhaseOf, RequestOf, RequestAt

(* The mediator's authorisation is one the monitor may give.               *)
LEMMA AuthoriseStep ==
  ASSUME NEW p \in Callers, \A q \in Callers \ {p} : Same(q),
         pc[p] \in {"decide", "approve", "prompt"}, pc'[p] = "handler",
         Decide(call[p]).decision # "deny", Unrepeated(p),
         UNCHANGED <<call, ctx, known, shown>>
  PROVE  Monitor!Next
<1>1. PhaseOf[p] = "pending" /\ Phase(pc'[p]) = "authorised"
  BY DEF PhaseOf, Phase
<1>2. RequestAt(p) = [of |-> call[p], by |-> Tracker(ctx[p]), before |-> known[p]]
  BY DEF RequestAt
<1>3. RequestAt(p)' = RequestAt(p)  BY DEF RequestAt
<1>4. RequestOf' = RequestOf  BY <1>3, View DEF RequestOf
<1>5. Permitted(call[p]) /\ ~Repeats(call[p], known[p])
  BY DEF Permitted, Repeats, TaintedArguments, Unrepeated
<1>6. Monitor!Authorise(p)
  BY <1>1, <1>2, <1>4, <1>5, View
     DEF Monitor!Authorise, Monitor!Move, PhaseOf, RequestOf, RequestAt
<1> QED  BY <1>6 DEF Monitor!Next

(***************************************************************************)
(* The steps.                                                              *)
(***************************************************************************)
(* A call the sandbox accepts is a proposal; one it denies is not seen.    *)
LEMMA ExecuteRefines ==
  ASSUME TypeOK, NEW p \in Callers, NEW x \in Contexts, NEW c \in Proposals,
         Execute(p, x, c)
  PROVE  Monitor!Next \/ UNCHANGED Monitor!vars
<1>1. pc[p] = "idle" /\ \A q \in Callers \ {p} : Same(q)
  BY StepsAlone DEF Execute
<1>2. /\ ctx'[p] = x /\ known'[p] = shown[Tracker(x)] /\ shown' = shown
  BY DEF Execute, TypeOK
<1>3. CASE pc'[p] = "idle"
  BY <1>1, <1>2, <1>3, HiddenStep DEF RequestAt
<1>4. CASE pc'[p] # "idle"
  <2>1. pc'[p] = "taint"
    BY <1>4 DEF Execute, Goto, Denied, Finish, TypeOK
  <2>2. call'[p] \in Calls
    BY DEF Execute, Calls, TypeOK
  <2>3. RequestAt(p)' =
          [of |-> call'[p], by |-> Tracker(x), before |-> shown[Tracker(x)]]
    BY <1>2, <2>1 DEF RequestAt
  <2>4. Phase(pc[p]) = "idle" /\ Phase(pc'[p]) = "pending"
    BY <1>1, <2>1 DEF Phase
  <2>5. PICK s \in Stores, r \in Calls : s = Tracker(x) /\ r = call'[p]
    BY <2>2, TrackerType
  <2>6. Monitor!Propose(p, s, r)
    BY <1>1, <1>2, <2>3, <2>4, <2>5, View
       DEF Monitor!Propose, Monitor!Move, PhaseOf, RequestOf, RequestAt
  <2> QED  BY <2>6 DEF Monitor!Next
<1> QED  BY <1>3, <1>4

(* What follows is hidden, or a refusal, or the next phase.                *)
LEMMA StepRefines ==
  ASSUME IInv, NEW p \in Callers, Step(p) \/ Answer(p)
  PROVE  Monitor!Next \/ UNCHANGED Monitor!vars
<1> USE DEF IInv
<1>1. \A q \in Callers \ {p} : Same(q)
  BY StepsAlone
<1>2. CASE CheckTaint(p)
  <2>1. /\ pc[p] = "taint" /\ pc'[p] \in {"idle", "decide"}
        /\ UNCHANGED <<call, ctx, known, shown>>
    BY <1>2 DEF CheckTaint, history, Goto, Denied, Finish, TypeOK
  <2>2. CASE pc'[p] = "idle"
    BY <1>1, <2>1, <2>2, RefuseStep DEF Locations
  <2>3. CASE pc'[p] = "decide"
    BY <1>1, <2>1, <2>3, HiddenStep DEF RequestAt, Phase
  <2> QED  BY <2>1, <2>2, <2>3
<1>3. CASE Evaluate(p)
  <2>1. /\ pc[p] = "decide"
        /\ \/ pc'[p] \in {"idle", "approve"}
           \/ pc'[p] = "handler" /\ Decide(call[p]).decision = "allow"
        /\ UNCHANGED <<call, ctx, known, shown>>
    BY <1>3 DEF Evaluate, history, Goto, Denied, Finish, TypeOK
  <2>2. CASE pc'[p] = "idle"
    BY <1>1, <2>1, <2>2, RefuseStep DEF Locations
  <2>3. CASE pc'[p] = "approve"
    BY <1>1, <2>1, <2>3, HiddenStep DEF RequestAt, Phase
  <2>4. CASE pc'[p] = "handler"
    <3>1. Unrepeated(p)  BY <2>1 DEF Established, Clean, Judged
    <3> QED  BY <1>1, <2>1, <2>4, <3>1, AuthoriseStep
  <2> QED  BY <2>1, <2>2, <2>3, <2>4
<1>4. CASE Approve(p) \/ Answer(p)
  <2>1. /\ pc[p] \in {"approve", "prompt"}
        /\ pc'[p] \in {"idle", "prompt", "handler"}
        /\ UNCHANGED <<call, ctx, known, shown>>
    BY <1>4 DEF Approve, Answer, Granted, Refused, ApprovalFailed, Goto, Denied,
       Failed, Finish, TypeOK
  <2>2. CASE pc'[p] = "idle"
    BY <1>1, <2>1, <2>2, RefuseStep DEF Locations
  <2>3. CASE pc'[p] = "prompt"
    BY <1>1, <2>1, <2>3, HiddenStep DEF RequestAt, Phase
  <2>4. CASE pc'[p] = "handler"
    <3>1. Unrepeated(p) /\ Asked(p)
      BY <2>1 DEF Established, Clean, Judged, Approved
    <3> QED  BY <1>1, <2>1, <2>4, <3>1, AuthoriseStep DEF Asked
  <2> QED  BY <2>1, <2>2, <2>3, <2>4
<1>5. CASE Handle(p)
  <2>1. /\ pc[p] = "handler" /\ pc'[p] \in {"idle", "result"}
        /\ UNCHANGED <<call, ctx, known, shown>>
    BY <1>5 DEF Handle, Goto, Failed, Finish, TypeOK
  <2>2. CASE pc'[p] = "idle"
    BY <1>1, <2>1, <2>2, RefuseStep DEF Locations
  <2>3. CASE pc'[p] = "result"
    <3>1. Phase(pc[p]) = "authorised" /\ Phase(pc'[p]) = "invoked"
      BY <2>1, <2>3 DEF Phase
    <3>2. RequestOf' = RequestOf
      BY <1>1, <2>1, <2>3, View DEF RequestOf, RequestAt
    <3>3. Monitor!Invoke(p)
      BY <1>1, <2>1, <3>1, <3>2, View
         DEF Monitor!Invoke, Monitor!Move, PhaseOf, RequestOf, RequestAt
    <3> QED  BY <3>3 DEF Monitor!Next
  <2> QED  BY <2>1, <2>2, <2>3
<1>6. CASE CheckResult(p)
  <2>1. /\ pc[p] = "result" /\ pc'[p] \in {"idle", "return"}
        /\ UNCHANGED <<call, ctx, known, shown>>
    BY <1>6 DEF CheckResult, history, Goto, Denied, Finish, TypeOK
  <2>2. CASE pc'[p] = "idle"
    BY <1>1, <2>1, <2>2, RefuseStep DEF Locations
  <2>3. CASE pc'[p] = "return"
    BY <1>1, <2>1, <2>3, HiddenStep DEF RequestAt, Phase
  <2> QED  BY <2>1, <2>2, <2>3
<1>7. CASE Return(p)
  <2> DEFINE s == Tracker(ctx[p])
             told == IF output[p].untrusted THEN output[p].words ELSE {}
  <2>1. pc[p] = "return" /\ pc'[p] = "idle"
    BY <1>7 DEF Return, Finish, TypeOK
  <2>2. s \in Stores /\ told \in Text
    BY TrackerType DEF TypeOK, Result, Text
  <2>3. shown' = [shown EXCEPT ![s] = @ \cup told]
    BY <1>7, <2>2 DEF Return, TypeOK
  <2>4. Phase(pc[p]) = "invoked" /\ Phase(pc'[p]) = "idle"
    BY <2>1 DEF Phase
  <2>5. RequestAt(p).by = s /\ RequestAt(p)' = [idle |-> TRUE]
    BY <2>1 DEF RequestAt
  <2> HIDE DEF s, told
  <2>6. PICK text \in Text : text = told
    BY <2>2
  <2>7. Monitor!Deliver(p, text)
    BY <1>1, <2>3, <2>4, <2>5, <2>6, View
       DEF Monitor!Deliver, Monitor!Move, Monitor!NoRequest, PhaseOf, RequestOf, RequestAt
  <2> QED  BY <2>7 DEF Monitor!Next
<1> QED  BY <1>2, <1>3, <1>4, <1>5, <1>6, <1>7 DEF Step, OwnStep

(* Execute implements the reference monitor.                               *)
THEOREM Refinement == Spec => RefinesMonitor
<1>1. Init => Monitor!Init
  BY DEF Init, Monitor!Init, Monitor!NoRequest, Phase
<1>2. IInv /\ [Next]_vars => [Monitor!Next]_(Monitor!vars)
  <2> SUFFICES ASSUME IInv, [Next]_vars
               PROVE  Monitor!Next \/ UNCHANGED Monitor!vars
    OBVIOUS
  <2>1. CASE Cancel
    BY <2>1 DEF Cancel, history, Monitor!vars
  <2>2. CASE UNCHANGED vars
    BY <2>2 DEF vars, state, history, Monitor!vars
  <2>3. ASSUME NEW p \in Callers, NEW x \in Contexts, NEW c \in Proposals, Execute(p, x, c)
        PROVE  Monitor!Next \/ UNCHANGED Monitor!vars
    BY <2>3, ExecuteRefines DEF IInv
  <2>4. ASSUME NEW p \in Callers, Step(p) \/ Answer(p)
        PROVE  Monitor!Next \/ UNCHANGED Monitor!vars
    BY <2>4, StepRefines
  <2> QED  BY <2>1, <2>2, <2>3, <2>4 DEF Next
<1> QED  BY <1>1, <1>2, Invariant, PTL DEF Spec, RefinesMonitor, Monitor!Spec
=============================================================================
