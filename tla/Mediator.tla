------------------------------ MODULE Mediator ------------------------------
(***************************************************************************)
(* runtime.Mediator: the one place every tool call goes through.  Each     *)
(* caller is a goroutine inside Execute; a step is the work between two    *)
(* accesses to what callers share (a taint tracker under its mutex, the    *)
(* approver, the audit writer) or to the outside (the tool handler).       *)
(***************************************************************************)
EXTENDS Sandbox, Naturals, Sequences

CONSTANTS Callers,     \* goroutines that may be inside Execute
          Trackers,    \* taint trackers carried by contexts
          Shared,      \* the mediator's own tracker, m.Taint
          NoTracker,   \* a context that carries no tracker
          Proposals,   \* the calls a model may propose
          Outputs,     \* what a handler may return, or put in its error
          Configs,     \* ways the mediator is put together
          Decide(_)    \* Policy.Evaluate, a function of the call

Contexts == Trackers \cup {NoTracker}
Stores   == Trackers \cup {Shared}

Info == 1
Warning == 2
Error == 3
NoLogger == 4    \* above every severity: nothing is written

Locations == {"idle", "taint", "decide", "approve", "prompt", "handler",
              "result", "return"}
Messages == {"tool_call_rejected_by_sandbox", "tool_call_rejected_by_taint",
             "tool_call_received", "policy_decision", "approval_missing",
             "approval_granted", "approval_denied", "approval_error",
             "tool_execution_failed", "tool_result_rejected_by_sandbox",
             "tool_execution_succeeded"}
Event == [msg : Messages, words : Text]

(* A call as it was proposed, or as the sandbox normalised it.             *)
NoCall == [tool |-> "unknown", action |-> "other", args |-> [n \in ArgNames |-> Absent]]
Calls == Proposals \cup {Normalised(c) : c \in Proposals} \cup {NoCall}

Config == [sandbox : BOOLEAN, redactor : BOOLEAN, level : 0..NoLogger,
           approver : {"none", "auto", "denier", "terminal"}]
Verdict == [decision : {"allow", "ask", "deny"}, audit : BOOLEAN]
Output == [words : Text, long : BOOLEAN]
Result == [words : Text, long : BOOLEAN, untrusted : BOOLEAN]
Reply == [kind : {"result", "denied", "error"}, words : Text,
          untrusted : BOOLEAN]

ASSUME MediatorAssumption ==
  /\ Shared \notin Trackers
  /\ NoTracker \notin Stores
  /\ Proposals \subseteq Call
  /\ Outputs \subseteq Output
  /\ Configs \subseteq Config
  /\ \A c \in Calls : Decide(c) \in Verdict

VARIABLES
  conf,       \* the mediator's fields, set once before any call
  cancelled,  \* the context of the callers is done
  pc,         \* where in Execute each caller is
  ctx,        \* the tracker the caller's context carries
  call,       \* the call, normalised once the sandbox accepted it
  verdict,    \* the policy decision
  output,     \* the handler's result, redacted once classified
  reply,      \* what the last Execute returned
  taint,      \* fragments held by each tracker
  trail       \* the audit events of the caller's current call

VARIABLES     \* history, which no step of the code reads
  shown,      \* untrusted words returned under each tracker
  known,      \* those returned before the caller's call was proposed
  granted,    \* the approver said yes
  ran         \* the handler was invoked

state == <<conf, cancelled, pc, ctx, call, verdict, output, reply, taint, trail>>
history == <<shown, known, granted, ran>>
vars == <<state, history>>

(***************************************************************************)
(* The helpers of Execute.                                                 *)
(***************************************************************************)
Tracker(x) == IF x \in Trackers THEN x ELSE Shared

Redacted(text) == IF conf.redactor THEN RedactText(text) ELSE text

UntrustedSource(c) == c.tool \in {"http", "shell", "git", "pkg"}

(* Mutant: only the source counts, the detectors are not asked.            *)
UntrustedBySource(c, text) == UntrustedSource(c)

Untrusted(c, text) ==
  UntrustedSource(c) \/ (conf.redactor /\ Detect(text).untrusted)

SensitiveArguments(c) ==
  CASE c.tool = "http" /\ c.action = "post" -> {"url", "body", "content_type"}
    [] c.tool = "http" /\ c.action # "post" -> {"url"}
    [] c.tool = "shell" -> {"command", "path"}
    [] c.tool = "fs" /\ c.action = "write_file" -> {"path", "content"}
    [] c.tool = "pkg" /\ c.action \in {"install", "update"} ->
         {"manager", "package", "version", "path"}
    [] OTHER -> {}

(* Mutant: only what is sent is checked, not where it goes or is stored.   *)
TaintedPayload(c, fragments) ==
  {n \in SensitiveArguments(c) \cap {"url", "body"} :
     FindInValue(fragments, c.args[n].words)}

TaintedArguments(c, fragments) ==
  {n \in SensitiveArguments(c) : FindInValue(fragments, c.args[n].words)}

ArgumentWords(c) == UNION {c.args[n].words : n \in ArgNames}

(* A denial's reason may quote the path, command or URL a rule refused.    *)
ReasonTexts(c, v) ==
  {{}} \cup IF v.decision = "deny"
            THEN {c.args[n].words : n \in {"path", "command", "url"}} ELSE {}

AuditEnabled == conf.level # NoLogger

Logged(log, severity, msg, words) ==
  IF severity < conf.level THEN log ELSE Append(log, [msg |-> msg, words |-> words])

Log(p, severity, msg, words) ==
  trail' = [trail EXCEPT ![p] = Logged(@, severity, msg, words)]

Goto(p, label) ==
  /\ pc' = [pc EXCEPT ![p] = label]
  /\ UNCHANGED reply

Finish(p, kind, words, untrusted) ==
  /\ pc' = [pc EXCEPT ![p] = "idle"]
  /\ reply' = [reply EXCEPT ![p] =
       [kind |-> kind, words |-> words, untrusted |-> untrusted]]

Denied(p, words) == Finish(p, "denied", words, FALSE)
Failed(p, words) == Finish(p, "error", words, FALSE)

(* Mutant: the tracker keeps the last output only.                         *)
ReplaceOutput(s, text) == taint' = [taint EXCEPT ![s] = TaintFragments(text)]

(* Mutant: every output goes to the mediator's own tracker.                *)
ShareOutput(s, text) ==
  taint' = [taint EXCEPT ![Shared] = @ \cup TaintFragments(text)]

AddOutput(s, text) == taint' = [taint EXCEPT ![s] = @ \cup TaintFragments(text)]

(***************************************************************************)
(* The steps of Execute.                                                   *)
(***************************************************************************)
(* Entry, and validateCall: a call the sandbox refuses is denied at once.  *)
Execute(p, x, c) ==
  /\ pc[p] = "idle"
  /\ ctx' = [ctx EXCEPT ![p] = x]
  /\ known' = [known EXCEPT ![p] = shown[Tracker(x)]]
  /\ granted' = [granted EXCEPT ![p] = FALSE]
  /\ ran' = [ran EXCEPT ![p] = FALSE]
  /\ \/ /\ conf.sandbox /\ Rejects(c)
        /\ call' = [call EXCEPT ![p] = c]
        /\ \E quoted \in RejectionTexts(c) :
             /\ trail' = [trail EXCEPT ![p] =
                  Logged(<<>>, Warning, "tool_call_rejected_by_sandbox", quoted)]
             /\ Denied(p, quoted)
     \/ /\ ~(conf.sandbox /\ Rejects(c))
        /\ call' = [call EXCEPT ![p] = IF conf.sandbox THEN Normalised(c) ELSE c]
        /\ trail' = [trail EXCEPT ![p] = <<>>]
        /\ Goto(p, "taint")
  /\ UNCHANGED <<conf, cancelled, verdict, output, taint, shown>>

(* denyTaintedSensitiveArgs, which reads the tracker under its mutex.      *)
CheckTaint(p) ==
  /\ pc[p] = "taint"
  /\ LET masked == Redacted(ArgumentWords(call[p])) IN
     IF TaintedArguments(call[p], taint[Tracker(ctx[p])]) # {}
     THEN /\ Log(p, Warning, "tool_call_rejected_by_taint", masked)
          /\ Denied(p, {})
     ELSE /\ Log(p, Info, "tool_call_received", masked)
          /\ Goto(p, "decide")
  /\ UNCHANGED <<conf, cancelled, ctx, call, verdict, output, taint, history>>

(* The policy decision, and the refusal to go on when the decision asks    *)
(* for an audit trail that nobody keeps.                                   *)
Evaluate(p) ==
  /\ pc[p] = "decide"
  /\ LET v == Decide(call[p])
         unaudited == v.audit /\ ~AuditEnabled
     IN /\ verdict' = [verdict EXCEPT ![p] = v]
        /\ \E reason \in ReasonTexts(call[p], v) :
             /\ Log(p, Info, "policy_decision", reason)
             /\ \/ unaudited /\ Denied(p, {})
                \/ ~unaudited /\ v.decision = "deny" /\ Denied(p, reason)
                \/ ~unaudited /\ v.decision = "ask" /\ Goto(p, "approve")
                \/ ~unaudited /\ v.decision = "allow" /\ Goto(p, "handler")
  /\ UNCHANGED <<conf, cancelled, ctx, call, output, taint, history>>

(* Mutant: the approval is not logged.                                     *)
GrantedUnlogged(p) ==
  /\ granted' = [granted EXCEPT ![p] = TRUE]
  /\ Goto(p, "handler")
  /\ UNCHANGED trail

Granted(p) ==
  /\ granted' = [granted EXCEPT ![p] = TRUE]
  /\ Log(p, Info, "approval_granted", {})
  /\ Goto(p, "handler")

(* Mutant: the return is missing after a refusal.                          *)
RefusedFallsThrough(p) ==
  /\ Log(p, Warning, "approval_denied", {})
  /\ Goto(p, "handler")
  /\ UNCHANGED granted

(* Mutant: a refusal is asked about again.                                 *)
RefusedAsksAgain(p) ==
  /\ Goto(p, "approve")
  /\ UNCHANGED <<granted, trail>>

Refused(p) ==
  /\ Log(p, Warning, "approval_denied", {})
  /\ Denied(p, {})
  /\ UNCHANGED granted

(* Mutant: an error of the approver is logged as a refusal.                *)
ApprovalErrorAsDenial(p) ==
  /\ Log(p, Warning, "approval_denied", {})
  /\ Failed(p, {})
  /\ UNCHANGED granted

ApprovalFailed(p) ==
  /\ Log(p, Error, "approval_error", {})
  /\ Failed(p, {})
  /\ UNCHANGED granted

(* Approver.Approve up to the prompt: the terminal approver looks at the   *)
(* context first, and only then opens a prompt.                            *)
Approve(p) ==
  /\ pc[p] = "approve"
  /\ \/ /\ conf.approver = "none"
        /\ Log(p, Warning, "approval_missing", {})
        /\ Denied(p, {})
        /\ UNCHANGED granted
     \/ conf.approver = "auto" /\ Granted(p)
     \/ conf.approver = "denier" /\ Refused(p)
     \/ conf.approver = "terminal" /\ cancelled /\ ApprovalFailed(p)
     \/ /\ conf.approver = "terminal" /\ ~cancelled
        /\ Goto(p, "prompt")
        /\ UNCHANGED <<granted, trail>>
  /\ UNCHANGED <<conf, cancelled, ctx, call, verdict, output, taint, shown, known, ran>>

(* The human answers: yes, anything else, or end of input.                 *)
Answer(p) ==
  /\ pc[p] = "prompt"
  /\ Granted(p) \/ Refused(p) \/ ApprovalFailed(p)
  /\ UNCHANGED <<conf, cancelled, ctx, call, verdict, output, taint, shown, known, ran>>

(* The handler returns a result, or an error whose text may carry output.  *)
Handle(p) ==
  /\ pc[p] = "handler"
  /\ ran' = [ran EXCEPT ![p] = TRUE]
  /\ \E o \in Outputs :
       \/ /\ output' = [output EXCEPT ![p] =
               [words |-> o.words, long |-> o.long, untrusted |-> FALSE]]
          /\ Goto(p, "result")
          /\ UNCHANGED trail
       \/ /\ Log(p, Error, "tool_execution_failed", o.words)
          /\ Failed(p, o.words)
          /\ UNCHANGED output
  /\ UNCHANGED <<conf, cancelled, ctx, call, verdict, taint, shown, known, granted>>

(* validateResult, then classifyResult, redaction and AddOutput.           *)
CheckResult(p) ==
  /\ pc[p] = "result"
  /\ IF conf.sandbox /\ OversizeResult(output[p])
     THEN /\ Log(p, Warning, "tool_result_rejected_by_sandbox", {})
          /\ Denied(p, {})
          /\ UNCHANGED <<output, taint>>
     ELSE LET safe == Redacted(output[p].words)
              untrusted == Untrusted(call[p], output[p].words)
          IN /\ output' = [output EXCEPT ![p] =
                  [words |-> safe, long |-> @.long, untrusted |-> untrusted]]
             /\ IF untrusted THEN AddOutput(Tracker(ctx[p]), safe)
                             ELSE UNCHANGED taint
             /\ Goto(p, "return")
             /\ UNCHANGED trail
  /\ UNCHANGED <<conf, cancelled, ctx, call, verdict, history>>

(* The last event, and the result, in an envelope when it is untrusted.    *)
Return(p) ==
  /\ pc[p] = "return"
  /\ Log(p, Info, "tool_execution_succeeded", {})
  /\ Finish(p, "result", output[p].words, output[p].untrusted)
  /\ shown' = IF output[p].untrusted
              THEN [shown EXCEPT ![Tracker(ctx[p])] = @ \cup output[p].words]
              ELSE shown
  /\ UNCHANGED <<conf, cancelled, ctx, call, verdict, output, taint, known, granted, ran>>

(* The signal goroutine of main cancels the context, once.                 *)
Cancel ==
  /\ ~cancelled
  /\ cancelled' = TRUE
  /\ UNCHANGED <<conf, pc, ctx, call, verdict, output, reply, taint, trail, history>>

-----------------------------------------------------------------------------
Init ==
  /\ conf \in Configs
  /\ cancelled = FALSE
  /\ pc = [p \in Callers |-> "idle"]
  /\ ctx = [p \in Callers |-> NoTracker]
  /\ call = [p \in Callers |-> NoCall]
  /\ verdict = [p \in Callers |-> [decision |-> "deny", audit |-> FALSE]]
  /\ output = [p \in Callers |-> [words |-> {}, long |-> FALSE, untrusted |-> FALSE]]
  /\ reply = [p \in Callers |-> [kind |-> "denied", words |-> {}, untrusted |-> FALSE]]
  /\ taint = [s \in Stores |-> {}]
  /\ trail = [p \in Callers |-> <<>>]
  /\ shown = [s \in Stores |-> {}]
  /\ known = [p \in Callers |-> {}]
  /\ granted = [p \in Callers |-> FALSE]
  /\ ran = [p \in Callers |-> FALSE]

(* What Execute does by itself, and with the handler it calls: everything  *)
(* but the human's answer.                                                 *)
OwnStep(p) ==
  CheckTaint(p) \/ Evaluate(p) \/ Approve(p) \/ CheckResult(p) \/ Return(p)

Step(p) == OwnStep(p) \/ Handle(p)

Next ==
  \/ \E p \in Callers :
       \/ \E x \in Contexts, c \in Proposals : Execute(p, x, c)
       \/ Step(p)
       \/ Answer(p)
  \/ Cancel

Spec == Init /\ [][Next]_vars

(* Go schedules every goroutine.  Nothing makes a human answer, a model    *)
(* propose or a handler return: a subprocess is waited for until nobody    *)
(* holds its pipe any more, and file access has no deadline.               *)
Fairness == \A p \in Callers : WF_vars(OwnStep(p))
FairSpec == Spec /\ Fairness

-----------------------------------------------------------------------------
(* Every variable has its type.                                            *)
TypeOK ==
  /\ conf \in Configs
  /\ cancelled \in BOOLEAN
  /\ pc \in [Callers -> Locations]
  /\ ctx \in [Callers -> Contexts]
  /\ call \in [Callers -> Calls]
  /\ verdict \in [Callers -> Verdict]
  /\ output \in [Callers -> Result]
  /\ reply \in [Callers -> Reply]
  /\ taint \in [Stores -> Text]
  /\ trail \in [Callers -> Seq(Event)]
  /\ shown \in [Stores -> Text]
  /\ known \in [Callers -> Text]
  /\ granted \in [Callers -> BOOLEAN]
  /\ ran \in [Callers -> BOOLEAN]

(* What Execute has to establish before it may invoke the handler, stated  *)
(* of the normalised call itself and not of the steps that led there.      *)
Authorised(p) ==
  LET v == Decide(call[p]) IN
  /\ v.decision = "allow" \/ (v.decision = "ask" /\ granted[p])
  /\ v.audit => AuditEnabled

(* A handler only ever runs on a call in the form the sandbox gives it,    *)
(* which it accepts and the policy allows as it is run, with the approval  *)
(* and the audit trail the policy asks for (Execute, mediator.go:84-156).  *)
EffectsAuthorised ==
  \A p \in Callers : pc[p] = "handler" \/ ran[p] =>
    /\ Authorised(p)
    /\ conf.sandbox => ~Rejects(call[p]) /\ Normalised(call[p]) = call[p]

(* Whatever untrusted text a conversation was given is in its tracker      *)
(* before it is given (AddOutput before the return, mediator.go:185-196).  *)
SeenIsTracked ==
  \A s \in Stores : TaintFragments(shown[s]) \subseteq taint[s]

(* No handler runs with a sensitive argument that repeats untrusted text   *)
(* the conversation was given before it proposed the call, whichever       *)
(* caller of the conversation was given it (mediator.go:250-269).          *)
NoTaintedRun ==
  \A p \in Callers : pc[p] = "handler" \/ ran[p] =>
    \A n \in SensitiveArguments(call[p]) :
      ~FindInValue(TaintFragments(known[p]), call[p].args[n].words)

(* With a redactor, what a call returns holds no secret, and text from an  *)
(* untrusted source or with an injection in it comes in the envelope       *)
(* (mediator.go:180-188).                                                  *)
DeliveredIsSafe ==
  \A p \in Callers : conf.redactor /\ pc[p] = "idle" /\ reply[p].kind = "result" =>
    /\ reply[p].words \cap Secrets = {}
    /\ UntrustedSource(call[p]) \/ reply[p].words \cap Injections # {}
         => reply[p].untrusted

Recorded(p, msg) == \E i \in DOMAIN trail[p] : trail[p][i].msg = msg

(* Before the handler runs, the call, the decision and the approval the    *)
(* decision asked for are on record: a crash at any later point leaves the *)
(* authorisation in the trail (mediator.go:73, 85, 148).                   *)
AuthorisedOnRecord ==
  \A p \in Callers : conf.level <= Info /\ (pc[p] = "handler" \/ ran[p]) =>
    /\ Recorded(p, "tool_call_received")
    /\ Recorded(p, "policy_decision")
    /\ verdict[p].decision = "ask" => Recorded(p, "approval_granted")

(* The last event of a finished call tells whether the tool was invoked    *)
(* and what the caller was told: a denial may follow an effect, and only   *)
(* the trail says so (mediator.go:156-196).                                *)
TrailTellsOutcome ==
  \A p \in Callers : conf.level <= Info /\ pc[p] = "idle" /\ trail[p] # <<>> =>
    LET last == trail[p][Len(trail[p])].msg IN
    /\ ran[p] <=> last \in {"tool_execution_succeeded", "tool_execution_failed",
                            "tool_result_rejected_by_sandbox"}
    /\ reply[p].kind = "result" <=> last = "tool_execution_succeeded"
    /\ reply[p].kind = "error" <=> last \in {"tool_execution_failed", "approval_error"}

(* redact.go:16-17 says the redactor "masks known secret formats before    *)
(* audit logging": no event holds a secret.  The text of an error and the  *)
(* reason of a decision are logged as they are.                            *)
AuditIsMasked ==
  \A p \in Callers : conf.redactor =>
    \A i \in DOMAIN trail[p] : trail[p][i].words \cap Secrets = {}

LetsGo(p, label) == []<>(pc[p] # label)

(* A call that is in returns if its human answers and its handler returns: *)
(* Execute itself keeps it nowhere (mediator.go:46-198).                   *)
EveryCallReturns ==
  \A p \in Callers :
    LetsGo(p, "prompt") /\ LetsGo(p, "handler") => (pc[p] # "idle" ~> pc[p] = "idle")

(***************************************************************************)
(* The mediator as a reference monitor.                                    *)
(***************************************************************************)
Phase(label) ==
  CASE label = "idle" -> "idle"
    [] label \in {"taint", "decide", "approve", "prompt"} -> "pending"
    [] label = "handler" -> "authorised"
    [] label \in {"result", "return"} -> "invoked"

Permitted(c) == Decide(c).decision # "deny"
Repeats(c, text) == TaintedArguments(c, TaintFragments(text)) # {}

Monitor == INSTANCE ReferenceMonitor WITH
  Conversations <- Stores,
  Requests <- Calls,
  phase <- [p \in Callers |-> Phase(pc[p])],
  request <- [p \in Callers |->
    IF pc[p] = "idle" THEN [idle |-> TRUE]
    ELSE [of |-> call[p], by |-> Tracker(ctx[p]), before |-> known[p]]],
  told <- shown

(* Execute implements the reference monitor, which judges a request by the *)
(* text its conversation was really given: the trackers, the two-step      *)
(* delivery and the approver only ever make it refuse more.                *)
RefinesMonitor == Monitor!Spec
=============================================================================
