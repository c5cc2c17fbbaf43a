---------------------------- MODULE GeminiProofs ----------------------------
(***************************************************************************)
(* Proofs about GeminiAgent: the agent uses the mediator as Mediator lets  *)
(* its callers, and across sessions, turns and failures what a session's   *)
(* messages hold, what its tracker holds and what the agent still has to   *)
(* answer fit together; for any model, any tools and any policy.           *)
(***************************************************************************)
EXTENDS GeminiAgent, MediatorProofs

Turns == {"ready", "send", "calls", "tool", "exit"}
FunctionResponse == [name : Functions, words : Text]

(***************************************************************************)
(* The inductive invariant.                                                *)
(***************************************************************************)
(* Types, and where the loop stands when it holds what.                    *)
Typed ==
  /\ AgentTypeOK
  /\ todo \in Seq(FunctionCall)
  /\ \A i \in DOMAIN todo : ToolCallOf(todo[i]) \in Proposals
  /\ answers \in Seq(FunctionResponse)
  /\ unanswered \in Seq(Functions)
  /\ context \in Text /\ gaps \in BOOLEAN /\ erred \in BOOLEAN
  /\ turn = "ready" => answers = <<>>

(* The calls of the last message are those answered, then those to do.     *)
Answering ==
  /\ Len(unanswered) = Len(answers) + Len(todo)
  /\ \A i \in 1..Len(answers) : unanswered[i] = answers[i].name
  /\ \A i \in 1..Len(todo) : unanswered[Len(answers) + i] = todo[i].name

(* A message that stays without its responses is one of a failed turn.     *)
InStep ==
  /\ turn \in {"calls", "tool"} => Answering
  /\ turn = "send" => Answering \/ (answers = <<>> /\ erred)
  /\ GapsFollowErrors

(* What the model was sent, or will be, its session's tracker was told.    *)
TrackerTold == session = "open" => context \cup Sent \subseteq shown[tracker]

(* The call in the mediator is one of the session: it was proposed by a    *)
(* model that had seen the whole context, and when it returns its result   *)
(* is told to the session's tracker.                                       *)
InSession ==
  turn = "tool" =>
    /\ ctx[Agent] = tracker
    /\ context \subseteq known[Agent]
    /\ pc[Agent] = "idle" /\ reply[Agent].untrusted =>
         reply[Agent].words \subseteq shown[tracker]

(* A path that will be remembered was resolved.                            *)
Resolves(c) == MovesTo(c) => c.args["path"].form = "rooted"
PathsRooted ==
  conf.sandbox => lastPath.form = "rooted" /\ (pc[Agent] # "idle" => Resolves(call[Agent]))

AgentInv ==
  /\ IInv /\ Typed
  /\ InStep /\ TrackerTold /\ InSession
  /\ PathsRooted /\ lastPath \in {Root} \cup entered

(***************************************************************************)
(* The agent and the mediator.                                             *)
(***************************************************************************)
(* The agent is the caller, and its trackers are contexts of their own.    *)
LEMMA AgentIsCaller ==
  /\ Agent \in Callers
  /\ Trackers \subseteq Stores /\ Trackers \subseteq Contexts
  /\ \A t \in Trackers : Tracker(t) = t
BY GeminiAssumption DEF Stores, Contexts, Tracker

(* What a response asks for is a sequence of calls the mediator may get.   *)
LEMMA ResponseType ==
  ASSUME NEW r \in Responses
  PROVE  /\ r \in Seq(FunctionCall) /\ r # <<>>
         /\ \A i \in DOMAIN r : ToolCallOf(r[i]) \in Proposals
         /\ [i \in DOMAIN r |-> r[i].name] \in Seq(Functions)
<1>1. r \in Seq(FunctionCall) /\ r # <<>> /\ \A i \in DOMAIN r : ToolCallOf(r[i]) \in Proposals
  BY GeminiAssumption
<1>2. \A f \in FunctionCall : f.name \in Functions
  BY DEF FunctionCall
<1>3. \A i \in 1..Len(r) : r[i].name \in Functions
  BY <1>1, <1>2
<1> QED BY <1>1, <1>3

(* A step of the agent is a step of the mediator with one caller, or none. *)
LEMMA AgentStep ==
  ASSUME Typed, [AgentNext]_agentVars
  PROVE  [Next]_vars
<1>1. Agent \in Callers /\ tracker \in Contexts
  BY AgentIsCaller DEF Typed, AgentTypeOK
<1>2. CASE CallTool
  <2>1. todo # <<>>
    BY <1>2 DEF CallTool, Typed, AgentTypeOK
  <2>2. ToolCallOf(Head(todo)) \in Proposals
    BY <2>1 DEF Typed
  <2> QED BY <1>1, <1>2, <2>2 DEF CallTool, Next
<1>3. CASE Mediate \/ ExecuteTool \/ Human
  BY <1>1, <1>3 DEF Mediate, ExecuteTool, Human, Next, Step, OwnStep
<1>4. CASE SetModel \/ ToggleConcise \/ Exit \/ Continue \/ CreateFails \/ Create
  BY <1>4 DEF SetModel, ToggleConcise, Exit, Continue, CreateFails, Create, agentVars
<1>5. CASE SendFails \/ Send \/ Collect \/ Abandon \/ Interrupt \/ Stopped
  BY <1>5 DEF SendFails, Send, Collect, Abandon, Interrupt, Stopped, agentVars
<1>6. CASE UNCHANGED agentVars
  BY <1>6 DEF agentVars
<1> QED BY <1>2, <1>3, <1>4, <1>5, <1>6 DEF AgentNext, Work

(***************************************************************************)
(* The invariant.                                                          *)
(***************************************************************************)
(* Nothing is open, sent or asked for.                                     *)
LEMMA AgentInitInv == AgentInit => AgentInv
<1> SUFFICES ASSUME AgentInit PROVE AgentInv
  OBVIOUS
<1>1. IInv /\ TypeOK
  BY InitInvariant DEF AgentInit, IInv
<1>2. Root \in Value /\ Root.form = "rooted"
  BY DEF Root, Value, Forms, Text
<1>3. pc[Agent] = "idle"
  BY AgentIsCaller DEF AgentInit, Init
<1>4. 0 \in Trackers
  BY GeminiAssumption
<1> USE DEF AgentInit
<1>5. Typed
  <2>1. AgentTypeOK
    BY <1>1, <1>2, <1>3, <1>4 DEF AgentTypeOK
  <2>2. todo \in Seq(FunctionCall) /\ answers \in Seq(FunctionResponse) /\ unanswered \in Seq(Functions)
    OBVIOUS
  <2>3. DOMAIN todo = {}
    OBVIOUS
  <2>4. context \in Text /\ gaps \in BOOLEAN /\ erred \in BOOLEAN
    BY DEF Text
  <2> QED BY <2>1, <2>2, <2>3, <2>4 DEF Typed
<1>6. InStep /\ TrackerTold /\ InSession
  BY DEF InStep, GapsFollowErrors, TrackerTold, InSession
<1>7. PathsRooted /\ lastPath \in {Root} \cup entered
  BY <1>2, <1>3 DEF PathsRooted
<1> QED BY <1>1, <1>5, <1>6, <1>7 DEF AgentInv

(* Between turns the agent's loop touches neither messages nor mediator.   *)
LEMMA ReadyKeeps ==
  ASSUME AgentInv, IInv',
         SetModel \/ ToggleConcise \/ Exit \/ Continue \/ CreateFails \/ Create
  PROVE  AgentInv'
<1> USE DEF AgentInv
<1>1. /\ UNCHANGED vars /\ UNCHANGED <<lastPath, todo, answers, entered>>
      /\ turn = "ready" /\ answers = <<>>
      /\ turn' \in {"ready", "send", "exit"}
      /\ \/ /\ context' = context /\ unanswered' = unanswered /\ gaps' = gaps
            /\ erred' = erred /\ tracker' = tracker
         \/ /\ context' = {} /\ unanswered' = <<>> /\ gaps' = FALSE /\ erred' = FALSE
            /\ tracker < MaxSessions /\ tracker' = tracker + 1
      /\ isConcise' \in BOOLEAN /\ concise' \in BOOLEAN
  BY DEF SetModel, ToggleConcise, Exit, Continue, CreateFails, Create, agentVars, agent, record,
     Typed, AgentTypeOK
<1>2. /\ session' \in {"none", "open"}
      /\ turn' = "send" => session' = "open"
      /\ session' = "open" =>
           context' = {} \/ (context' = context /\ session = "open" /\ tracker' = tracker)
  BY <1>1 DEF SetModel, ToggleConcise, Exit, Continue, CreateFails, Create, NeedsSession,
     agentVars, agent, record, Typed, AgentTypeOK
<1>3. tracker' \in Trackers
  BY <1>1, GeminiAssumption DEF Typed, AgentTypeOK
<1>4. UNCHANGED <<conf, pc, ctx, call, reply, known, shown>>
  BY <1>1 DEF vars, state, history
<1>5. pc[Agent] = "idle" /\ todo = <<>>
  BY <1>1 DEF Typed, AgentTypeOK
<1>6. Typed'
  <2>1. TypeOK'  BY DEF IInv
  <2>2. AgentTypeOK'
    BY <1>1, <1>2, <1>3, <1>4, <1>5, <2>1 DEF Typed, AgentTypeOK
  <2>3. context' \in Text
    BY <1>1 DEF Typed, Text
  <2>5. unanswered' \in Seq(Functions)
    <3>1. << >> \in Seq(Functions)  OBVIOUS
    <3> QED BY <1>1, <3>1 DEF Typed
  <2>4. gaps' \in BOOLEAN /\ erred' \in BOOLEAN
    BY <1>1 DEF Typed
  <2> QED BY <1>1, <2>2, <2>3, <2>4, <2>5 DEF Typed
<1>7. InStep'
  <2>1. unanswered' # <<>> => erred'
    BY <1>1 DEF InStep, GapsFollowErrors
  <2>2. unanswered' = <<>> => Answering'
    BY <1>1, <1>5 DEF Answering
  <2>3. gaps' => erred'
    <3>1. gaps => erred
      BY DEF InStep, GapsFollowErrors
    <3>2. CASE gaps' = FALSE
      BY <3>2
    <3>3. CASE gaps' = gaps /\ erred' = erred
      BY <3>1, <3>3, Zenon
    <3> QED BY <1>1, <3>2, <3>3
  <2> QED BY <1>1, <2>1, <2>2, <2>3 DEF InStep, GapsFollowErrors
<1>8. TrackerTold'
  <2>1. Sent' = {}  BY <1>1 DEF Sent
  <2> QED BY <1>2, <1>4, <2>1 DEF TrackerTold
<1>9. InSession'
  BY <1>1 DEF InSession
<1>10. PathsRooted' /\ (lastPath \in {Root} \cup entered)'
  BY <1>1, <1>4 DEF PathsRooted
<1> QED BY <1>6, <1>7, <1>8, <1>9, <1>10

(* A turn that fails ends with an error; the messages stay as they are.    *)
LEMMA FailureKeeps ==
  ASSUME AgentInv, IInv', SendFails \/ Abandon \/ Interrupt \/ Stopped
  PROVE  AgentInv'
<1> USE DEF AgentInv
<1>1. /\ UNCHANGED vars
      /\ UNCHANGED <<session, tracker, isConcise, concise, lastPath, context, unanswered, gaps,
                     entered>>
  BY DEF SendFails, Abandon, Interrupt, Stopped, agentVars, agent, record
<1>2. UNCHANGED <<conf, pc, ctx, call, reply, known, shown>>
  BY <1>1 DEF vars, state, history
<1>3. CASE turn' = "ready" /\ todo' = <<>> /\ answers' = <<>> /\ erred' = TRUE
           /\ turn \in {"send", "tool"} /\ pc[Agent] = "idle"
  <2>1. Typed'
    <3>1. DOMAIN <<>> = {} /\ << >> \in Seq(FunctionCall) /\ << >> \in Seq(FunctionResponse)
      OBVIOUS
    <3>2. AgentTypeOK'
      BY <1>1, <1>2, <1>3 DEF Typed, AgentTypeOK, IInv
    <3> QED BY <1>1, <1>3, <3>1, <3>2 DEF Typed
  <2>2. InStep'
    BY <1>3 DEF InStep, GapsFollowErrors
  <2>3. TrackerTold'
    <3>1. Sent' = {}  BY <1>3 DEF Sent
    <3> QED BY <1>1, <1>2, <3>1 DEF TrackerTold
  <2>4. InSession' /\ PathsRooted' /\ (lastPath \in {Root} \cup entered)'
    BY <1>1, <1>2, <1>3 DEF InSession, PathsRooted
  <2> QED BY <2>1, <2>2, <2>3, <2>4
<1>4. CASE turn' = "exit" /\ UNCHANGED <<todo, answers, erred>> /\ pc[Agent] = "idle"
  <2>1. Typed'
    BY <1>1, <1>2, <1>4 DEF Typed, AgentTypeOK, IInv
  <2>2. InStep'
    <3>1. gaps' => erred'
      BY <1>1, <1>4 DEF InStep, GapsFollowErrors
    <3> QED BY <1>4, <3>1 DEF InStep, GapsFollowErrors
  <2>3. TrackerTold'
    BY <1>1, <1>2, <1>4 DEF TrackerTold, Sent
  <2>4. InSession' /\ PathsRooted' /\ (lastPath \in {Root} \cup entered)'
    BY <1>1, <1>2, <1>4 DEF InSession, PathsRooted
  <2> QED BY <2>1, <2>2, <2>3, <2>4
<1>5. pc[Agent] = "idle"
  BY DEF SendFails, Abandon, Interrupt, Stopped, Returned, Typed, AgentTypeOK
<1>6. SendFails \/ Abandon =>
        /\ turn' = "ready" /\ todo' = <<>> /\ answers' = <<>> /\ erred' = TRUE
        /\ turn \in {"send", "tool"}
  BY DEF SendFails, Abandon, EndTurn, Returned, Typed
<1>7. Interrupt \/ Stopped => turn' = "exit" /\ UNCHANGED <<todo, answers, erred>>
  BY DEF Interrupt, Stopped, agentVars, agent, record
<1> QED BY <1>3, <1>4, <1>5, <1>6, <1>7

(* When nothing is left to do the responses are those of the calls.        *)
LEMMA AllAnswered ==
  ASSUME Typed, Answering, todo = <<>>
  PROVE  unanswered = Answered
<1>1. /\ Len(unanswered) = Len(answers) /\ Len(answers) \in Nat
      /\ DOMAIN unanswered = 1..Len(unanswered) /\ DOMAIN answers = 1..Len(answers)
      /\ unanswered = [i \in 1..Len(unanswered) |-> unanswered[i]]
  BY DEF Typed, Answering
<1>2. \A i \in 1..Len(answers) : unanswered[i] = answers[i].name
  BY DEF Answering
<1> QED BY <1>1, <1>2 DEF Answered

(* What was gathered is text.                                              *)
LEMMA SentType == ASSUME Typed PROVE Sent \in Text
<1>1. \A i \in DOMAIN answers : answers[i] \in FunctionResponse
  BY DEF Typed
<1>2. \A i \in DOMAIN answers : answers[i].words \subseteq Tokens
  BY <1>1 DEF FunctionResponse, Text
<1> QED BY <1>2 DEF Sent, Text

(* A message leaves a gap only when an earlier turn failed; what it brings *)
(* was told to the tracker.                                                *)
LEMMA SendKeeps ==
  ASSUME AgentInv, IInv', Send
  PROVE  AgentInv'
<1> USE DEF AgentInv
<1>1. /\ UNCHANGED vars /\ turn = "send" /\ context' = context \cup Sent
      /\ UNCHANGED <<session, tracker, isConcise, concise, lastPath, entered>>
      /\ gaps' = (gaps \/ unanswered # Answered)
      /\ answers' = <<>>
  BY DEF Send, EndTurn
<1>2. UNCHANGED <<conf, pc, ctx, call, reply, known, shown>>
  BY <1>1 DEF vars, state, history
<1>3. session = "open" /\ todo = <<>> /\ pc[Agent] = "idle"
  BY <1>1 DEF Typed, AgentTypeOK
<1>4. \/ turn' = "ready" /\ todo' = <<>> /\ unanswered' = <<>>
      \/ /\ turn' = "calls" /\ todo' # <<>>
         /\ \E calls \in Responses :
              todo' = calls /\ unanswered' = [i \in DOMAIN calls |-> calls[i].name]
  <2>1. \A calls \in Responses : calls # <<>>
    BY ResponseType
  <2> QED BY <2>1 DEF Send, EndTurn
<1>5. erred' \in BOOLEAN /\ (erred => erred')
  BY DEF Send, EndTurn, Typed
<1>6. gaps' => erred'
  <2>1. CASE Answering
    <3>1. unanswered = Answered
      BY <1>3, <2>1, AllAnswered
    <3>2. gaps => erred
      BY DEF InStep, GapsFollowErrors
    <3> QED BY <1>1, <1>5, <3>1, <3>2
  <2>2. CASE erred
    BY <1>5, <2>2
  <2> QED BY <1>1, <2>1, <2>2 DEF InStep
<1>7. Typed'
  <2>1. /\ todo' \in Seq(FunctionCall) /\ unanswered' \in Seq(Functions)
        /\ \A i \in DOMAIN todo' : ToolCallOf(todo'[i]) \in Proposals
    <3>1. DOMAIN <<>> = {} /\ << >> \in Seq(FunctionCall) /\ << >> \in Seq(Functions)
      OBVIOUS
    <3> QED BY <1>4, <3>1, ResponseType
  <2>2. AgentTypeOK'
    BY <1>1, <1>2, <1>3, <1>4 DEF Typed, AgentTypeOK, IInv
  <2>3. context' \in Text /\ gaps' \in BOOLEAN
    BY <1>1, SentType DEF Typed, Text
  <2>4. answers' \in Seq(FunctionResponse)
    BY <1>1
  <2> QED BY <1>1, <1>5, <2>1, <2>2, <2>3, <2>4 DEF Typed
<1>8. InStep'
  <2>1. CASE turn' = "ready"
    BY <1>4, <1>6, <2>1 DEF InStep, GapsFollowErrors
  <2>2. CASE turn' = "calls"
    <3>1. PICK calls \in Responses :
            todo' = calls /\ unanswered' = [i \in DOMAIN calls |-> calls[i].name]
      BY <1>4, <2>2
    <3>2. calls \in Seq(FunctionCall)
      BY ResponseType
    <3>3. /\ DOMAIN calls = 1..Len(calls) /\ Len(calls) \in Nat
          /\ Len(unanswered') = Len(calls) /\ Len(answers') = 0
      BY <1>1, <3>1, <3>2
    <3>4. Answering'
      BY <3>1, <3>3 DEF Answering
    <3> QED BY <1>6, <2>2, <3>4 DEF InStep, GapsFollowErrors
  <2> QED BY <1>4, <2>1, <2>2
<1>9. TrackerTold'
  <2>1. Sent' = {}  BY <1>1 DEF Sent
  <2> QED BY <1>1, <1>2, <1>3, <2>1 DEF TrackerTold
<1>10. InSession' /\ PathsRooted' /\ (lastPath \in {Root} \cup entered)'
  BY <1>1, <1>2, <1>4 DEF InSession, PathsRooted
<1> QED BY <1>7, <1>8, <1>9, <1>10

(* A call that moves the agent is git's or a listing; the sandbox that     *)
(* accepted it resolved its path.                                          *)
LEMMA MovesRooted ==
  ASSUME NEW f \in FunctionCall, ~Rejects(ToolCallOf(f))
  PROVE  Resolves(Normalised(ToolCallOf(f)))
<1> DEFINE c == ToolCallOf(f)
           d == Normalised(c)
<1>1. f.name \in Functions /\ c.args \in [ArgNames -> Value]
  BY DEF FunctionCall, ToolCallOf
<1>2. /\ c.tool = geminiToolFamily(f.name) /\ c.action = geminiActionName(f)
      /\ c = [tool |-> c.tool, action |-> c.action, args |-> c.args]
  BY DEF ToolCallOf
<1>3. c.action = "list_dir" => c.tool \in {"fs", "git"}
  BY <1>1, <1>2 DEF Functions, geminiToolFamily, geminiActionName
<1> HIDE DEF c
<1>4. d.tool = c.tool /\ d.action = c.action /\ d.args["path"] = NormalisedArg(c, "path")
  BY <1>2 DEF Normalised, ArgNames
<1>5. ASSUME MovesTo(d) PROVE d.args["path"].form = "rooted"
  <2>1. c.tool \in {"git", "fs"}
    BY <1>3, <1>4, <1>5 DEF MovesTo, ListsDirectory
  <2>2. CASE Usable(c, "path")
    BY <1>4, <2>1, <2>2 DEF NormalisedArg
  <2>3. CASE ~Usable(c, "path")
    <3>1. d.args["path"] = c.args["path"]
      BY <1>4, <2>3 DEF NormalisedArg
    <3>2. "path" \in RefusedArgs(c)
      BY <1>5, <2>1, <2>3, <3>1
         DEF RefusedArgs, RequiredArgs, OptionalArgs, Acceptable, Present, MovesTo, ListsDirectory
    <3> QED BY <3>2 DEF Rejects, c
  <2> QED BY <2>2, <2>3
<1> QED BY <1>5 DEF Resolves, c

(* A call enters for the session it was asked in.                          *)
LEMMA CallToolKeeps ==
  ASSUME AgentInv, IInv', CallTool
  PROVE  AgentInv'
<1> USE DEF AgentInv
<1> DEFINE f == Head(todo)
           c == ToolCallOf(f)
<1>1. /\ turn = "calls" /\ turn' = "tool" /\ Execute(Agent, tracker, c)
      /\ UNCHANGED <<session, tracker, isConcise, concise, lastPath, todo, answers,
                     context, unanswered, gaps, erred, entered>>
  BY DEF CallTool, record
<1>2. session = "open" /\ todo # <<>>
  BY <1>1 DEF Typed, AgentTypeOK
<1>3. f \in FunctionCall /\ c \in Proposals
  BY <1>2 DEF Typed
<1>4. tracker \in Trackers /\ tracker \in Contexts /\ Tracker(tracker) = tracker
  BY AgentIsCaller DEF Typed, AgentTypeOK
<1> HIDE DEF f, c
<1>5. /\ conf' = conf /\ shown' = shown
      /\ ctx'[Agent] = tracker /\ known'[Agent] = shown[tracker]
      /\ \/ pc'[Agent] = "idle" /\ ~reply'[Agent].untrusted
         \/ /\ pc'[Agent] = "taint" /\ ~(conf.sandbox /\ Rejects(c))
            /\ call'[Agent] = IF conf.sandbox THEN Normalised(c) ELSE c
  <2>1. TypeOK /\ Agent \in Callers
    BY AgentIsCaller DEF IInv
  <2>2. known'[Agent] = shown[Tracker(tracker)]
    BY <1>1, <1>3, <1>4, <2>1, ExecuteEnters
  <2> QED BY <1>1, <1>3, <1>4, <2>1, <2>2, ExecuteEnters
<1>6. Typed'
  <2>1. AgentTypeOK'
    BY <1>1, <1>2 DEF Typed, AgentTypeOK, IInv
  <2> QED BY <1>1, <2>1 DEF Typed
<1>7. InStep'
  <2>1. Answering'
    BY <1>1 DEF InStep, Answering
  <2>2. gaps => erred
    BY DEF InStep, GapsFollowErrors
  <2> QED BY <1>1, <2>1, <2>2 DEF InStep, GapsFollowErrors
<1>8. TrackerTold'
  BY <1>1, <1>5 DEF TrackerTold, Sent
<1>9. InSession'
  BY <1>1, <1>2, <1>5 DEF InSession, TrackerTold
<1>10. PathsRooted'
  <2>1. conf.sandbox /\ ~Rejects(c) => Resolves(Normalised(c))
    BY <1>3, MovesRooted DEF c
  <2> QED BY <1>1, <1>5, <2>1 DEF PathsRooted, Resolves, MovesTo, ListsDirectory
<1> QED BY <1>1, <1>6, <1>7, <1>8, <1>9, <1>10

(* While it is inside, it stays that session's call; only a handler moves  *)
(* the agent, to where the sandbox put its path.                           *)
LEMMA InsideKeeps ==
  ASSUME AgentInv, IInv', Mediate \/ Human \/ ExecuteTool
  PROVE  AgentInv'
<1> USE DEF AgentInv
<1>1. /\ UNCHANGED <<session, tracker, isConcise, concise, turn, todo, answers,
                     context, unanswered, gaps, erred>>
      /\ \/ UNCHANGED <<lastPath, entered>>
         \/ /\ MovesTo(call[Agent])
            /\ lastPath' = call[Agent].args["path"]
            /\ entered' = entered \cup {call[Agent].args["path"]}
  BY DEF Mediate, Human, ExecuteTool, agent, record
<1>2. Step(Agent) \/ Answer(Agent)
  BY DEF Mediate, Human, ExecuteTool, Step, OwnStep
<1>3. /\ conf' = conf /\ ctx' = ctx /\ call' = call /\ known' = known /\ pc[Agent] # "idle"
      /\ \A s \in Stores : shown[s] \subseteq shown'[s]
      /\ pc'[Agent] = "idle" /\ reply'[Agent].untrusted =>
           reply'[Agent].words \subseteq shown'[Tracker(ctx[Agent])]
  BY <1>2, AgentIsCaller, ExecuteProceeds DEF IInv
<1>4. turn = "tool" /\ ctx[Agent] = tracker /\ tracker \in Stores /\ Tracker(tracker) = tracker
  BY <1>3, AgentIsCaller DEF Typed, AgentTypeOK, InSession
<1>5. Typed'
  <2>1. call[Agent].args["path"] \in Value
    BY AgentIsCaller, QuotedType DEF IInv, TypeOK, ArgNames
  <2>2. lastPath' \in Value
    BY <1>1, <2>1 DEF Typed, AgentTypeOK
  <2>3. AgentTypeOK'
    BY <1>1, <1>4, <2>2 DEF Typed, AgentTypeOK, IInv
  <2> QED BY <1>1, <2>3 DEF Typed
<1>6. InStep'
  <2>1. Answering'
    BY <1>1, <1>4 DEF InStep, Answering
  <2>2. gaps => erred
    BY DEF InStep, GapsFollowErrors
  <2> QED BY <1>1, <1>4, <2>1, <2>2 DEF InStep, GapsFollowErrors
<1>7. TrackerTold'
  BY <1>1, <1>3, <1>4 DEF TrackerTold, Sent
<1>8. InSession'
  BY <1>1, <1>3, <1>4 DEF InSession
<1>9. PathsRooted'
  <2>1. conf.sandbox => lastPath.form = "rooted" /\ Resolves(call[Agent])
    BY <1>3 DEF PathsRooted
  <2>2. conf.sandbox => lastPath'.form = "rooted"
    BY <1>1, <2>1 DEF Resolves
  <2> QED BY <1>3, <2>1, <2>2 DEF PathsRooted, Resolves, MovesTo, ListsDirectory
<1>10. (lastPath \in {Root} \cup entered)'
  BY <1>1
<1> QED BY <1>5, <1>6, <1>7, <1>8, <1>9, <1>10

(* A response answers the first call that is left; its words were told.    *)
LEMMA CollectKeeps ==
  ASSUME AgentInv, IInv', Collect
  PROVE  AgentInv'
<1> USE DEF AgentInv
<1> DEFINE r == [name |-> Head(todo).name,
                 words |-> IF reply[Agent].untrusted THEN reply[Agent].words ELSE {}]
<1>1. /\ UNCHANGED vars /\ turn = "tool" /\ pc[Agent] = "idle"
      /\ UNCHANGED <<session, tracker, isConcise, concise, lastPath,
                     context, unanswered, gaps, erred, entered>>
      /\ todo' = Tail(todo) /\ answers' = Append(answers, r)
      /\ turn' = IF Len(todo) = 1 THEN "send" ELSE "calls"
  BY DEF Collect, Returned, Response, record, Typed
<1>2. UNCHANGED <<conf, pc, ctx, call, reply, known, shown>>
  BY <1>1 DEF vars, state, history
<1>3. session = "open" /\ todo # <<>> /\ todo \in Seq(FunctionCall)
      /\ answers \in Seq(FunctionResponse) /\ Answering
  BY <1>1 DEF Typed, AgentTypeOK, InStep
<1>4. r \in FunctionResponse /\ r.name = todo[1].name /\ r.words \subseteq shown[tracker]
  <2>1. Head(todo) \in FunctionCall /\ Head(todo) = todo[1]
    BY <1>3
  <2>2. todo[1].name \in Functions
    BY <2>1 DEF FunctionCall
  <2>3. reply[Agent].words \in Text
    BY AgentIsCaller DEF IInv, TypeOK, Reply
  <2>4. reply[Agent].untrusted => reply[Agent].words \subseteq shown[tracker]
    BY <1>1 DEF InSession
  <2>5. r.words \in Text /\ r.words \subseteq shown[tracker]
    BY <2>3, <2>4 DEF Text
  <2> QED BY <2>1, <2>2, <2>5 DEF FunctionResponse
<1> HIDE DEF r
<1>5. /\ Len(todo') = Len(todo) - 1 /\ Len(todo) \in Nat \ {0}
      /\ Len(answers') = Len(answers) + 1 /\ Len(answers) \in Nat
      /\ todo' \in Seq(FunctionCall) /\ answers' \in Seq(FunctionResponse)
      /\ DOMAIN todo' = 1..(Len(todo) - 1) /\ DOMAIN todo = 1..Len(todo)
      /\ \A i \in 1..(Len(todo) - 1) : todo'[i] = todo[i + 1]
      /\ DOMAIN answers = 1..Len(answers) /\ DOMAIN answers' = 1..(Len(answers) + 1)
      /\ \A i \in 1..Len(answers) : answers'[i] = answers[i]
      /\ answers'[Len(answers) + 1] = r
  BY <1>1, <1>3, <1>4
<1>6. Typed'
  <2>1. \A i \in DOMAIN todo' : ToolCallOf(todo'[i]) \in Proposals
    <3> SUFFICES ASSUME NEW i \in DOMAIN todo'
                 PROVE  ToolCallOf(todo'[i]) \in Proposals
      OBVIOUS
    <3>1. i + 1 \in DOMAIN todo /\ todo'[i] = todo[i + 1]
      BY <1>5
    <3> QED BY <3>1 DEF Typed
  <2>2. turn' = "send" <=> todo' = <<>>
    <3>1. todo' = <<>> <=> Len(todo') = 0
      BY <1>5
    <3>2. turn' = "send" <=> Len(todo) = 1
      BY <1>1
    <3> QED BY <1>5, <3>1, <3>2
  <2>3. AgentTypeOK'
    BY <1>1, <1>2, <1>3, <2>2 DEF Typed, AgentTypeOK, IInv
  <2> QED BY <1>1, <1>5, <2>1, <2>3 DEF Typed
<1>7. InStep'
  <2>1. Answering'
    <3>1. Len(unanswered') = Len(answers') + Len(todo')
      BY <1>1, <1>3, <1>5 DEF Answering
    <3>2. \A i \in 1..Len(answers') : unanswered'[i] = answers'[i].name
      <4> SUFFICES ASSUME NEW i \in 1..(Len(answers) + 1)
                   PROVE  unanswered[i] = answers'[i].name
        BY <1>1, <1>5
      <4>1. CASE i \in 1..Len(answers)
        BY <1>3, <1>5, <4>1 DEF Answering
      <4>2. CASE i = Len(answers) + 1
        <5>1. unanswered[Len(answers) + 1] = todo[1].name
          BY <1>3, <1>5 DEF Answering
        <5> QED BY <1>4, <1>5, <4>2, <5>1
      <4> QED BY <1>5, <4>1, <4>2
    <3>3. \A i \in 1..Len(todo') : unanswered'[Len(answers') + i] = todo'[i].name
      <4> SUFFICES ASSUME NEW i \in 1..(Len(todo) - 1)
                   PROVE  unanswered[Len(answers) + 1 + i] = todo'[i].name
        BY <1>1, <1>5
      <4>1. i + 1 \in 1..Len(todo) /\ Len(answers) + 1 + i = Len(answers) + (i + 1)
        BY <1>5
      <4>2. unanswered[Len(answers) + (i + 1)] = todo[i + 1].name
        BY <1>3, <4>1 DEF Answering
      <4> QED BY <1>5, <4>1, <4>2
    <3> QED BY <3>1, <3>2, <3>3 DEF Answering
  <2>2. gaps => erred
    BY DEF InStep, GapsFollowErrors
  <2> QED BY <1>1, <2>1, <2>2 DEF InStep, GapsFollowErrors
<1>8. TrackerTold'
  <2>1. \A i \in DOMAIN answers' : answers'[i].words \subseteq shown[tracker]
    <3> SUFFICES ASSUME NEW i \in 1..(Len(answers) + 1)
                 PROVE  answers'[i].words \subseteq shown[tracker]
      BY <1>5
    <3>1. CASE i \in DOMAIN answers
      BY <1>3, <1>5, <3>1 DEF TrackerTold, Sent
    <3>2. CASE i = Len(answers) + 1
      BY <1>4, <1>5, <3>2
    <3> QED BY <1>5, <3>1, <3>2
  <2>2. Sent' \subseteq shown[tracker]
    BY <2>1 DEF Sent
  <2> QED BY <1>1, <1>2, <1>3, <2>2 DEF TrackerTold
<1>9. InSession' /\ PathsRooted' /\ (lastPath \in {Root} \cup entered)'
  BY <1>1, <1>2 DEF InSession, PathsRooted
<1> QED BY <1>6, <1>7, <1>8, <1>9

(* Every step of the agent keeps the invariant.                            *)
LEMMA AgentNextInv == AgentInv /\ [AgentNext]_agentVars => AgentInv'
<1> SUFFICES ASSUME AgentInv, [AgentNext]_agentVars PROVE AgentInv'
  OBVIOUS
<1>1. IInv'
  BY AgentStep, NextInvariant DEF AgentInv
<1>2. CASE UNCHANGED agentVars
  <2>1. /\ UNCHANGED <<conf, pc, ctx, call, reply, known, shown>>
        /\ UNCHANGED <<session, tracker, isConcise, concise, lastPath, turn, todo, answers>>
        /\ UNCHANGED <<context, unanswered, gaps, erred, entered>>
    BY <1>2 DEF agentVars, vars, state, history, agent, record
  <2>2. Typed'
    BY <1>1, <2>1 DEF AgentInv, Typed, AgentTypeOK, IInv
  <2>3. InStep'
    BY <2>1 DEF AgentInv, InStep, Answering, GapsFollowErrors
  <2>4. TrackerTold' /\ InSession' /\ PathsRooted' /\ (lastPath \in {Root} \cup entered)'
    BY <2>1 DEF AgentInv, TrackerTold, Sent, InSession, PathsRooted
  <2> QED BY <1>1, <2>2, <2>3, <2>4 DEF AgentInv
<1> QED BY <1>1, <1>2, ReadyKeeps, FailureKeeps, SendKeeps, CallToolKeeps, InsideKeeps,
           CollectKeeps DEF AgentNext, Work

(* In every reachable state the session's messages, its tracker, the       *)
(* mediator's call and what the loop still has to do fit together.         *)
THEOREM AgentInvariant == AgentSpec => []AgentInv
<1> QED BY AgentInitInv, AgentNextInv, PTL DEF AgentSpec

(* The agent is one of the environments Mediator was proved for: it enters *)
(* Execute with proposed calls and its own tracker and does not touch what *)
(* is the mediator's, so every theorem of Spec holds of the agent.         *)
THEOREM AgentUsesMediator == AgentSpec => Spec
<1>1. AgentInit => Init
  BY DEF AgentInit
<1>2. AgentInv /\ [AgentNext]_agentVars => [Next]_vars
  BY AgentStep DEF AgentInv
<1> QED BY <1>1, <1>2, AgentInvariant, PTL DEF AgentSpec, Spec

(* Every untrusted word of the session's messages is in the tracker its    *)
(* calls are checked against (gemini.go:53-62).                            *)
THEOREM HistoryIsTracked == AgentSpec => []HistoryTracked
<1>1. AgentInv => HistoryTracked
  <2> SUFFICES ASSUME AgentInv, session = "open"
               PROVE  TaintFragments(context \cup Sent) \subseteq taint[tracker]
    BY DEF HistoryTracked
  <2>1. tracker \in Stores
    BY AgentIsCaller DEF AgentInv, Typed, AgentTypeOK
  <2>2. context \cup Sent \subseteq shown[tracker]
    BY DEF AgentInv, TrackerTold
  <2> QED BY <2>1, <2>2 DEF AgentInv, IInv, SeenIsTracked, TaintFragments
<1> QED BY <1>1, AgentInvariant, PTL

(* No handler runs with a sensitive argument that repeats untrusted text   *)
(* of the session's messages.                                              *)
THEOREM NothingIsReplayed == AgentSpec => []NoReplay
<1>1. AgentInv => NoReplay
  <2> SUFFICES ASSUME AgentInv, pc[Agent] = "handler" \/ (turn = "tool" /\ ran[Agent]),
                      NEW n \in SensitiveArguments(call[Agent])
               PROVE  ~FindInValue(TaintFragments(context), call[Agent].args[n].words)
    BY DEF NoReplay
  <2>1. context \subseteq known[Agent]
    BY DEF AgentInv, Typed, AgentTypeOK, InSession
  <2>2. Unrepeated(Agent)
    BY AgentIsCaller DEF AgentInv, IInv, Established, Clean, Judged
  <2> QED BY <2>1, <2>2 DEF Unrepeated, FindInValue, TaintFragments
<1> QED BY <1>1, AgentInvariant, PTL

(* git runs in the workspace root or where a call that ran named and the   *)
(* sandbox resolved (gemini.go:156-160, 241-246).                          *)
THEOREM PathIsOfARun == AgentSpec => []LastPathFromRun
<1>1. AgentInv => LastPathFromRun
  BY DEF AgentInv, PathsRooted, LastPathFromRun
<1> QED BY <1>1, AgentInvariant, PTL

(* Every call of the model gets its response, in order, or the user an     *)
(* error; the loop is inside Execute only while it waits for it            *)
(* (gemini.go:74-113).                                                     *)
THEOREM AgentIsConsistent == AgentSpec => []AgentConsistent
<1>1. AgentInv => AgentConsistent
  <2> SUFFICES ASSUME AgentInv PROVE AgentConsistent
    OBVIOUS
  <2>1. AgentTypeOK /\ GapsFollowErrors
    BY DEF AgentInv, Typed, InStep
  <2>2. ResponsesMatchCalls
    <3> SUFFICES ASSUME turn = "send", answers # <<>> PROVE unanswered = Answered
      BY DEF ResponsesMatchCalls
    <3>1. Answering /\ todo = <<>>
      BY DEF AgentInv, InStep, Typed, AgentTypeOK
    <3> QED BY <3>1, AllAnswered DEF AgentInv
  <2> QED BY <2>1, <2>2 DEF AgentConsistent
<1> QED BY <1>1, AgentInvariant, PTL
=============================================================================
