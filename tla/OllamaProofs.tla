---------------------------- MODULE OllamaProofs -----------------------------
(***************************************************************************)
(* Proofs about OllamaChat: the messages that the program keeps itself, the*)
(* calls they leave pending and the tracker of the chat fit together over  *)
(* failed queries, abandoned turns, new chats and a signal at any moment;  *)
(* for any model, any tools and any policy.                                *)
(***************************************************************************)
EXTENDS OllamaChat, MediatorProofs

(***************************************************************************)
(* The inductive invariant.                                                *)
(***************************************************************************)
(* Types, and where the loop stands when it holds what.                    *)
Typed ==
  /\ ChatTypeOK
  /\ todo \in Seq(FunctionCall)
  /\ \A i \in DOMAIN todo : todo[i].name # "undeclared" => ToolCallOf(todo[i]) \in Proposals
  /\ gaps \in BOOLEAN /\ erred \in BOOLEAN

(* A message that stays unanswered is one of a failed turn.                *)
InStep == CallsAnswered /\ GapsFollowErrors

(* What the messages hold, the tracker of the chat was told.               *)
TrackerTold == context \subseteq shown[tracker]

(* The call in the mediator is one of the chat: the model that proposed it *)
(* had seen the messages as they are.                                      *)
InChat ==
  turn = "tool" =>
    /\ ctx[Chat] = tracker
    /\ context \subseteq known[Chat]
    /\ pc[Chat] = "idle" /\ reply[Chat].untrusted =>
         reply[Chat].words \subseteq shown[tracker]

(* A path that will be remembered was resolved.                            *)
Resolves(c) == MovesTo(c) => c.args["path"].form = "rooted"
PathsRooted ==
  conf.sandbox => lastPath.form = "rooted" /\ (pc[Chat] # "idle" => Resolves(call[Chat]))

ChatInv ==
  /\ IInv /\ Typed
  /\ InStep /\ TrackerTold /\ InChat
  /\ PathsRooted /\ lastPath \in {Root} \cup entered

(***************************************************************************)
(* The chat and the mediator.                                              *)
(***************************************************************************)
(* The chat is the caller, and its trackers are contexts of their own.     *)
LEMMA ChatIsCaller ==
  /\ Chat \in Callers
  /\ Trackers \subseteq Stores /\ Trackers \subseteq Contexts
  /\ \A t \in Trackers : Tracker(t) = t
BY OllamaAssumption DEF Stores, Contexts, Tracker

(* A declared tool is any but the one that stands for all the others.      *)
LEMMA Declared == "undeclared" \notin DOMAIN defs
BY DEF defs

(* A step of the chat is a step of the mediator with one caller, or none.  *)
LEMMA ChatStep ==
  ASSUME Typed, [ChatNext]_chatVars
  PROVE  [Next]_vars
<1>1. Chat \in Callers /\ tracker \in Contexts
  BY ChatIsCaller DEF Typed, ChatTypeOK
<1>2. CASE CallTool
  <2>1. todo # <<>>
    BY <1>2 DEF CallTool, Typed, ChatTypeOK
  <2>2. 1 \in DOMAIN todo /\ Head(todo) = todo[1]
    BY <2>1 DEF Typed
  <2>3. Head(todo).name # "undeclared"
    BY <1>2, Declared DEF CallTool
  <2>4. ToolCallOf(Head(todo)) \in Proposals
    BY <2>2, <2>3 DEF Typed
  <2> QED BY <1>1, <1>2, <2>4 DEF CallTool, Next
<1>3. CASE Mediate \/ ExecuteTool \/ Human
  BY <1>1, <1>3 DEF Mediate, ExecuteTool, Human, Next, Step, OwnStep
<1>4. CASE Signal
  BY <1>4 DEF Signal, Next
<1>5. CASE NewChat \/ Exit \/ Prompt \/ QueryFails \/ Query
  BY <1>5 DEF NewChat, Exit, Prompt, QueryFails, Query
<1>6. CASE UnknownTool \/ Collect \/ Abandon \/ Interrupt \/ Stopped
  BY <1>6 DEF UnknownTool, Collect, Abandon, Interrupt, Stopped, chatVars
<1>7. CASE UNCHANGED chatVars
  BY <1>7 DEF chatVars
<1> QED BY <1>2, <1>3, <1>4, <1>5, <1>6, <1>7 DEF ChatNext, Work

(***************************************************************************)
(* The invariant.                                                          *)
(***************************************************************************)
(* Nothing was said and nothing is pending.                                *)
LEMMA ChatInitInv == ChatInit => ChatInv
<1> SUFFICES ASSUME ChatInit PROVE ChatInv
  OBVIOUS
<1>1. IInv /\ TypeOK
  BY InitInvariant DEF ChatInit, IInv
<1>2. Root \in Value /\ Root.form = "rooted"
  BY DEF Root, Value, Forms, Text
<1>3. pc[Chat] = "idle"
  BY ChatIsCaller DEF ChatInit, Init
<1>4. 0 \in Trackers
  BY OllamaAssumption
<1> USE DEF ChatInit
<1>5. Typed
  <2>1. ChatTypeOK
    BY <1>1, <1>2, <1>3, <1>4 DEF ChatTypeOK, Text
  <2>2. todo \in Seq(FunctionCall)
    OBVIOUS
  <2>3. DOMAIN todo = {}
    OBVIOUS
  <2> QED BY <2>1, <2>2, <2>3 DEF Typed
<1>6. InStep /\ TrackerTold /\ InChat
  BY DEF InStep, CallsAnswered, GapsFollowErrors, TrackerTold, InChat
<1>7. PathsRooted /\ lastPath \in {Root} \cup entered
  BY <1>2, <1>3 DEF PathsRooted
<1> QED BY <1>1, <1>5, <1>6, <1>7 DEF ChatInv

(* Between turns: a new chat starts over, a prompt leaves a gap only after *)
(* a failed turn.                                                          *)
LEMMA ReadyKeeps ==
  ASSUME ChatInv, IInv', NewChat \/ Exit \/ Prompt
  PROVE  ChatInv'
<1> USE DEF ChatInv
<1>1. /\ UNCHANGED vars /\ todo' = todo
      /\ turn = "ready" /\ turn' \in {"ready", "query", "exit"}
      /\ \/ /\ tracker' = tracker /\ lastPath' = lastPath /\ entered' = entered
            /\ context' = context
         \/ /\ tracker' \in Trackers /\ lastPath' = Root /\ entered' = {}
            /\ context' = {}
  BY OllamaAssumption DEF NewChat, Exit, Prompt, record, Typed, ChatTypeOK
<1>2. /\ pending' \in Nat /\ (turn' = "query" => pending' = 0)
      /\ turn' = "ready" => pending' = 0
      /\ \/ gaps' = FALSE /\ erred' = FALSE
         \/ gaps' = gaps /\ erred' = erred
         \/ gaps' = (gaps \/ pending # 0) /\ erred' = erred
  BY DEF NewChat, Exit, Prompt, record, Typed, ChatTypeOK
<1>3. UNCHANGED <<conf, pc, ctx, call, reply, known, shown>>
  BY <1>1 DEF vars, state, history
<1>4. pc[Chat] = "idle" /\ todo = <<>>
  BY <1>1 DEF Typed, ChatTypeOK
<1>5. Root \in Value /\ Root.form = "rooted"
  BY DEF Root, Value, Forms, Text
<1>6. Typed'
  <2>1. TypeOK'
    BY DEF IInv
  <2>2. context' \in Text
    BY <1>1 DEF Typed, ChatTypeOK, Text
  <2>3. ChatTypeOK'
    BY <1>1, <1>2, <1>3, <1>4, <1>5, <2>1, <2>2 DEF Typed, ChatTypeOK
  <2>4. gaps' \in BOOLEAN /\ erred' \in BOOLEAN
    BY <1>2 DEF Typed
  <2> QED BY <1>1, <2>3, <2>4 DEF Typed
<1>7. InStep'
  <2>1. gaps \/ pending # 0 => erred
    BY <1>1 DEF InStep, GapsFollowErrors
  <2>2. gaps' => erred'
    <3>1. gaps => erred
      BY <2>1
    <3>2. CASE gaps' = FALSE
      BY <3>2
    <3>3. CASE gaps' = gaps /\ erred' = erred
      BY <3>1, <3>3, Zenon
    <3>4. CASE gaps' = (gaps \/ pending # 0) /\ erred' = erred
      <4>1. CASE gaps \/ pending # 0
        <5>1. erred
          BY <2>1, <4>1
        <5> QED BY <3>4, <5>1
      <4>2. CASE ~(gaps \/ pending # 0)
        BY <3>4, <4>2, Zenon
      <4> QED BY <4>1, <4>2
    <3> QED BY <1>2, <3>2, <3>3, <3>4
  <2> QED BY <1>1, <1>2, <2>2 DEF InStep, CallsAnswered, GapsFollowErrors
<1>8. TrackerTold' /\ InChat'
  BY <1>1, <1>3 DEF TrackerTold, InChat
<1>9. PathsRooted' /\ (lastPath \in {Root} \cup entered)'
  BY <1>1, <1>3, <1>4, <1>5 DEF PathsRooted
<1> QED BY <1>6, <1>7, <1>8, <1>9

(* A turn that fails ends with an error; the messages stay as they are.    *)
LEMMA FailureKeeps ==
  ASSUME ChatInv, IInv', QueryFails \/ UnknownTool \/ Abandon \/ Interrupt \/ Stopped
  PROVE  ChatInv'
<1> USE DEF ChatInv
<1>1. /\ UNCHANGED vars
      /\ UNCHANGED <<tracker, lastPath, context, pending, gaps, entered>>
  BY DEF QueryFails, UnknownTool, Abandon, Interrupt, Stopped, chatVars, chat, record
<1>2. UNCHANGED <<conf, pc, ctx, call, reply, known, shown>>
  BY <1>1 DEF vars, state, history
<1>3. pc[Chat] = "idle"
  BY DEF QueryFails, UnknownTool, Abandon, Interrupt, Stopped, Returned, Typed, ChatTypeOK
<1>4. CASE turn' = "ready" /\ todo' = <<>> /\ erred' = TRUE
  <2>1. Typed'
    <3>1. DOMAIN <<>> = {} /\ << >> \in Seq(FunctionCall)
      OBVIOUS
    <3>2. ChatTypeOK'
      BY <1>1, <1>2, <1>3, <1>4 DEF Typed, ChatTypeOK, IInv
    <3> QED BY <1>1, <1>4, <3>1, <3>2 DEF Typed
  <2>2. InStep'
    BY <1>4 DEF InStep, CallsAnswered, GapsFollowErrors
  <2>3. TrackerTold' /\ InChat' /\ PathsRooted' /\ (lastPath \in {Root} \cup entered)'
    BY <1>1, <1>2, <1>3, <1>4 DEF TrackerTold, InChat, PathsRooted
  <2> QED BY <2>1, <2>2, <2>3
<1>5. CASE turn' = "exit" /\ UNCHANGED <<todo, erred>>
  <2>1. Typed'
    BY <1>1, <1>2, <1>3, <1>5 DEF Typed, ChatTypeOK, IInv
  <2>2. InStep'
    <3>1. gaps' => erred'
      BY <1>1, <1>5 DEF InStep, GapsFollowErrors
    <3> QED BY <1>5, <3>1 DEF InStep, CallsAnswered, GapsFollowErrors
  <2>3. TrackerTold' /\ InChat' /\ PathsRooted' /\ (lastPath \in {Root} \cup entered)'
    BY <1>1, <1>2, <1>3, <1>5 DEF TrackerTold, InChat, PathsRooted
  <2> QED BY <2>1, <2>2, <2>3
<1>6. QueryFails \/ UnknownTool \/ Abandon =>
        turn' = "ready" /\ todo' = <<>> /\ erred' = TRUE
  BY DEF QueryFails, UnknownTool, Abandon, EndTurn, Typed
<1>7. Interrupt \/ Stopped => turn' = "exit" /\ UNCHANGED <<todo, erred>>
  BY DEF Interrupt, Stopped, chatVars, chat, record
<1> QED BY <1>4, <1>5, <1>6, <1>7

(* A query is made with nothing pending, so it leaves no gap.              *)
LEMMA QueryKeeps ==
  ASSUME ChatInv, IInv', Query
  PROVE  ChatInv'
<1> USE DEF ChatInv
<1>1. /\ UNCHANGED vars /\ turn = "query"
      /\ UNCHANGED <<tracker, lastPath, context, entered>>
  BY DEF Query
<1>2. UNCHANGED <<conf, pc, ctx, call, reply, known, shown>>
  BY <1>1 DEF vars, state, history
<1>3. pending = 0 /\ todo = <<>> /\ pc[Chat] = "idle"
  BY <1>1 DEF Typed, ChatTypeOK, InStep, CallsAnswered
<1>4. gaps' = gaps /\ erred' = erred
  <2>1. gaps \in BOOLEAN /\ erred \in BOOLEAN
    BY DEF Typed
  <2>2. gaps' = (gaps \/ pending # 0)
    BY DEF Query
  <2>3. erred' = erred \/ erred' = (erred \/ FALSE)
    BY DEF Query, EndTurn
  <2> QED BY <1>3, <2>1, <2>2, <2>3
<1>5. \/ turn' = "ready" /\ todo' = <<>> /\ pending' = 0
      \/ \E calls \in Responses : turn' = "calls" /\ todo' = calls /\ pending' = Len(calls)
  BY <1>3 DEF Query, EndTurn
<1>6. /\ todo' \in Seq(FunctionCall)
      /\ \A i \in DOMAIN todo' : todo'[i].name # "undeclared" => ToolCallOf(todo'[i]) \in Proposals
      /\ \/ turn' = "ready" /\ todo' = <<>>
         \/ turn' = "calls" /\ todo' # <<>>
      /\ pending' = Len(todo') /\ pending' \in Nat
  <2>1. DOMAIN <<>> = {} /\ << >> \in Seq(FunctionCall) /\ Len(<<>>) = 0
    OBVIOUS
  <2>2. CASE turn' = "ready" /\ todo' = <<>> /\ pending' = 0
    BY <2>1, <2>2
  <2>3. ASSUME NEW calls \in Responses, turn' = "calls", todo' = calls, pending' = Len(calls)
        PROVE  <1>6!:
    <3>1. /\ calls \in Seq(FunctionCall) /\ calls # <<>>
          /\ \A i \in DOMAIN calls :
               calls[i].name # "undeclared" => ToolCallOf(calls[i]) \in Proposals
      BY OllamaAssumption
    <3>2. Len(calls) \in Nat
      BY <3>1
    <3> QED BY <2>3, <3>1, <3>2
  <2> QED BY <1>5, <2>2, <2>3
<1>7. Typed'
  <2>1. ChatTypeOK'
    BY <1>1, <1>2, <1>3, <1>6 DEF Typed, ChatTypeOK, IInv
  <2> QED BY <1>4, <1>6, <2>1 DEF Typed
<1>8. InStep'
  <2>1. gaps' => erred'
    BY <1>4 DEF InStep, GapsFollowErrors
  <2>2. turn' = "ready" => pending' = 0
    <3>1. Len(<<>>) = 0
      OBVIOUS
    <3> QED BY <1>6, <3>1
  <2> QED BY <1>6, <2>1, <2>2 DEF InStep, CallsAnswered, GapsFollowErrors
<1>9. TrackerTold' /\ InChat' /\ PathsRooted' /\ (lastPath \in {Root} \cup entered)'
  BY <1>1, <1>2, <1>6 DEF TrackerTold, InChat, PathsRooted
<1> QED BY <1>7, <1>8, <1>9

(* A call that moves git is git's or a listing; the sandbox that accepted  *)
(* it resolved its path.                                                   *)
LEMMA MovesRooted ==
  ASSUME NEW f \in FunctionCall, f.name \in DOMAIN defs, ~Rejects(ToolCallOf(f))
  PROVE  Resolves(Normalised(ToolCallOf(f)))
<1> DEFINE c == ToolCallOf(f)
           d == Normalised(c)
<1>1. /\ c.tool = defs[f.name][1]
      /\ c.action = IF f.name = "execute_git_command" THEN f.subcommand ELSE defs[f.name][2]
      /\ c = [tool |-> c.tool, action |-> c.action, args |-> c.args]
  BY DEF ToolCallOf
<1>2. c.action = "list_dir" => c.tool \in {"fs", "git"}
  BY <1>1 DEF defs
<1> HIDE DEF c
<1>3. d.tool = c.tool /\ d.action = c.action /\ d.args["path"] = NormalisedArg(c, "path")
  BY <1>1 DEF Normalised, ArgNames
<1>4. ASSUME MovesTo(d) PROVE d.args["path"].form = "rooted"
  <2>1. c.tool \in {"git", "fs"}
    BY <1>2, <1>3, <1>4 DEF MovesTo, ListsDirectory
  <2>2. CASE Usable(c, "path")
    BY <1>3, <2>1, <2>2 DEF NormalisedArg
  <2>3. CASE ~Usable(c, "path")
    <3>1. d.args["path"] = c.args["path"]
      BY <1>3, <2>3 DEF NormalisedArg
    <3>2. "path" \in RefusedArgs(c)
      BY <1>4, <2>1, <2>3, <3>1
         DEF RefusedArgs, RequiredArgs, OptionalArgs, Acceptable, Present, MovesTo, ListsDirectory
    <3> QED BY <3>2 DEF Rejects, c
  <2> QED BY <2>2, <2>3
<1> QED BY <1>4 DEF Resolves, c

(* A call enters for the chat it was asked in.                             *)
LEMMA CallToolKeeps ==
  ASSUME ChatInv, IInv', CallTool
  PROVE  ChatInv'
<1> USE DEF ChatInv
<1> DEFINE f == Head(todo)
           c == ToolCallOf(f)
<1>1. /\ turn = "calls" /\ turn' = "tool" /\ Execute(Chat, tracker, c)
      /\ f.name \in DOMAIN defs
      /\ UNCHANGED <<tracker, lastPath, todo, context, pending, gaps, erred, entered>>
  BY DEF CallTool, record
<1>2. todo # <<>>
  BY <1>1 DEF Typed, ChatTypeOK
<1>3. f \in FunctionCall /\ c \in Proposals
  <2>1. 1 \in DOMAIN todo /\ f = todo[1] /\ f \in FunctionCall
    BY <1>2 DEF Typed
  <2>2. f.name # "undeclared"
    BY <1>1, Declared
  <2> QED BY <2>1, <2>2 DEF Typed
<1>4. tracker \in Trackers /\ tracker \in Contexts /\ Tracker(tracker) = tracker
  BY ChatIsCaller DEF Typed, ChatTypeOK
<1> HIDE DEF f, c
<1>5. /\ conf' = conf /\ shown' = shown
      /\ ctx'[Chat] = tracker /\ known'[Chat] = shown[tracker]
      /\ \/ pc'[Chat] = "idle" /\ ~reply'[Chat].untrusted
         \/ /\ pc'[Chat] = "taint" /\ ~(conf.sandbox /\ Rejects(c))
            /\ call'[Chat] = IF conf.sandbox THEN Normalised(c) ELSE c
  <2>1. TypeOK /\ Chat \in Callers
    BY ChatIsCaller DEF IInv
  <2>2. known'[Chat] = shown[Tracker(tracker)]
    BY <1>1, <1>3, <1>4, <2>1, ExecuteEnters
  <2> QED BY <1>1, <1>3, <1>4, <2>1, <2>2, ExecuteEnters
<1>6. Typed'
  <2>1. ChatTypeOK'
    BY <1>1, <1>2 DEF Typed, ChatTypeOK, IInv
  <2> QED BY <1>1, <2>1 DEF Typed
<1>7. InStep'
  <2>1. gaps => erred
    BY DEF InStep, GapsFollowErrors
  <2> QED BY <1>1, <2>1 DEF InStep, CallsAnswered, GapsFollowErrors
<1>8. TrackerTold' /\ InChat'
  BY <1>1, <1>5 DEF TrackerTold, InChat
<1>9. PathsRooted'
  <2>1. conf.sandbox /\ ~Rejects(c) => Resolves(Normalised(c))
    BY <1>1, <1>3, MovesRooted DEF c
  <2> QED BY <1>1, <1>5, <2>1 DEF PathsRooted, Resolves, MovesTo, ListsDirectory
<1> QED BY <1>1, <1>6, <1>7, <1>8, <1>9

(* While it is inside, it stays that chat's call, also when the signal     *)
(* comes; only a handler moves git, to where the sandbox put its path.     *)
LEMMA InsideKeeps ==
  ASSUME ChatInv, IInv', Mediate \/ Human \/ ExecuteTool
  PROVE  ChatInv'
<1> USE DEF ChatInv
<1>1. /\ UNCHANGED <<tracker, turn, todo, context, pending, gaps, erred>>
      /\ \/ UNCHANGED <<lastPath, entered>>
         \/ /\ MovesTo(call[Chat])
            /\ lastPath' = call[Chat].args["path"]
            /\ entered' = entered \cup {call[Chat].args["path"]}
  BY DEF Mediate, Human, ExecuteTool, chat, record
<1>2. Step(Chat) \/ Answer(Chat)
  BY DEF Mediate, Human, ExecuteTool, Step, OwnStep
<1>3. /\ conf' = conf /\ ctx' = ctx /\ call' = call /\ known' = known /\ pc[Chat] # "idle"
      /\ \A s \in Stores : shown[s] \subseteq shown'[s]
      /\ pc'[Chat] = "idle" /\ reply'[Chat].untrusted =>
           reply'[Chat].words \subseteq shown'[Tracker(ctx[Chat])]
  BY <1>2, ChatIsCaller, ExecuteProceeds DEF IInv
<1>4. turn = "tool" /\ ctx[Chat] = tracker /\ tracker \in Stores /\ Tracker(tracker) = tracker
  BY <1>3, ChatIsCaller DEF Typed, ChatTypeOK, InChat
<1>5. Typed'
  <2>1. call[Chat].args["path"] \in Value
    BY ChatIsCaller, QuotedType DEF IInv, TypeOK, ArgNames
  <2>2. lastPath' \in Value
    BY <1>1, <2>1 DEF Typed, ChatTypeOK
  <2>3. ChatTypeOK'
    BY <1>1, <1>4, <2>2 DEF Typed, ChatTypeOK, IInv
  <2> QED BY <1>1, <2>3 DEF Typed
<1>6. InStep'
  BY <1>1 DEF InStep, CallsAnswered, GapsFollowErrors
<1>7. TrackerTold' /\ InChat'
  BY <1>1, <1>3, <1>4 DEF TrackerTold, InChat
<1>8. PathsRooted'
  <2>1. conf.sandbox => lastPath.form = "rooted" /\ Resolves(call[Chat])
    BY <1>3 DEF PathsRooted
  <2>2. conf.sandbox => lastPath'.form = "rooted"
    BY <1>1, <2>1 DEF Resolves
  <2> QED BY <1>3, <2>1, <2>2 DEF PathsRooted, Resolves, MovesTo, ListsDirectory
<1>9. (lastPath \in {Root} \cup entered)'
  BY <1>1
<1> QED BY <1>5, <1>6, <1>7, <1>8, <1>9

(* A message answers the first call that is left; its words were told.     *)
LEMMA CollectKeeps ==
  ASSUME ChatInv, IInv', Collect
  PROVE  ChatInv'
<1> USE DEF ChatInv
<1>1. /\ UNCHANGED vars /\ turn = "tool" /\ pc[Chat] = "idle"
      /\ UNCHANGED <<tracker, lastPath, gaps, erred, entered>>
      /\ context' = IF reply[Chat].untrusted THEN context \cup reply[Chat].words ELSE context
      /\ pending' = pending - 1
      /\ todo' = Tail(todo)
      /\ turn' = IF Len(todo) = 1 THEN "query" ELSE "calls"
  BY DEF Collect, Returned, AppendReply, record
<1>2. UNCHANGED <<conf, pc, ctx, call, reply, known, shown>>
  BY <1>1 DEF vars, state, history
<1>3. todo # <<>> /\ todo \in Seq(FunctionCall) /\ pending = Len(todo)
  BY <1>1 DEF Typed, ChatTypeOK, InStep, CallsAnswered
<1>4. /\ Len(todo') = Len(todo) - 1 /\ Len(todo) \in Nat \ {0}
      /\ todo' \in Seq(FunctionCall)
      /\ DOMAIN todo' = 1..(Len(todo) - 1) /\ DOMAIN todo = 1..Len(todo)
      /\ \A i \in 1..(Len(todo) - 1) : todo'[i] = todo[i + 1]
  BY <1>1, <1>3
<1>5. reply[Chat].words \in Text
  BY ChatIsCaller DEF IInv, TypeOK, Reply
<1>6. Typed'
  <2>1. \A i \in DOMAIN todo' :
          todo'[i].name # "undeclared" => ToolCallOf(todo'[i]) \in Proposals
    <3> SUFFICES ASSUME NEW i \in DOMAIN todo', todo'[i].name # "undeclared"
                 PROVE  ToolCallOf(todo'[i]) \in Proposals
      OBVIOUS
    <3>1. i + 1 \in DOMAIN todo /\ todo'[i] = todo[i + 1]
      BY <1>4
    <3> QED BY <3>1 DEF Typed
  <2>2. turn' = "query" <=> todo' = <<>>
    <3>1. todo' = <<>> <=> Len(todo') = 0
      BY <1>4
    <3>2. turn' = "query" <=> Len(todo) = 1
      BY <1>1
    <3> QED BY <1>4, <3>1, <3>2
  <2>3. context' \in Text
    BY <1>1, <1>5 DEF Typed, ChatTypeOK, Text
  <2>4. pending' \in Nat
    BY <1>1, <1>3, <1>4
  <2>5. ChatTypeOK'
    BY <1>1, <1>2, <2>2, <2>3, <2>4 DEF Typed, ChatTypeOK, IInv
  <2> QED BY <1>1, <1>4, <2>1, <2>5 DEF Typed
<1>7. InStep'
  <2>1. pending' = Len(todo') /\ (turn' = "query" => pending' = 0)
    BY <1>1, <1>3, <1>4
  <2>2. gaps => erred
    BY DEF InStep, GapsFollowErrors
  <2> QED BY <1>1, <2>1, <2>2 DEF InStep, CallsAnswered, GapsFollowErrors
<1>8. TrackerTold'
  BY <1>1, <1>2 DEF TrackerTold, InChat
<1>9. InChat' /\ PathsRooted' /\ (lastPath \in {Root} \cup entered)'
  BY <1>1, <1>2 DEF InChat, PathsRooted
<1> QED BY <1>6, <1>7, <1>8, <1>9

(* Every step of the chat keeps the invariant.                             *)
LEMMA ChatNextInv == ChatInv /\ [ChatNext]_chatVars => ChatInv'
<1> SUFFICES ASSUME ChatInv, [ChatNext]_chatVars PROVE ChatInv'
  OBVIOUS
<1>1. IInv'
  BY ChatStep, NextInvariant DEF ChatInv
<1>2. CASE Signal \/ UNCHANGED chatVars
  <2>1. /\ UNCHANGED <<conf, pc, ctx, call, reply, known, shown>>
        /\ UNCHANGED <<tracker, lastPath, turn, todo, context, pending>>
        /\ UNCHANGED <<gaps, erred, entered>>
    BY <1>2 DEF Signal, Cancel, chatVars, vars, state, history, chat, record
  <2>2. Typed'
    BY <1>1, <2>1 DEF ChatInv, Typed, ChatTypeOK, IInv
  <2>3. InStep'
    BY <2>1 DEF ChatInv, InStep, CallsAnswered, GapsFollowErrors
  <2>4. TrackerTold' /\ InChat' /\ PathsRooted' /\ (lastPath \in {Root} \cup entered)'
    BY <2>1 DEF ChatInv, TrackerTold, InChat, PathsRooted
  <2> QED BY <1>1, <2>2, <2>3, <2>4 DEF ChatInv
<1> QED BY <1>1, <1>2, ReadyKeeps, FailureKeeps, QueryKeeps, CallToolKeeps, InsideKeeps,
           CollectKeeps DEF ChatNext, Work

(* In every reachable state the messages, the tracker, the mediator's call *)
(* and what the loop still has to do fit together.                         *)
THEOREM ChatInvariant == ChatSpec => []ChatInv
<1> QED BY ChatInitInv, ChatNextInv, PTL DEF ChatSpec

(* The chat is one of the environments Mediator was proved for, so every   *)
(* theorem of Spec holds of the chat.                                      *)
THEOREM ChatUsesMediator == ChatSpec => Spec
<1>1. ChatInit => Init
  BY DEF ChatInit
<1>2. ChatInv /\ [ChatNext]_chatVars => [Next]_vars
  BY ChatStep DEF ChatInv
<1> QED BY <1>1, <1>2, ChatInvariant, PTL DEF ChatSpec, Spec

(* Every untrusted word in the messages, also of a turn that failed, is in *)
(* the tracker that the chat's calls are checked against                   *)
(* (runtime.go:327-369).                                                   *)
THEOREM MessagesAreTracked == ChatSpec => []MessagesTracked
<1>1. ChatInv => MessagesTracked
  <2> SUFFICES ASSUME ChatInv PROVE TaintFragments(context) \subseteq taint[tracker]
    BY DEF MessagesTracked
  <2>1. tracker \in Stores
    BY ChatIsCaller DEF ChatInv, Typed, ChatTypeOK
  <2> QED BY <2>1 DEF ChatInv, TrackerTold, IInv, SeenIsTracked, TaintFragments
<1> QED BY <1>1, ChatInvariant, PTL

(* No handler runs with a sensitive argument that repeats untrusted text   *)
(* of the messages, however long ago and in whichever turn it came in      *)
(* (mediator.go:250-269 under runtime.go:343-369).                         *)
NoMessageRepeated ==
  pc[Chat] = "handler" \/ (turn = "tool" /\ ran[Chat]) =>
    \A n \in SensitiveArguments(call[Chat]) :
      ~FindInValue(TaintFragments(context), call[Chat].args[n].words)

(* So it is in every reachable state.                                      *)
THEOREM NothingIsRepeated == ChatSpec => []NoMessageRepeated
<1>1. ChatInv => NoMessageRepeated
  <2> SUFFICES ASSUME ChatInv, pc[Chat] = "handler" \/ (turn = "tool" /\ ran[Chat]),
                      NEW n \in SensitiveArguments(call[Chat])
               PROVE  ~FindInValue(TaintFragments(context), call[Chat].args[n].words)
    BY DEF NoMessageRepeated
  <2>1. context \subseteq known[Chat]
    BY DEF ChatInv, Typed, ChatTypeOK, InChat
  <2>2. Unrepeated(Chat)
    BY ChatIsCaller DEF ChatInv, IInv, Established, Clean, Judged
  <2> QED BY <2>1, <2>2 DEF Unrepeated, FindInValue, TaintFragments
<1> QED BY <1>1, ChatInvariant, PTL

(* git runs in the workspace root or where a call of this chat that ran    *)
(* named and the sandbox resolved (main.go:455, 475-492).                  *)
THEOREM PathIsOfARun == ChatSpec => []LastPathFromRun
<1>1. ChatInv => LastPathFromRun
  BY DEF ChatInv, PathsRooted, LastPathFromRun
<1> QED BY <1>1, ChatInvariant, PTL

(* The model is asked again when every one of its calls has its message;   *)
(* a gap in the messages follows an error (runtime.go:343-369).            *)
THEOREM ChatIsConsistent == ChatSpec => []ChatConsistent
<1>1. ChatInv => ChatConsistent
  BY DEF ChatInv, Typed, InStep, ChatConsistent
<1> QED BY <1>1, ChatInvariant, PTL
=============================================================================
