----------------------------- MODULE GeminiAgent -----------------------------
(***************************************************************************)
(* agent.GeminiAgent under runGeminiModel: a chat session, the loop that   *)
(* sends function responses until the model stops calling, and the state   *)
(* the agent keeps between turns.  Tool calls go through Mediator, whose   *)
(* one caller here is the agent.  The genai chat is external: it records a *)
(* message and its answer when the exchange succeeds, and nothing else.    *)
(***************************************************************************)
EXTENDS Mediator

CONSTANTS Agent,       \* the agent, the only caller of the mediator
          MaxSessions, \* bound: sessions that may be created
          Responses    \* what a model may answer: sequences of function calls

Functions == {"execute_git_command", "read_file", "write_file", "http_get",
              "http_post", "shell_exec", "pkg_list", "pkg_query",
              "pkg_install", "pkg_update", "list_directory", "undeclared"}

(* subcommand is the first of a git command's args, "other" when it has    *)
(* none.                                                                   *)
FunctionCall == [name : Functions, subcommand : Actions,
                 args : [ArgNames -> Value]]

Root == [form |-> "rooted", words |-> {}]

VARIABLES
  session,     \* chatSession: "none" or "open"
  tracker,     \* taint, the tracker the calls of the session use
  isConcise,   \* the mode the session was created in
  concise,     \* conciseMode of the read loop
  lastPath,    \* where git runs when a call names no path
  turn,        \* where SendMessageWithTools is
  todo,        \* function calls of the last response, not yet executed
  answers      \* functionResponses gathered so far

VARIABLES      \* history
  context,     \* untrusted words in the session's messages
  unanswered,  \* function calls of the session's last message
  gaps,        \* a message with function calls is not followed by their responses
  erred,       \* a turn of the session ended in an error
  entered      \* paths of the git and list_directory calls that ran

agent == <<session, tracker, isConcise, concise, lastPath, turn, todo, answers>>
record == <<context, unanswered, gaps, erred, entered>>
agentVars == <<vars, agent, record>>

geminiToolFamily(name) ==
  CASE name = "execute_git_command" -> "git"
    [] name \in {"http_get", "http_post"} -> "http"
    [] name = "shell_exec" -> "shell"
    [] name \in {"pkg_list", "pkg_query", "pkg_install", "pkg_update"} -> "pkg"
    [] name \in {"read_file", "write_file", "list_directory"} -> "fs"
    [] OTHER -> "unknown"

geminiActionName(f) ==
  CASE f.name = "execute_git_command" -> f.subcommand
    [] f.name = "read_file"      -> "read_file"
    [] f.name = "write_file"     -> "write_file"
    [] f.name = "http_get"       -> "get"
    [] f.name = "http_post"      -> "post"
    [] f.name = "shell_exec"     -> "exec"
    [] f.name = "pkg_list"       -> "list"
    [] f.name = "pkg_query"      -> "query"
    [] f.name = "pkg_install"    -> "install"
    [] f.name = "pkg_update"     -> "update"
    [] f.name = "list_directory" -> "list_dir"
    [] OTHER -> "other"

ToolCallOf(f) ==
  [tool |-> geminiToolFamily(f.name), action |-> geminiActionName(f), args |-> f.args]

ListsDirectory(c) == c.action = "list_dir"

(* The calls that remember their path, when they give one; a blank one     *)
(* counts, which only a sandbox refuses.                                   *)
MovesTo(c) ==
  /\ c.tool = "git" \/ ListsDirectory(c)
  /\ c.args["path"].form \notin {"absent", "other", "empty"}

ASSUME GeminiAssumption ==
  /\ Callers = {Agent}
  /\ MaxSessions \in Nat
  /\ Trackers = 0..MaxSessions
  /\ \A r \in Responses :
       /\ r \in Seq(FunctionCall) /\ r # <<>>
       /\ \A i \in DOMAIN r : ToolCallOf(r[i]) \in Proposals

-----------------------------------------------------------------------------
(* The read loop, between turns.                                           *)
SetModel ==
  /\ turn = "ready"
  /\ session' = "none"
  /\ UNCHANGED <<vars, tracker, isConcise, concise, lastPath, turn, todo, answers, record>>

ToggleConcise ==
  /\ turn = "ready"
  /\ concise' = ~concise
  /\ UNCHANGED <<vars, session, tracker, isConcise, lastPath, turn, todo, answers, record>>

Exit ==
  /\ turn = "ready"
  /\ turn' = "exit"
  /\ UNCHANGED <<vars, session, tracker, isConcise, concise, lastPath, todo, answers, record>>

(* A prompt, in the session it finds or in a new one.                      *)
NeedsSession == session = "none" \/ isConcise # concise

Continue ==
  /\ turn = "ready" /\ ~NeedsSession
  /\ turn' = "send"
  /\ UNCHANGED <<vars, session, tracker, isConcise, concise, lastPath, todo, answers, record>>

(* Mutant: the tracker is replaced before the session is.                  *)
TrackerFirst ==
  /\ turn = "ready" /\ NeedsSession
  /\ tracker < MaxSessions /\ tracker' = tracker + 1
  /\ UNCHANGED <<vars, session, isConcise, concise, lastPath, turn, todo, answers, record>>

(* Chats.Create failed: the error goes to the user, nothing changes.       *)
CreateFails ==
  /\ turn = "ready" /\ NeedsSession
  /\ UNCHANGED agentVars

(* A new session starts with a new tracker and no messages.                *)
Create ==
  /\ turn = "ready" /\ NeedsSession
  /\ tracker < MaxSessions
  /\ session' = "open"
  /\ isConcise' = concise
  /\ tracker' = tracker + 1
  /\ turn' = "send"
  /\ context' = {} /\ unanswered' = <<>> /\ gaps' = FALSE /\ erred' = FALSE
  /\ UNCHANGED <<vars, concise, lastPath, todo, answers, entered>>

EndTurn(failed) ==
  /\ turn' = "ready"
  /\ todo' = <<>>
  /\ answers' = <<>>
  /\ erred' = (erred \/ failed)

(* chatSession.SendMessage: the prompt, or the responses gathered.         *)
SendFails ==
  /\ turn = "send"
  /\ EndTurn(TRUE)
  /\ UNCHANGED <<vars, session, tracker, isConcise, concise, lastPath,
                 context, unanswered, gaps, entered>>

Sent == UNION {answers[i].words : i \in DOMAIN answers}
Answered == [i \in DOMAIN answers |-> answers[i].name]

Send ==
  /\ turn = "send"
  /\ context' = context \cup Sent
  /\ gaps' = (gaps \/ unanswered # Answered)
  /\ \/ /\ EndTurn(FALSE)
        /\ unanswered' = <<>>
     \/ \E calls \in Responses :
          /\ todo' = calls
          /\ unanswered' = [i \in DOMAIN calls |-> calls[i].name]
          /\ answers' = <<>>
          /\ turn' = "calls"
          /\ UNCHANGED erred
  /\ UNCHANGED <<vars, session, tracker, isConcise, concise, lastPath, entered>>

(* Mutant: the path is noted before the call is judged.                    *)
CallToolNotes ==
  /\ turn = "calls"
  /\ Execute(Agent, tracker, ToolCallOf(Head(todo)))
  /\ turn' = "tool"
  /\ lastPath' = IF MovesTo(ToolCallOf(Head(todo))) THEN Head(todo).args["path"] ELSE lastPath
  /\ UNCHANGED <<session, tracker, isConcise, concise, todo, answers, record>>

(* The next function call enters the mediator.                             *)
CallTool ==
  /\ turn = "calls"
  /\ Execute(Agent, tracker, ToolCallOf(Head(todo)))
  /\ turn' = "tool"
  /\ UNCHANGED <<session, tracker, isConcise, concise, lastPath, todo, answers, record>>

(* executeTool: the handler, which first notes the path it was given.      *)
ExecuteTool ==
  /\ Handle(Agent)
  /\ lastPath' = IF MovesTo(call[Agent]) THEN call[Agent].args["path"] ELSE lastPath
  /\ entered' = IF MovesTo(call[Agent]) THEN entered \cup {call[Agent].args["path"]}
                ELSE entered
  /\ UNCHANGED <<session, tracker, isConcise, concise, turn, todo, answers,
                 context, unanswered, gaps, erred>>

Mediate ==
  /\ \/ CheckTaint(Agent) \/ Evaluate(Agent) \/ Approve(Agent)
     \/ CheckResult(Agent) \/ Return(Agent)
  /\ UNCHANGED <<agent, record>>

Human ==
  /\ Answer(Agent)
  /\ UNCHANGED <<agent, record>>

(* Execute has returned.  Its result and its denial are both a response.   *)
Returned(kinds) ==
  /\ turn = "tool" /\ pc[Agent] = "idle"
  /\ reply[Agent].kind \in kinds

(* Mutant: the responses of denied calls are left out.                     *)
ResponseOfResult ==
  IF reply[Agent].kind = "denied" THEN <<>>
  ELSE <<[name |-> Head(todo).name, words |-> reply[Agent].words]>>

Response ==
  <<[name |-> Head(todo).name,
     words |-> IF reply[Agent].untrusted THEN reply[Agent].words ELSE {}]>>

Collect ==
  /\ Returned({"result", "denied"})
  /\ answers' = answers \o Response
  /\ todo' = Tail(todo)
  /\ turn' = IF Len(todo) = 1 THEN "send" ELSE "calls"
  /\ UNCHANGED <<vars, session, tracker, isConcise, concise, lastPath, record>>

(* Its error ends the turn, whatever the response still asked for.         *)
Abandon ==
  /\ Returned({"error"})
  /\ EndTurn(TRUE)
  /\ UNCHANGED <<vars, session, tracker, isConcise, concise, lastPath,
                 context, unanswered, gaps, entered>>

(* An interrupted approval prompt ends the read loop too.                  *)
Interrupt ==
  /\ Returned({"error"}) /\ ~ran[Agent] /\ conf.approver = "terminal"
  /\ turn' = "exit"
  /\ UNCHANGED <<vars, session, tracker, isConcise, concise, lastPath, todo, answers, record>>

Stopped == turn = "exit" /\ UNCHANGED agentVars

-----------------------------------------------------------------------------
AgentInit ==
  /\ Init
  /\ session = "none" /\ tracker = 0
  /\ isConcise = FALSE /\ concise = TRUE
  /\ lastPath = Root
  /\ turn = "ready" /\ todo = <<>> /\ answers = <<>>
  /\ context = {} /\ unanswered = <<>> /\ gaps = FALSE /\ erred = FALSE
  /\ entered = {}

(* What the program does by itself inside a turn.                          *)
Work == CallTool \/ Mediate \/ ExecuteTool \/ Collect \/ Abandon

AgentNext ==
  \/ SetModel \/ ToggleConcise \/ Exit
  \/ Continue \/ CreateFails \/ Create
  \/ SendFails \/ Send
  \/ Work \/ Human \/ Interrupt \/ Stopped

AgentSpec == AgentInit /\ [][AgentNext]_agentVars

-----------------------------------------------------------------------------
(* Every variable of the agent has its type, and SendMessageWithTools is   *)
(* inside Execute only while it waits for it.                              *)
AgentTypeOK ==
  /\ TypeOK
  /\ session \in {"none", "open"} /\ tracker \in Trackers
  /\ isConcise \in BOOLEAN /\ concise \in BOOLEAN
  /\ lastPath \in Value
  /\ turn \in {"ready", "send", "calls", "tool", "exit"}
  /\ turn \notin {"ready", "exit"} => session = "open"
  /\ pc[Agent] # "idle" => turn = "tool"
  /\ turn \in {"calls", "tool"} <=> todo # <<>> /\ turn # "exit"

(* Every untrusted word the model was sent in this session, or is about to *)
(* be sent, is in the tracker the session's calls are checked against:     *)
(* session and tracker change together or not at all (gemini.go:53-62).    *)
HistoryTracked ==
  session = "open" => TaintFragments(context \cup Sent) \subseteq taint[tracker]

(* No handler runs with a sensitive argument that repeats untrusted text   *)
(* of the session's messages, however many turns and failures ago.         *)
NoReplay ==
  pc[Agent] = "handler" \/ (turn = "tool" /\ ran[Agent]) =>
    \A n \in SensitiveArguments(call[Agent]) :
      ~FindInValue(TaintFragments(context), call[Agent].args[n].words)

(* git runs in the workspace root or in a directory that an authorised     *)
(* call named and the sandbox resolved; a refused call moves nothing       *)
(* (gemini.go:156-160, 241-246).                                           *)
LastPathFromRun ==
  /\ lastPath \in {Root} \cup entered
  /\ conf.sandbox => lastPath.form = "rooted"

(* The responses sent to the model are those of the calls it made, in      *)
(* order: none is missing, not even of a denied call (gemini.go:74-113).   *)
ResponsesMatchCalls ==
  turn = "send" /\ answers # <<>> => unanswered = Answered

(* The session's messages have a gap, a call without its response, only    *)
(* after a turn ended in an error, which the user was told.                *)
GapsFollowErrors ==
  gaps \/ (turn = "ready" /\ unanswered # <<>>) => erred

(* The three together: what the loop holds fits where it stands, and every *)
(* call of the model gets its response or the user an error.               *)
AgentConsistent == AgentTypeOK /\ ResponsesMatchCalls /\ GapsFollowErrors
=============================================================================
