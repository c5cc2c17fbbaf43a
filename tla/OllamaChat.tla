------------------------------ MODULE OllamaChat ------------------------------
(***************************************************************************)
(* runtime.OllamaChat under runOllamaModel: the program keeps the messages *)
(* itself and sends them all with every query, so a turn that fails leaves *)
(* behind what it had appended.  Tool calls go through Mediator with the   *)
(* context that the signal goroutine may cancel at any moment.  basicChat  *)
(* is one step here: it fails, or it returns a whole message.              *)
(***************************************************************************)
EXTENDS Mediator

CONSTANTS Chat,        \* the chat, the only caller of the mediator
          MaxChats,    \* bound: chats that /model may start
          Responses    \* tool calls a message of the model may hold

(* defs, the declared tools; git finds its action in its arguments.        *)
defs == [execute_git_command |-> <<"git", "other">>,
         read_file      |-> <<"fs", "read_file">>,
         write_file     |-> <<"fs", "write_file">>,
         http_get       |-> <<"http", "get">>,
         http_post      |-> <<"http", "post">>,
         shell_exec     |-> <<"shell", "exec">>,
         pkg_list       |-> <<"pkg", "list">>,
         pkg_query      |-> <<"pkg", "query">>,
         pkg_install    |-> <<"pkg", "install">>,
         pkg_update     |-> <<"pkg", "update">>,
         list_directory |-> <<"fs", "list_dir">>]

FunctionCall == [name : DOMAIN defs \cup {"undeclared"}, subcommand : Actions,
                 args : [ArgNames -> Value]]

ToolCallOf(f) ==
  [tool |-> defs[f.name][1],
   action |-> IF f.name = "execute_git_command" THEN f.subcommand ELSE defs[f.name][2],
   args |-> f.args]

Root == [form |-> "rooted", words |-> {}]

ListsDirectory(c) == c.action = "list_dir"

(* The handlers that remember their path, when they are given one; a blank *)
(* one counts, which only a sandbox refuses.                               *)
MovesTo(c) ==
  /\ c.tool = "git" \/ ListsDirectory(c)
  /\ c.args["path"].form \notin {"absent", "other", "empty"}

ASSUME OllamaAssumption ==
  /\ Callers = {Chat}
  /\ MaxChats \in Nat
  /\ Trackers = 0..MaxChats
  /\ \A r \in Responses :
       /\ r \in Seq(FunctionCall) /\ r # <<>>
       /\ \A i \in DOMAIN r : r[i].name # "undeclared" => ToolCallOf(r[i]) \in Proposals

VARIABLES
  tracker,    \* taint, the tracker of the chat
  lastPath,   \* of the tool handlers, where git runs without a path
  turn,       \* where SendMessageWithTools is
  todo,       \* tool calls of the last message, not yet executed
  context,    \* untrusted words in messages
  pending     \* calls of the last message with calls that no message answers

VARIABLES     \* history
  gaps,       \* a message followed while calls were pending
  erred,      \* a turn of the chat ended in an error
  entered     \* paths of the git and list_directory calls that ran in the chat

chat == <<tracker, lastPath, turn, todo, context, pending>>
record == <<gaps, erred, entered>>
chatVars == <<vars, chat, record>>

-----------------------------------------------------------------------------
(* Mutant: the handlers of the old chat are kept.                          *)
KeepHandlers ==
  /\ turn = "ready"
  /\ tracker < MaxChats /\ tracker' = tracker + 1
  /\ context' = {} /\ pending' = 0
  /\ gaps' = FALSE /\ erred' = FALSE /\ entered' = {}
  /\ UNCHANGED <<vars, lastPath, turn, todo>>

(* Mutant: the messages of the old chat are kept.                          *)
KeepMessages ==
  /\ turn = "ready"
  /\ tracker < MaxChats /\ tracker' = tracker + 1
  /\ lastPath' = Root /\ entered' = {}
  /\ UNCHANGED <<vars, turn, todo, context, pending, gaps, erred>>

(* The read loop: /model starts over, with a new tracker and new handlers. *)
NewChat ==
  /\ turn = "ready"
  /\ tracker < MaxChats /\ tracker' = tracker + 1
  /\ lastPath' = Root
  /\ context' = {} /\ pending' = 0
  /\ gaps' = FALSE /\ erred' = FALSE /\ entered' = {}
  /\ UNCHANGED <<vars, turn, todo>>

Exit ==
  /\ turn = "ready"
  /\ turn' = "exit"
  /\ UNCHANGED <<vars, tracker, lastPath, todo, context, pending, record>>

(* A prompt is appended to the messages, whatever they end with.           *)
Prompt ==
  /\ turn = "ready"
  /\ turn' = "query"
  /\ gaps' = (gaps \/ pending # 0)
  /\ pending' = 0
  /\ UNCHANGED <<vars, tracker, lastPath, todo, context, erred, entered>>

EndTurn(failed) ==
  /\ turn' = "ready"
  /\ todo' = <<>>
  /\ erred' = (erred \/ failed)

(* basicChat fails: the messages stay as they are.                         *)
QueryFails ==
  /\ turn = "query"
  /\ EndTurn(TRUE)
  /\ UNCHANGED <<vars, tracker, lastPath, context, pending, gaps,
                 entered>>

Query ==
  /\ turn = "query"
  /\ gaps' = (gaps \/ pending # 0)
  /\ \/ EndTurn(FALSE) /\ UNCHANGED pending
     \/ \E calls \in Responses :
          /\ todo' = calls
          /\ pending' = Len(calls)
          /\ turn' = "calls"
          /\ UNCHANGED erred
  /\ UNCHANGED <<vars, tracker, lastPath, context, entered>>

(* A tool nobody declared ends the turn, with the calls after it.          *)
UnknownTool ==
  /\ turn = "calls" /\ Head(todo).name \notin DOMAIN defs
  /\ EndTurn(TRUE)
  /\ UNCHANGED <<vars, tracker, lastPath, context, pending, gaps,
                 entered>>

CallTool ==
  /\ turn = "calls" /\ Head(todo).name \in DOMAIN defs
  /\ Execute(Chat, tracker, ToolCallOf(Head(todo)))
  /\ turn' = "tool"
  /\ UNCHANGED <<tracker, lastPath, todo, context, pending, record>>

(* The handler notes the path it is given before it does its work.         *)
ExecuteTool ==
  /\ Handle(Chat)
  /\ lastPath' = IF MovesTo(call[Chat]) THEN call[Chat].args["path"] ELSE lastPath
  /\ entered' = IF MovesTo(call[Chat]) THEN entered \cup {call[Chat].args["path"]}
                ELSE entered
  /\ UNCHANGED <<tracker, turn, todo, context, pending, gaps, erred>>

Mediate ==
  /\ \/ CheckTaint(Chat) \/ Evaluate(Chat) \/ Approve(Chat)
     \/ CheckResult(Chat) \/ Return(Chat)
  /\ UNCHANGED <<chat, record>>

Human ==
  /\ Answer(Chat)
  /\ UNCHANGED <<chat, record>>

Signal ==
  /\ Cancel
  /\ UNCHANGED <<chat, record>>

Returned(kinds) ==
  /\ turn = "tool" /\ pc[Chat] = "idle"
  /\ reply[Chat].kind \in kinds

(* Mutant: a denied call gets no message.                                  *)
AppendResult ==
  IF reply[Chat].kind = "denied" THEN UNCHANGED <<context, pending>>
  ELSE context' = context \cup reply[Chat].words /\ pending' = pending - 1

(* The result or the denial is the next message.                           *)
AppendReply ==
  /\ context' = IF reply[Chat].untrusted THEN context \cup reply[Chat].words ELSE context
  /\ pending' = pending - 1

Collect ==
  /\ Returned({"result", "denied"})
  /\ AppendReply
  /\ todo' = Tail(todo)
  /\ turn' = IF Len(todo) = 1 THEN "query" ELSE "calls"
  /\ UNCHANGED <<vars, tracker, lastPath, record>>

(* Mutant: the next call is tried although this one failed.                *)
Retry ==
  /\ Returned({"error"})
  /\ turn' = "calls"
  /\ UNCHANGED <<vars, tracker, lastPath, todo, context, pending, record>>

Abandon ==
  /\ Returned({"error"})
  /\ EndTurn(TRUE)
  /\ UNCHANGED <<vars, tracker, lastPath, context, pending, gaps,
                 entered>>

(* An interrupted approval prompt ends the read loop too.                  *)
Interrupt ==
  /\ Returned({"error"}) /\ ~ran[Chat] /\ conf.approver = "terminal"
  /\ turn' = "exit"
  /\ UNCHANGED <<vars, tracker, lastPath, todo, context, pending, record>>

Stopped == turn = "exit" /\ UNCHANGED chatVars

-----------------------------------------------------------------------------
ChatInit ==
  /\ Init
  /\ tracker = 0 /\ lastPath = Root
  /\ turn = "ready" /\ todo = <<>>
  /\ context = {} /\ pending = 0
  /\ gaps = FALSE /\ erred = FALSE /\ entered = {}

(* What the program does by itself inside a turn.                          *)
Work == UnknownTool \/ CallTool \/ Mediate \/ Collect \/ Abandon

ChatNext ==
  \/ NewChat \/ Exit \/ Prompt \/ QueryFails \/ Query
  \/ Work \/ ExecuteTool \/ Human \/ Signal \/ Interrupt \/ Stopped

ChatSpec == ChatInit /\ [][ChatNext]_chatVars

(* The main goroutine runs unless it waits for the server, for the user or *)
(* for a handler, which may never return (Mediator, Subprocess).           *)
ChatFairSpec == ChatSpec /\ WF_chatVars(Work)

-----------------------------------------------------------------------------
(* Every variable of the chat has its type, and a call is in the mediator  *)
(* only while the turn waits for it.                                       *)
ChatTypeOK ==
  /\ TypeOK
  /\ tracker \in Trackers /\ lastPath \in Value
  /\ turn \in {"ready", "query", "calls", "tool", "exit"}
  /\ context \in Text /\ pending \in Nat
  /\ pc[Chat] # "idle" => turn = "tool"
  /\ turn \in {"calls", "tool"} <=> todo # <<>> /\ turn # "exit"

(* Every untrusted word in the messages, also those that a failed turn or  *)
(* a failed query left there, is in the tracker that the chat's calls are  *)
(* checked against (runtime.go:327-369).                                   *)
MessagesTracked == TaintFragments(context) \subseteq taint[tracker]

(* git runs in the workspace root or in a directory that an authorised     *)
(* call of this chat named and the sandbox resolved (main.go:455, 475-492).*)
LastPathFromRun ==
  /\ lastPath \in {Root} \cup entered
  /\ conf.sandbox => lastPath.form = "rooted"

(* The model is asked again when every one of its calls has its message,   *)
(* the denied ones included; until then exactly the calls not worked off   *)
(* are pending (runtime.go:343-369).                                       *)
CallsAnswered ==
  /\ turn = "query" => pending = 0
  /\ turn \in {"calls", "tool"} => pending = Len(todo)

(* The messages have a gap, a call without its message, only after a turn  *)
(* ended in an error, which the user was told.                             *)
GapsFollowErrors ==
  gaps \/ (turn = "ready" /\ pending # 0) => erred

(* The three together: what the loop holds fits where it stands, and every *)
(* call of the model gets its message or the user an error.                *)
ChatConsistent == ChatTypeOK /\ CallsAnswered /\ GapsFollowErrors

(* The calls of a message are worked off, if every human asked answers and *)
(* every handler returns, and a signal at any moment does not change that  *)
(* (runtime.go:343-371).                                                   *)
TurnProceeds ==
  LetsGo(Chat, "prompt") /\ LetsGo(Chat, "handler") =>
    (turn \in {"calls", "tool"} ~> turn \in {"query", "ready", "exit"})
=============================================================================
