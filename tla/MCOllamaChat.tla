---------------------------- MODULE MCOllamaChat -----------------------------
(***************************************************************************)
(* An Ollama conversation of three chats: messages with one and with two   *)
(* tool calls that fetch text, store it, enter a directory, run git        *)
(* where the conversation stands, and call a function nobody declared.     *)
(***************************************************************************)
EXTENDS OllamaChat, TLC

CONSTANTS link, word

MCTokens == {link, word}
MCTrackable == {link}

Function(name, sub, args) ==
  [name |-> name, subcommand |-> sub, args |-> args @@ NoCall.args]
String(words) == [form |-> "text", words |-> words]

Fetch      == Function("http_get", "other", "url" :> String({}))
Store(t)   == Function("write_file", "other", "path" :> String({}) @@ "content" :> String(t))
Enter      == Function("list_directory", "other", "path" :> String({word}))
Escape     == Function("list_directory", "other", "path" :> [form |-> "refused", words |-> {}])
GitHere    == Function("execute_git_command", "status", "args" :> String({}))
Undeclared == Function("undeclared", "other", <<>>)

MCResponses == {<<Fetch, Store({link})>>, <<Enter, GitHere>>, <<Escape>>,
                <<Store({}), Undeclared>>}
MCProposals == {ToolCallOf(f) : f \in {Fetch, Store({link}), Store({}), Enter, Escape,
                                       GitHere}}
MCOutputs == {[words |-> {link}, long |-> FALSE], [words |-> {word}, long |-> TRUE]}

MCDecide(c) ==
  CASE c.tool \in {"git", "http"} \/ c.action = "list_dir" ->
         [decision |-> "allow", audit |-> TRUE]
    [] c.action = "write_file" -> [decision |-> "ask", audit |-> FALSE]
    [] OTHER -> [decision |-> "deny", audit |-> FALSE]

(* The mediator main builds, with the terminal approver or with none.      *)
MCConfigs == {[sandbox |-> TRUE, redactor |-> TRUE, level |-> Info, approver |-> a] :
                a \in {"terminal", "auto"}}
==============================================================================
