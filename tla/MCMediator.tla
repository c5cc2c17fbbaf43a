----------------------------- MODULE MCMediator -----------------------------
(***************************************************************************)
(* The mediator on a few words, calls and results chosen so that every     *)
(* branch of Execute is taken.                                             *)
(***************************************************************************)
EXTENDS Mediator, TLC

CONSTANTS link, key, order, word   \* the words

MCTokens == {link, key, order, word}
MCSecrets == {key}
MCInjections == {order}
MCTrackable == {link, order}       \* key is always masked, word is too short

Arg(form, words) == [form |-> form, words |-> words]
ToolCall(tool, action, args) ==
  [tool |-> tool, action |-> action, args |-> args @@ NoCall.args]

Get(url)     == ToolCall("http", "get", "url" :> Arg("text", url))
Shell(dir)   == ToolCall("shell", "exec", "command" :> Arg("text", {word}) @@ "path" :> dir)
ReadFile     == ToolCall("fs", "read_file", "path" :> Arg("text", {word}))
OutsideFile  == ToolCall("fs", "read_file", "path" :> Arg("refused", {key}))
WriteFile(t) == ToolCall("fs", "write_file",
                  "path" :> Arg("text", {word}) @@ "content" :> Arg("text", t))
GitLog       == ToolCall("git", "log", "args" :> Arg("text", {word}))
Install(pkg) == ToolCall("pkg", "install", "package" :> Arg("text", pkg))
UnknownTool  == ToolCall("unknown", "other", "path" :> Arg("text", {key}))

MCProposals == {Get({link}), Shell(Arg("text", {order})), ReadFile, OutsideFile,
                WriteFile({link, key}), UnknownTool}

MCOutputs == {[words |-> {link, key}, long |-> FALSE],
              [words |-> {order}, long |-> FALSE],
              [words |-> {word}, long |-> TRUE]}

(* The shape of policies/default.yaml, with one rule that requires audit.  *)
MCDecide(c) ==
  CASE c.tool = "fs" /\ c.action = "read_file" -> [decision |-> "allow", audit |-> FALSE]
    [] c.tool = "http" /\ c.action = "get" -> [decision |-> "allow", audit |-> TRUE]
    [] c.tool = "git" -> [decision |-> "allow", audit |-> FALSE]
    [] c.tool \in {"fs", "shell", "pkg"} -> [decision |-> "ask", audit |-> FALSE]
    [] OTHER -> [decision |-> "deny", audit |-> FALSE]

Conf(level, approver) ==
  [sandbox |-> TRUE, redactor |-> TRUE, level |-> level, approver |-> approver]

(* main's mediator with each approver it may choose; a mediator with no    *)
(* approver and no audit writer; and one that has nothing but a policy.    *)
MCConfigs == {Conf(Info, "terminal"), Conf(Info, "auto"), Conf(Info, "denier"),
              Conf(NoLogger, "none"),
              [sandbox |-> FALSE, redactor |-> FALSE, level |-> Warning,
               approver |-> "none"]}

(* For two callers: a call whose result is untrusted, and one that may     *)
(* repeat it; every result is the same.                                    *)
PairProposals == {Get({}), Shell(Arg("text", {link}))}
PairOutputs == {[words |-> {link}, long |-> FALSE]}
PairConfigs == {Conf(Info, "auto"), Conf(Info, "terminal")}

Symmetry == Permutations(Callers)
=============================================================================
