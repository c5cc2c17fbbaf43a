------------------------------ MODULE Sandbox -------------------------------
(***************************************************************************)
(* Package sandbox: ValidateToolCall, which normalises a proposed call or  *)
(* refuses it, and ValidateToolResult.  An argument is its words and its   *)
(* form, which says how the validator of that argument takes it:           *)
(*   absent   the key is not in the map                                    *)
(*   empty    the string without a character                               *)
(*   blank    any other string of white space                              *)
(*   other    not a string (for git args: not an array of strings)         *)
(*   refused  a string the validator refuses: a path outside the           *)
(*            workspace, a blocked URL, a command, flag, manager or        *)
(*            package name that is not allowed, content above the limit    *)
(*   text     a string it accepts                                          *)
(*   rooted   a path resolved to an absolute one under the workspace root  *)
(***************************************************************************)
EXTENDS Redact

Forms == {"absent", "empty", "blank", "other", "refused", "text", "rooted"}
ArgNames == {"path", "content", "url", "body", "content_type", "command",
             "args", "manager", "package", "version"}

Value == [form : Forms, words : Text]
Absent == [form |-> "absent", words |-> {}]

ReadOnlyGit    == {"status", "log", "diff", "show", "branch"}
PackageActions == {"list", "query", "install", "update"}

(* "other" is any other git subcommand, or the action of no tool at all.   *)
Tools   == {"fs", "git", "http", "shell", "pkg", "unknown"}
Actions == ReadOnlyGit \cup PackageActions \cup
           {"read_file", "write_file", "list_dir", "get", "post", "exec", "other"}
Call == [tool : Tools, action : Actions, args : [ArgNames -> Value]]

Present(c, n) == c.args[n].form # "absent"
Usable(c, n)  == c.args[n].form \in {"text", "rooted"}

(* The arguments a call of this tool and action must have.                 *)
RequiredArgs(c) ==
  CASE c.tool = "fs"   -> {"path"} \cup IF c.action = "write_file" THEN {"content"} ELSE {}
    [] c.tool = "git"  -> {"args"}
    [] c.tool = "http" -> {"url"} \cup IF c.action = "post" THEN {"body"} ELSE {}
    [] c.tool = "shell" -> {"command"}
    [] c.tool = "pkg" /\ c.action \in {"query", "install"} -> {"package"}
    [] OTHER -> {}

(* The arguments it looks at when they are given.                          *)
OptionalArgs(c) ==
  CASE c.tool = "git" -> {"path"}
    [] c.tool = "http" /\ c.action = "post" -> {"content_type"}
    [] c.tool = "pkg" -> {"manager"} \cup
         IF c.action # "list" /\ Usable(c, "package") THEN {"version"} ELSE {}
    [] OTHER -> {}

(* content and body may be empty, and so may manager: "" means "detect".   *)
Acceptable(c, n) ==
  \/ Usable(c, n)
  \/ n \in {"content", "body", "manager"} /\ c.args[n].form \in {"empty", "blank"}

RefusedArgs(c) ==
  {n \in RequiredArgs(c) : ~Acceptable(c, n)}
    \cup {n \in OptionalArgs(c) : Present(c, n) /\ ~Acceptable(c, n)}
    \cup {n \in {"package"} : /\ c.tool = "pkg" /\ c.action = "update"
                              /\ c.args[n].form = "refused"}

RefusedAction(c) ==
  \/ c.tool = "git" /\ c.action \notin ReadOnlyGit
  \/ c.tool = "pkg" /\ c.action \notin PackageActions

Rejects(c) == RefusedAction(c) \/ RefusedArgs(c) # {}

(* The words an error may quote: nothing, or the argument it refused.      *)
RejectionTexts(c) == {{}} \cup {c.args[n].words : n \in RefusedArgs(c)}

(* A usable path becomes absolute.  For shell and pkg the error of pathArg *)
(* is dropped and the path stays as it was given.  An update takes a       *)
(* package that is blank or not a string for an empty one.                 *)
NormalisedArg(c, n) ==
  CASE n = "path" /\ c.tool \in {"fs", "git", "shell", "pkg"} /\ Usable(c, n) ->
         [form |-> "rooted", words |-> c.args[n].words]
    [] n = "package" /\ c.tool = "pkg" /\ c.action = "update"
         /\ c.args[n].form \in {"blank", "other"} ->
         [form |-> "empty", words |-> {}]
    [] OTHER -> c.args[n]

Normalised(c) == [c EXCEPT !.args = [n \in ArgNames |-> NormalisedArg(c, n)]]

OversizeResult(output) == output.long
=============================================================================
