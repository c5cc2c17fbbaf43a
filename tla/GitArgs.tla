--------------------------------- MODULE GitArgs ---------------------------------
(***************************************************************************)
(* Which git command lines the sandbox takes for read-only ones.  An       *)
(* argument is one of                                                      *)
(*   flag     of this name; bare, or with a value after "=" or attached,   *)
(*            or, form "up", with one that leads up, --format=a/../../..   *)
(*   count    -5                                                           *)
(*   word     a subcommand or another name                                 *)
(*   operand  anything else; its form says what validateGitOperand does    *)
(***************************************************************************)
EXTENDS Naturals, SequencesExt

CONSTANT MaxCommandArgs   \* 32 in the code

Flag(name) == [kind |-> "flag", name |-> name, form |-> "bare"]
FlagWith(name, form) == [kind |-> "flag", name |-> name, form |-> form]
Count == [kind |-> "count", name |-> "-5", form |-> "bare"]
Word(name) == [kind |-> "word", name |-> name, form |-> "bare"]
Operand(form) == [kind |-> "operand", name |-> "", form |-> form]  \* "allowed" or "refused"

Separator == Flag("--")
List == Flag("--list")

isAllowedGitReadAction == {"status", "log", "diff", "show", "branch"}
isKnownGitSubcommand ==
  {"add", "am", "apply", "bisect", "branch", "checkout", "cherry-pick", "clean", "clone",
   "commit", "config", "diff", "fetch", "gc", "init", "log", "merge", "mv", "pull", "push",
   "rebase", "reflog", "remote", "reset", "restore", "rm", "show", "stash", "status",
   "switch", "tag", "worktree"}

(* Flags that take the next argument as their value.                       *)
valueFlags ==
  [status |-> {},
   log |-> {"-n", "--max-count", "--skip", "--author", "--committer", "--grep", "--since",
            "--after", "--until", "--before", "--date", "--format", "--pretty"},
   diff |-> {"-U", "--unified", "--diff-filter"},
   show |-> {"--format", "--pretty"},
   branch |-> {"--contains", "--no-contains", "--merged", "--no-merged", "--points-at",
               "--sort", "--format"}]

(* Flags that stand alone.                                                 *)
exactFlags ==
  [status |-> {"-s", "-b", "-u", "-uno", "-unormal", "-uall", "-z", "--short", "--branch",
               "--porcelain", "--long", "--ignored", "--untracked-files", "--ahead-behind",
               "--no-ahead-behind", "--renames", "--no-renames"},
   log |-> {"--oneline", "--graph", "--decorate", "--no-decorate", "--stat", "--shortstat",
            "--numstat", "--name-only", "--name-status", "--patch", "-p", "--raw",
            "--summary", "--abbrev-commit", "--no-abbrev-commit", "--reverse", "--all",
            "--branches", "--tags", "--remotes", "--merges", "--no-merges",
            "--first-parent", "--topo-order", "--date-order", "--follow"},
   diff |-> {"--stat", "--name-only", "--name-status", "--cached", "--staged", "--check",
             "--summary", "--patch", "-p", "--color", "--no-color", "--word-diff",
             "--ignore-space-at-eol", "-w", "--ignore-all-space", "-b",
             "--ignore-space-change", "--ignore-blank-lines", "--relative"},
   show |-> {"--stat", "--name-only", "--name-status", "--summary", "--patch", "-p",
             "--no-patch", "-s", "--raw", "--abbrev-commit", "--decorate", "--color",
             "--no-color"},
   branch |-> {"-a", "-r", "-v", "-vv", "--all", "--remotes", "--verbose", "--contains",
               "--no-contains", "--merged", "--no-merged", "--points-at", "--sort",
               "--format", "--color", "--no-color", "--ignore-case", "--column",
               "--no-column"}]

(* Flags that may have a value after "=".                                  *)
prefixFlags ==
  [status |-> {"--porcelain", "--ignored", "--untracked-files"},
   log |-> {"--decorate", "--format", "--pretty", "--date", "--since", "--after", "--until",
            "--before", "--author", "--committer", "--grep", "--max-count", "--skip",
            "--branches", "--tags", "--remotes"},
   diff |-> {"--unified", "-U", "--color", "--word-diff", "--diff-filter"},
   show |-> {"--format", "--pretty", "--decorate", "--color"},
   branch |-> {"--contains", "--no-contains", "--merged", "--no-merged", "--points-at",
               "--sort", "--format", "--color", "--column"}]

IsFlag(arg) == arg.kind \in {"flag", "count"}
OperandAllowed(arg) == arg.form \notin {"refused", "up"}

consumesGitFlagValue(command, arg) ==
  arg.kind = "flag" /\ arg.form = "bare" /\ arg.name \in valueFlags[command]

(* "-U" is a prefix without "=", so its value may be attached to it.       *)
isAllowedGitFlag(command, arg) ==
  /\ arg.kind = "flag"
  /\ \/ arg.form = "bare" /\ arg.name \in exactFlags[command]
     \/ arg.form \in {"with", "up"} /\ arg.name \in prefixFlags[command]
     \/ arg.name = "-U" /\ arg.name \in prefixFlags[command]

isShortGitCount(arg) == arg.kind = "count"

(* The loops of the five commands, one argument after the other: whether   *)
(* the next one is looked at like any other, is the value of the flag      *)
(* before it, is an operand since a separator came, or no longer counts.   *)
(* Only the loop of branch has a list mode, without which it takes no      *)
(* operands; only that of log takes a count.                               *)
Scanning == [mode |-> "scan", listMode |-> FALSE]

Proceed(state, allowed, mode) == [state EXCEPT !.mode = IF allowed THEN mode ELSE "refused"]

(* Mutant: the value of a flag is looked at like any other argument.       *)
ScanValues(command, state, arg) ==
  IF state.mode = "refused" THEN state
  ELSE Proceed(state, IF IsFlag(arg) THEN isAllowedGitFlag(command, arg) ELSE OperandAllowed(arg),
               "scan")

ScanArg(command, state, arg) ==
  LET operandAllowed == OperandAllowed(arg) /\ (command = "branch" => state.listMode)
      flagAllowed == isAllowedGitFlag(command, arg) \/ (command = "log" /\ isShortGitCount(arg))
  IN IF state.mode = "refused" THEN state
     ELSE IF state.mode = "value" THEN Proceed(state, OperandAllowed(arg), "scan")
     ELSE IF state.mode = "operands" THEN Proceed(state, operandAllowed, "operands")
     ELSE IF arg = Separator THEN Proceed(state, TRUE, "operands")
     ELSE IF command = "branch" /\ arg = List THEN [state EXCEPT !.listMode = TRUE]
     ELSE IF consumesGitFlagValue(command, arg) THEN Proceed(state, TRUE, "value")
     ELSE Proceed(state, IF IsFlag(arg) THEN flagAllowed ELSE operandAllowed, "scan")

Scanned(command, args) ==
  FoldLeft(LAMBDA state, arg : ScanArg(command, state, arg), Scanning, args)

validateArgsOf(command, args) == Scanned(command, args).mode \in {"scan", "operands"}

(* The command itself may lead its arguments, another subcommand may not.  *)
validateGitArgs(command, argv) ==
  /\ Len(argv) <= MaxCommandArgs
  /\ command \in isAllowedGitReadAction
  /\ IF argv # <<>> /\ argv[1] = Word(command) THEN validateArgsOf(command, Tail(argv))
     ELSE /\ argv # <<>> /\ argv[1].kind = "word" => argv[1].name \notin isKnownGitSubcommand
          /\ validateArgsOf(command, argv)
================================================================================
