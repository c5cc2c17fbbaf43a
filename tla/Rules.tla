--------------------------------- MODULE Rules ---------------------------------
(***************************************************************************)
(* The rules of the policy engine, the sandbox and policycheck that decide *)
(* by a scan, each against a definition without one: pattern matchers,     *)
(* paths and shell operands, git command lines, the lines of policycheck.  *)
(* Each behaviour asks one question.                                       *)
(***************************************************************************)
EXTENDS WorkspacePaths, GitArgs, PolicyCheck

CONSTANTS
  Characters,                \* of texts
  Globs, GlobTexts,          \* path and command patterns, and what they are matched with
  DomainPatterns, Domains,
  Directories, Paths,        \* directories of patterns /d/** and paths
  Roots, Operands,           \* workspace roots, and paths looked up from there
  Commands,                  \* shell commands
  Places,                    \* places in the file system
  GitActions, GitArgvs,
  Objects,                   \* JSON objects in a line of policycheck
  Lines, Rooms               \* its input, and how many outputs it can write

GitArgument ==
  {arg \in [kind : {"flag", "count", "word", "operand"}, name : STRING, form : STRING] :
     arg.kind = "word" => arg = Word(arg.name)}

LineObject ==
  [decodes : BOOLEAN, method : Methods, params : Calls, itself : Calls, call : Calls,
   request : Seq(Inner), workflow : Seq(Inner)]

ASSUME TextsAssumption ==
  /\ {"/", "."} \subseteq Characters
  /\ Globs \cup GlobTexts \cup DomainPatterns \cup Domains \cup Directories \cup Paths
       \cup Roots \cup Operands \cup Commands \subseteq Seq(Characters)
  /\ \A dir \in Directories : PatternDirectory(dir)
  /\ \A root \in Roots : Rooted(root) /\ ~Occurs("nul", root)
  /\ Places \subseteq Seq(Seq(Characters))

ASSUME GitAssumption ==
  GitArgvs \subseteq Seq(GitArgument)

ASSUME LinesAssumption ==
  /\ Objects \subseteq LineObject
  /\ Lines \subseteq Seq({"empty", "call", "error", "long"}) /\ Rooms \subseteq Nat

VARIABLES question,
          answer     \* what the code says, once it was asked

ruleVars == <<question, answer>>

-----------------------------------------------------------------------------
Unanswered == [of |-> "none"]

RulesInit ==
  /\ answer = Unanswered
  /\ \/ question \in [of : {"globs"}, pattern : Globs, value : GlobTexts]
     \/ question \in [of : {"domain"}, pattern : DomainPatterns, value : Domains]
     \/ question \in [of : {"below"}, dir : Directories, value : Paths]
     \/ question \in [of : {"path"}, root : Roots, text : Operands]
     \/ question \in [of : {"operand"}, text : Operands]
     \/ question \in [of : {"command"}, text : Commands]
     \/ question \in [of : {"git"}, action : GitActions, argv : GitArgvs]
     \/ question \in [of : {"object"}, object : Objects]
     \/ question \in [of : {"lines"}, lines : Lines, room : Rooms]

Ask(of) == question.of = of /\ answer = Unanswered /\ UNCHANGED question

AskGlobs ==
  /\ Ask("globs")
  /\ answer' = [of |-> "globs",
                command |-> matchShellGlob(question.pattern, question.value),
                path |-> matchGlob(question.pattern, question.value)]

AskDomain ==
  /\ Ask("domain")
  /\ answer' = [of |-> "domain", domain |-> matchDomain(question.pattern, question.value)]

AskBelow ==
  /\ Ask("below")
  /\ answer' = [of |-> "below",
                path |-> matchGlob(Under(question.dir), normalizePath(question.value))]

AskPath ==
  /\ Ask("path")
  /\ answer' = [of |-> "path", resolved |-> resolveWorkspacePath(question.root, question.text)]

AskOperand ==
  /\ Ask("operand")
  /\ answer' = [of |-> "operand", allowed |-> validateGitOperand(question.text)]

AskCommand ==
  /\ Ask("command")
  /\ answer' = [of |-> "command", allowed |-> validateSimpleShellCommand(question.text)]

AskGit ==
  /\ Ask("git")
  /\ answer' = [of |-> "git", allowed |-> validateGitArgs(question.action, question.argv)]

AskObject ==
  /\ Ask("object")
  /\ answer' = [of |-> "object", found |-> parseToolCallLine(question.object)]

AskLines ==
  /\ Ask("lines")
  /\ LET result == run(question.lines, question.room) IN
     answer' = [of |-> "lines", output |-> result.output, code |-> ExitCode(result)]

RulesNext ==
  \/ AskGlobs \/ AskDomain \/ AskBelow \/ AskPath \/ AskOperand \/ AskCommand
  \/ AskGit \/ AskObject \/ AskLines

RulesSpec == RulesInit /\ [][RulesNext]_ruleVars

-----------------------------------------------------------------------------
(* How character x of a pattern, from place j to place k of the value,     *)
(* stands for what is between them: a star for any stretch of free         *)
(* characters, ? for one of them, another for itself.                      *)
Fits(pattern, value, free, x, j, k) ==
  IF pattern[x] = "*" THEN j <= k /\ \A l \in j..(k - 1) : value[l] \in free
  ELSE /\ k = j + 1 /\ j <= Len(value)
       /\ pattern[x] = value[j] \/ (pattern[x] = "?" /\ value[j] \in free)

(* The value can be cut into one piece for each character of the pattern.  *)
IsCut(pattern, value, free) ==
  \E e \in [1..(Len(pattern) + 1) -> Positions(value)] :
    /\ e[1] = 1 /\ e[Len(pattern) + 1] = Len(value) + 1
    /\ \A x \in 1..Len(pattern) : Fits(pattern, value, free, x, e[x], e[x + 1])

Labels(text) == Split(text, ".")

(* A command pattern matches exactly the texts that can be cut into pieces *)
(* its characters stand for, a path pattern those where no wildcard stands *)
(* for a slash, and with ** those that begin as it does; so no path        *)
(* pattern matches more than the same command pattern.  A domain pattern   *)
(* *.d matches d with exactly one label in front, another one itself, and  *)
(* case does not count (shellGlobMatch, matchGlob and matchDomain,         *)
(* engine.go:774-849, 911-934).                                            *)
MatchersAgree ==
  /\ answer.of = "globs" =>
       LET pattern == question.pattern
           value == question.value
       IN IF DoubleStars(pattern) = {}
          THEN /\ answer.command <=> IsCut(pattern, value, Characters)
               /\ answer.path <=> IsCut(pattern, value, Characters \ {"/"})
               /\ answer.path => answer.command
          ELSE {answer.command, answer.path} = {IsPrefix(Stem(pattern), value)}
  /\ answer.of = "domain" =>
       LET p == Labels(ToLower(question.pattern))
           d == Labels(ToLower(question.value))
       IN answer.domain <=>
            IF Len(p) > 1 /\ p[1] = <<"*">>
            THEN Len(d) > 1 /\ d[1] # <<>> /\ Tail(d) = Tail(p)
            ELSE d = p

(* The pattern /d/** matches exactly the paths that lead from the root to  *)
(* something below /d, by whatever detours they are written (Evaluate's    *)
(* use of matchGlob and normalizePath, engine.go:400-407, 774-797 and      *)
(* 936-941).                                                               *)
MatchedIsBelow ==
  answer.of = "below" =>
    (answer.path <=>
       /\ Rooted(question.value)
       /\ IsStrictPrefix(NamesOf(question.dir), Walk(question.value, <<>>)))

(* A path leads nowhere out of a place, and not out of one whose name it   *)
(* cannot contain either.                                                  *)
Keeps(path) == \A place \in Places : IsPrefix(place, Walk(path, place))
Stays(path) ==
  LET strange == <<[i \in 1..(Len(path) + 1) |-> "d"]>> IN IsPrefix(strange, Walk(path, strange))

(* A path is resolved exactly if it leads, from the workspace root, to a   *)
(* place at or below it; what it is resolved to is that place, and is      *)
(* resolved to itself, so later steps may resolve it again.  The operands  *)
(* of a command and of git stay below the directory it runs in, wherever   *)
(* that is, and git gets all that do (resolveWorkspacePath,                *)
(* sandbox.go:717-738, validateWorkspaceOperand, 232-247,                  *)
(* validateGitOperand, 570-585, and the words of a command that are no     *)
(* flags, 188-217).                                                        *)
StaysInWorkspace ==
  /\ answer.of = "path" =>
       LET root == question.root
           place == Walk(question.text, NamesOf(root))
       IN /\ answer.resolved # <<>> <=>
               IsPrefix(NamesOf(root), place) /\ ~Occurs("nul", question.text)
          /\ answer.resolved # <<>> =>
               /\ Rooted(answer.resolved[1]) /\ NamesOf(answer.resolved[1]) = place
               /\ resolveWorkspacePath(root, answer.resolved[1]) = answer.resolved
  /\ answer.of = "operand" =>
       /\ answer.allowed <=>
            /\ ~Blank(question.text) /\ ~Occurs("nul", question.text)
            /\ ~Rooted(question.text) /\ Stays(question.text)
       /\ answer.allowed => Keeps(question.text)
  /\ answer.of = "command" /\ answer.allowed =>
       \A i \in 2..Len(Fields(question.text)) :
         LET word == Fields(question.text)[i] IN
         word[1] # "-" => ~Rooted(word) /\ word[1] # "~" /\ Keeps(word)

-----------------------------------------------------------------------------
(* The roles of the arguments of git, without a scan: an argument is a     *)
(* value if the flags that take one and stand right before it are odd in   *)
(* number, and everything after the first separator that is no value is an *)
(* operand.                                                                *)
Arguments(action, argv) == IF argv # <<>> /\ argv[1] = Word(action) THEN Tail(argv) ELSE argv

Takes(action, args, i) == consumesGitFlagValue(action, args[i])
IsRow(action, args, i, k) ==
  /\ \A j \in (i - k)..(i - 1) : Takes(action, args, j)
  /\ i - k = 1 \/ ~Takes(action, args, i - k - 1)
IsValue(action, args, i) == \E k \in 0..(i - 1) : IsRow(action, args, i, k) /\ k % 2 = 1

IsSeparator(action, args, i) == args[i] = Separator /\ ~IsValue(action, args, i)
AfterSeparator(action, args, i) == \E s \in 1..(i - 1) : IsSeparator(action, args, s)
Before(action, args, i) == ~AfterSeparator(action, args, i) /\ ~IsSeparator(action, args, i)

Role(action, args, i) ==
  IF AfterSeparator(action, args, i) THEN "operand"
  ELSE IF IsValue(action, args, i) THEN "value"
  ELSE IF IsFlag(args[i]) THEN "flag" ELSE "operand"
Listed(action, args, i) ==
  \E l \in 1..(i - 1) : args[l] = List /\ Role(action, args, l) = "flag"

FlagAllowed(action, args, i) ==
  LET arg == args[i] IN
  \/ Takes(action, args, i)
  \/ isAllowedGitFlag(action, arg)
  \/ action = "log" /\ isShortGitCount(arg)
  \/ action = "branch" /\ arg = List
  \/ IsSeparator(action, args, i)

ArgumentAllowed(action, args, i) ==
  /\ Role(action, args, i) = "operand" =>
       OperandAllowed(args[i]) /\ (action = "branch" => Listed(action, args, i))
  /\ Role(action, args, i) = "value" => OperandAllowed(args[i])
  /\ Role(action, args, i) = "flag" => FlagAllowed(action, args, i)

(* git runs with exactly the arguments whose roles are allowed: no flag    *)
(* outside the lists of its command, no value or operand outside the       *)
(* workspace, no flag without its value, no other subcommand; and branch   *)
(* names a branch only to list it (validateReadOnlyGitArgs and the loops   *)
(* below it, sandbox.go:363-559).                                          *)
GitArgsByRole ==
  answer.of = "git" =>
    LET action == question.action
        argv == question.argv
        args == Arguments(action, argv)
    IN answer.allowed <=>
         /\ action \in isAllowedGitReadAction /\ Len(argv) <= MaxCommandArgs
         /\ args = argv /\ argv # <<>> =>
              argv[1] \notin {Word(name) : name \in isKnownGitSubcommand}
         /\ \A i \in DOMAIN args :
              /\ ArgumentAllowed(action, args, i)
              /\ Role(action, args, i) = "flag" /\ Takes(action, args, i) => i < Len(args)

-----------------------------------------------------------------------------
(* How many of the first n lines are not empty.                            *)
Filled(lines, n) == Cardinality({i \in 1..n : lines[i] # "empty"})

(* The lines up to the first obstacle: one too long, or no room left.      *)
LinesReached(lines, room) ==
  {n \in DOMAIN lines : /\ \A i \in 1..n : lines[i] # "long" /\ Filled(lines, n) <= room}

(* The call an object gives by itself: a request the one in its params, if *)
(* it is a tool_call, and none otherwise; anything else itself.            *)
Stated(object) ==
  IF IsRequest(object)
  THEN {[from |-> "params", call |-> object.params] : m \in {"tool_call"} \cap {object.method}}
  ELSE {[from |-> "itself", call |-> object.itself]}

(* A line that is no request also gives its call, and what the request in  *)
(* it states, or else the first item of its workflow.                      *)
Wrapped(line) ==
  IF line.request # <<>> THEN {line.request[1]}
  ELSE {line.workflow[i] : i \in DOMAIN line.workflow \cap {1}}

Offered(line) ==
  Stated(line) \cup
    IF IsRequest(line) THEN {}
    ELSE {[from |-> "call", call |-> line.call]}
           \cup UNION {Stated(inner) : inner \in Wrapped(line)}

(* Of the lines up to the first obstacle, each that is not empty gets one  *)
(* output, in order and with its own number, and the exit code tells an    *)
(* obstacle, a line in error and success apart.  A call is evaluated if    *)
(* the line gives a complete one, it is one of those, and it has an id:    *)
(* what decodes as a request of another method gives none, at the top or   *)
(* inside; what does not decode is no request (main.go:71-220).            *)
EveryLineAnswered ==
  /\ answer.of = "lines" =>
       LET lines == question.lines
           reached == LinesReached(lines, question.room)
           answered == {n \in reached : lines[n] # "empty"}
       IN /\ Len(answer.output) = Cardinality(answered)
          /\ \A n \in answered :
               answer.output[Filled(lines, n)] =
                 [line |-> n, of |-> IF lines[n] = "call" THEN "decision" ELSE "error"]
          /\ answer.code = 1 <=> reached # DOMAIN lines
          /\ answer.code = 2 <=>
               reached = DOMAIN lines /\ \E n \in DOMAIN lines : lines[n] = "error"
  /\ answer.of = "object" =>
       LET calls == {c \in Offered(question.object) : Complete(c.call)} IN
       IF calls = {} THEN answer.found = <<>>
       ELSE /\ Len(answer.found) = 1 /\ answer.found[1].id # ""
            /\ [from |-> answer.found[1].from, call |-> answer.found[1].call] \in calls
================================================================================
