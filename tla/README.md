# A TLA+ model of bridgekeeper

Bridgekeeper stands between a language model and the machine it runs on. The
model proposes tool calls (git, files, HTTP, shell, packages); bridgekeeper
checks each call against a sandbox, a taint tracker, a policy and a human, runs
it, and gives the redacted result back to the model. This directory holds
TLA+ modules of that program, TLC configurations that check them on small
instances, and theorems that TLAPS proves for all instances.

## 1. The system

| Part (source) | State it keeps | Operations | Talks to |
|---|---|---|---|
| Mediator (`internal/runtime/mediator.go`, `taint.go`) | nothing of its own but an optional shared tracker; per call: arguments, decision, result | `Execute` | sandbox, policy, approver, tool handler, redactor, tracker, audit log |
| Redaction and taint (`internal/redact`) | fragments per tracker, under a mutex | `RedactText`, `Detect`, `AddOutput`, `FindInValue` | mediator |
| Sandbox validator (`internal/sandbox`) | the workspace root | `ValidateToolCall`, `ValidateToolResult` | mediator, tools |
| Policy engine (`internal/policy/engine.go`) | the policy file, read only | `Evaluate` | mediator, netguard |
| Human approval (`internal/hitl`) | a terminal session | `Approve` | mediator, console |
| Audit log (`internal/audit`) | writer and level, a mutex | `Log`, `Enabled` | mediator, main |
| Gemini agent (`internal/agent`) | chat session, mode, model, tracker, last path | `SendMessageWithTools`, `SetModel`, `executeTool` | genai, mediator, tools |
| Ollama chat (`internal/runtime/runtime.go`) | message list, tracker, tool handlers with a last path; server process | `SendMessageWithTools`, `NewOllamaChat`, `Initialize`, `Shutdown` | Ollama server, mediator, tools |
| Command line (`cmd/bridgekeeper`) | concise mode, current chat, a cancel function | read loops, signal goroutine | all of the above |
| Tools (`internal/tools`) | workspace root | one handler per tool, subprocesses with limits | operating system, netguard |
| Network guard (`internal/netguard`) | none | host and address rules, guarded client | tools, policy engine |
| Console (`internal/console`) | per session: raw mode of its terminal, what was read ahead of a line | `ReadLine` | read loops, approval |
| Policy check (`cmd/policycheck`) | none | one decision or error per input line | policy engine |
| Policy loader, formatter (`internal/policy/loader.go`, `format.go`) | none | read, print | policy engine |

What is hard here:

* **Order inside `Execute`.** Ten steps, each with its own early return and its
  own audit event. What is checked has to be what is run; what is shown has to
  have been redacted, classified and tracked first.
* **Concurrency.** A mediator and a tracker may be used by several goroutines;
  the signal goroutine cancels the context at any moment.
* **State that outlives a failure.** A session is created, a send fails, a tool
  fails in the middle of a response: session, mode, tracker, message list, last
  path and leftover calls must still fit together in the next turn.
* **A small language in the policy files.** Trees of conditions with early
  returns and errors, schemas in Go maps (visited in any order), three pattern
  matchers, numbers held in two ways.
* **Processes, sockets, terminals.** Deadlines, output limits, redirects, two
  readers of one terminal, a server that somebody else may start first.
* **Hand-written scanners.** Paths, git and shell command lines, numbers in
  three bases, package arguments that three layers look at in turn.

What makes each part correct:

* mediator: nothing runs unauthorised; nothing is shown untracked; no call
  repeats untrusted text in a sensitive argument; the trail says what happened;
* policy engine: the decision is what the file declares, in whatever order
  things are visited, and no error decides for *allow*;
* agents: the tracker follows the conversation, every call of the model gets
  its response or the user an error, and git runs where an authorised call put it;
* streams, processes, requests: what is returned is whole or an error, a process
  that was started is stopped, a limit is a limit, no blocked host or address
  is ever contacted;
* the program: every piece of what is typed has one reader, an interrupt at any
  prompt ends it, and the server it started does not outlive it;
* the scanners: what is let through is exactly what a reference definition
  without a scan lets through.

`PROJECT.json` lists the hazards one by one, each at its line of the source with
the properties that cover it, or the reason why none does yet.

## 2. The modules

| Module | What it is |
|---|---|
| `Redact` | masking, detectors, fragments: operators on sets of words |
| `Sandbox` | `ValidateToolCall` and `ValidateToolResult` by the form of each argument |
| `Mediator` | `Execute`, one action per step, any number of callers; extends the two above |
| `ReferenceMonitor` | what a mediator promises, in five actions, knowing nothing of trackers or approvers |
| `MediatorProofs` | theorems about `Mediator`: types, safety, the trail, the refinement |
| `GeminiAgent` | the agent and its read loop around `Mediator`, with one caller |
| `OllamaChat` | the chat and its read loop around `Mediator`, with one caller and the signal |
| `GeminiProofs`, `OllamaProofs` | theorems about the two, on top of `MediatorProofs` |
| `PolicyEngine` | `Evaluate` in small steps; conditions, specs and patterns are constants |
| `PolicyMatch` | the matchers and path normalisation, as functions of character sequences |
| `PolicyPaths` | `PolicyEngine` with the path matcher of `PolicyMatch`: which directories a decided call reaches |
| `PolicyValues` | values, what a condition's leaf and an argument spec say of one |
| `PolicyTrees` | trees of conditions and nested specs: a function of all of them, each from its parts |
| `Rules` | the questions to the scanners, their reference definitions and the properties that compare the two |
| `ValueRules` | the same for conditions and argument specs |
| `PolicyEngineProofs` | theorems about `PolicyEngine`, `PolicyPaths`, `Rules` and `ValueRules` |
| `Subprocess`, `SubprocessProofs` | `runSubprocess`: a command, what it starts, their pipe, the limit, the deadline |
| `OllamaStream`, `OllamaStreamProofs` | `basicChat`: the lines of a streamed answer and the message made of them |
| `Netguard`, `NetguardProofs` | a guarded HTTP request: lookups, dials, redirects, connections used again, the body |
| `Program`, `ProgramProofs` | the process: the Ollama server it may start, the read loop, the approval prompt, console sessions, signals |
| `WorkspacePaths`, `GitArgs` | the paths, shell and git command lines the sandbox lets through |
| `PackageTools` | a package call on its way through sandbox, handler and tool to a command line |
| `NetguardHosts` | which hosts are an address however they are spelled, and which are blocked |
| `PolicyCheck` | the tool call in a line, the output per line, the exit code |
| `MC*` | constants, bounds and reference definitions for TLC |

**Mediator.** A caller's `pc` tells where in `Execute` it is; an action is the
code between two accesses to something shared (the tracker under its mutex, the
approver, the audit writer) or to the outside (the handler). `Execute` is the
entry with the sandbox, `CheckTaint` is `denyTaintedSensitiveArgs`, `Evaluate`
the policy, `Approve`/`Answer` the approver, `Handle` the handler,
`CheckResult` the code from `validateResult` to `AddOutput`, `Return` the last
event and the envelope. `conf` is how `main` put the mediator together (with or
without sandbox, redactor, audit writer and approver). Texts are sets of words:
secrets, injections, words long enough to be tracked, others. `trail` holds the
audit events of the current call. The variables `shown`, `known`, `granted` and
`ran` are history, which no step of the code reads.

**Agents.** `GeminiAgent` and `OllamaChat` extend `Mediator` and share its
variables: a turn enters `Execute` through `CallTool` and leaves it through
`Collect` or `Abandon`. The genai chat is external and records an exchange only
when it succeeds; the Ollama chat keeps the list of messages itself, with
whatever a failed turn has appended. `basicChat` is one step that fails or
returns a message. A tracker is a number, a fresh one per session or chat.

**Policy.** `PolicyEngine` walks the capabilities with `at` and the current one
with `stage`; `todo` is the part of the argument map not visited yet. A decision
carries the rule that made it. `PolicyValues` and `PolicyMatch` give the
constants their meaning in `MCPolicyEngine`. `PolicyPaths` keeps the rest of the
engine abstract and assumes only that its path matcher is the one of
`PolicyMatch`, so a theorem can say which directories a call reaches. Matchers,
conditions and specs are also checked on their own against reference definitions:
a cutting of the value into one piece per pattern character, a walk along a path
(both in `Rules`), and the set of truth values a tree could have if each faulty
leaf were something (`ValueRules`).

**Subprocess.** `Stdout` and `Stderr` are the same writer, so os/exec (external)
makes one pipe and one goroutine, `copier`, that drains it; another one,
`Watch`, kills the command when its context ends. `holders` are the processes
that have the pipe open: the command and whatever it has started, which nobody
kills. `cmd.Run` returns when the command is reaped *and* the pipe has reached
its end, so a descendant that keeps the pipe open keeps `runSubprocess` waiting
past its deadline. Bytes are counted, not told apart; `Write` is
`limitedBuffer.Write`, `Outcome` the switch after `cmd.Run`.

**OllamaStream.** The lines of the answer stay in `sent`; `read` says how many
the scanner has returned, so the content of the answer can be compared with the
message at the end. A line is a chunk, or one of the kinds that `basicChat`
skips or gives up at. It is the detail behind the one step `basicChat` of
`OllamaChat`, and is checked on its own.

**Netguard.** `Validate` and `Follow` are the check of a URL, before the first
request and before each redirect; `Lookup`, `resolveDialAddr` and `Dial` are the
guarded dialer. A host may resolve to something else at each lookup: that is why
an address is dialled and not the name. `pool` holds the connections the
transport may use again without a dial. Which hosts and addresses are blocked
are constants here; `NetguardHosts` says what the code makes of a spelling.

**Program.** `at` is where the main goroutine is: `initialize` and `polling` are
`Initialize`, `loop` and `reading` the read loop, `turn` everything
`SendMessageWithTools` does, `asking` the approver's `ReadLine` inside it,
`stopping` and `waiting` the deferred `Shutdown`. A session is a `console.Session`:
`ahead` is what its `term.Terminal` or `bufio.Reader` has read and not returned.
A read ends at any byte, so what is typed is modelled in pieces: a `part` of a line
that goes on, or a piece that ends one. A session reads until it has a line, and
keeps what is behind it, which may be the first part of the next one. Two sessions
on one terminal, the loop's and the approver's, must not repeat, lose or reorder
a piece; but the loop's may return a line with half of the next read
ahead, and the approver's then take the other half for its answer. Nothing in
the code prevents that, and nothing in the model does: a line is whole only
for a session that shares its device with no other. What several pieces join
to is left open (`ReadsAs`). Standard input is a terminal or a pipe; the approver opens
`/dev/tty` in any case. In raw mode Ctrl-C is an input character and ends
`ReadLine` with `ErrInterrupt`; outside of it the kernel throws the pending lines
away (`flushed`) and sends `SIGINT`, which only cancels the context: neither a
signal at a prompt nor one in Gemini mode, whose agent has a context of its
own, ends the program. `foreign` is a server of somebody else, which
`Initialize` may find before or after it started its `own`; the port has room
for one. `log.Fatal` (`LoopFails`) exits past the deferred shutdown, so the
server stays behind, which `NoServerLeftRunning` names as the exception it is.
`written`, `taken`, `flushed` and `ending` are history.

**Rules.** The pure parts are operators, in modules without variables. `Rules`
puts questions to those that scan a text: it has one variable for the question,
one for what the code answers, and one action per function asked; the texts,
command lines and input lines that may be asked about are constants, assumed only
to be of their form. So the run asks each question up to a bound, and the theorems
speak of all of them. Texts are sequences of characters where the code looks at
characters (paths, hosts, patterns), and records of the form an argument has
where it compares words (git flags, package arguments, the objects in a line of
`policycheck`). The loops over git arguments and over the lines of `policycheck`
are folds whose state is what the loop knows at its head. `ValueRules` asks in the
same way about conditions, comparisons and argument specs: any sets of trees and
values closed under taking parts, with a depth that decreases. `MCRules` adds the
questions that only TLC answers. The references are written another
way than the code: the place a path leads to by walking it; the role of a git
argument from the parity of the value flags before it; which lines are reached
from how much can be written; blocked addresses by the first and last of each range;
the digits of an address written out and read back. The sandbox resolves no
symbolic links; the model does not either. `Sandbox` in the mediator keeps to
the forms of arguments that these operators come to.

## 3. The runs

| Run | Shows | Bounds |
|---|---|---|
| `mediator` | all branches of `Execute`: what runs, what is delivered, the trail, the return; refinement of the reference monitor | 1 caller, 4 words, 6 calls, 3 outputs, 5 ways to build the mediator |
| `mediator_pair` | the same tracker used by two callers at once: nothing is seen untracked, nothing runs tainted | 2 callers (symmetric), own and shared tracker, 2 calls |
| `audit_masked` | *violation*: an audit event can hold a secret | as `mediator` |
| `gemini_agent` | sessions, modes and failures over several turns | 2 sessions, responses of 1 or 2 calls |
| `ollama_chat` | chats, failures and the signal over several turns | 2 chats, messages of 1 or 2 calls |
| `policy_engine` | `Evaluate` decides as declared, and a path below a denied directory is denied however it is written | at most 2 of 16 capabilities, 2 defaults, 18 argument lists, 3 subjects |
| `policy_timeout` | *violation*: 1.5 s, or a number beyond the range of `int`, passes a limit of 1 s | as `policy_engine` |
| `rules` | matchers, conditions, specs, paths, git, shell and package command lines, spellings of hosts and the lines of `policycheck` mean what they should | patterns and texts of up to 4 characters, paths of up to 7; trees of depth 3, 12 values, 15 operations; workspace paths of up to 5 characters below 3 roots, 4 words of a shell operand, 4 of 14 git arguments (of at most 3, 32 in the code), all package calls, 28 addresses at the edges of the ranges in 243 spellings, names of 3 labels, 4 lines |
| `program` | one reader per piece of what is typed, raw mode, the life of the server, interrupts | 3 pieces of 5 kinds, 4 ways to start |
| `subprocess` | limits, deadline, exit and copying in every order; what is returned is whole; the inductive invariant of the proofs | 2 descendants, limit none or 2, deadline or none, pipe of 2, 4 bytes |
| `ollama_stream` | a message is the whole answer or an error, and is returned | 4 lines of 10 |
| `netguard` | lookups, redirects and connections used again reach nothing blocked; a body is whole | 4 hosts, 2 addresses, 5 lookup results, 3 requests (10 in the code), limit 1, bodies up to 3 |

Why the bounds are enough: a call has at most one path through `Execute`, so the
interesting part is the order of steps of two callers and what is remembered
between calls; one word of each kind tells a masked, a detected, a tracked and a
forgotten text apart. The agents need a second session to mix up trackers, and two
calls in a response to leave one over. In a policy a second capability shows what
is skipped and what is not. Patterns of four characters hold two stars with
something between, before or after them. Four bytes are twice the limit and twice
the pipe, so output is cut, dropped and waited for. Four lines are two chunks with
calls, one that ends the answer and one line after it. Three requests are two
redirects: a loop, and the request that is refused; the limit on them is a
constant of the model. Three typed pieces are a line that was asked for, the part
of the next one read ahead with it, and its rest, left in the terminal. `int` ends
at 7 in `MCPolicyEngine`, so that a timeout of 8 is beyond it. Four git arguments
hold two value flags, a value and what follows it, or a separator with something
on both sides; four characters after `ls` make the shortest detour that escapes.
Of an address the first and the last of each range and their neighbours are asked,
with one part too large by one at each place.

*What the violations mean.* Each contradicts one sentence of the repository,
quoted in `PROJECT.json`: the redactor's claim about audit logging, and the
comment on the timeout of a capability in `engine.go`. The code may be what is
wanted; then the sentence is wrong. Three more sentences are at odds with the code
without a run of their own: the comment on `basicChat` (runtime.go:154) says that
it concatenates, and the tool calls of a later chunk replace those of an earlier
one (`Take` in `OllamaStream`); the comment on `Evaluate` (engine.go:47-48) has
the first match of tool and action win, and `AsDeclared` holds of the first one
whose scope and condition match too; the description of the git tool (main.go:471)
speaks of the last repository, and `list_directory` moves the path as well.

**Fairness.** `Mediator` assumes weak fairness of each caller's own steps
(`OwnStep`): Go schedules every goroutine. The handler is not among them, for the
code does not bound it: HTTP requests have a timeout, but `runSubprocess` waits
for whoever holds the pipe of a command that was stopped at its deadline
(`ReturnsWhenLetGo`), and file access has no deadline at all. Nor is the human. So
`EveryCallReturns` and, in `OllamaChat`, `TurnProceeds` promise progress to a
caller that neither a handler nor a prompt keeps for ever (`LetsGo`); nothing
makes a model propose, a server answer or a user type, so those steps have no
fairness. In `Subprocess` the goroutines of the program and the timer are fair;
the command need not end and a descendant need not close the pipe. In
`OllamaStream` only the scanning loop is: the server owes nothing and `http.Post`
has no timeout, so `AnswerIsReturned` starts from an answer that has ended. In
`Program` the main goroutine is fair while it has something to do: `Main` are the
steps that wait for nobody. The user, the servers and what a turn does between two
prompts are not, so `InterruptEndsProgram` starts from an interrupt that a waiting
prompt will read before a line; `cmd.Wait` on a killed process returns. The other
specifications assume none.

**Deadlock** is checked in the runs of state machines; an exit stutters in an
action of its own. The run of `MCRules` asks one question
per behaviour and stops, so there it is not.

## 4. The theorems

TLAPS checks all of them, with the assumptions on the constants that the modules
name (`...Assumption`), for any sets of callers, trackers, calls, outputs and
policies.

* `MediatorProofs!TypeCorrect`: `TypeOK` is inductive.
* `MediatorProofs!Invariant`: the inductive invariant `IInv`. `TypeOK` and the
  safety invariants alone are not inductive: a state in which a caller waits at
  the prompt with a call the sandbox never normalised satisfies them all, and
  its next step breaks one. `IInv` adds what each program counter implies of the
  call, the verdict and the trackers (what was shown is tracked; what is being
  returned already is).
  From it follow `EffectsAreAuthorised`, `TrackedBeforeSeen`,
  `NothingTaintedRuns` and `DeliversSafely`, for any number of callers.
* `MediatorProofs!AuthorisationIsRecorded`, `TrailTells`: the audit trail. That
  the last event tells the outcome holds of a call that has returned and says
  nothing of one under way, so `TraceInv` says for each place in `Execute` which
  event stands last, whether the handler has run by then, and which events must
  have been written before. Both theorems are about a log that writes every
  severity: with a higher level `Log` drops the events they speak of.
* `MediatorProofs!Refinement`: `Spec` implements `ReferenceMonitor!Spec`.
  A caller before the handler is *pending*, in it *authorised*, after it
  *invoked*; the text told is `shown`. The step that matters is the entry to the
  handler: the tracker check must imply that the request repeats nothing that was
  told before it was made, which is `IInv`.
* `GeminiProofs`, `OllamaProofs`: `AgentUsesMediator` and `ChatUsesMediator` say
  that every behaviour of an agent is one of the mediator with one caller, so
  all of the above holds of the agents. Their own invariants (`AgentInv`,
  `ChatInv`) are about what crosses the boundary: what the messages hold is
  within what the mediator has `shown` to the tracker in use (`TrackerTold`); a
  call in the mediator was made by a model that had seen no more than the
  mediator counts as known to the caller, and its result goes back to the same
  tracker (`InSession`, `InChat`); calls answered and calls to do make up the
  model's last message (`InStep`); a path that will be remembered was resolved
  (`PathsRooted`). None of the properties is inductive without them: `NoReplay`
  needs that the context is known *before* the call is made, `HistoryTracked`
  that the result is shown before it is collected. `HistoryIsTracked`,
  `NothingIsReplayed`, `PathIsOfARun` and `AgentIsConsistent` (for the chat
  `MessagesAreTracked`, `NothingIsRepeated`, `PathIsOfARun`, `ChatIsConsistent`)
  hold for any model, tools, policy and number of sessions.
* `PolicyEngineProofs!DecidesAsDeclared`: the loop invariant says that nothing
  before `at` applies and that what was checked of the capability at `at` holds.
  The conditions, specs and matchers stay uninterpreted: the result holds for any.
* `PolicyEngineProofs!DeniedIsNotReached`: with the real path matcher in place, a
  call that is not denied reaches nothing below a directory its rule denies and,
  where its rule allows directories, only what is below one of them, for any
  policies and calls and however the path is written. The loop invariant says
  that the deciding rule was checked against the call's path (`PathAdmitted`);
  `MatchedExactlyBelow`, below, says what that check means. `PolicyPaths` assumes
  of the constants that `MatchGlob` and `NormalPath` are those of `PolicyMatch`.
* `PolicyEngineProofs!CommandPatternIsCut`, `PathPatternIsCut`: a pattern without
  `**` matches exactly the texts that can be cut into one piece for each of its
  characters, for any pattern and text. A recursive function is to the prover a
  `CHOOSE`, so it must first exist (`RowsExist`); then each of its values, from
  the end of the pattern on, is the set of places a matching rest can begin at
  (`RowsAreCuts`). Each is an induction over the pattern, whose hypothesis is a
  set of indices (`Downward`). `shellGlobMatch` looks at the last star of a row
  only; that this changes nothing needs that where a star may begin it may begin
  earlier (`Closed`). It follows that a path pattern matches no more than the
  same command pattern (`PathsWithinCommands`) and that each slash of a matched
  path stands at a slash of the pattern (`SlashesArePatterned`).
* `PolicyEngineProofs!PathsStayInWorkspace`, `MatchedExactlyBelow`: the sandbox
  lets a path through exactly if walking its names from the workspace root
  (`LeadsTo`) ends at or below it, and a pattern `/d/**` matches exactly the
  paths that lead below `/d`, for any root, directory and path over any
  characters. The code never walks: it joins, cleans, takes the relative path
  and looks whether that begins with `..`. `Clean` and its parts are folds, and
  a fold is a function of sets of indices that must first exist (`IterExists`);
  `FoldGoesOn` then says what one more element adds. With it and an induction
  over sequences (`ByAppending`): cleaning takes one step of the walk for each
  name (`CleanWalks`), a cleaned path has the names it was joined of
  (`NamesOfJoin`), and the relative path leads up exactly if the root's names
  are no prefix of the target's (`RelEscapes`). What was resolved is resolved
  to itself (`ResolvedAgainIsSame`). The assumptions are those of the code: the
  root is absolute, and for `MatchedExactlyBelow` that the directory of the
  pattern is clean, is not `/` and contains no `**` itself.
* `PolicyEngineProofs`, the theorems about `Rules`. Each takes one property of
  the `rules` run and shows it for any constants, so the bounds of that run are no
  bounds of the result. The lemma `RulesInvariant` only brings the questions into
  the temporal form; what is proved of the answers is in the theorems.
  - `MatchersMatch`: beyond the two theorems on patterns, a pattern with `**`
    matches what begins as it does, and `*.d` matches `d` with exactly one label
    in front. Splitting at a character loses nothing (`SplitTellsApart`), so a
    domain that ends in `.d` and is otherwise without a dot is one whose labels
    end in those of `d` (`FirstCut`, `SuffixSplits`).
  - `BelowIsMatched`, `NothingLeavesWorkspace`: the theorems on paths, and what
    the sandbox makes of an operand (`OperandsStay`): it is let through exactly
    if walking it leads out of no directory. A name that the operand is too short
    to contain stands for all directories (`StaysIsNotUp`).
  - `GitRunsByRole`: the loops of the five git commands let through exactly the
    command lines whose arguments are allowed in their roles, for any number of
    arguments. The loops read forward with a state; the roles look back. The
    invariant of the fold says that the state after `n` arguments is what the
    roles of those `n` say it is: whether a value is due is the parity of the flags
    just before, and the list mode whether a `--list` stood there as a flag.
  - `LinesGetTheirAnswers`: every line of `policycheck` up to the first obstacle gets
    its one answer, in order and with its number, for any input and any room to
    write. The invariant of the fold counts what has been written and which of
    the lines were not empty. A call that is evaluated is one that the line
    offers, complete, and neither the line nor what it wraps decodes as a request
    of another method; a request that does not decode is none, and then its own
    `tool` and `action` count (policycheck/main.go:118, 177).
* `PolicyEngineProofs`, the theorems about `ValueRules`: the same for conditions
  and argument specs of any depth. The code recurses into the parts;
  the model is a function of all trees, given by an equation. That the equation
  has a solution is `TreesHaveValues`: there is one up to each depth
  (`UpToExists`), any two of these agree (`UpToAgree`), so the value at a tree is
  that of any deep enough. What holds of a tree because it holds of its parts then
  holds of all (`TreeInduction`, by the least depth of an exception). All that is
  assumed is that parts are less deep than the whole (`TreesAssumption`,
  `SpecsAssumption`): policies are finite files.
  - `ErrorsNeverDecide`: no answer rests on what a faulty part says. The hypothesis
    of the induction is `Fair`: a truth value is the only one possible, and
    anything else comes from a faulty part. It passes through `all` and the four
    stages in a row (`AllFair`), `any` (`AnyFair`), `not` (`NotFair`) and the leaf
    (`LeafFair`).
  - `EqualValuesAreAlike`: no leaf (`EqualValuesCompareAlike`) and no spec
    (`EqualValuesValidAlike` for one level, `EqualArgumentsValidAlike` for all) tells
    equal values apart. Only numbers can be equal and not the same, and what is
    nested in them is nothing. It needs that an `int` is whole, which Go's types
    give (`ValuesAssumption`).
  - `ValidThroughout`: of a valid value, all that its spec reaches is as it asks.
    Values with their specs are the trees here, as deep as the spec.
* `SubprocessProofs!SubprocessInvariant`, `TextWhole`, `NothingLeftRunning`: for
  any limit, pipe and number of descendants. The inductive invariant ties the
  buffer to what went through the pipe (`BufferExact`), says that once the
  goroutine is done the pipe is empty and nobody holds it (`Drained`), that a
  command that has ended has a status (`Ended`), and that a result is what
  `Outcome` says of a settled state (`Settled`).
* `OllamaStreamProofs!AnswerIsWhole`: for any lines, words and calls. The
  content so far is that of the lines read so far (`Whole`), and a loop that has
  stopped did so at the first last chunk, at the end or at something malformed
  (`Ends`). The content of an answer is a flattened sequence of contents, which
  is defined by recursion; `FlattenAppend` says what one more line adds to it.
  It is an induction over the length, done with the least index for which a
  fact would fail.
* `NetguardProofs!GuardHolds`: no blocked address is dialled and no blocked host
  asked, for any answers of the lookups and any redirects. The invariant adds that
  the URL under way was validated and that what is about to be dialled was
  checked. `BlockedRanges`: of all addresses, wrapped in IPv6 or not, exactly
  those of eight ranges are blocked. `BodyReturnedWhole`: a body that is returned
  is all of the response, for any limit; the invariant says where in the exchange
  a size can come from.
* `ProgramProofs!ServerDoesNotRunOn`, `RawOnlyWhileReading`: for any way to start
  and any number of pieces, whatever is typed, fails or is interrupted. The
  invariant adds what the place of the main goroutine implies (`PlaceOK`) and who
  has the server (`ServerOK`): Gemini mode has none, one that was started is in
  `ollamaProc` until it is given up or waited for, and it is dead by then.
* `ProgramProofs!PiecesAreRead`: every piece of what is typed has one reader, for
  any number of pieces and wherever the reads end. That each reader's pieces come
  in order and no two readers share one is lost when a reader takes what has
  arrived, unless what waits in a device is in order, above all that has been read
  from it (`InOrder`) and apart from what the terminal threw away (`Apart`); that
  none is lost (`NoneLost`) counts the pieces of a device in its three places.

The run `subprocess` checks its inductive invariant too (`IInv`). The others stand
beside their proofs; the runs check what follows from them.

Only model-checked:

* liveness (`EveryCallReturns`, `TurnProceeds`, `ReturnsWhenLetGo`,
  `AnswerIsReturned`, `InterruptEndsProgram`), which needs fairness and `ENABLED`;
* `SpellingsAgree`, which enumerates the spellings of an address and reads them
  back digit by digit. Of its parts the blocked ranges are proved (`BlockedRanges`);
* `PackageWordsChecked`: the forms a package call can have are finitely many and
  the run asks all of them, so that TLC leaves nothing for a proof;
* the two violations.

## 5. Left out

Wording of reasons, prompts and tool descriptions; remediation texts and other
metadata a decision carries along; the regular expressions of the redactor (a word
is a secret or is not); JSON and YAML; the content of tool results beyond their
words; flags and environment of `main`; a standard input that is a terminal while
the output is not; editing inside a line, and what the parts of a line join to;
percent escapes in a host, IPv6 addresses other than a wrapped IPv4, underscores
in a number; file access; times and lost writes of the audit log, whose errors the
code ignores by intention (logger.go:52-53). The policy loader and formatter keep
no state and decide nothing. Time itself: a deadline is a step that may come at
any moment.

## 6. Plan

What is left, in order.

1. `OllamaStream` as the detail of the step `basicChat` of `OllamaChat`.
2. `NetguardHosts` as the constants of `Netguard` and of `PolicyEngine`, as
   `PolicyPaths` does it for the path matcher.
