-------------------------------- MODULE MCRules --------------------------------
(***************************************************************************)
(* The rules of the program on small texts and values: those of Rules and  *)
(* MCPolicyRules, and those of the package tools and netguard.  Each       *)
(* behaviour asks one question.                                            *)
(***************************************************************************)
EXTENDS MCPolicyRules, PackageTools, NetguardHosts

CONSTANTS PatternLength, ValueLength, PathLength, ShortPath, ShortCommand, GitLength,
          LineCount   \* bounds

MCCharacters ==
  {"a", "b", "A", "/", ".", "*", "?", "-", "~", " ", ";", "ls", "nul"}
MCGlobs == BoundedSeq({"a", "/", "*", "?"}, PatternLength)
MCGlobTexts == BoundedSeq({"a", "b", "/"}, ValueLength)
MCDomainPatterns == BoundedSeq({"a", "A", ".", "*"}, PatternLength)
MCDomains == BoundedSeq({"a", "A", "."}, ValueLength)

MCDirectories == {dir \in BoundedSeq({"a", ".", "/"}, 4) : PatternDirectory(dir)}
MCPaths == BoundedSeq({"a", ".", "/"}, PathLength)

MCRoots == {<<"/">>, <<"/", "a">>, <<"/", "a", "/", "b">>}
MCOperands == BoundedSeq({"a", "b", ".", "/"}, ShortPath) \cup {<<"a", "nul">>, <<" ">>}
MCPlaces == BoundedSeq({<<"a">>, <<"b">>}, 2)
MCCommands ==
  {<<"ls", " ">> \o text : text \in BoundedSeq({".", "/", "a", "-", "~", " ", ";"}, ShortCommand)}
    \cup BoundedSeq({"ls", "a", " ", ";", "nul"}, 3)

MCGitActions == {"status", "log", "diff", "show", "branch", "push"}
GitWords == {Separator, List, Flag("--format"), FlagWith("--format", "with"),
             FlagWith("--format", "up"), Flag("-U"), FlagWith("-U", "attached"), Flag("--patch"),
             Flag("--output"), Count, Word("log"), Word("push"), Operand("allowed"),
             Operand("refused")}
MCGitArgvs == BoundedSeq(GitWords, GitLength)

Boundaries ==
  {<<0, 0, 0, 0>>, <<0, 0, 0, 1>>, <<8, 8, 8, 8>>, <<9, 255, 255, 255>>, <<10, 0, 0, 0>>,
   <<10, 255, 255, 255>>, <<11, 0, 0, 0>>, <<100, 100, 100, 199>>, <<100, 100, 100, 200>>,
   <<126, 255, 255, 255>>, <<127, 0, 0, 1>>, <<127, 255, 255, 255>>, <<128, 0, 0, 0>>,
   <<169, 253, 255, 255>>, <<169, 254, 0, 0>>, <<169, 255, 0, 0>>, <<172, 15, 255, 255>>,
   <<172, 16, 0, 0>>, <<172, 31, 255, 255>>, <<172, 32, 0, 0>>, <<192, 167, 255, 255>>,
   <<192, 168, 0, 0>>, <<192, 169, 0, 0>>, <<223, 255, 255, 255>>, <<224, 0, 0, 0>>,
   <<239, 255, 255, 255>>, <<240, 0, 0, 0>>, <<255, 255, 255, 255>>}

(* How a number is written: in one of the bases, in either case; what may  *)
(* be around an address; and one more than fits somewhere in it.           *)
Bases == {8, 10, 16}
Uniform(n, bases) == {[i \in 1..n |-> b] : b \in bases}
Spellings ==
  [bases : UNION {[1..n -> Bases] : n \in 1..4}, upper : {FALSE}, coat : {"none"}, over : {0}]
    \cup [bases : UNION {Uniform(n, Bases) : n \in 1..4}, upper : BOOLEAN,
          coat : {"none", "dot", "brackets"}, over : {0}]
    \cup [bases : Uniform(4, {10}), upper : {FALSE}, coat : {"ipv6"}, over : {0}]
    \cup [bases : UNION {Uniform(n, {10, 16}) : n \in 1..5}, upper : {FALSE}, coat : {"none"},
          over : 1..5]

HostNames ==
  {FoldLeft(LAMBDA text, label : IF text = <<>> THEN <<label>> ELSE text \o <<".", label>>,
            <<>>, labels) :
     labels \in BoundedSeq({"localhost", "LOCALHOST", "Metadata", "goog", "google", "internal"}, 3)}

Request(method, params) ==
  [decodes |-> TRUE, method |-> method, params |-> params, itself |-> "named"]
NoRequest(decodes, method, call) ==
  [decodes |-> decodes, method |-> method, params |-> "absent", itself |-> call]

Inners == {Request("other", "named"), Request("tool_call", "anonymous"),
           Request("tool_call", "incomplete"), NoRequest(TRUE, "", "named"),
           NoRequest(FALSE, "other", "anonymous"), NoRequest(FALSE, "tool_call", "incomplete")}
MCObjects ==
  [decodes : BOOLEAN, method : Methods, params : Calls, itself : Calls, call : Calls,
   request : BoundedSeq(Inners, 1), workflow : BoundedSeq(Inners, 1)]
MCLines == BoundedSeq({"empty", "call", "error", "long"}, LineCount)
MCRooms == 0..LineCount

-----------------------------------------------------------------------------
MCInit ==
  \/ RulesInit
  \/ ValuesInit
  \/ /\ answer = Unanswered
     /\ \/ question \in [of : {"package"}, call : PackageCall,
                         files : SUBSET {"go.mod", "Cargo.toml"}]
        \/ question \in [of : {"address"}, bytes : Boundaries, spelling : Spellings]
        \/ question \in [of : {"name"}, host : HostNames, coat : {"none", "dot", "brackets"}]

AskPackage ==
  /\ Ask("package")
  /\ answer' = [of |-> "package", argv |-> RunPackageTool(question.call, question.files)]

(* The digits of a number of four bytes, by long division.                 *)
Quotient(number, base) ==
  FoldLeft(LAMBDA r, b : [rest |-> (r.rest * 256 + b) % base,
                          digits |-> Append(r.digits, (r.rest * 256 + b) \div base)],
           [rest |-> 0, digits |-> <<>>], number)
RECURSIVE DigitsOf(_, _)
DigitsOf(number, base) ==
  LET q == Quotient(number, base) IN
  (IF \A i \in 1..4 : q.digits[i] = 0 THEN <<>> ELSE DigitsOf(q.digits, base))
    \o <<Digits[q.rest + 1]>>

BaseMark == [b \in Bases |-> CASE b = 8 -> <<"0">> [] b = 10 -> <<>> [] b = 16 -> <<"0", "x">>]
Capital(ch) == IF \E c \in DOMAIN Upper : Upper[c] = ch
               THEN CHOOSE c \in DOMAIN Upper : Upper[c] = ch ELSE ch

(* Part i of n: a byte, or the bytes that are left; one too many at over.  *)
PartOf(bytes, spelling, i) ==
  LET n == Len(spelling.bases)
      padded == [k \in 1..4 |->
                   CASE i < n /\ k < 4 -> 0
                     [] i < n /\ k = 4 -> bytes[IF i > 4 THEN 4 ELSE i]
                     [] i = n /\ k < n -> 0
                     [] OTHER -> bytes[k]]
      place == IF i < n THEN 3 ELSE n - 1
      number == IF spelling.over = i /\ place > 0 THEN [padded EXCEPT ![place] = 1] ELSE padded
      digits == DigitsOf(number, spelling.bases[i])
      beyond == <<"1">> \o [k \in 1..(10 - Len(digits)) |-> "0"]    \* more than 32 bits
  IN BaseMark[spelling.bases[i]]
       \o (IF spelling.over = i /\ place = 0 THEN beyond ELSE <<>>) \o digits

Dressed(text, coat) ==
  CASE coat = "none" -> text
    [] coat = "dot" -> text \o <<".">>
    [] coat = "brackets" -> <<"[">> \o text \o <<"]">>
    [] coat = "ipv6" -> <<"[", ":", ":", "F", "F", "F", "F", ":">> \o text \o <<"]">>

Spelled(bytes, spelling) ==
  LET parts == [i \in DOMAIN spelling.bases |-> PartOf(bytes, spelling, i)]
      text == FoldLeft(LAMBDA t, p : IF t = <<>> THEN p ELSE t \o <<".">> \o p, <<>>, parts)
  IN Dressed(IF spelling.upper THEN [i \in DOMAIN text |-> Capital(text[i])] ELSE text,
             spelling.coat)

AskAddress ==
  /\ Ask("address")
  /\ LET host == Spelled(question.bytes, question.spelling) IN
     answer' = [of |-> "address", addr |-> parseHostAddr(host), blocked |-> BlockedHostReason(host)]

AskName ==
  /\ Ask("name")
  /\ answer' = [of |-> "name", blocked |-> BlockedHostReason(Dressed(question.host, question.coat))]

MCNext == RulesNext \/ ValuesNext \/ AskPackage \/ AskAddress \/ AskName

MCSpec == MCInit /\ [][MCNext]_ruleVars

-----------------------------------------------------------------------------
GivenText(text) == text \in {"padded", "name", "odd", "1.0"}

(* What the command line of go or cargo holds of a call was checked and    *)
(* trimmed: sandbox, handler and tool take the same arguments to be given, *)
(* and only what nobody can run is refused (validatePackageArgs,           *)
(* sandbox.go:249-321, and pkg.go:19-140).                                 *)
PackageWordsChecked ==
  answer.of = "package" =>
    LET c == question.call
        words == UNION {ToSet(answer.argv[i]) : i \in DOMAIN answer.argv}
        named == IF c.manager \in {"absent", "blank"}
                 THEN detectPackageManager(question.files) ELSE ToLowerTrimmed(c.manager)
        usesName == c.action \in {"query", "install", "update"}
    IN /\ words \cap (Package \cup Version) \subseteq {"name", "1.0"}
       /\ answer.argv # <<>> =>
            /\ answer.argv[1] = <<named>>
            /\ "name" \in words <=> usesName /\ GivenText(c.package)
            /\ "1.0" \in words <=> c.action = "install" /\ c.version = "1.0"
       /\ answer.argv = <<>> <=>
            \/ c.action \notin {"list", "query", "install", "update"}
            \/ named \notin {"go", "cargo"}
            \/ usesName /\ c.package = "odd"
            \/ c.action \in {"query", "install"} /\ ~GivenText(c.package)
            \/ usesName /\ GivenText(c.package) /\ c.version \in {"other", "blank", "odd"}

-----------------------------------------------------------------------------
(* An address means the same however it is spelled: in one to four parts,  *)
(* octal, decimal or hexadecimal, in either case, with a final dot, in     *)
(* brackets, wrapped in IPv6; it is blocked exactly if it lies in a        *)
(* blocked range; and a number that does not fit is no address             *)
(* (BlockedHostReason, parseHostAddr and parseLegacyIPv4, netguard         *)
(* http.go:42-90, 175-252).  A name is blocked for what it ends in or is.  *)
SpellingsAgree ==
  /\ answer.of = "address" =>
       LET bad == question.spelling.over \in DOMAIN question.spelling.bases
                    \/ Len(question.spelling.bases) > 4
       IN /\ answer.addr = IF bad THEN <<>>
                           ELSE <<Addr(question.bytes, question.spelling.coat = "ipv6")>>
          /\ answer.blocked <=> ~bad /\ \E r \in Ranges : InRange(question.bytes, r)
  /\ answer.of = "name" =>
       LET name == LowerCase(question.host) IN
       answer.blocked <=> \/ name = <<>> /\ question.coat # "dot"
                          \/ name \in metadataHosts
                          \/ name # <<>> /\ Last(name) = "localhost"
================================================================================
