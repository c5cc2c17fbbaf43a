---------------------------- MODULE MCPolicyEngine ----------------------------
(***************************************************************************)
(* The policy engine with the conditions, specs and patterns it really     *)
(* has, on policies of up to two capabilities out of a small set that uses *)
(* each kind of rule.                                                      *)
(***************************************************************************)
EXTENDS PolicyPaths, PolicyTrees

MCRegexp(pattern, text) == IF pattern = <<"[">> THEN "error" ELSE Truth(pattern = text)
MCBlockedHost(host) == host = <<"l">>

(* A range of int that is soon left, for its least number as on amd64.     *)
MCMaxInt == 7
MCIntOf(tenths) == IF tenths \div 10 > MCMaxInt THEN -MCMaxInt - 1 ELSE tenths \div 10

MCHostFromURL(url) == IF Last(url) = ":" THEN <<>> ELSE url

NoRule == [allow |-> {}, deny |-> {}]
Free ==
  [arguments |-> <<>>, allowUnknown |-> FALSE, paths |-> NoRule, commands |-> NoRule,
   domains |-> <<>>, maxSize |-> 0, timeout |-> 0]
AnyArgument ==
  [type |-> "", required |-> FALSE, enum |-> <<>>, pattern |-> Absent, min |-> Absent,
   max |-> Absent, minLength |-> Absent, maxLength |-> Absent, items |-> Absent,
   properties |-> <<>>]
Typed(type, required) == [AnyArgument EXCEPT !.type = type, !.required = required]

Data == <<"/", "d">>
Secret == <<"/", "d", "/", "s">>

Constraints ==
  {Free,
   [Free EXCEPT !.paths = [allow |-> {Under(Data)}, deny |-> {Under(Secret)}]],
   [Free EXCEPT !.arguments = [path |-> Typed("string", TRUE), depth |-> Typed("integer", FALSE)],
                !.timeout = 1],
   [Free EXCEPT !.arguments = [path |-> Typed("string", FALSE)], !.allowUnknown = TRUE,
                !.maxSize = 1],
   [Free EXCEPT !.commands = [allow |-> {<<"l", "*">>}, deny |-> {}], !.timeout = 1],
   [Free EXCEPT !.domains = <<[allow |-> {}, deny |-> {<<"*", ".", "x">>}]>>]}

EveryOne == [roles |-> {}, sessions |-> {}, labels |-> {}]
Scopes == {EveryOne, [EveryOne EXCEPT !.roles = {"admin"}, !.labels = {"ci"}]}

Asks(field, path, op, value) ==
  [all |-> <<>>, any |-> <<>>, not |-> <<>>,
   leaf |-> <<[field |-> field, path |-> path, op |-> op, value |-> value, values |-> <<>>]>>]
Conditions ==
  {<<>>, <<Asks("args", <<"depth">>, "lt", Number(20, "int"))>>,
   <<Asks("args", <<"depth">>, "lt", Str(<<"2">>))>>}

Basic ==
  [tool |-> "fs", actions |-> {"read", "write"}, decision |-> "allow", scope |-> EveryOne,
   risk |-> "", conditions |-> <<>>, approval |-> FALSE, constraints |-> Free]
Capabilities ==
  {[Basic EXCEPT !.constraints = c] : c \in Constraints}
  \cup {[Basic EXCEPT !.scope = s, !.conditions = c] : s \in Scopes, c \in Conditions}
  \cup {[Basic EXCEPT !.actions = {"read"}, !.decision = d, !.approval = a] :
          d \in {" Ask ", "ALLWO", " ALLOW "}, a \in BOOLEAN}

MCPolicies ==
  [capabilities : BoundedSeq(Capabilities, 2), default : {"", "allow"}]

Paths == {<<"/", "d", "/", "a">>, <<"/", "d", "/", ".", ".", "/", "a">>,
          <<"/", "d", "/", "a", "/", ".", ".", "/", "s", "/", "a">>}
(* Evaluated once.                                                         *)
Normal == [p \in Paths |-> normalizePath(p)]
MCNormalPath(path) == IF path \in Paths THEN Normal[path] ELSE normalizePath(path)

Args ==
  {<<>>, [command |-> Str(<<"l", "s">>)], [command |-> Boolean(TRUE)],
   [domain |-> Str(<<"l">>)], [url |-> Str(<<"a", ".", "x">>)], [url |-> Str(<<":">>)],
   [content |-> Str(<<"a", "b">>), payload |-> Str(<<>>)],
   [depth |-> Number(10, "float")], [depth |-> Number(15, "float"), path |-> Null]}
  \cup {[path |-> Str(p)] : p \in Paths}
  \cup {[path |-> Str(p), depth |-> Number(30, "float")] : p \in Paths}
  \cup {[command |-> Str(<<"l">>), timeout |-> Number(t, "float")] : t \in {10, 15, 20, 80}}
Subjects ==
  {[role |-> "", session |-> "s", labels |-> {}], [role |-> "admin", session |-> "s", labels |-> {}],
   [role |-> "admin", session |-> "", labels |-> {"ci", "x"}]}
MCRequests ==
  [call : [tool : {"fs"}, action : {"read", "write"}, args : Args], subject : Subjects]

(* The conditions, specs and values above: each stands alone.              *)
MCTrees == {c[1] : c \in Conditions \ {Absent}}
MCSpecs == UNION {ToSet(c.arguments) : c \in Constraints}
MCValues == UNION {ToSet(args) : args \in Args}
MCDepth(tree) == 0
===============================================================================
