----------------------------- MODULE PolicyMatch ------------------------------
(***************************************************************************)
(* The pattern matchers of the policy engine.  A text is a sequence of     *)
(* characters.  filepath.Match is external: of its patterns, those with    *)
(* literal characters, * and ?, which do not match a slash.                *)
(***************************************************************************)
EXTENDS Naturals, SequencesExt

Occurs(ch, text) == \E i \in DOMAIN text : text[i] = ch

(* Where the value may be cut so that its rest matches the rest of the     *)
(* pattern from i on, given those places for i + 1: the pattern is walked  *)
(* from its end, and place j is before character j of the value.           *)
Positions(value) == 1..(Len(value) + 1)

(* Mutant: a star stands for one character at least.                       *)
NonEmptyStar(pattern, value, i, rest) ==
  IF pattern[i] = "*"
  THEN {j \in Positions(value) : \E k \in rest : j < k}
  ELSE {j \in 1..Len(value) : pattern[i] \in {"?", value[j]} /\ j + 1 \in rest}

(* Of a row of stars only the last counts, and a trailing one takes all.   *)
ShellStep(pattern, value, i, rest) ==
  IF pattern[i] = "*"
  THEN {j \in Positions(value) :
          \/ i = Len(pattern)
          \/ IF pattern[i + 1] = "*" THEN j \in rest ELSE \E k \in rest : j <= k}
  ELSE {j \in 1..Len(value) : pattern[i] \in {"?", value[j]} /\ j + 1 \in rest}

shellGlobMatch(pattern, value) ==
  LET from[i \in 1..(Len(pattern) + 1)] ==
        IF i = Len(pattern) + 1 THEN {Len(value) + 1}
        ELSE ShellStep(pattern, value, i, from[i + 1])
  IN 1 \in from[1]

(* As above, but neither * nor ? stands for a slash.                       *)
PathStep(pattern, value, i, rest) ==
  IF pattern[i] = "*"
  THEN {j \in Positions(value) :
          \E k \in rest : j <= k /\ \A l \in j..(k - 1) : value[l] # "/"}
  ELSE {j \in 1..Len(value) :
          /\ pattern[i] = value[j] \/ (pattern[i] = "?" /\ value[j] # "/")
          /\ j + 1 \in rest}

filepathMatch(pattern, value) ==
  LET from[i \in 1..(Len(pattern) + 1)] ==
        IF i = Len(pattern) + 1 THEN {Len(value) + 1}
        ELSE PathStep(pattern, value, i, from[i + 1])
  IN 1 \in from[1]

(* The part of the pattern before its first double star, if it has one.    *)
DoubleStars(pattern) ==
  {i \in 1..(Len(pattern) - 1) : pattern[i] = "*" /\ pattern[i + 1] = "*"}
Stem(pattern) ==
  SubSeq(pattern, 1, (CHOOSE i \in DoubleStars(pattern) :
                        \A j \in DoubleStars(pattern) : i <= j) - 1)

matchGlob(pattern, value) ==
  IF DoubleStars(pattern) # {} THEN IsPrefix(Stem(pattern), value)
  ELSE filepathMatch(pattern, value)

matchShellGlob(pattern, value) ==
  IF DoubleStars(pattern) # {} THEN IsPrefix(Stem(pattern), value)
  ELSE shellGlobMatch(pattern, value)

(* What is between the separators of a text.                               *)
AddCharacter(parts, ch, separator) ==
  IF ch = separator THEN Append(parts, <<>>)
  ELSE Append(Front(parts), Append(Last(parts), ch))
Split(text, separator) ==
  FoldLeft(LAMBDA parts, ch : AddCharacter(parts, ch, separator), <<<<>>>>, text)

Names(path) == Split(path, "/")
Dot == <<".">>
DotDot == <<".", ".">>
Rooted(path) == path # <<>> /\ path[1] = "/"

(* The names left when those that lead nowhere or back up are taken out.   *)
AddName(rooted, left, n) ==
  IF n \in {<<>>, Dot} \/ (n = DotDot /\ left = <<>> /\ rooted) THEN left
  ELSE IF n = DotDot /\ left # <<>> /\ Last(left) # DotDot THEN Front(left)
  ELSE Append(left, n)
CleanNames(rooted, names) ==
  FoldLeft(LAMBDA left, n : AddName(rooted, left, n), <<>>, names)
NamesOf(path) == CleanNames(Rooted(path), Names(path))

JoinName(text, n) == IF text = <<>> THEN n ELSE text \o <<"/">> \o n
JoinNames(names) == FoldLeft(JoinName, <<>>, names)

(* filepath.Clean                                                          *)
Clean(path) ==
  LET text == JoinNames(NamesOf(path)) IN
  IF Rooted(path) THEN <<"/">> \o text ELSE IF text = <<>> THEN Dot ELSE text

(* Mutant: the path is matched as it is written.                           *)
asWritten(path) == path

normalizePath(path) == IF path = <<>> THEN path ELSE Clean(path)

(* strings.ToLower, of the one upper-case letter the model has.            *)
ToLower(text) == [i \in DOMAIN text |-> IF text[i] = "A" THEN "a" ELSE text[i]]

matchDomain(pattern, domain) ==
  LET p == ToLower(pattern)
      d == ToLower(domain)
      suffix == Tail(p)
      label == SubSeq(d, 1, Len(d) - Len(suffix))
  IN IF IsPrefix(<<"*", ".">>, p)
     THEN IsSuffix(suffix, d) /\ label # <<>> /\ ~Occurs(".", label)
     ELSE p = d

(***************************************************************************)
(* What the rules about paths are measured against: a place is the         *)
(* sequence of names from the root down to it, and a path leads from place *)
(* to place, name by name.                                                 *)
(***************************************************************************)
StepTo(here, n) ==
  IF n \in {<<>>, Dot} \/ (n = DotDot /\ here = <<>>) THEN here
  ELSE IF n = DotDot THEN Front(here) ELSE Append(here, n)

Walk(path, from) ==
  FoldLeft(StepTo, IF Rooted(path) THEN <<>> ELSE from, Names(path))
(* The pattern for all below a directory, and the directories that are     *)
(* meant so: clean, and not the root.  A pattern for another one matches   *)
(* by its prefix all the same.                                             *)
Under(dir) == dir \o <<"/", "*", "*">>
PatternDirectory(dir) ==
  Rooted(dir) /\ Clean(dir) = dir /\ NamesOf(dir) # <<>> /\ DoubleStars(dir) = {}
=============================================================================
