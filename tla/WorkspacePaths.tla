---------------------------- MODULE WorkspacePaths -----------------------------
(***************************************************************************)
(* The paths and shell commands the sandbox lets through.  It compares     *)
(* paths as they are written and asks nothing of the file system.  A path  *)
(* is a sequence of characters; "nul" is the NUL byte, "ls" stands for an  *)
(* allowed command and ";" for any character of the shell's syntax.        *)
(* filepath.Join, Rel and strings.Fields are external.                     *)
(***************************************************************************)
EXTENDS PolicyMatch

CONSTANT MaxShellArgs   \* words of a shell command, 32 in the code

Join(directory, path) == Clean(directory \o <<"/">> \o path)

(* From one rooted path to another, as a text.                             *)
Rel(base, target) ==
  LET b == NamesOf(base)
      t == NamesOf(target)
      common == CHOOSE k \in 0..Len(b) :
                  /\ k <= Len(t) /\ SubSeq(b, 1, k) = SubSeq(t, 1, k)
                  /\ k < Len(b) /\ k < Len(t) => b[k + 1] # t[k + 1]
      names == [i \in 1..(Len(b) - common) |-> DotDot] \o SubSeq(t, common + 1, Len(t))
  IN IF names = <<>> THEN Dot ELSE JoinNames(names)

(* Mutant: any name that begins with two dots is taken for a way up.       *)
BeginsWithDots(path) == IsPrefix(DotDot, path)

Escapes(path) == path = DotDot \/ IsPrefix(DotDot \o <<"/">>, path)

Blank(text) == \A i \in DOMAIN text : text[i] = " "

(* The absolute path, or none.                                             *)
resolveWorkspacePath(root, path) ==
  LET resolved == IF Rooted(path) THEN Clean(path) ELSE Join(root, path)
  IN IF Occurs("nul", path) \/ Escapes(Rel(root, resolved)) THEN <<>> ELSE <<Clean(resolved)>>

validateWorkspaceOperand(arg) ==
  ~Blank(arg) /\ ~Rooted(arg) /\ ~IsPrefix(<<"~">>, arg) /\ ~Escapes(Clean(arg))

validateGitOperand(arg) ==
  ~Blank(arg) /\ ~Occurs("nul", arg) /\ ~Rooted(arg) /\ ~Escapes(Clean(arg))

looksLikePath(arg) == arg \in {Dot, DotDot} \/ Occurs("/", arg) \/ IsPrefix(<<"~">>, arg)

AddField(fields, field) == IF field = <<>> THEN fields ELSE Append(fields, field)
Fields(text) == FoldLeft(AddField, <<>>, Split(text, " "))

validateSimpleShellCommand(command) ==
  LET argv == Fields(command) IN
  /\ ~Occurs("nul", command) /\ ~Occurs(";", command)
  /\ argv # <<>> /\ Len(argv) <= MaxShellArgs
  /\ argv[1] = <<"ls">>
  /\ \A i \in 2..Len(argv) :
       ~IsPrefix(<<"-">>, argv[i]) /\ looksLikePath(argv[i]) => validateWorkspaceOperand(argv[i])
================================================================================
