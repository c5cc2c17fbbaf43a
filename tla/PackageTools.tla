------------------------------ MODULE PackageTools ------------------------------
(***************************************************************************)
(* The way of a package call from its arguments to the command line of go  *)
(* or cargo: the sandbox, then the handler of the tool.  An argument is    *)
(*   absent, other (no string), blank, odd (with a character that is not   *)
(*   allowed), padded (with blanks around it), or a trimmed text           *)
(* and a word of a command line is a sequence of such pieces.              *)
(***************************************************************************)
EXTENDS Sequences

Manager == {"absent", "other", "blank", "odd", "GO", "go", "cargo"}
Package == {"absent", "other", "blank", "odd", "padded", "name"}
Version == {"absent", "other", "blank", "odd", "1.0"}
PackageCall ==
  [action : {"list", "query", "install", "update", "remove"},
   manager : Manager, package : Package, version : Version]

TrimSpace(text) == CASE text = "padded" -> "name" [] text = "blank" -> "" [] OTHER -> text
ToLowerTrimmed(manager) ==
  CASE manager = "GO" -> "go" [] manager = "blank" -> "" [] OTHER -> manager

isSafePackageToken(text) == text # "odd"
NonEmptyString(arg) == arg \notin {"absent", "other", "blank", ""}

(* Mutant: the package of an update is not looked at.                      *)
SkipOptional(call, required) ==
  IF ~required THEN <<call>>
  ELSE IF ~NonEmptyString(call.package) \/ call.package = "odd" THEN <<>> ELSE <<call>>

(* The call with its package and version trimmed, or none.                 *)
validatePackageNameArg(call, required) ==
  CASE ~NonEmptyString(call.package) ->
         IF required THEN <<>>
         ELSE <<IF call.package = "absent" THEN call ELSE [call EXCEPT !.package = ""]>>
    [] ~isSafePackageToken(call.package) -> <<>>
    [] call.version # "absent" /\ ~(NonEmptyString(call.version)
                                    /\ isSafePackageToken(call.version)) -> <<>>
    [] OTHER -> <<[call EXCEPT !.package = TrimSpace(@), !.version = TrimSpace(@)]>>

validatePackageArgs(call) ==
  LET checked == IF call.manager = "absent" THEN call
                 ELSE [call EXCEPT !.manager = ToLowerTrimmed(@)]
  IN CASE checked.manager \in {"other", "odd"} -> <<>>
       [] call.action = "list" -> <<checked>>
       [] call.action \in {"query", "install"} -> validatePackageNameArg(checked, TRUE)
       [] call.action = "update" -> validatePackageNameArg(checked, FALSE)
       [] OTHER -> <<>>

(* requiredStringArg and optionalStringArg of main: "" for what is not     *)
(* a text.                                                                 *)
optionalStringArg(arg) == IF NonEmptyString(arg) THEN TrimSpace(arg) ELSE ""

detectPackageManager(files) ==
  CASE "go.mod" \in files -> "go" [] "Cargo.toml" \in files -> "cargo" [] OTHER -> "none"

resolvePackageManager(manager, files) ==
  LET m == ToLowerTrimmed(optionalStringArg(manager))
  IN IF m = "" THEN detectPackageManager(files) ELSE m

PackageList(manager) ==
  IF manager = "go" THEN <<<<"list">>, <<"-m">>, <<"all">>>>
  ELSE <<<<"metadata">>, <<"--format-version">>, <<"1">>>>

PackageQuery(manager, pkg) ==
  IF manager = "go" THEN <<<<"list">>, <<"-m">>, <<"-versions">>, <<pkg>>>>
  ELSE <<<<"search">>, <<pkg>>, <<"--limit">>, <<"10">>>>

PackageInstall(manager, pkg, version) ==
  IF manager = "go" THEN <<<<"get">>, IF version = "" THEN <<pkg>> ELSE <<pkg, "@", version>>>>
  ELSE <<<<"add">>, <<pkg>>>> \o IF version = "" THEN <<>> ELSE <<<<"--vers">>, <<version>>>>

PackageUpdate(manager, pkg) ==
  IF manager = "go"
  THEN IF pkg = "" THEN <<<<"get">>, <<"-u">>, <<"./...">>>>
       ELSE <<<<"get">>, <<pkg, "@", "latest">>>>
  ELSE <<<<"update">>>> \o IF pkg = "" THEN <<>> ELSE <<<<"-p">>, <<pkg>>>>

(* What is run for a call, or nothing.                                     *)
CommandLine(call, files) ==
  LET manager == resolvePackageManager(call.manager, files)
      pkg == optionalStringArg(call.package)
      version == optionalStringArg(call.version)
  IN IF manager \notin {"go", "cargo"} \/ (pkg = "" /\ call.action \in {"query", "install"})
     THEN <<>>
     ELSE <<<<manager>>>> \o
          CASE call.action = "list" -> PackageList(manager)
            [] call.action = "query" -> PackageQuery(manager, pkg)
            [] call.action = "install" -> PackageInstall(manager, pkg, version)
            [] call.action = "update" -> PackageUpdate(manager, pkg)

RunPackageTool(call, files) ==
  LET checked == validatePackageArgs(call)
  IN IF checked = <<>> THEN <<>> ELSE CommandLine(checked[1], files)
================================================================================
