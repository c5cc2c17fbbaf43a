------------------------------- MODULE MCProgram -------------------------------
(***************************************************************************)
(* Both modes at a terminal that the approver uses too, and with a pipe    *)
(* for standard input, once with the approver at the terminal.             *)
(***************************************************************************)
EXTENDS Program

MCSetups ==
  [mode : {"ollama", "gemini"}, stdin : {"tty"}, approver : {"terminal"}]
    \cup {[mode |-> "ollama", stdin |-> "pipe", approver |-> "terminal"],
          [mode |-> "gemini", stdin |-> "pipe", approver |-> "auto"]}
================================================================================
