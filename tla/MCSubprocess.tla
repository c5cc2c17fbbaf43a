---------------------------- MODULE MCSubprocess -----------------------------
(***************************************************************************)
(* A command with two descendants that print up to twice what the limit    *)
(* admits, through a pipe that is smaller.                                 *)
(***************************************************************************)
EXTENDS Subprocess

MCLimits == {0, 2}
MCTimeouts == {0, 5}
==============================================================================
