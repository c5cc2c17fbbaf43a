------------------------------- MODULE Redact -------------------------------
(***************************************************************************)
(* Package redact: the secret and prompt-injection detectors, and the      *)
(* fragments a taint tracker keeps.  A text is the set of words that occur *)
(* in it: a word stands for a line or token of the real string, and what   *)
(* the regular expressions say of it is which of the sets below it is in.  *)
(***************************************************************************)
CONSTANTS Tokens,      \* the words that occur in arguments and results
          Secrets,     \* words a redacting pattern matches
          Injections,  \* words an injection pattern matches
          Trackable    \* words of 12 to 512 bytes, long enough to be tracked

ASSUME WordsAssumption ==
  /\ Secrets \subseteq Tokens
  /\ Injections \subseteq Tokens
  /\ Trackable \subseteq Tokens

Text == SUBSET Tokens

(* RedactText masks every secret; a mask is not a word a property tells    *)
(* apart from any other text, so it is dropped.                            *)
RedactText(text) == text \ Secrets

Detect(text) == [sensitive |-> text \cap Secrets # {},
                 untrusted |-> text \cap Injections # {}]

(* What extractTaintFragments keeps of an output.                          *)
TaintFragments(output) == output \cap Trackable

(* FindInValue: some fragment of the tracker occurs in the value.          *)
FindInValue(fragments, value) == value \cap fragments # {}
=============================================================================
