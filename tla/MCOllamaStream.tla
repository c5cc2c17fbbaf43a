--------------------------- MODULE MCOllamaStream ----------------------------
(***************************************************************************)
(* Answers of up to four lines: content, tool calls, both, the last chunk  *)
(* with and without either, and each kind of line that is not a chunk.     *)
(***************************************************************************)
EXTENDS OllamaStream

CONSTANTS hello, world, fetch, store

MCWords == {hello, world}
MCCalls == {fetch, store}

Piece(words, calls, done) ==
  [kind |-> "chunk", content |-> words, calls |-> calls, done |-> done]
Other(kind) == [kind |-> kind, content |-> <<>>, calls |-> <<>>, done |-> FALSE]

MCLines ==
  {Piece(<<hello>>, <<>>, FALSE), Piece(<<world>>, <<>>, TRUE),
   Piece(<<>>, <<fetch>>, FALSE), Piece(<<hello>>, <<store, fetch>>, FALSE),
   Piece(<<>>, <<store>>, TRUE), Piece(<<>>, <<>>, TRUE)}
  \cup {Other(k) : k \in {"blank", "garbled", "error", "long"}}
==============================================================================
