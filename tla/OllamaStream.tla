---------------------------- MODULE OllamaStream -----------------------------
(***************************************************************************)
(* runtime.basicChat: the message that is put together from the lines of a *)
(* streamed answer while the Ollama server, which is external, still sends *)
(* it.  A line is a chunk of the message, or something else: blank, not    *)
(* JSON, an error of the model, or longer than the scanner accepts.        *)
(***************************************************************************)
EXTENDS Naturals, SequencesExt

CONSTANTS Words, Calls,  \* what a chunk may bring
          Lines,         \* lines that the server may send
          MaxLines       \* bound: lines of an answer

Line == [kind : {"chunk", "blank", "garbled", "error", "long"},
         content : Seq(Words), calls : Seq(Calls), done : BOOLEAN]

ASSUME StreamAssumption ==
  /\ MaxLines \in Nat
  /\ Lines \subseteq Line
  /\ \A line \in Lines : line.kind # "chunk" =>
       line.content = <<>> /\ line.calls = <<>> /\ ~line.done

VARIABLES
  sent,     \* the lines of the answer so far, a history of the server
  server,   \* "waiting", "sending", or what it did then: "closed", "broken"
  read,     \* how many lines the scanner has returned
  client,   \* basicChat: "post", "scan" or "done"
  content, toolCalls,  \* contentBuffer, fullMessage
  result    \* "none", "message" or the kind of error

vars == <<sent, server, read, client, content, toolCalls, result>>

Init ==
  /\ sent = <<>> /\ server = "waiting"
  /\ read = 0 /\ client = "post"
  /\ content = <<>> /\ toolCalls = <<>>
  /\ result = "none"

-----------------------------------------------------------------------------
(* The server.                                                             *)
Send ==
  /\ server = "sending" /\ Len(sent) < MaxLines
  /\ \E line \in Lines : sent' = Append(sent, line)
  /\ UNCHANGED <<server, read, client, content, toolCalls, result>>

Over(end) ==
  /\ server = "sending"
  /\ server' = end
  /\ UNCHANGED <<sent, read, client, content, toolCalls, result>>

Close == Over("closed")
Break == Over("broken")

-----------------------------------------------------------------------------
(* http.Post; there is no answer, or not one with status 200.              *)
Post ==
  /\ client = "post"
  /\ client' = "scan" /\ server' = "sending"
  /\ UNCHANGED <<sent, read, content, toolCalls, result>>

Return(outcome) ==
  /\ client' = "done" /\ result' = outcome
  /\ UNCHANGED <<sent, server>>

PostFails ==
  /\ client = "post"
  /\ Return("post") /\ UNCHANGED <<read, content, toolCalls>>

(* The scanner has a next line.                                            *)
Upcoming == sent[read + 1]
Scanned(kinds) ==
  /\ client = "scan" /\ read < Len(sent)
  /\ Upcoming.kind \in kinds
  /\ read' = read + 1

Blank ==
  /\ Scanned({"blank"})
  /\ UNCHANGED <<sent, server, client, content, toolCalls, result>>

(* The line does not decode, brings an error of the model, or is too long. *)
Malformed ==
  /\ Scanned({"garbled", "error", "long"})
  /\ Return(Upcoming.kind) /\ UNCHANGED <<content, toolCalls>>

(* Mutant: the last chunk ends the loop before its content is taken.       *)
TakeUnlessDone ==
  /\ content' = IF Upcoming.done THEN content ELSE content \o Upcoming.content
  /\ toolCalls' = IF Upcoming.calls # <<>> THEN Upcoming.calls ELSE toolCalls

(* The content is added to the buffer; tool calls replace earlier ones.    *)
Take ==
  /\ content' = content \o Upcoming.content
  /\ toolCalls' = IF Upcoming.calls # <<>> THEN Upcoming.calls ELSE toolCalls

Chunk == Scanned({"chunk"}) /\ ~Upcoming.done /\ Take /\ UNCHANGED <<sent, server, client, result>>

(* The loop is left; a break that cut the newline off is still an error.   *)
LastChunk ==
  /\ Scanned({"chunk"}) /\ Upcoming.done /\ Take
  /\ \/ Return("message")
     \/ server = "broken" /\ read + 1 = Len(sent) /\ Return("broken")

(* The scanner has no next line: the stream was closed, or it broke.       *)
ScanResult ==
  CASE server = "closed" -> "message"
    [] server = "broken" -> "broken"
    [] OTHER             -> "none"

(* Mutant: without a last chunk the loop goes on.                          *)
ScanOn ==
  /\ client = "scan" /\ read = Len(sent) /\ ScanResult # "none"
  /\ UNCHANGED vars

NoMoreLines ==
  /\ client = "scan" /\ read = Len(sent) /\ ScanResult # "none"
  /\ Return(ScanResult) /\ UNCHANGED <<read, content, toolCalls>>

Returned == client = "done" /\ UNCHANGED vars

Scan == Blank \/ Malformed \/ Chunk \/ LastChunk \/ NoMoreLines
Next == Post \/ PostFails \/ Scan \/ Send \/ Close \/ Break \/ Returned

Spec == Init /\ [][Next]_vars

(* The loop runs; the server owes nothing, and basicChat has no timeout.   *)
FairSpec == Spec /\ WF_vars(Scan)

-----------------------------------------------------------------------------
(* The answer is what was sent up to its first last chunk, or all of it.   *)
LastChunks == {i \in DOMAIN sent : sent[i].done}
Answer ==
  IF LastChunks = {} THEN sent
  ELSE SubSeq(sent, 1, CHOOSE i \in LastChunks : \A j \in LastChunks : i <= j)

(* A message is returned only of an answer that has nothing malformed in   *)
(* it and was not cut by a broken connection, and its content is the whole *)
(* content of the answer, in order, however the server's lines and the     *)
(* reads interleave.  It calls tools exactly when some chunk did: no later *)
(* chunk without calls takes them back (runtime.go:187-223).               *)
MessageIsAnswer ==
  result = "message" =>
    /\ content = FlattenSeq([i \in DOMAIN Answer |-> Answer[i].content])
    /\ \A i \in DOMAIN Answer : Answer[i].kind \in {"chunk", "blank"}
    /\ server = "broken" => LastChunks # {}
    /\ toolCalls # <<>> <=> \E i \in DOMAIN Answer : Answer[i].calls # <<>>

(* When the answer has its last chunk or the stream ends, basicChat        *)
(* returns.                                                                *)
AnswerIsReturned ==
  client = "scan" /\ (server \in {"closed", "broken"} \/ LastChunks # {}) ~> client = "done"
=============================================================================
