-------------------------- MODULE OllamaStreamProofs --------------------------
(***************************************************************************)
(* Whatever lines the server sends and however they interleave with the    *)
(* reads, the message basicChat returns is the whole answer: its content   *)
(* is that of all the chunks, in order.  The theorem is about FlattenSeq,  *)
(* which is recursive, so it begins with an induction over the length of a *)
(* sequence, by the least index for which a fact would fail.               *)
(***************************************************************************)
EXTENDS OllamaStream, WellFoundedInduction, TLAPS

(***************************************************************************)
(* Flattening.                                                             *)
(***************************************************************************)
(* A set of numbers that is not empty has a least one.                     *)
LEMMA Least ==
  ASSUME NEW T \in SUBSET Nat, T # {}
  PROVE  \E m \in T : \A k \in T : m <= k
<1>1. PICK m \in T : \A k \in T : <<k, m>> \notin OpToRel(<, Nat)
  BY WFMin, NatLessThanWellFounded, Zenon
<1>2. \A k \in T : ~(k < m)
  BY <1>1, Zenon DEF OpToRel
<1> QED BY <1>2

(* f gathers the first n parts of s, one after the other.                  *)
Gathers(f, s, n) == f = [i \in 1..n |-> IF i = 1 THEN s[i] ELSE f[i - 1] \o s[i]]

(* The parts of a sequence can be gathered.                                *)
LEMMA GathersSome ==
  ASSUME NEW S, NEW s \in Seq(Seq(S)), NEW n \in 1..Len(s)
  PROVE  \E f : Gathers(f, s, n)
<1> DEFINE T == {k \in 1..Len(s) : ~ \E f : Gathers(f, s, k)}
<1> SUFFICES ASSUME T # {} PROVE FALSE
  OBVIOUS
<1>1. T \in SUBSET Nat
  OBVIOUS
<1>2. PICK m \in T : \A k \in T : m <= k
  BY <1>1, Least
<1>3. m \in 1..Len(s) /\ Len(s) \in Nat
  OBVIOUS
<1>4. CASE m = 1
  <2> DEFINE f == [i \in 1..1 |-> s[i]]
  <2>1. f = [i \in 1..1 |-> IF i = 1 THEN s[i] ELSE f[i - 1] \o s[i]]
    OBVIOUS
  <2> HIDE DEF f
  <2>2. Gathers(f, s, m)
    BY <1>4, <2>1 DEF Gathers
  <2> QED BY <2>2
<1>5. CASE m # 1
  <2>1. m - 1 \in 1..Len(s) /\ ~(m <= m - 1)
    BY <1>3, <1>5
  <2>2. m - 1 \notin T
    <3> HIDE DEF T
    <3> QED BY <1>2, <2>1
  <2>3. PICK e : Gathers(e, s, m - 1)
    BY <2>1, <2>2
  <2> DEFINE f == [i \in 1..m |-> IF i = m THEN e[m - 1] \o s[m] ELSE e[i]]
  <2>4. \A i \in 1..(m - 1) : e[i] = IF i = 1 THEN s[i] ELSE e[i - 1] \o s[i]
    BY <2>3 DEF Gathers
  <2>5. \A i \in 1..m : f[i] = IF i = 1 THEN s[i] ELSE f[i - 1] \o s[i]
    <3> SUFFICES ASSUME NEW i \in 1..m
                 PROVE  f[i] = IF i = 1 THEN s[i] ELSE f[i - 1] \o s[i]
      OBVIOUS
    <3>1. CASE i = m
      <4>1. i # 1 /\ i - 1 \in 1..m /\ i - 1 # m
        BY <1>3, <1>5, <3>1
      <4> QED BY <3>1, <4>1
    <3>2. CASE i # m
      <4>1. i \in 1..(m - 1) /\ (i # 1 => i - 1 \in 1..m /\ i - 1 # m)
        BY <1>3, <3>2
      <4> QED BY <2>4, <3>2, <4>1
    <3> QED BY <3>1, <3>2
  <2>6. f = [i \in 1..m |-> f[i]]
    OBVIOUS
  <2> HIDE DEF f
  <2>7. Gathers(f, s, m)
    BY <2>5, <2>6 DEF Gathers
  <2> QED BY <2>7
<1> QED BY <1>4, <1>5

(* They can be gathered in one way only.                                   *)
LEMMA GathersOne ==
  ASSUME NEW S, NEW s \in Seq(Seq(S)), NEW n \in 1..Len(s),
         NEW f, Gathers(f, s, n), NEW g, Gathers(g, s, n)
  PROVE  f = g
<1> DEFINE T == {i \in 1..n : g[i] # f[i]}
<1>1. n \in Nat
  OBVIOUS
<1>2. \A i \in 1..n : /\ f[i] = IF i = 1 THEN s[i] ELSE f[i - 1] \o s[i]
                      /\ g[i] = IF i = 1 THEN s[i] ELSE g[i - 1] \o s[i]
  BY DEF Gathers
<1>3. ASSUME T # {} PROVE FALSE
  <2>1. T \in SUBSET Nat
    OBVIOUS
  <2>2. PICK m \in T : \A k \in T : m <= k
    BY <1>3, <2>1, Least
  <2>3. CASE m = 1
    BY <1>2, <2>2, <2>3
  <2>4. CASE m # 1
    <3>1. m - 1 \in 1..n /\ m - 1 \notin T
      BY <1>1, <2>2, <2>4
    <3> QED BY <1>2, <2>2, <2>4, <3>1
  <2> QED BY <2>3, <2>4
<1>4. f = [i \in 1..n |-> f[i]] /\ g = [i \in 1..n |-> g[i]]
  BY DEF Gathers
<1> QED BY <1>3, <1>4

(* Flattening a sequence gathers all its parts.                            *)
LEMMA FlattenGathers ==
  ASSUME NEW S, NEW s \in Seq(Seq(S)), s # <<>>, NEW f, Gathers(f, s, Len(s))
  PROVE  FlattenSeq(s) = f[Len(s)]
<1> DEFINE g == CHOOSE h : h = [i \in 1..Len(s) |-> IF i = 1 THEN s[i] ELSE h[i - 1] \o s[i]]
<1>1. Len(s) # 0 /\ Len(s) \in 1..Len(s)
  OBVIOUS
<1>2. FlattenSeq(s) = g[Len(s)]
  BY <1>1 DEF FlattenSeq
<1>3. g = [i \in 1..Len(s) |-> IF i = 1 THEN s[i] ELSE g[i - 1] \o s[i]]
  BY DEF Gathers
<1> HIDE DEF g
<1>4. Gathers(g, s, Len(s))
  BY <1>3 DEF Gathers
<1>5. g = f
  BY <1>1, <1>4, GathersOne
<1> QED BY <1>2, <1>5

(* A sequence with one more element.                                       *)
LEMMA Longer ==
  ASSUME NEW V, NEW s \in Seq(V), NEW x \in V
  PROVE  /\ Append(s, x) \in Seq(V) /\ Len(Append(s, x)) = Len(s) + 1
         /\ Append(s, x) # <<>> /\ Len(s) \in Nat
         /\ Append(s, x)[Len(s) + 1] = x
         /\ \A i \in 1..Len(s) : Append(s, x)[i] = s[i]
OBVIOUS

(* Flattening with one more part appends that part.                        *)
LEMMA FlattenAppend ==
  ASSUME NEW S, NEW s \in Seq(Seq(S)), NEW x \in Seq(S)
  PROVE  FlattenSeq(Append(s, x)) = FlattenSeq(s) \o x
<1> DEFINE r == Append(s, x)
           n == Len(s)
<1>1. /\ r \in Seq(Seq(S)) /\ Len(r) = n + 1 /\ r # <<>> /\ n \in Nat
      /\ r[n + 1] = x /\ \A i \in 1..n : r[i] = s[i]
  BY Longer
<1>2. n + 1 \in 1..Len(r)
  BY <1>1
<1> HIDE DEF r
<1>3. PICK g : Gathers(g, r, n + 1)
  BY <1>1, <1>2, GathersSome
<1>4. FlattenSeq(r) = g[n + 1]
  BY <1>1, <1>3, FlattenGathers
<1>5. \A i \in 1..(n + 1) : g[i] = IF i = 1 THEN r[i] ELSE g[i - 1] \o r[i]
  BY <1>3 DEF Gathers
<1>6. CASE n = 0
  <2>1. s = <<>> /\ <<>> \o x = x
    BY <1>6
  <2>2. FlattenSeq(s) = <<>>
    BY <1>6, <2>1 DEF FlattenSeq
  <2>3. g[n + 1] = x
    BY <1>1, <1>5, <1>6
  <2> QED BY <1>4, <2>1, <2>2, <2>3 DEF r
<1>7. CASE n # 0
  <2> DEFINE f == [i \in 1..n |-> g[i]]
  <2>1. \A i \in 1..n : f[i] = IF i = 1 THEN s[i] ELSE f[i - 1] \o s[i]
    <3> SUFFICES ASSUME NEW i \in 1..n
                 PROVE  f[i] = IF i = 1 THEN s[i] ELSE f[i - 1] \o s[i]
      OBVIOUS
    <3>1. i \in 1..(n + 1) /\ (i # 1 => i - 1 \in 1..n)
      BY <1>1
    <3> QED BY <1>1, <1>5, <3>1
  <2>2. f = [i \in 1..n |-> f[i]] /\ f[n] = g[n]
    BY <1>1, <1>7
  <2> HIDE DEF f
  <2>3. Gathers(f, s, n)
    BY <2>1, <2>2 DEF Gathers
  <2>4. s # <<>>
    BY <1>7
  <2>5. FlattenSeq(s) = g[n]
    BY <2>2, <2>3, <2>4, FlattenGathers
  <2>6. g[n + 1] = g[n] \o x
    <3>1. n + 1 \in 1..(n + 1) /\ n + 1 # 1 /\ (n + 1) - 1 = n
      BY <1>1, <1>7
    <3> QED BY <1>1, <1>5, <3>1
  <2> QED BY <1>4, <2>5, <2>6 DEF r
<1> QED BY <1>6, <1>7

(***************************************************************************)
(* The inductive invariant.                                                *)
(***************************************************************************)
(* What the first n lines bring.                                           *)
Pieces(n) == [i \in 1..n |-> sent[i].content]

(* The types, and who waits for whom.                                      *)
StreamTyped ==
  /\ sent \in Seq(Lines) /\ server \in {"waiting", "sending", "closed", "broken"}
  /\ read \in Nat /\ read <= Len(sent)
  /\ client \in {"post", "scan", "done"}
  /\ content \in Seq(Words) /\ toolCalls \in Seq(Calls)
  /\ client = "post" => server = "waiting" /\ read = 0 /\ toolCalls = <<>>
  /\ client # "done" => result = "none"

(* Until an error, what was put together is what was read, whole.          *)
Whole ==
  result \in {"none", "message"} =>
    /\ content = FlattenSeq(Pieces(read))
    /\ \A i \in 1..read : sent[i].kind \in {"chunk", "blank"}
    /\ toolCalls # <<>> <=> \E i \in 1..read : sent[i].calls # <<>>

(* No last chunk is read but that with which the loop ends; without one it *)
(* ends when the stream is closed and read to its end.                     *)
NoneDone(n) == \A i \in 1..n : ~sent[i].done
Ends ==
  /\ result = "none" => NoneDone(read)
  /\ result = "message" =>
       \/ read # 0 /\ sent[read].done /\ NoneDone(read - 1)
       \/ server = "closed" /\ read = Len(sent) /\ NoneDone(read)

StreamInv == StreamTyped /\ Whole /\ Ends

(* A line that was sent is a line.                                         *)
LEMMA LineType ==
  ASSUME StreamTyped, NEW i \in 1..Len(sent)
  PROVE  /\ sent[i].content \in Seq(Words) /\ sent[i].calls \in Seq(Calls)
         /\ sent[i].done \in BOOLEAN
         /\ sent[i].kind # "chunk" =>
              sent[i].content = <<>> /\ sent[i].calls = <<>> /\ ~sent[i].done
<1>1. sent[i] \in Lines
  BY DEF StreamTyped
<1> QED BY <1>1, StreamAssumption DEF Line

(* Nothing was sent and nothing is put together.                           *)
LEMMA InitStream == Init => StreamInv
<1> SUFFICES ASSUME Init PROVE StreamInv
  OBVIOUS
<1>1. << >> \in Seq(Lines) /\ << >> \in Seq(Words) /\ << >> \in Seq(Calls) /\ Len(<<>>) = 0
  OBVIOUS
<1>2. StreamTyped
  BY <1>1 DEF Init, StreamTyped
<1>3. FlattenSeq(Pieces(0)) = <<>>
  <2>1. Pieces(0) = <<>>
    BY DEF Pieces
  <2> QED BY <2>1 DEF FlattenSeq
<1>4. 1..0 = {}
  OBVIOUS
<1>5. Whole /\ Ends
  BY <1>3, <1>4 DEF Init, Whole, Ends, NoneDone
<1> QED BY <1>2, <1>5 DEF StreamInv

(* What the server does changes no line that was read.                     *)
LEMMA ServerKeeps ==
  ASSUME StreamInv, Send \/ Close \/ Break
  PROVE  StreamInv'
<1>1. /\ server = "sending" /\ UNCHANGED <<read, client, content, toolCalls, result>>
      /\ \/ UNCHANGED server /\ \E line \in Lines : sent' = Append(sent, line)
         \/ server' \in {"closed", "broken"} /\ sent' = sent
  BY DEF Send, Close, Break, Over
<1>2. sent \in Seq(Lines) /\ read \in Nat /\ read <= Len(sent) /\ client # "post"
  BY <1>1 DEF StreamInv, StreamTyped
<1>3. /\ sent' \in Seq(Lines) /\ read <= Len(sent')
      /\ \A i \in 1..read : sent'[i] = sent[i]
  <2>1. CASE sent' = sent
    BY <1>2, <2>1
  <2>2. ASSUME NEW line \in Lines, sent' = Append(sent, line)
        PROVE  <1>3!:
    <3>1. Len(sent') = Len(sent) + 1 /\ \A i \in 1..Len(sent) : sent'[i] = sent[i]
      BY <1>2, <2>2
    <3>2. 1..read \subseteq 1..Len(sent) /\ read <= Len(sent) + 1
      BY <1>2
    <3> QED BY <1>2, <2>2, <3>1, <3>2
  <2> QED BY <1>1, <2>1, <2>2
<1>4. StreamTyped'
  BY <1>1, <1>2, <1>3 DEF StreamInv, StreamTyped
<1>5. Whole'
  <2>1. Pieces(read)' = Pieces(read)
    BY <1>1, <1>3 DEF Pieces
  <2> QED BY <1>1, <1>3, <2>1 DEF StreamInv, Whole
<1>6. Ends'
  <2>1. NoneDone(read) => NoneDone(read)'
    BY <1>1, <1>3 DEF NoneDone
  <2>2. read # 0 /\ sent[read].done /\ NoneDone(read - 1) =>
          sent'[read].done /\ NoneDone(read - 1)'
    <3>1. read # 0 => read \in 1..read /\ 1..(read - 1) \subseteq 1..read
      BY <1>2
    <3> QED BY <1>1, <1>3, <3>1 DEF NoneDone
  <2> QED BY <1>1, <2>1, <2>2 DEF StreamInv, Ends
<1> QED BY <1>4, <1>5, <1>6 DEF StreamInv

(* The post, and what ends without a message, put nothing together.        *)
LEMMA OutcomeKeeps ==
  ASSUME StreamInv, Post \/ PostFails \/ Malformed \/ Returned
  PROVE  StreamInv'
<1>1. /\ UNCHANGED <<sent, content, toolCalls>>
      /\ \/ client = "post" /\ client' = "scan" /\ server' = "sending" /\ UNCHANGED <<read, result>>
         \/ /\ client' = "done" /\ result' \in {"post", "garbled", "error", "long"}
            /\ server' = server /\ (read' = read \/ (read < Len(sent) /\ read' = read + 1))
         \/ UNCHANGED <<server, read, client, result>>
  BY DEF Post, PostFails, Malformed, Returned, Scanned, Return, vars
<1>2. sent \in Seq(Lines) /\ read \in Nat /\ read <= Len(sent) /\ Len(sent) \in Nat
  BY DEF StreamInv, StreamTyped
<1>3. StreamTyped'
  BY <1>1, <1>2 DEF StreamInv, StreamTyped
<1>4. CASE UNCHANGED <<read, result>>
  <2>1. Pieces(read)' = Pieces(read) /\ NoneDone(read)' = NoneDone(read)
        /\ NoneDone(read - 1)' = NoneDone(read - 1)
    BY <1>1, <1>4 DEF Pieces, NoneDone
  <2>2. Whole'
    BY <1>1, <1>4, <2>1 DEF StreamInv, Whole
  <2>3. Ends'
    BY <1>1, <1>4, <2>1 DEF StreamInv, StreamTyped, Ends
  <2> QED BY <1>3, <2>2, <2>3 DEF StreamInv
<1>5. CASE result' \in {"post", "garbled", "error", "long"}
  BY <1>3, <1>5 DEF StreamInv, Whole, Ends
<1> QED BY <1>1, <1>4, <1>5

(* A line that is blank or a chunk is added to what was put together.      *)
LEMMA TakeWhole ==
  ASSUME StreamInv, Scanned({"chunk", "blank"}), Take, sent' = sent
  PROVE  /\ read' = read + 1 /\ read' \in Nat /\ read' <= Len(sent)
         /\ content' \in Seq(Words) /\ toolCalls' \in Seq(Calls)
         /\ content' = FlattenSeq(Pieces(read'))
         /\ \A i \in 1..read' : sent[i].kind \in {"chunk", "blank"}
         /\ toolCalls' # <<>> <=> \E i \in 1..read' : sent[i].calls # <<>>
<1>1. /\ client = "scan" /\ read < Len(sent) /\ read' = read + 1
      /\ sent[read + 1].kind \in {"chunk", "blank"}
      /\ content' = content \o sent[read + 1].content
      /\ toolCalls' = IF sent[read + 1].calls # <<>> THEN sent[read + 1].calls ELSE toolCalls
  BY DEF Scanned, Take, Upcoming
<1>2. /\ sent \in Seq(Lines) /\ read \in Nat /\ Len(sent) \in Nat
      /\ content \in Seq(Words) /\ toolCalls \in Seq(Calls) /\ result = "none"
  BY <1>1 DEF StreamInv, StreamTyped
<1>3. read + 1 \in 1..Len(sent) /\ read + 1 \in Nat /\ read + 1 <= Len(sent)
  BY <1>1, <1>2
<1>4. sent[read + 1].content \in Seq(Words) /\ sent[read + 1].calls \in Seq(Calls)
  BY <1>3, LineType DEF StreamInv
<1>5. content' \in Seq(Words) /\ toolCalls' \in Seq(Calls)
  BY <1>1, <1>2, <1>4
<1>6. /\ content = FlattenSeq(Pieces(read))
      /\ \A i \in 1..read : sent[i].kind \in {"chunk", "blank"}
      /\ toolCalls # <<>> <=> \E i \in 1..read : sent[i].calls # <<>>
  BY <1>2 DEF StreamInv, Whole
<1>7. 1..(read + 1) = (1..read) \cup {read + 1}
  BY <1>2
<1>8. content' = FlattenSeq(Pieces(read + 1))
  <2>1. \A i \in 1..(read + 1) : sent[i].content \in Seq(Words)
    <3>1. 1..(read + 1) \subseteq 1..Len(sent)
      BY <1>1, <1>2
    <3> QED BY <3>1, LineType DEF StreamInv
  <2>2. Pieces(read) \in Seq(Seq(Words)) /\ Len(Pieces(read)) = read
    BY <1>2, <1>7, <2>1 DEF Pieces
  <2>3. Append(Pieces(read), sent[read + 1].content) = Pieces(read + 1)
    BY <1>2, <1>4, <2>1, <2>2 DEF Pieces
  <2>4. FlattenSeq(Append(Pieces(read), sent[read + 1].content))
          = FlattenSeq(Pieces(read)) \o sent[read + 1].content
    BY <1>4, <2>2, FlattenAppend
  <2> QED BY <1>1, <1>6, <2>3, <2>4
<1>9. \A i \in 1..(read + 1) : sent[i].kind \in {"chunk", "blank"}
  BY <1>1, <1>6, <1>7
<1>10. toolCalls' # <<>> <=> \E i \in 1..(read + 1) : sent[i].calls # <<>>
  BY <1>1, <1>6, <1>7
<1> QED BY <1>1, <1>3, <1>5, <1>8, <1>9, <1>10

(* The loop goes on over blank lines and chunks, and returns what it has   *)
(* with the last chunk.                                                    *)
LEMMA LinesKeep ==
  ASSUME StreamInv, Blank \/ Chunk \/ LastChunk
  PROVE  StreamInv'
<1>1. /\ sent' = sent /\ server' = server
      /\ Scanned({"chunk", "blank"})
      /\ \/ client' = client /\ result' = result /\ ~Upcoming.done
         \/ client' = "done" /\ result' = "message" /\ Upcoming.done
         \/ client' = "done" /\ result' = "broken"
  <2>1. CASE Blank
    <3>1. read + 1 \in 1..Len(sent)
      BY <2>1 DEF Blank, Scanned, StreamInv, StreamTyped
    <3>2. ~Upcoming.done
      BY <2>1, <3>1, LineType DEF Blank, Scanned, Upcoming, StreamInv
    <3> QED BY <2>1, <3>2 DEF Blank, Scanned
  <2>2. CASE Chunk \/ LastChunk
    BY <2>2 DEF Chunk, LastChunk, Scanned, Return
  <2> QED BY <2>1, <2>2
<1>2. Take
  <2>1. CASE Blank
    <3>1. read + 1 \in 1..Len(sent)
      BY <2>1 DEF Blank, Scanned, StreamInv, StreamTyped
    <3>2. Upcoming.content = <<>> /\ Upcoming.calls = <<>>
      BY <2>1, <3>1, LineType DEF Blank, Scanned, Upcoming, StreamInv
    <3>3. content \o <<>> = content
      BY DEF StreamInv, StreamTyped
    <3> QED BY <2>1, <3>2, <3>3 DEF Blank, Take
  <2>2. CASE Chunk \/ LastChunk
    BY <2>2 DEF Chunk, LastChunk
  <2> QED BY <2>1, <2>2
<1>3. /\ client = "scan" /\ result = "none" /\ read \in Nat /\ NoneDone(read)
      /\ Upcoming = sent[read + 1]
  BY <1>1 DEF Scanned, Upcoming, StreamInv, StreamTyped, Ends
<1>4. /\ read' = read + 1 /\ read' \in Nat /\ read' <= Len(sent)
      /\ content' \in Seq(Words) /\ toolCalls' \in Seq(Calls)
      /\ content' = FlattenSeq(Pieces(read'))
      /\ \A i \in 1..read' : sent[i].kind \in {"chunk", "blank"}
      /\ toolCalls' # <<>> <=> \E i \in 1..read' : sent[i].calls # <<>>
  BY <1>1, <1>2, TakeWhole
<1>5. StreamTyped'
  BY <1>1, <1>3, <1>4 DEF StreamInv, StreamTyped
<1>6. Whole'
  <2>1. Pieces(read)' = Pieces(read')
    BY <1>1 DEF Pieces
  <2> QED BY <1>1, <1>4, <2>1 DEF Whole
<1>7. Ends'
  <2>1. CASE result' = result /\ ~Upcoming.done
    <3>1. 1..(read + 1) = (1..read) \cup {read + 1}
      BY <1>3
    <3>2. NoneDone(read)'
      BY <1>1, <1>3, <1>4, <2>1, <3>1 DEF NoneDone
    <3> QED BY <1>3, <2>1, <3>2 DEF Ends
  <2>2. CASE result' = "message" /\ Upcoming.done
    <3>1. read + 1 # 0 /\ (read + 1) - 1 = read
      BY <1>3
    <3>2. NoneDone(read - 1)'
      BY <1>1, <1>3, <1>4, <3>1 DEF NoneDone
    <3> QED BY <1>1, <1>3, <1>4, <2>2, <3>1, <3>2 DEF Ends
  <2>3. CASE result' = "broken"
    BY <2>3 DEF Ends
  <2> QED BY <1>1, <2>1, <2>2, <2>3
<1> QED BY <1>5, <1>6, <1>7 DEF StreamInv

(* At the end of the stream what it has is the message, or an error.       *)
LEMMA NoMoreKeeps ==
  ASSUME StreamInv, NoMoreLines
  PROVE  StreamInv'
<1>1. /\ UNCHANGED <<sent, server, read, content, toolCalls>>
      /\ client = "scan" /\ client' = "done" /\ read = Len(sent)
      /\ \/ result' = "message" /\ server = "closed"
         \/ result' = "broken"
  BY DEF NoMoreLines, Return, ScanResult
<1>2. result = "none" /\ NoneDone(read)
  BY <1>1 DEF StreamInv, StreamTyped, Ends
<1>3. StreamTyped'
  BY <1>1 DEF StreamInv, StreamTyped
<1>4. Pieces(read)' = Pieces(read) /\ NoneDone(read)' = NoneDone(read)
  BY <1>1 DEF Pieces, NoneDone
<1>5. Whole'
  BY <1>1, <1>2, <1>4 DEF StreamInv, Whole
<1>6. Ends'
  BY <1>1, <1>2, <1>4 DEF Ends
<1> QED BY <1>3, <1>5, <1>6 DEF StreamInv

(* Every step keeps the invariant.                                         *)
LEMMA NextStream == StreamInv /\ [Next]_vars => StreamInv'
<1> SUFFICES ASSUME StreamInv, [Next]_vars PROVE StreamInv'
  OBVIOUS
<1>1. CASE UNCHANGED vars
  <2>1. /\ UNCHANGED <<sent, server, read, client>>
        /\ UNCHANGED <<content, toolCalls, result>>
    BY <1>1 DEF vars
  <2>2. Pieces(read)' = Pieces(read) /\ NoneDone(read)' = NoneDone(read)
        /\ NoneDone(read - 1)' = NoneDone(read - 1)
    BY <2>1 DEF Pieces, NoneDone
  <2>3. StreamTyped' /\ Whole' /\ Ends'
    BY <2>1, <2>2 DEF StreamInv, StreamTyped, Whole, Ends
  <2> QED BY <2>3 DEF StreamInv
<1> QED BY <1>1, ServerKeeps, OutcomeKeeps, LinesKeep, NoMoreKeeps DEF Next, Scan

(* A message that is returned is the whole answer of the server and        *)
(* nothing else, and calls tools exactly when some chunk did               *)
(* (runtime.go:187-223).                                                   *)
THEOREM AnswerIsWhole == Spec => []MessageIsAnswer
<1>1. StreamInv => MessageIsAnswer
  <2> SUFFICES ASSUME StreamInv, result = "message" PROVE MessageIsAnswer
    BY DEF MessageIsAnswer
  <2>1. sent \in Seq(Lines) /\ read \in Nat /\ read <= Len(sent) /\ Len(sent) \in Nat
        /\ DOMAIN sent = 1..Len(sent)
    BY DEF StreamInv, StreamTyped
  <2>2. /\ \/ LastChunks = {} /\ read = Len(sent) /\ server = "closed"
           \/ /\ LastChunks # {} /\ read \in LastChunks
              /\ \A j \in LastChunks : read <= j
    <3>1. CASE read # 0 /\ sent[read].done /\ NoneDone(read - 1)
      <4>1. read \in LastChunks
        BY <2>1, <3>1 DEF LastChunks
      <4>2. ASSUME NEW j \in LastChunks PROVE read <= j
        <5>1. j \in Nat /\ j # 0 /\ sent[j].done
          BY <2>1 DEF LastChunks
        <5>2. j \notin 1..(read - 1)
          BY <3>1, <5>1 DEF NoneDone
        <5> QED BY <2>1, <3>1, <5>1, <5>2
      <4> QED BY <4>1, <4>2
    <3>2. CASE server = "closed" /\ read = Len(sent) /\ NoneDone(read)
      BY <2>1, <3>2 DEF LastChunks, NoneDone
    <3> QED BY <3>1, <3>2 DEF StreamInv, Ends
  <2>3. /\ Answer \in Seq(Lines) /\ Len(Answer) = read /\ DOMAIN Answer = 1..read
        /\ \A i \in 1..read : Answer[i] = sent[i]
    <3>1. CASE LastChunks = {} /\ read = Len(sent)
      BY <2>1, <3>1 DEF Answer
    <3>2. CASE LastChunks # {} /\ read \in LastChunks /\ \A j \in LastChunks : read <= j
      <4> DEFINE least == CHOOSE i \in LastChunks : \A j \in LastChunks : i <= j
      <4>1. least \in LastChunks /\ \A j \in LastChunks : least <= j
        BY <3>2
      <4>2. least = read
        <5>1. least \in Nat /\ least <= read /\ read <= least
          BY <2>1, <3>2, <4>1 DEF LastChunks
        <5> HIDE DEF least
        <5> QED BY <2>1, <5>1
      <4>3. Answer = SubSeq(sent, 1, read)
        BY <3>2, <4>2 DEF Answer
      <4>4. read \in 1..Len(sent)
        BY <2>1, <3>2 DEF LastChunks
      <4> QED BY <2>1, <4>3, <4>4
    <3> QED BY <2>2, <3>1, <3>2
  <2>4. [i \in DOMAIN Answer |-> Answer[i].content] = Pieces(read)
    BY <2>3 DEF Pieces
  <2>5. /\ content = FlattenSeq(Pieces(read))
        /\ \A i \in 1..read : sent[i].kind \in {"chunk", "blank"}
        /\ toolCalls # <<>> <=> \E i \in 1..read : sent[i].calls # <<>>
    BY DEF StreamInv, Whole
  <2>6. server = "broken" => LastChunks # {}
    BY <2>2
  <2> QED BY <2>3, <2>4, <2>5, <2>6 DEF MessageIsAnswer
<1> QED BY <1>1, InitStream, NextStream, PTL DEF Spec
=============================================================================
