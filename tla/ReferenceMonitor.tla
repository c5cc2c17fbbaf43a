-------------------------- MODULE ReferenceMonitor --------------------------
(***************************************************************************)
(* What the mediator promises: between a proposal and its effect there is  *)
(* one authorisation; it needs the policy's permission and a request that  *)
(* does not carry untrusted text of its conversation in a sensitive place; *)
(* and only a completed effect gives the conversation new untrusted text.  *)
(* The text told so far is the real one: no tracker approximates it.       *)
(***************************************************************************)
CONSTANTS Callers,         \* who asks
          Conversations,   \* whose memory of untrusted text is kept together
          Requests,        \* what may be asked
          Text,            \* pieces of untrusted text, as sets of words
          Permitted(_),    \* the policy does not deny the request
          Repeats(_, _)    \* a sensitive place of the request repeats the text

VARIABLES phase,    \* what each caller's request has come to
          request,  \* the request and the text told before it was made
          told      \* the untrusted text each conversation was given

vars == <<phase, request, told>>

NoRequest == [idle |-> TRUE]
Request == [of : Requests, by : Conversations, before : Text]

Init ==
  /\ phase = [p \in Callers |-> "idle"]
  /\ request = [p \in Callers |-> NoRequest]
  /\ told = [s \in Conversations |-> {}]

Move(p, from, to) ==
  /\ phase[p] = from
  /\ phase' = [phase EXCEPT ![p] = to]

Propose(p, s, r) ==
  /\ Move(p, "idle", "pending")
  /\ request' = [request EXCEPT ![p] = [of |-> r, by |-> s, before |-> told[s]]]
  /\ UNCHANGED told

Authorise(p) ==
  /\ Move(p, "pending", "authorised")
  /\ Permitted(request[p].of)
  /\ ~Repeats(request[p].of, request[p].before)
  /\ UNCHANGED <<request, told>>

Invoke(p) ==
  /\ Move(p, "authorised", "invoked")
  /\ UNCHANGED <<request, told>>

Deliver(p, text) ==
  /\ Move(p, "invoked", "idle")
  /\ request' = [request EXCEPT ![p] = NoRequest]
  /\ told' = [told EXCEPT ![request[p].by] = @ \cup text]

(* A denial or a failure, at any point: the conversation learns nothing.   *)
Refuse(p) ==
  /\ phase[p] # "idle"
  /\ phase' = [phase EXCEPT ![p] = "idle"]
  /\ request' = [request EXCEPT ![p] = NoRequest]
  /\ UNCHANGED told

Next ==
  \E p \in Callers :
    \/ \E s \in Conversations, r \in Requests : Propose(p, s, r)
    \/ Authorise(p)
    \/ Invoke(p)
    \/ \E text \in Text : Deliver(p, text)
    \/ Refuse(p)

Spec == Init /\ [][Next]_vars
=============================================================================
