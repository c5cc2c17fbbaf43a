------------------------------- MODULE Netguard -------------------------------
(***************************************************************************)
(* tools.Registry.httpRequest through netguard's guarded client: a URL is  *)
(* validated, its host resolved, the addresses checked and the first one   *)
(* dialled; a redirect starts over.  DNS, net/http and the servers are     *)
(* external: a name may resolve to something else at every lookup, and     *)
(* anybody may hang until the timer fires.                                 *)
(***************************************************************************)
EXTENDS Naturals, Sequences

CONSTANTS
  Hosts,         \* hosts of URLs
  NoHost,        \* the empty host
  Addresses,
  BlockedAddr,   \* those for which BlockedAddrReason has a reason
  BlockedNames,  \* names of metadata services and of the machine itself
  Literals,      \* hosts that are an address in some spelling
  AddressOf,     \* the address they spell
  Answers,       \* what a lookup may return: sequences of addresses
  MaxRequests,   \* 10: the redirect policy stops there
  Limit,         \* of the body of a response
  MaxBody        \* bound: size of a body

Schemes == {"http", "https", "other"}
Urls == [scheme : Schemes, host : Hosts \cup {NoHost}]

ASSUME NetguardAssumption ==
  /\ BlockedAddr \subseteq Addresses
  /\ NoHost \notin Hosts /\ Literals \subseteq Hosts /\ BlockedNames \subseteq Hosts
  /\ AddressOf \in [Literals -> Addresses]
  /\ Answers \subseteq Seq(Addresses)
  /\ MaxRequests \in Nat \ {0} /\ Limit \in Nat /\ MaxBody \in Nat

VARIABLES
  at,        \* where the request is
  url,       \* of the request under way
  addrs,     \* what its host resolved to
  pool,      \* open connections: host and address
  requests,  \* requests made so far, the one under way included
  response,  \* of the server: its status, its size, where it redirects
  result

VARIABLES    \* history
  dialled,   \* addresses dialled
  asked      \* hosts that were sent a request

vars == <<at, url, addrs, pool, requests, response, result, dialled, asked>>

NoResponse == [status |-> "none", size |-> 0, location |-> [scheme |-> "other", host |-> NoHost]]
Response == [status : {"none", "ok", "redirect", "error"}, size : 0..MaxBody, location : Urls]

Nothing == [kind |-> "none", size |-> 0]
Fail == at' = "done" /\ result' = [kind |-> "error", size |-> 0]

Init ==
  /\ at = "validate" /\ url \in Urls
  /\ addrs = <<>> /\ pool = {} /\ requests = 0
  /\ response = NoResponse /\ result = Nothing
  /\ dialled = {} /\ asked = {}

-----------------------------------------------------------------------------
BlockedHost(h) ==
  h = NoHost \/ h \in BlockedNames \/ (h \in Literals /\ AddressOf[h] \in BlockedAddr)

ValidateHTTPURL(u) == u.scheme \in {"http", "https"} /\ ~BlockedHost(u.host)

Validate ==
  /\ at = "validate"
  /\ IF ValidateHTTPURL(url)
     THEN at' = "connect" /\ requests' = 1 /\ UNCHANGED result
     ELSE Fail /\ UNCHANGED requests
  /\ UNCHANGED <<url, addrs, pool, response, dialled, asked>>

(* The transport has a connection to the host that it can use again.       *)
Reuse ==
  /\ at = "connect" /\ \E c \in pool : c[1] = url.host
  /\ at' = "response" /\ asked' = asked \cup {url.host}
  /\ UNCHANGED <<url, addrs, pool, requests, response, result, dialled>>

Lookup ==
  /\ at = "connect"
  /\ at' = "resolved"
  /\ IF url.host \in Literals THEN addrs' = <<AddressOf[url.host]>> ELSE addrs' \in Answers
  /\ UNCHANGED <<url, pool, requests, response, result, dialled, asked>>

(* Every address is checked, although only the first will be used.         *)
Checked == addrs # <<>> /\ \A i \in DOMAIN addrs : addrs[i] \notin BlockedAddr

resolveDialAddr ==
  /\ at = "resolved"
  /\ IF Checked THEN at' = "dial" /\ UNCHANGED result ELSE Fail
  /\ UNCHANGED <<url, addrs, pool, requests, response, dialled, asked>>

Connected(addr) ==
  /\ at' = "response"
  /\ dialled' = dialled \cup {addr} /\ asked' = asked \cup {url.host}
  /\ pool' = pool \cup {<<url.host, addr>>}
  /\ UNCHANGED <<url, addrs, requests, response, result>>

(* Mutant: the host is dialled, and resolved once more on the way.         *)
DialHost ==
  /\ at = "dial"
  /\ \/ url.host \in Literals /\ Connected(AddressOf[url.host])
     \/ url.host \notin Literals /\ \E a \in Answers : a # <<>> /\ Connected(a[1])

(* The address itself is dialled.                                          *)
Dial == at = "dial" /\ Connected(addrs[1])

(* The lookup, the connection or the server fails.                         *)
Break ==
  /\ at \in {"connect", "dial", "response", "body"}
  /\ Fail
  /\ UNCHANGED <<url, addrs, pool, requests, response, dialled, asked>>

-----------------------------------------------------------------------------
Respond ==
  /\ at = "response"
  /\ \E r \in Response :
       /\ r.status # "none"
       /\ r.status = "redirect" => r.size = 0
       /\ r.status # "redirect" => r.location = NoResponse.location
       /\ response' = r
       /\ at' = IF r.status = "redirect" THEN "redirect" ELSE "body"
  /\ UNCHANGED <<url, addrs, pool, requests, result, dialled, asked>>

(* CheckRedirect                                                           *)
Follow == ValidateHTTPURL(response.location) /\ requests < MaxRequests

Redirect ==
  /\ at = "redirect"
  /\ IF Follow
     THEN /\ at' = "connect" /\ url' = response.location /\ requests' = requests + 1
          /\ UNCHANGED result
     ELSE Fail /\ UNCHANGED <<url, requests>>
  /\ UNCHANGED <<addrs, pool, response, dialled, asked>>

(* Mutant: the reader stops at the limit, not one beyond it.               *)
ReadToLimit == IF response.size < Limit THEN response.size ELSE Limit

(* What io.LimitReader lets through: one byte more than the limit.         *)
ReadAll == IF response.size < Limit + 1 THEN response.size ELSE Limit + 1

Finish ==
  /\ at = "body"
  /\ IF ReadAll > Limit \/ response.status # "ok"
     THEN Fail
     ELSE at' = "done" /\ result' = [kind |-> "body", size |-> ReadAll]
  /\ UNCHANGED <<url, addrs, pool, requests, response, dialled, asked>>

Timeout ==
  /\ at \notin {"validate", "done"}
  /\ Fail
  /\ UNCHANGED <<url, addrs, pool, requests, response, dialled, asked>>

Returned == at = "done" /\ UNCHANGED vars

External == Reuse \/ Lookup \/ Dial \/ Break \/ Respond \/ Finish
Next == Validate \/ resolveDialAddr \/ Redirect \/ External \/ Timeout \/ Returned

Spec == Init /\ [][Next]_vars

-----------------------------------------------------------------------------
(* Every variable has its type, and no more requests are made than the     *)
(* redirect policy has room for.                                           *)
TypeOK ==
  /\ at \in {"validate", "connect", "resolved", "dial", "response", "redirect", "body", "done"}
  /\ url \in Urls /\ addrs \in Answers \cup {<<>>} \cup {<<a>> : a \in Addresses}
  /\ pool \subseteq Hosts \X Addresses
  /\ requests \in 0..MaxRequests
  /\ response \in Response
  /\ result.kind \in {"none", "error", "body"} /\ result.size \in Nat
  /\ dialled \subseteq Addresses /\ asked \subseteq Hosts

(* No blocked address is ever dialled, whatever a name resolves to at each *)
(* lookup and wherever the redirects lead (netguard/http.go:132-160).      *)
DialledAreChecked == dialled \cap BlockedAddr = {}

(* No blocked host is ever sent a request, not by a redirect and not over  *)
(* a connection that is used again (netguard/http.go:101-112).              *)
AskedAreAllowed == \A h \in asked : ~BlockedHost(h)

(* Neither is ever reached, for the one protects only with the other.      *)
NothingBlockedIsReached == DialledAreChecked /\ AskedAreAllowed

(* A body that is returned is the whole body of a successful response, and *)
(* within the limit (tools/http.go:77-87).                                 *)
BodyIsWhole ==
  result.kind = "body" =>
    result.size = response.size /\ response.size <= Limit /\ response.status = "ok"
=============================================================================
