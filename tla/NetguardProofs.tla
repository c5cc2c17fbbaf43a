---------------------------- MODULE NetguardProofs ----------------------------
(***************************************************************************)
(* Whatever the hosts are, whatever names resolve to and wherever servers  *)
(* redirect, the guarded client dials no blocked address and asks no       *)
(* blocked host; and the blocked addresses are those of eight ranges.      *)
(***************************************************************************)
EXTENDS Netguard, NetguardHosts, TLAPS

(* From the first validation on, the URL under way is one that passed it.  *)
Validated == at \notin {"validate", "done"} => ValidateHTTPURL(url)

(* Between the check and the dial the addresses stay what they were.       *)
Resolved == addrs \in Seq(Addresses) /\ (at = "dial" => Checked)

IInv == Validated /\ Resolved /\ DialledAreChecked /\ AskedAreAllowed

(* What is looked up is a sequence of addresses.                           *)
LEMMA LookupType == ASSUME Resolved, Lookup PROVE addrs' \in Seq(Addresses)
<1>1. CASE url.host \in Literals
  <2>1. AddressOf[url.host] \in Addresses
    BY <1>1, NetguardAssumption
  <2>2. <<AddressOf[url.host]>> \in Seq(Addresses)
    BY <2>1
  <2> QED BY <1>1, <2>2 DEF Lookup
<1>2. CASE url.host \notin Literals
  BY <1>2, NetguardAssumption DEF Lookup
<1> QED BY <1>1, <1>2

(* Initially nothing was resolved, dialled or asked.                       *)
LEMMA InitIInv == Init => IInv
BY DEF Init, IInv, Validated, Resolved, DialledAreChecked, AskedAreAllowed

(* Every step preserves it.                                                *)
LEMMA StepIInv == ASSUME IInv, [Next]_vars PROVE IInv'
<1> USE DEF IInv, Validated, Resolved, Checked, DialledAreChecked, AskedAreAllowed
<1>1. CASE Validate
  BY <1>1 DEF Validate, Fail
<1>2. CASE Reuse
  BY <1>2 DEF Reuse, ValidateHTTPURL
<1>3. CASE Lookup
  <2>1. addrs' \in Seq(Addresses)
    BY <1>3, LookupType
  <2> QED BY <1>3, <2>1 DEF Lookup
<1>4. CASE resolveDialAddr
  BY <1>4 DEF resolveDialAddr, Fail
<1>5. CASE Dial
  <2>1. addrs[1] \notin BlockedAddr
    BY <1>5 DEF Dial
  <2> QED BY <1>5, <2>1 DEF Dial, Connected, ValidateHTTPURL
<1>6. CASE Break \/ Timeout \/ Finish
  BY <1>6 DEF Break, Timeout, Finish, Fail
<1>7. CASE Respond
  BY <1>7 DEF Respond
<1>8. CASE Redirect
  BY <1>8 DEF Redirect, Follow, Fail
<1>9. CASE Returned \/ UNCHANGED vars
  BY <1>9 DEF Returned, vars
<1> QED BY <1>1, <1>2, <1>3, <1>4, <1>5, <1>6, <1>7, <1>8, <1>9 DEF Next, External

(* No blocked address is ever dialled and no blocked host is ever asked,   *)
(* for any DNS and any redirects (netguard/http.go:101-112, 132-160).       *)
THEOREM GuardHolds == Spec => []NothingBlockedIsReached
<1>1. IInv /\ [Next]_vars => IInv'
  BY StepIInv
<1>2. IInv => NothingBlockedIsReached
  BY DEF IInv, NothingBlockedIsReached
<1> QED BY InitIInv, <1>1, <1>2, PTL DEF Spec

(***************************************************************************)
(* What is returned.                                                       *)
(***************************************************************************)
(* The body is read of the response at hand, and the result is not made of *)
(* anything else.                                                          *)
Sizes ==
  /\ response \in Response
  /\ at = "body" => response.status \in {"ok", "error"}
  /\ at # "done" => result = Nothing

(* Nothing is returned before a response came.                             *)
LEMMA InitSizes == Init => Sizes /\ BodyIsWhole
<1> SUFFICES ASSUME Init PROVE Sizes /\ BodyIsWhole
  OBVIOUS
<1>1. NoResponse \in Response
  BY NetguardAssumption DEF NoResponse, Response, Urls, Schemes
<1> QED BY <1>1 DEF Init, Sizes, BodyIsWhole, Nothing

(* A step makes a body of the response at hand only, and reads all of it.  *)
LEMMA StepSizes == ASSUME Sizes, BodyIsWhole, [Next]_vars PROVE Sizes' /\ BodyIsWhole'
<1> USE DEF Sizes, BodyIsWhole, Nothing
<1>1. CASE Validate
  BY <1>1 DEF Validate, Fail
<1>2. CASE Reuse \/ Lookup \/ Dial
  BY <1>2 DEF Reuse, Lookup, Dial, Connected
<1>3. CASE resolveDialAddr
  BY <1>3 DEF resolveDialAddr, Fail
<1>4. CASE Break \/ Timeout
  BY <1>4 DEF Break, Timeout, Fail
<1>5. CASE Respond
  BY <1>5 DEF Respond, Response
<1>6. CASE Redirect
  BY <1>6 DEF Redirect, Fail
<1>7. CASE Finish
  <2>1. response.size \in Nat /\ Limit \in Nat
    BY NetguardAssumption DEF Response
  <2>2. ReadAll <= Limit => ReadAll = response.size
    BY <2>1 DEF ReadAll
  <2>3. UNCHANGED response /\ at' = "done"
    BY <1>7 DEF Finish, Fail
  <2>4. CASE ReadAll > Limit \/ response.status # "ok"
    BY <1>7, <2>3, <2>4 DEF Finish, Fail
  <2>5. CASE ~(ReadAll > Limit \/ response.status # "ok")
    BY <1>7, <2>1, <2>2, <2>3, <2>5 DEF Finish, ReadAll
  <2> QED BY <2>4, <2>5
<1>8. CASE Returned \/ UNCHANGED vars
  BY <1>8 DEF Returned, vars
<1> QED BY <1>1, <1>2, <1>3, <1>4, <1>5, <1>6, <1>7, <1>8 DEF Next, External

(* A body that is returned is the whole body of a successful response and  *)
(* within the limit, for any limit and any sizes (tools/http.go:77-87):    *)
(* the reader lets one byte through beyond the limit, so a body of exactly *)
(* the limit is told from a longer one.                                    *)
THEOREM BodyReturnedWhole == Spec => []BodyIsWhole
<1>1. Sizes /\ BodyIsWhole /\ [Next]_vars => Sizes' /\ BodyIsWhole'
  BY StepSizes
<1> QED BY InitSizes, <1>1, PTL DEF Spec

(***************************************************************************)
(* Redirects.                                                              *)
(***************************************************************************)
(* Until the URL is validated no request is made.                          *)
Started == at = "validate" <=> requests = 0 /\ at # "done"

(* The initial values are of their types.                                  *)
LEMMA InitTyped == Init => TypeOK /\ Started
<1> SUFFICES ASSUME Init PROVE TypeOK /\ Started
  OBVIOUS
<1>1. NoResponse \in Response
  BY NetguardAssumption DEF NoResponse, Response, Urls, Schemes
<1> QED BY <1>1, NetguardAssumption DEF Init, TypeOK, Started, Nothing

(* So is what a step makes of them; what is dialled was resolved, and what *)
(* is asked has a host.                                                    *)
LEMMA StepTyped == ASSUME IInv, TypeOK, Started, [Next]_vars PROVE TypeOK' /\ Started'
<1> USE DEF TypeOK, Started
<1>n. MaxRequests \in Nat \ {0} /\ Limit \in Nat /\ MaxBody \in Nat
  BY NetguardAssumption
<1>1. CASE Validate
  BY <1>n, <1>1 DEF Validate, Fail
<1>2. CASE Reuse
  BY <1>2, NetguardAssumption DEF Reuse
<1>3. CASE Lookup
  <2>1. addrs' \in Answers \cup {<<>>} \cup {<<a>> : a \in Addresses}
    BY <1>3, NetguardAssumption DEF Lookup
  <2> QED BY <1>3, <2>1 DEF Lookup
<1>4. CASE resolveDialAddr
  BY <1>4 DEF resolveDialAddr, Fail
<1>5. CASE Dial
  <2>1. addrs[1] \in Addresses
    BY <1>5 DEF Dial, IInv, Resolved, Checked
  <2>2. url.host \in Hosts
    BY <1>5 DEF Dial, IInv, Validated, ValidateHTTPURL, BlockedHost, Urls
  <2> QED BY <1>5, <2>1, <2>2 DEF Dial, Connected
<1>6. CASE Break \/ Timeout
  BY <1>6 DEF Break, Timeout, Fail
<1>7. CASE Respond
  BY <1>7 DEF Respond
<1>8. CASE Redirect
  BY <1>n, <1>8 DEF Redirect, Follow, Fail, Response
<1>9. CASE Finish
  BY <1>n, <1>9 DEF Finish, Fail, ReadAll, Response
<1>10. CASE Returned \/ UNCHANGED vars
  BY <1>10 DEF Returned, vars
<1> QED BY <1>1, <1>2, <1>3, <1>4, <1>5, <1>6, <1>7, <1>8, <1>9, <1>10 DEF Next, External

(* Type correctness, with the bound on the redirects: no request is made   *)
(* beyond those that the redirect policy has room for                      *)
(* (netguard/http.go:101-112).                                               *)
THEOREM TypeCorrect == Spec => []TypeOK
<1>1. IInv /\ [Next]_vars => IInv'
  BY StepIInv
<1>2. IInv /\ TypeOK /\ Started /\ [Next]_vars => TypeOK' /\ Started'
  BY StepTyped
<1> QED BY InitIInv, InitTyped, <1>1, <1>2, PTL DEF Spec

(***************************************************************************)
(* The addresses.                                                          *)
(***************************************************************************)

(* An address is blocked, wrapped in IPv6 or not, exactly if it lies in    *)
(* one of the eight blocked ranges (BlockedAddrReason, netguard            *)
(* http.go:65-89).                                                         *)
THEOREM BlockedRanges ==
  ASSUME NEW bytes \in [1..4 -> Bytes], NEW wrapped
  PROVE  BlockedAddrReason(Addr(bytes, wrapped)) <=> \E range \in Ranges : InRange(bytes, range)
<1> DEFINE a == bytes[1]
           b == bytes[2]
           c == bytes[3]
           d == bytes[4]
           In(p, q, r, s, t, u, v, w) == a \in p..t /\ b \in q..u /\ c \in r..v /\ d \in s..w
<1>1. a \in 0..255 /\ b \in 0..255 /\ c \in 0..255 /\ d \in 0..255
  BY DEF Bytes
<1>2. \A p, q, r, s, t, u, v, w :
        InRange(bytes, Block(<<p, q, r, s>>, <<t, u, v, w>>)) <=> In(p, q, r, s, t, u, v, w)
  <2> SUFFICES ASSUME NEW p, NEW q, NEW r, NEW s, NEW t, NEW u, NEW v, NEW w
               PROVE  InRange(bytes, Block(<<p, q, r, s>>, <<t, u, v, w>>))
                        <=> In(p, q, r, s, t, u, v, w)
    OBVIOUS
  <2>1. \A i : i \in 1..4 <=> i = 1 \/ i = 2 \/ i = 3 \/ i = 4
    OBVIOUS
  <2> QED BY <2>1 DEF InRange, Block
<1>3. (\E range \in Ranges : InRange(bytes, range))
        <=> \/ In(0, 0, 0, 0, 0, 0, 0, 0) \/ In(100, 100, 100, 200, 100, 100, 100, 200)
            \/ In(10, 0, 0, 0, 10, 255, 255, 255) \/ In(127, 0, 0, 0, 127, 255, 255, 255)
            \/ In(169, 254, 0, 0, 169, 254, 255, 255) \/ In(172, 16, 0, 0, 172, 31, 255, 255)
            \/ In(192, 168, 0, 0, 192, 168, 255, 255) \/ In(224, 0, 0, 0, 239, 255, 255, 255)
  <2> HIDE DEF In
  <2> DEFINE Within(range) == InRange(bytes, range)
  <2> HIDE DEF Within
  <2> DEFINE b1 == Block(<<0, 0, 0, 0>>, <<0, 0, 0, 0>>)
             b2 == Block(<<100, 100, 100, 200>>, <<100, 100, 100, 200>>)
             b3 == Block(<<10, 0, 0, 0>>, <<10, 255, 255, 255>>)
             b4 == Block(<<127, 0, 0, 0>>, <<127, 255, 255, 255>>)
             b5 == Block(<<169, 254, 0, 0>>, <<169, 254, 255, 255>>)
             b6 == Block(<<172, 16, 0, 0>>, <<172, 31, 255, 255>>)
             b7 == Block(<<192, 168, 0, 0>>, <<192, 168, 255, 255>>)
             b8 == Block(<<224, 0, 0, 0>>, <<239, 255, 255, 255>>)
  <2>1. Ranges = {b1, b2, b3, b4, b5, b6, b7, b8}
    BY DEF Ranges
  <2>2. /\ Within(b1) <=> In(0, 0, 0, 0, 0, 0, 0, 0)
        /\ Within(b2) <=> In(100, 100, 100, 200, 100, 100, 100, 200)
        /\ Within(b3) <=> In(10, 0, 0, 0, 10, 255, 255, 255)
        /\ Within(b4) <=> In(127, 0, 0, 0, 127, 255, 255, 255)
        /\ Within(b5) <=> In(169, 254, 0, 0, 169, 254, 255, 255)
        /\ Within(b6) <=> In(172, 16, 0, 0, 172, 31, 255, 255)
        /\ Within(b7) <=> In(192, 168, 0, 0, 192, 168, 255, 255)
        /\ Within(b8) <=> In(224, 0, 0, 0, 239, 255, 255, 255)
    BY <1>2 DEF Within
  <2> HIDE DEF b1, b2, b3, b4, b5, b6, b7, b8
  <2>3. (\E range \in {b1, b2, b3, b4, b5, b6, b7, b8} : Within(range))
          <=> \/ Within(b1) \/ Within(b2) \/ Within(b3) \/ Within(b4)
              \/ Within(b5) \/ Within(b6) \/ Within(b7) \/ Within(b8)
    OBVIOUS
  <2> QED BY <2>1, <2>2, <2>3 DEF Within
<1>4. \A p, q, r, s :
        bytes = <<p, q, r, s>> <=> a = p /\ b = q /\ c = r /\ d = s
  <2> SUFFICES ASSUME NEW p, NEW q, NEW r, NEW s, a = p, b = q, c = r, d = s
               PROVE  bytes = <<p, q, r, s>>
    OBVIOUS
  <2>1. bytes = [i \in 1..4 |-> bytes[i]]
    OBVIOUS
  <2>2. <<p, q, r, s>> = [i \in 1..4 |-> <<p, q, r, s>>[i]]
    OBVIOUS
  <2> QED BY <2>1, <2>2
<1>5. BlockedAddrReason(Addr(bytes, wrapped))
        <=> \/ a = 100 /\ b = 100 /\ c = 100 /\ d = 200
            \/ a = 127
            \/ a = 10 \/ (a = 172 /\ b \div 16 = 1) \/ (a = 192 /\ b = 168)
            \/ a = 169 /\ b = 254
            \/ a = 0 /\ b = 0 /\ c = 0 /\ d = 0
            \/ a \in 224..239
  BY <1>4 DEF BlockedAddrReason, Addr
<1>6. b \div 16 = 1 <=> b \in 16..31
  <2> HIDE DEF b
  <2> QED BY <1>1
<1> HIDE DEF a, b, c, d
<1> QED BY <1>1, <1>3, <1>5, <1>6
=============================================================================
