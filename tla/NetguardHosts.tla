------------------------------ MODULE NetguardHosts ------------------------------
(***************************************************************************)
(* Which hosts netguard takes for an address, whatever their spelling, and *)
(* which it blocks.  A host is a sequence of characters, in which a label  *)
(* that has a meaning is one; it has no percent sign.  An address is its   *)
(* four bytes and whether it is wrapped in IPv6.  strconv.ParseUint and    *)
(* netip.ParseAddr are external: no underscores in a number, and of IPv6   *)
(* only the wrapped IPv4.                                                  *)
(***************************************************************************)
EXTENDS Integers, SequencesExt

Bytes == 0..255
Addr(bytes, wrapped) == [bytes |-> bytes, wrapped |-> wrapped]

Digits == <<"0", "1", "2", "3", "4", "5", "6", "7", "8", "9", "a", "b", "c", "d", "e", "f">>
Upper == [A |-> "a", B |-> "b", C |-> "c", D |-> "d", E |-> "e", F |-> "f", X |-> "x",
          LOCALHOST |-> "localhost", Metadata |-> "metadata"]

LowerCase(text) ==
  [i \in DOMAIN text |-> IF text[i] \in DOMAIN Upper THEN Upper[text[i]] ELSE text[i]]

(* Multiply a number of four bytes by the base and add a digit; the first  *)
(* component is what does not fit into 32 bits.                            *)
TimesPlus(number, base, digit) ==
  LET carry[i \in 1..5] == IF i = 5 THEN digit ELSE (number[i] * base + carry[i + 1]) \div 256
  IN <<carry[1]>> \o [i \in 1..4 |-> (number[i] * base + carry[i + 1]) % 256]

(* The digits as a number of 32 bits, or none.                             *)
ParseDigits(text, base) ==
  LET digit(ch) == CHOOSE d \in -1..15 :
                     IF \E k \in 1..base : Digits[k] = ch THEN d >= 0 /\ Digits[d + 1] = ch
                     ELSE d = -1
      next(value, ch) ==
        IF value = <<>> \/ digit(ch) = -1 THEN <<>>
        ELSE LET times == TimesPlus(value[1], base, digit(ch))
             IN IF times[1] # 0 THEN <<>> ELSE <<Tail(times)>>
  IN FoldLeft(next, <<<<0, 0, 0, 0>>>>, text)

(* strconv.ParseUint(text, 0, 32)                                          *)
PrefixBase == [x |-> 16, o |-> 8, b |-> 2]
ParseUint(text) ==
  CASE text = <<>> -> <<>>
    [] text # <<>> /\ text[1] # "0" -> ParseDigits(text, 10)
    [] Len(text) >= 3 /\ text[1] = "0" /\ text[2] \in DOMAIN PrefixBase ->
         ParseDigits(SubSeq(text, 3, Len(text)), PrefixBase[text[2]])
    [] OTHER -> ParseDigits(Tail(text), 8)

Parts(text, separator) ==
  FoldLeft(LAMBDA parts, ch : IF ch = separator THEN Append(parts, <<>>)
                              ELSE Append(Front(parts), Append(Last(parts), ch)),
           <<<<>>>>, text)

IsPart(text) == text # <<>> /\ text[1] \notin {"+", "-"}

(* Mutant: a last part that is too large for its place is cut.             *)
CutLastPart(host) ==
  LET values == [i \in DOMAIN Parts(host, ".") |-> ParseUint(Parts(host, ".")[i])]
      n == Len(values)
  IN IF n > 4 \/ \E i \in 1..n : values[i] = <<>> THEN <<>>
     ELSE <<[i \in 1..4 |-> IF i < n THEN values[i][1][4] ELSE values[n][1][i]]>>

(* One to four parts: each but the last is a byte, and the last fills the  *)
(* bytes that remain.                                                      *)
parseLegacyIPv4(host) ==
  LET parts == Parts(host, ".")
      values == [i \in DOMAIN parts |-> IF IsPart(parts[i]) THEN ParseUint(parts[i]) ELSE <<>>]
      n == Len(parts)
      fits(value, bytes) == \A i \in 1..(4 - bytes) : value[i] = 0
  IN IF \/ ":" \in ToSet(host) \/ n > 4 \/ \E i \in 1..n : values[i] = <<>>
        \/ \E i \in 1..(n - 1) : ~fits(values[i][1], 1)
        \/ ~fits(values[n][1], 5 - n)
     THEN <<>>
     ELSE <<[i \in 1..4 |-> IF i < n THEN values[i][1][4] ELSE values[n][1][i]]>>

(* netip.ParseAddr, of an IPv4 address and of one wrapped in IPv6.         *)
Wrapper == <<":", ":", "f", "f", "f", "f", ":">>
ParseIPv4(host) ==
  LET parts == Parts(host, ".") IN
  IF /\ Len(parts) = 4
     /\ \A i \in 1..4 : parts[i] # <<>> /\ (Len(parts[i]) > 1 => parts[i][1] # "0")
     /\ \A i \in 1..4 : ParseDigits(parts[i], 10) # <<>>
     /\ \A i \in 1..4, j \in 1..3 : ParseDigits(parts[i], 10)[1][j] = 0
  THEN <<[i \in 1..4 |-> ParseDigits(parts[i], 10)[1][4]]>> ELSE <<>>
ParseAddr(host) ==
  LET wrapped == IsPrefix(Wrapper, host)
      bytes == ParseIPv4(IF wrapped THEN SubSeq(host, Len(Wrapper) + 1, Len(host)) ELSE host)
  IN IF bytes = <<>> THEN <<>> ELSE <<Addr(bytes[1], wrapped)>>

TrimPrefix(text, prefix) ==
  IF IsPrefix(prefix, text) THEN SubSeq(text, Len(prefix) + 1, Len(text)) ELSE text
TrimSuffix(text, suffix) ==
  IF IsSuffix(suffix, text) THEN SubSeq(text, 1, Len(text) - Len(suffix)) ELSE text

normalizeHost(host) == TrimPrefix(TrimSuffix(LowerCase(host), <<"]">>), <<"[">>)

parseHostAddr(host) ==
  LET text == TrimSuffix(normalizeHost(host), <<".">>)
      legacy == parseLegacyIPv4(text)
  IN IF ParseAddr(text) # <<>> THEN ParseAddr(text)
     ELSE IF legacy # <<>> THEN <<Addr(legacy[1], FALSE)>> ELSE <<>>

(* Mutant: 172.16.0.0/12 is taken for 172.16.0.0/16.                       *)
BlockedUntil16(addr) ==
  LET b == addr.bytes IN
  \/ b[1] \in {10, 127, 224} \/ b = <<0, 0, 0, 0>> \/ b = <<100, 100, 100, 200>>
  \/ <<b[1], b[2]>> \in {<<172, 16>>, <<192, 168>>, <<169, 254>>}

(* Metadata, loopback, private, link-local, multicast and unspecified; an  *)
(* address wrapped in IPv6 is unwrapped before.                            *)
BlockedAddrReason(addr) ==
  LET b == addr.bytes IN
  \/ b = <<100, 100, 100, 200>>
  \/ b[1] = 127
  \/ b[1] = 10 \/ (b[1] = 172 /\ b[2] \div 16 = 1) \/ (b[1] = 192 /\ b[2] = 168)
  \/ b[1] = 169 /\ b[2] = 254
  \/ b = <<0, 0, 0, 0>>
  \/ b[1] \in 224..239

(* What that comes to: the first and the last address of each blocked      *)
(* range, byte by byte.                                                    *)
Block(first, last) == [first |-> first, last |-> last]
Ranges ==
  {Block(<<0, 0, 0, 0>>, <<0, 0, 0, 0>>), Block(<<100, 100, 100, 200>>, <<100, 100, 100, 200>>),
   Block(<<10, 0, 0, 0>>, <<10, 255, 255, 255>>), Block(<<127, 0, 0, 0>>, <<127, 255, 255, 255>>),
   Block(<<169, 254, 0, 0>>, <<169, 254, 255, 255>>),
   Block(<<172, 16, 0, 0>>, <<172, 31, 255, 255>>),
   Block(<<192, 168, 0, 0>>, <<192, 168, 255, 255>>),
   Block(<<224, 0, 0, 0>>, <<239, 255, 255, 255>>)}
InRange(bytes, range) == \A i \in 1..4 : bytes[i] \in range.first[i]..range.last[i]

metadataHosts ==
  {<<"metadata">>, <<"metadata", ".", "google", ".", "internal">>, <<"metadata", ".", "goog">>}

BlockedHostReason(host) ==
  LET normalized == normalizeHost(host)
      name == TrimSuffix(normalized, <<".">>)
      addr == parseHostAddr(normalized)
  IN \/ normalized = <<>>
     \/ name \in metadataHosts
     \/ name = <<"localhost">> \/ IsSuffix(<<".", "localhost">>, name)
     \/ addr # <<>> /\ BlockedAddrReason(addr[1])
================================================================================
