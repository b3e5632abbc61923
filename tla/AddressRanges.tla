--------------------------- MODULE AddressRanges ---------------------------
(* The ranges of internet addresses: kql_ipv4.go, kql_ipv6.go and those of   *)
(* sqlite_functions.go. The text of an address is what the parser of Go makes*)
(* of it: its form, "v4", "v6", "dotted" (version 6 with a tail of version 4)*)
(* or "none", its bits as a number and the length of its prefix.             *)
EXTENDS Int64Values, SequencesExt, FiniteSetsExt

CONSTANTS
  V4Bits, V6Bits,      \* the widths of the addresses, 32 and 128
  privateIPv4Prefixes, \* the private ranges, <<bits, prefix>>
  maxIPv4Ranges        \* the ranges in one text

ASSUME AddressAssumption ==
  /\ V4Bits \in Nat /\ V6Bits \in Nat /\ V4Bits < V6Bits
  /\ maxIPv4Ranges \in Nat \ {0}
  /\ privateIPv4Prefixes \subseteq Nat \X (0..V4Bits)

NoPrefix == -1
NoAddress == [form |-> "none", bits |-> 0, prefix |-> NoPrefix]

(* The bits of a prefix, the rest being 0; width is that of the address. *)
Masked(bits, prefix, width) == bits - (bits % 2 ^ (width - prefix))

InPrefix(range, bits, width) == Masked(bits, range[2], width) = range[1]
-----------------------------------------------------------------------------
(* ------------------------- version 4 ------------------------------------ *)
(* An address or range that is none is <<>>. *)
parseIPv4Address(a, allowPrefix) ==
  IF \/ a.form # "v4"
     \/ a.prefix # NoPrefix /\ (~allowPrefix \/ a.prefix > V4Bits)
  THEN <<>> ELSE <<a.bits>>

parseIPv4Range(a) ==
  LET prefix == IF a.prefix = NoPrefix THEN V4Bits ELSE a.prefix
  IN  IF a.form # "v4" \/ prefix > V4Bits THEN <<>>
      ELSE <<Masked(a.bits, prefix, V4Bits), prefix>>

(* The prefix of an address, and a mask that may shorten it. *)
Narrowed(prefix, masks) ==
  IF masks = <<>> THEN prefix ELSE Min({prefix, masks[1]})

ValidMasks(masks, width) ==
  Len(masks) <= 1 /\ \A i \in DOMAIN masks : masks[i] \in 0..width

kqlParseIPv4(a) ==
  IF parseIPv4Range(a) = <<>> THEN NULL ELSE Num(parseIPv4Range(a)[1])

kqlParseIPv4Mask(a, mask) ==
  LET range == parseIPv4Range(a)
  IN  IF range = <<>> \/ mask \notin 0..V4Bits THEN NULL
      ELSE Num(Masked(range[1], Min({range[2], mask}), V4Bits))

kqlIPv4NetmaskSuffix(a) ==
  IF parseIPv4Range(a) = <<>> THEN NULL ELSE Num(parseIPv4Range(a)[2])

(* The text of an address or a number, with or without its mask. *)
formatIPv4(range, masks, withMask) ==
  LET prefix == Narrowed(range[2], masks)
  IN  IF range = <<>> \/ ~ValidMasks(masks, V4Bits) THEN NoAddress
      ELSE [form |-> "v4", bits |-> Masked(range[1], prefix, V4Bits),
            prefix |-> IF withMask THEN prefix ELSE NoPrefix]

NumberRange(n) == IF n \in 0..2 ^ V4Bits - 1 THEN <<n, V4Bits>> ELSE <<>>

(* Both addresses at the shortest of their prefixes and the mask. *)
Compared(a, b, masks, width) ==
  LET prefix == Narrowed(Min({a[2], b[2]}), masks)
      x == Masked(a[1], prefix, width)
      y == Masked(b[1], prefix, width)
  IN  CASE \/ a = <<>> \/ b = <<>>
           \/ ~ValidMasks(masks, width) -> NULL
        [] OTHER -> Num(CASE x < y -> -1 [] x > y -> 1 [] x = y -> 0)

kqlIPv4Compare(a, b, masks) ==
  Compared(parseIPv4Range(a), parseIPv4Range(b), masks, V4Bits)

kqlIPv4IsMatch(a, b, masks) ==
  IF kqlIPv4Compare(a, b, masks) = NULL THEN NULL
  ELSE Bool(kqlIPv4Compare(a, b, masks) = Num(0))

(* The bits of the largest block that starts at an address and ends before   *)
(* or at another.                                                            *)
HostBits(start, end) ==
  LET aligned == {h \in 0..V4Bits : start % 2 ^ h = 0}
      fitting == {h \in 0..V4Bits : 2 ^ h <= end - start + 1}
  IN  Min({Max(aligned), Max(fitting)})

(* The largest aligned blocks from start to end, one after another. *)
Blocks(start, end) ==
  LET from[s \in Nat] ==
        IF s > end THEN <<>>
        ELSE <<<<s, V4Bits - HostBits(s, end)>>>>
               \o from[s + 2 ^ HostBits(s, end)]
  IN  from[start]

kqlIPv4RangeToCIDRList(a, b) ==
  LET start == parseIPv4Address(a, FALSE)
      end == parseIPv4Address(b, FALSE)
  IN  IF start = <<>> \/ end = <<>> THEN NULL
      ELSE IF start[1] > end[1] THEN NULL
      ELSE Arr(Blocks(start[1], end[1]))

kqlIPv4IsPrivate(a) ==
  LET address == parseIPv4Address(a, TRUE)
  IN  IF address = <<>> THEN NULL
      ELSE Bool(\E range \in privateIPv4Prefixes :
                  InPrefix(range, address[1], V4Bits))

(* The ranges of one text; a single one that is none leaves no answer. *)
kqlIPv4IsInRange(a, members) ==
  LET address == parseIPv4Address(a, FALSE)
      ranges == {parseIPv4Range(m) : m \in ToSet(members)}
  IN  IF \/ address = <<>>
         \/ Len(members) \notin 1..maxIPv4Ranges
         \/ <<>> \in ranges
      THEN NULL
      ELSE Bool(\E range \in ranges : InPrefix(range, address[1], V4Bits))
-----------------------------------------------------------------------------
(* ------------------------- version 6 ------------------------------------ *)
(* An address of version 4 has the bits that map it into version 6, and so   *)
(* has a dotted one without any others; its prefix then counts from there.   *)
MappedTail == 2 ^ V4Bits

ipv6Address(a) ==
  LET high == a.bits \div 2 ^ V4Bits
      compatible == a.form = "dotted" /\ high = 0
      bits == IF a.form = "v4" \/ compatible THEN a.bits + MappedTail
              ELSE a.bits
      mapped == \/ a.form = "v4"
                \/ /\ a.form = "dotted" /\ a.prefix <= V4Bits
                   /\ compatible \/ high * 2 ^ V4Bits = MappedTail
      prefix == CASE a.prefix = NoPrefix -> V6Bits
                  [] OTHER -> IF mapped THEN a.prefix + V6Bits - V4Bits
                              ELSE a.prefix
  IN  IF \/ a.form = "none"
         \/ a.prefix > (IF a.form = "v4" THEN V4Bits ELSE V6Bits)
      THEN <<>>
      ELSE <<Masked(bits, prefix, V6Bits), prefix>>

kqlParseIPv6(a) ==
  IF ipv6Address(a) = <<>> THEN <<>> ELSE <<ipv6Address(a)[1]>>

kqlParseIPv6Mask(a, mask) ==
  LET range == ipv6Address(a)
  IN  IF range = <<>> \/ mask \notin 0..V6Bits THEN <<>>
      ELSE <<Masked(range[1], Min({range[2], mask}), V6Bits)>>

kqlIPv6Compare(a, b, masks) ==
  Compared(ipv6Address(a), ipv6Address(b), masks, V6Bits)

kqlIPv6IsMatch(a, b, masks) ==
  IF kqlIPv6Compare(a, b, masks) = NULL THEN NULL
  ELSE Bool(kqlIPv6Compare(a, b, masks) = Num(0))

kqlIPv6IsInRange(a, range) ==
  IF a.prefix # NoPrefix \/ <<>> \in {ipv6Address(a), ipv6Address(range)}
  THEN NULL
  ELSE Bool(InPrefix(ipv6Address(range), ipv6Address(a)[1], V6Bits))
-----------------------------------------------------------------------------
(* What the functions promise, each against another way to say it.           *)

(* The hosts of a range: those that have its first bits. *)
Hosts(range, width) ==
  {n \in 0..2 ^ width - 1 :
     n \div 2 ^ (width - range[2]) = range[1] \div 2 ^ (width - range[2])}

(* The list of a range has exactly its addresses, no block overlaps another, *)
(* each starts where it may, and no two neighbours could be one block.       *)
BlocksLaw(a, b) ==
  LET list == kqlIPv4RangeToCIDRList(a, b)
      blocks == list[2]
      Of(i) == Hosts(blocks[i], V4Bits)
  IN  IF list = NULL
      THEN a.form # "v4" \/ b.form # "v4" \/ a.bits > b.bits
             \/ a.prefix # NoPrefix \/ b.prefix # NoPrefix
      ELSE /\ UNION {Of(i) : i \in DOMAIN blocks} = a.bits..b.bits
           /\ \A i, j \in DOMAIN blocks :
                /\ i # j => Of(i) \cap Of(j) = {}
                /\ blocks[i][1] = Masked(blocks[i][1], blocks[i][2], V4Bits)
                /\ j = i + 1 /\ blocks[i][2] = blocks[j][2] =>
                     Masked(blocks[i][1], blocks[i][2] - 1, V4Bits)
                       # Masked(blocks[j][1], blocks[j][2] - 1, V4Bits)

(* Addresses of version 4 compare, and lie within ranges, as in version 6;   *)
(* a comparison is the other way round for swapped arguments, and finds two  *)
(* networks equal when they share a host; an address is in a range when it   *)
(* is one of its hosts; and formatting what was parsed gives the address.    *)
RangeLaw(a, b, masks) ==
  LET order == kqlIPv4Compare(a, b, masks)
      wide == [i \in DOMAIN masks |-> masks[i] + V6Bits - V4Bits]
      in == kqlIPv4IsInRange(a, <<b>>)
      range == parseIPv4Range(b)
      Lengths(x) == {parseIPv4Range(x)[2]} \cup ToSet(masks)
      Network(x) == Hosts(<<x.bits, Min(Lengths(x))>>, V4Bits)
  IN  /\ a.form = "v4" /\ b.form = "v4" /\ ValidMasks(masks, V4Bits) =>
           /\ order = kqlIPv6Compare(a, b, wide)
           /\ a.prefix = NoPrefix => in = kqlIPv6IsInRange(a, b)
           /\ kqlIPv4IsMatch(a, b, masks) = kqlIPv6IsMatch(a, b, wide)
      /\ order # NULL => kqlIPv4IsMatch(a, b, masks) =
           Bool(Network(a) \cap Network(b) # {})
      /\ order = NULL <=> kqlIPv4Compare(b, a, masks) = NULL
      /\ order # NULL => /\ order[2] = -kqlIPv4Compare(b, a, masks)[2]
                         /\ kqlIPv4Compare(a, a, masks) = Num(0)
      /\ in # NULL => in = Bool(a.bits \in Hosts(range, V4Bits))
      /\ a.form = "v4" /\ masks # <<>> /\ order # NULL =>
           LET text == formatIPv4(parseIPv4Range(a), masks, TRUE)
           IN  /\ kqlParseIPv4Mask(a, masks[1]) = kqlParseIPv4(text)
               /\ kqlIPv4NetmaskSuffix(text) = Num(Min(Lengths(a)))
               /\ Hosts(parseIPv4Range(text), V4Bits) = Network(a)
      /\ \A n \in 0..2 ^ V4Bits - 1 :
           kqlParseIPv4(formatIPv4(NumberRange(n), <<>>, FALSE)) = Num(n)
      /\ kqlIPv4IsPrivate(a) = Bool(TRUE) =>
           \E p \in privateIPv4Prefixes : a.bits \in Hosts(p, V4Bits)
=============================================================================
