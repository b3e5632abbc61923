----------------------------- MODULE Addresses -----------------------------
(* The functions on lists and texts of internet addresses: kql_ip_ranges.go  *)
(* and kql_has_ipv4.go. See AddressRanges for what an address is; those of   *)
(* has_ipv4 are texts.                                                       *)
EXTENDS DynamicValues, AddressRanges

CONSTANT
  maxIPRangeListItems  \* the ranges in a dynamic array

(* The members of the array, each a sequence of ranges; they are read one by *)
(* one until one is none or there are too many.                              *)
kqlIPIsInAnyRange(a, array, ipv6) ==
  LET Of(m) == IF ipv6 THEN ipv6Address(m) ELSE parseIPv4Range(m)
      host == IF ipv6 THEN IF a.prefix # NoPrefix THEN <<>> ELSE ipv6Address(a)
              ELSE parseIPv4Address(a, FALSE)
      width == IF ipv6 THEN V6Bits ELSE V4Bits
      members == FlattenSeq(array)
      Read(r, i) ==
        CASE i > maxIPRangeListItems -> Error
          [] OTHER -> IF Of(members[i]) = <<>> THEN NULL
                      ELSE Bool(\/ r[2]
                                \/ InPrefix(Of(members[i]), host[1], width))
  IN  IF host = <<>> THEN NULL
      ELSE UntilFailure(Read, Bool(FALSE), [i \in DOMAIN members |-> i])
-----------------------------------------------------------------------------
(* ------------------------- has_ipv4 ------------------------------------- *)
FullStop == 46
DecimalDigits == 48..57
isAlphaNumeric(c) == c \in DecimalDigits \cup 65..90 \cup 97..122

RECURSIVE SplitDots(_)
SplitDots(t) ==
  LET dots == {i \in DOMAIN t : t[i] = FullStop}
      i == Min(dots)
  IN  IF dots = {} THEN <<t>>
      ELSE <<SubSeq(t, 1, i - 1)>> \o SplitDots(SubSeq(t, i + 1, Len(t)))

validOctets(parts) ==
  \A p \in ToSet(parts) :
    /\ Len(p) \in 1..3 /\ ToSet(p) \subseteq DecimalDigits
    /\ FoldLeft(LAMBDA n, c : 10 * n + c - 48, 0, p) <= 255

validIPv4(t) == Len(SplitDots(t)) = 4 /\ validOctets(SplitDots(t))

validIPv4Prefix(t) ==
  \/ validIPv4(t)
  \/ /\ t # <<>> /\ Last(t) = FullStop
     /\ LET parts == SplitDots(Front(t))
        IN  Len(parts) \in 1..3 /\ validOctets(parts)

RECURSIVE TrimDots(_)
TrimDots(t) ==
  IF t # <<>> /\ Last(t) = FullStop THEN TrimDots(Front(t)) ELSE t

(* A token starts at a digit that no letter, digit or dot precedes; it is the*)
(* run of digits and dots from there, without dots at its end, when no letter*)
(* follows.                                                                  *)
RECURSIVE TokensFrom(_, _)
TokensFrom(t, i) ==
  LET Part(c) == c \in DecimalDigits \cup {FullStop}
      runs == {j \in i..Len(t) : \A k \in i..j : Part(t[k])}
      j == Max(runs)
      candidate == TrimDots(SubSeq(t, i, j))
  IN  CASE i > Len(t) -> {}
        [] i <= Len(t) ->
             IF \/ t[i] \notin DecimalDigits
                \/ i > 1 /\ (isAlphaNumeric(t[i - 1]) \/ t[i - 1] = FullStop)
             THEN TokensFrom(t, i + 1)
             ELSE TokensFrom(t, j + 1) \cup
                    (IF /\ j = Len(t) \/ ~isAlphaNumeric(t[j + 1])
                        /\ validIPv4(candidate)
                     THEN {candidate} ELSE {})

ipv4Tokens(t) == TokensFrom(t, 1)

(* The targets are texts and dynamic arrays of them; 1024 in the code. *)
ipv4Targets(values) ==
  LET Of(v) == CASE Is("arr", v) -> SelectSeq(v[2], LAMBDA x : Is("str", x))
                 [] Is("str", v) -> <<v>>
                 [] OTHER -> <<>>
  IN  FoldLeft(LAMBDA s, v : s \o Of(v), <<>>, values)

kqlHasIPv4(prefix, source, values, maximum) ==
  LET targets == {x[2] : x \in ToSet(ipv4Targets(values))}
      Hit(token, target) ==
        \/ token = target
        \/ prefix /\ Last(target) = FullStop /\ IsPrefix(target, token)
  IN  CASE ~Is("str", source) -> Num(0)
        [] OTHER ->
             IF Len(ipv4Targets(values)) > maximum THEN NULL
             ELSE LET found == \E target \in targets :
                        /\ IF prefix THEN validIPv4Prefix(target)
                           ELSE validIPv4(target)
                        /\ \E token \in ipv4Tokens(source[2]) :
                             Hit(token, target)
                  IN  Num(IF found THEN 1 ELSE 0)
-----------------------------------------------------------------------------
(* What the functions promise, each against another way to say it.           *)

(* A version 6 address lies in a range when all bits of its prefix agree; in *)
(* any of several as in one of them, unless the list cannot be read. An      *)
(* address of version 4 is the same with or without its colons.              *)
AnyRangeLaw(a, b, c) ==
  LET In(r) == kqlIPv6IsInRange(a, r)
      both == kqlIPIsInAnyRange(a, <<<<b>>, <<c>>>>, TRUE)
      v4 == kqlIPIsInAnyRange(a, <<<<b, c>>>>, FALSE)
  IN  /\ both = IF NULL \in {In(b), In(c)} THEN NULL
                ELSE Bool(Bool(TRUE) \in {In(b), In(c)})
      /\ v4 = kqlIPv4IsInRange(a, <<b, c>>)
      /\ kqlIPIsInAnyRange(a, <<<<b, c>>, <<c, b>>>>, TRUE) = both
      /\ kqlIPIsInAnyRange(a, <<<<b, c>>, <<b>>, <<b, c>>>>, TRUE)
           = IF both = NULL THEN NULL ELSE Error
      /\ a.form = "v4" /\ a.prefix <= V4Bits =>
           ipv6Address(a) = ipv6Address([a EXCEPT !.form = "dotted"])
      /\ In(b) # NULL =>
           In(b) = Bool(kqlParseIPv6(a)[1] \in Hosts(ipv6Address(b), V6Bits))
      /\ In(b) # NULL =>
           kqlParseIPv6Mask(a, ipv6Address(b)[2]) = kqlParseIPv6(b)
             <=> In(b) = Bool(TRUE)

(* A text has an address when one of its words is that address; words are    *)
(* made of letters, digits and dots, and dots at their end do not count.     *)
(* An address is four numbers up to 255 with a dot between any two.          *)
OctetTexts ==
  LET Spelled(n) == <<n \div 100, (n \div 10) % 10, n % 10>>
      Starts(s) == {k \in 1..3 : \A i \in 1..k - 1 : s[i] = 0}
      Texts(s) == {[i \in 1..4 - k |-> 48 + s[k + i - 1]] : k \in Starts(s)}
  IN  UNION {Texts(Spelled(n)) : n \in 0..255}

IsAddress(t) ==
  \E d \in [1..3 -> DOMAIN t] :
    LET ends == <<0>> \o d \o <<Len(t) + 1>>
    IN  \A i \in 1..4 :
          /\ i = 1 \/ t[ends[i]] = FullStop
          /\ ends[i] < ends[i + 1]
          /\ SubSeq(t, ends[i] + 1, ends[i + 1] - 1) \in OctetTexts

HasAddressLaw(t, target) ==
  LET Part(c) == isAlphaNumeric(c) \/ c = FullStop
      Word(i, j) == /\ \A k \in i..j : Part(t[k])
                    /\ i = 1 \/ ~Part(t[i - 1])
                    /\ j = Len(t) \/ ~Part(t[j + 1])
      words == {TrimDots(SubSeq(t, p[1], p[2])) : p \in
                  {q \in (1..Len(t)) \X (1..Len(t)) :
                     q[1] <= q[2] /\ Word(q[1], q[2])}}
      Has(prefix, s) == kqlHasIPv4(prefix, Str(t), <<Arr(<<Null, Str(s)>>)>>, 2)
      network == TrimDots(target) \o <<FullStop>>
      found == Num(IF IsAddress(target) /\ target \in words THEN 1 ELSE 0)
  IN  /\ Has(FALSE, target) = found
      /\ Last(target) # FullStop => Has(TRUE, target) = found
      /\ ~validIPv4(target) /\ validIPv4Prefix(network) =>
           Has(TRUE, network) =
             Num(IF \E w \in words : validIPv4(w) /\ IsPrefix(network, w)
                 THEN 1 ELSE 0)
=============================================================================
