--------------------------- MODULE TextFunctions ---------------------------
(* The functions on texts: kql_strings.go (substring, replace_string),       *)
(* kql_trim.go, kql_split.go, kql_countof.go, kql_indexof.go,                *)
(* kql_replacements.go (replace_strings), kql_string_join.go,                *)
(* kql_character_strings.go (translate), kql_regex_replace.go, the terms of  *)
(* sqlite_functions.go (has and the regular expressions that stand for it),  *)
(* and indexof_regex and has_any_index of kql_text_tools.go. A character is  *)
(* one byte. What a regular expression matches is given with it.             *)
EXTENDS DynamicValues

CONSTANTS
  maxReplacementBytes,      \* of the result of a replacement
  maxReplacementWork,       \* of replace_strings
  maxCharacterStringBytes   \* of the result of a join or translation

Cut(t, first, last) == SubSeq(t, first, last)
From(t, first) == SubSeq(t, first, Len(t))

(* Where a text occurs in another. *)
Places(t, sub) ==
  {i \in 1..Len(t) - Len(sub) + 1 : Cut(t, i, i + Len(sub) - 1) = sub}

Joined(parts, delimiter) ==
  IF parts = <<>> THEN <<>>
  ELSE FoldLeft(LAMBDA t, p : t \o delimiter \o p, Head(parts), Tail(parts))

(* strings.Split: what is left of the leftmost occurrences, one by one. *)
RECURSIVE Split(_, _)
Split(t, separator) ==
  LET places == Places(t, separator)
      i == Min(places)
  IN  IF places = {} THEN <<t>>
      ELSE <<Cut(t, 1, i - 1)>> \o Split(From(t, i + Len(separator)), separator)

TwoTexts(a, b) == Is("str", a) /\ Is("str", b)
-----------------------------------------------------------------------------
(* ------------------------- substring, replace, split -------------------- *)
(* offset counts from 0, from the end when negative. length is absent or one *)
(* value.                                                                    *)
kqlSubstring(v, offset, length) ==
  LET n == Len(v[2])
      start == IF offset[2] < 0 THEN Max({0, offset[2] + n}) ELSE offset[2]
      size == IF length = <<>> THEN n
              ELSE Max({0, Min({length[1][2], n})})
  IN  CASE ~Is("str", v) \/ ~Is("num", offset) -> NULL
        [] Is("str", v) /\ Is("num", offset) ->
             CASE length # <<>> /\ ~Is("num", length[1]) -> NULL
               [] OTHER -> Str(Cut(v[2], start + 1, Min({start + size, n})))

kqlReplaceString(v, lookup, rewrite) ==
  IF ~TwoTexts(v, lookup) \/ ~Is("str", rewrite) THEN NULL
  ELSE IF lookup[2] = <<>> THEN v
  ELSE LET parts == Split(v[2], lookup[2])
           count == Len(parts) - 1
           remaining == Len(v[2]) - count * Len(lookup[2])
           room == maxReplacementBytes - remaining
       IN  IF count > 0 /\ (room < 0 \/ Len(rewrite[2]) > room \div count)
           THEN Error
           ELSE Str(Joined(parts, rewrite[2]))

(* Element index of the parts: the text is cut at a separator until there.   *)
RECURSIVE SplitAt(_, _, _)
SplitAt(t, separator, index) ==
  LET places == Places(t, separator)
      i == Min(places)
  IN  CASE index = 0 -> <<IF places = {} THEN t ELSE Cut(t, 1, i - 1)>>
        [] index > 0 -> IF places = {} THEN <<>>
                        ELSE SplitAt(From(t, i + Len(separator)),
                                     separator, index - 1)

kqlSplit(v, delimiter, requested) ==
  LET Texts(parts) == Arr([i \in DOMAIN parts |-> Str(parts[i])])
      parts == Split(v[2], delimiter[2])
  IN  IF ~TwoTexts(v, delimiter) THEN NULL
      ELSE IF delimiter[2] = <<>> \/ Len(requested) > 1 THEN Error
      ELSE IF requested = <<>>
      THEN IF Len(parts) > maxReplacementParts THEN Error ELSE Texts(parts)
      ELSE IF ~Is("num", requested[1]) THEN NULL
      ELSE IF requested[1][2] < 0 THEN Arr(<<>>)
      ELSE Texts(SplitAt(v[2], delimiter[2], requested[1][2]))

(* trimRegex with a pattern that is a text: both ends lose all repetitions of*)
(* it, the start or the end alone loses one.                                 *)
RECURSIVE WithoutStart(_, _)
WithoutStart(t, p) ==
  IF IsPrefix(p, t) THEN WithoutStart(From(t, Len(p) + 1), p) ELSE t
RECURSIVE WithoutEnd(_, _)
WithoutEnd(t, p) ==
  IF IsSuffix(p, t) THEN WithoutEnd(Cut(t, 1, Len(t) - Len(p)), p) ELSE t

trimRegex(pattern, v, mode) ==
  LET p == pattern[2]
      t == v[2]
  IN  IF ~TwoTexts(pattern, v) THEN NULL
      ELSE Str(CASE mode = "both" -> WithoutEnd(WithoutStart(t, p), p)
                 [] mode = "start" ->
                      IF IsPrefix(p, t) THEN From(t, Len(p) + 1) ELSE t
                 [] mode = "end" ->
                      IF IsSuffix(p, t) THEN Cut(t, 1, Len(t) - Len(p)) ELSE t)
-----------------------------------------------------------------------------
(* ------------------------- countof, indexof ----------------------------- *)
(* Knuth, Morris and Pratt: how much of a text is matched once c follows j   *)
(* characters of it, when failure[i] of its first i characters are both a    *)
(* proper prefix and the suffix of them.                                     *)
RECURSIVE Advance(_, _, _, _)
Advance(match, failure, j, c) ==
  CASE match[j + 1] = c -> j + 1
    [] match[j + 1] # c -> IF j = 0 THEN 0
                           ELSE Advance(match, failure, failure[j], c)

Failure(match) ==
  FoldLeft(LAMBDA f, c : Append(f, Advance(match, f, Last(f), c)),
           <<0>>, Tail(match))

kqlCountOf(source, search) ==
  LET failure == Failure(search[2])
      Read(r, c) ==
        LET j == Advance(search[2], failure, r.j, c)
        IN  IF j = Len(search[2])
            THEN [count |-> r.count + 1, j |-> failure[j]]
            ELSE [r EXCEPT !.j = j]
  IN  CASE ~TwoTexts(source, search) -> NULL
        [] TwoTexts(source, search) /\ search[2] = <<>> -> Num(0)
        [] OTHER -> Num(FoldLeft(Read, [count |-> 0, j |-> 0], source[2]).count)

(* The place of an occurrence at or after start. After each occurrence the   *)
(* next is looked for within length of the place after it.                   *)
kqlIndexOf(v, lookup, startAt, length, occurrence) ==
  LET match == lookup[2]
      count == Len(v[2])
      start == IF startAt < 0 THEN startAt + count ELSE startAt
      rest == count - start
      first == IF 0 <= length /\ length < rest THEN length ELSE rest
      failure == Failure(match)
      Read(r, c) ==
        LET position == r.position + 1
            j == Advance(match, failure, r.j, c)
            after == position - Len(match) + 1
        IN  CASE r.found # "no" -> r
              [] r.found = "no" /\ position > r.end ->
                   [r EXCEPT !.found = "end"]
              [] OTHER ->
                   IF j < Len(match)
                   THEN [r EXCEPT !.position = position, !.j = j]
                   ELSE [position |-> position, j |-> failure[j],
                         left |-> r.left - 1,
                         found |-> IF r.left = 1 THEN "yes" ELSE "no",
                         end |-> IF 0 <= length /\ length < rest - after
                                 THEN after + length ELSE rest]
      r == FoldLeft(Read, [position |-> 0, j |-> 0, left |-> occurrence,
                           found |-> "no", end |-> first],
                    From(v[2], start + 1))
  IN  IF ~TwoTexts(v, lookup) \/ start < 0 \/ length < -1 \/ occurrence < 0
      THEN NULL
      ELSE IF occurrence = 0 THEN Error
      ELSE IF start > count THEN Num(-1)
      ELSE IF match = <<>>
      THEN Num(IF occurrence - 1 > count - start THEN -1
               ELSE start + occurrence - 1)
      ELSE Num(IF r.found = "yes" THEN start + r.position - Len(match) ELSE -1)

(* indexof_regex; matched is what its regular expression matches, a text. The*)
(* end of the window is added up in int64 and may wrap around: the slice then*)
(* panics.                                                                   *)
kqlIndexOfRegex(v, matched, start, length, occurrence) ==
  LET n == Len(v[2])
      sum == Wrap(start + length)
      end == IF length >= 0 /\ sum < n THEN sum ELSE n
      parts == Split(Cut(v[2], start + 1, end), matched[2])
      wanted == Max({occurrence, 1})
      before == Joined(SubSeq(parts, 1, wanted), matched[2])
  IN  IF ~TwoTexts(v, matched) \/ start < 0 \/ length < -1 \/ occurrence < 0
      THEN NULL
      ELSE IF start > n THEN Num(-1)
      ELSE recoverFunction(end < start, TRUE,
             IF Len(parts) - 1 < wanted THEN Num(-1)
             ELSE Num(start + Len(before)))
-----------------------------------------------------------------------------
(* ------------------------- replace_strings ------------------------------ *)
(* The parts of a text: those an earlier lookup found are locked and keep the*)
(* rewrite it has for them, or their own text when it has none.              *)
FindParts(part, search, rewrite) ==
  LET pieces == Split(part.text, search)
      found == [text |-> search, locked |-> TRUE, rewrite |-> rewrite]
      Piece(p) == IF p = <<>> THEN <<>> ELSE <<[part EXCEPT !.text = p]>>
  IN  IF part.locked THEN <<part>>
      ELSE FoldLeft(LAMBDA s, p : Append(s, found) \o Piece(p),
                    Piece(Head(pieces)), Tail(pieces))

kqlReplaceStrings(v, lookups, rewrites) ==
  LET Replace(r, i) ==
        LET search == lookups[2][i]
            Unlocked(p) == IF p.locked THEN 0 ELSE Len(p.text)
            work == FoldLeft(LAMBDA n, p : n + 1 + Unlocked(p), 0, r.parts)
            parts == FoldLeft(LAMBDA s, p : s \o FindParts(p, search[2],
                                                           rewrites[2][i]),
                              <<>>, r.parts)
        IN  IF r.failed \/ ~Is("str", search) \/ search[2] = <<>> THEN r
            ELSE [work |-> r.work - work, parts |-> parts,
                  failed |-> r.work < work \/ Len(parts) > maxReplacementParts]
      first == [text |-> v[2], locked |-> FALSE, rewrite |-> Null]
      end == FoldLeft(Replace, [parts |-> <<first>>, failed |-> FALSE,
                                work |-> maxReplacementWork],
                      [i \in DOMAIN lookups[2] |-> i])
      Written(p) == IF Is("str", p.rewrite) THEN p.rewrite[2] ELSE p.text
      result == FoldLeft(LAMBDA t, p : t \o Written(p), <<>>, end.parts)
  IN  CASE ~Is("str", v) -> NULL
        [] Is("str", v) /\ ~(Is("arr", lookups) /\ Is("arr", rewrites)) -> Error
        [] OTHER -> IF \/ Len(lookups[2]) > maxReplacementParts
                       \/ Len(lookups[2]) # Len(rewrites[2])
                       \/ end.failed
                       \/ Len(result) > maxReplacementBytes
                    THEN Error ELSE Str(result)

(* replace_regex: in the rewrite a backslash and a number stand for a group  *)
(* of the match, two backslashes for one; any other stands for itself.       *)
IsDigit(c) == c \in 48..57
NumberOf(digits) == FoldLeft(LAMBDA n, c : 10 * n + c - 48, 0, digits)

RECURSIVE RewriteParts(_)
RewriteParts(t) ==
  LET digits == {n \in 1..Len(t) - 1 : \A i \in 2..n + 1 : IsDigit(t[i])}
      n == Max(digits)
  IN  IF t = <<>> THEN <<>>
      ELSE IF t[1] = 92 /\ Len(t) > 1 /\ t[2] = 92
      THEN <<Str(<<92>>)>> \o RewriteParts(From(t, 3))
      ELSE IF t[1] = 92 /\ digits # {}
      THEN <<Num(NumberOf(Cut(t, 2, n + 1)))>> \o RewriteParts(From(t, n + 2))
      ELSE <<Str(<<t[1]>>)>> \o RewriteParts(Tail(t))

(* matches holds the begin and end of each match and its groups, group 0     *)
(* first; a group that takes no part is NULL.                                *)
kqlReplaceRegex(v, matches, groups, rewrite) ==
  LET parts == RewriteParts(rewrite[2])
      Group(m, p) == IF m.groups[p[2] + 1] = NULL THEN <<>>
                     ELSE m.groups[p[2] + 1][2]
      Write(m) == FoldLeft(LAMBDA t, p : t \o IF Is("str", p) THEN p[2]
                                              ELSE Group(m, p), <<>>, parts)
      Replace(r, m) == [text |-> r.text \o Cut(v[2], r.from, m.begin - 1)
                                        \o Write(m),
                        from |-> m.end + 1]
      end == FoldLeft(Replace, [text |-> <<>>, from |-> 1], matches)
      result == end.text \o From(v[2], end.from)
  IN  IF ~TwoTexts(v, rewrite) THEN NULL
      ELSE IF \/ \E p \in ToSet(parts) : Is("num", p) /\ p[2] > groups
              \/ Len(matches) > maxReplacementParts
              \/ Len(matches) * Len(parts) > maxReplacementWork
              \/ Len(result) > maxReplacementBytes
      THEN Error ELSE Str(result)
-----------------------------------------------------------------------------
(* ------------------------- joining and translating ---------------------- *)
Within(t) == IF Len(t) > maxCharacterStringBytes THEN Error ELSE Str(t)

kqlStrcatDelim(delimiter, values) ==
  LET Text(v) == IF v = NULL THEN <<>> ELSE v[2]
      texts == [i \in DOMAIN values |-> Text(values[i])]
  IN  IF ~Is("str", delimiter) THEN NULL
      ELSE IF Len(values) \notin 2..64 THEN Error
      ELSE IF \E v \in ToSet(values) : v # NULL /\ ~Is("str", v) THEN NULL
      ELSE Within(Joined(texts, delimiter[2]))

(* A null is an empty text, any other value that is no text its JSON. *)
kqlStrcatArray(v, delimiter) ==
  LET Text(x) == CASE Is("str", x) -> x[2]
                   [] Is("null", x) -> <<>>
                   [] OTHER -> Json(x)
  IN  IF ~Is("str", delimiter) THEN NULL
      ELSE OfArray(v, LAMBDA e : Within(Joined([i \in DOMAIN e |-> Text(e[i])],
                                               delimiter[2])))

(* maximum is 1024 in the code. *)
kqlStrrep(v, count, delimiter, maximum) ==
  IF ~TwoTexts(v, delimiter) \/ count < 1 THEN NULL
  ELSE Within(Joined([i \in 1..Min({count, maximum}) |-> v[2]], delimiter[2]))

kqlTranslate(search, replacement, source) ==
  LET First(c) == Min({i \in DOMAIN search[2] : search[2][i] = c})
      n == Len(replacement[2])
      Translated(c) ==
        CASE c \notin ToSet(search[2]) -> <<c>>
          [] c \in ToSet(search[2]) /\ n = 0 -> <<>>
          [] OTHER -> <<replacement[2][IF n = 1 THEN 1 ELSE First(c)]>>
  IN  IF ~TwoTexts(search, replacement) \/ ~Is("str", source) THEN NULL
      ELSE IF search[2] = <<>> THEN source
      ELSE IF n > 1 /\ n # Len(search[2]) THEN Error
      ELSE Within(FoldLeft(LAMBDA t, c : t \o Translated(c), <<>>, source[2]))
-----------------------------------------------------------------------------
(* ------------------------- terms ---------------------------------------- *)
isASCIIAlphaNumeric(c) == c \in 48..57 \cup 65..90 \cup 97..122
Underscore == 95

Folded(t) == [i \in DOMAIN t |-> IF t[i] \in 65..90 THEN t[i] + 32 ELSE t[i]]

(* Whether a text has a term that no character of Inner touches, on the left *)
(* and on the right where that is asked for.                                 *)
Bounded(t, term, Inner(_), left, right) ==
  \E i \in Places(t, term) :
    /\ left => i = 1 \/ ~Inner(t[i - 1])
    /\ right => i + Len(term) > Len(t) \/ ~Inner(t[i + Len(term)])

kqlHas(t, term, caseSensitive) ==
  LET Inner(c) == isASCIIAlphaNumeric(c) \/ c = Underscore
  IN  term # <<>> /\ IF caseSensitive THEN Bounded(t, term, Inner, TRUE, TRUE)
                     ELSE Bounded(Folded(t), Folded(term), Inner, TRUE, TRUE)

matchTerm(t, term, mode, fold) ==
  LET In(a, b) == Bounded(a, b, isASCIIAlphaNumeric,
                          mode # "suffix", mode # "prefix")
  IN  IF fold THEN In(Folded(t), Folded(term)) ELSE In(t, term)

(* The text of a pattern without operators; a backslash quotes one of them.  *)
metacharacters == {36, 40, 41, 42, 43, 46, 63, 91, 92, 93, 94, 123, 124, 125}

decodeRegexpLiteral(pattern) ==
  LET Read(r, c) ==
        CASE r.escaped /\ c \in metacharacters ->
               [r EXCEPT !.text = Append(@, c), !.escaped = FALSE]
          [] ~r.escaped /\ c = 92 -> [r EXCEPT !.escaped = TRUE]
          [] ~r.escaped /\ c \notin metacharacters ->
               [r EXCEPT !.text = Append(@, c)]
          [] OTHER -> [r EXCEPT !.ok = FALSE]
      end == FoldLeft(Read, [text |-> <<>>, escaped |-> FALSE, ok |-> TRUE],
                      pattern)
  IN  IF end.ok /\ ~end.escaped THEN Str(end.text) ELSE NULL

kqlRegexQuote(v) ==
  LET Quoted(c) == IF c \in metacharacters THEN <<92, c>> ELSE <<c>>
  IN  IF ~Is("str", v) THEN NULL
      ELSE Str(FoldLeft(LAMBDA t, c : t \o Quoted(c), <<>>, v[2]))

(* The expression of a has operator is not compiled: left and right say      *)
(* whether it asks for a boundary there, leading and trailing whether any    *)
(* letters and digits may stand there. TRUE, FALSE or not such an expression.*)
matchKSQLTermRegex(t, p) ==
  LET term == decodeRegexpLiteral(p.body)
      mode == CASE p.leading /\ p.right -> "suffix"
                [] ~p.leading /\ p.right -> "word"
                [] OTHER -> "prefix"
  IN  IF \/ ~p.left
         \/ ~p.right /\ (p.leading \/ ~p.trailing)
         \/ p.right /\ p.trailing
         \/ term \in {NULL, Str(<<>>)}
      THEN NULL
      ELSE Bool(matchTerm(t, term[2], mode, p.fold))

(* The first lookup that the text has as a term; 1024 lookups in the code.   *)
kqlHasAnyIndex(v, lookups, maximum) ==
  LET t == IF v = NULL THEN <<>> ELSE v[2]
      Text(x) == IF Is("str", x) THEN x[2] ELSE Json(x)
      Has(x) == /\ x[1] \in {"str", "num", "bool"} /\ Text(x) # <<>>
                /\ Bounded(Folded(t), Folded(Text(x)), isASCIIAlphaNumeric,
                           TRUE, TRUE)
      items == IF lookups = Null THEN <<>> ELSE lookups[2]
      hits == {i \in DOMAIN items : Has(items[i])}
  IN  IF lookups[1] \notin {"arr", "null"} \/ v[1] \notin {"str", "NULL"}
      THEN NULL
      ELSE IF Len(items) > maximum THEN NULL
      ELSE Num(IF hits = {} THEN -1 ELSE Min(hits) - 1)
-----------------------------------------------------------------------------
(* What the functions promise, each against another way to say it.           *)

(* The parts of a split are those between the separators, and asking for one *)
(* of them gives the same part; joined again they are the text.              *)
SplitLaw(t, separator) ==
  LET parts == kqlSplit(Str(t), Str(separator), <<>>)
      At(i) == kqlSplit(Str(t), Str(separator), <<Num(i)>>)
      n == Len(parts[2])
  IN  IF separator = <<>> THEN parts = Error
      ELSE IF parts = Error
      THEN At(maxReplacementParts)[2] # <<>>
      ELSE /\ kqlStrcatArray(parts, Str(separator)) \in {Str(t), Error}
           /\ \A p \in ToSet(parts[2]) : Places(p[2], separator) = {}
           /\ \A i \in -1..n : At(i)[2] = IF i \in 0..n - 1
                                          THEN <<parts[2][i + 1]>> ELSE <<>>
           /\ n >= 2 => kqlStrcatDelim(Str(separator), parts[2])
                          = kqlStrcatArray(parts, Str(separator))

(* What countof counts may overlap; indexof finds the same places one after  *)
(* another, and each is where substring finds the text.                      *)
SearchLaw(t, match, start, length, occurrence) ==
  LET n == Len(t)
      from == IF start < 0 THEN start + n ELSE start
      Limit(a) == IF length < 0 THEN n ELSE Min({n, a + length})
      Next[a \in 0..n + 1] ==
        LET found == {i - 1 : i \in {j \in Places(t, match) :
                        j - 1 >= a /\ j - 1 + Len(match) <= Limit(a)}}
        IN  IF found = {} THEN -1 ELSE Min(found)
      Nth[k \in Nat] == IF k = 1 THEN Next[from]
                        ELSE IF Nth[k - 1] = -1 THEN -1
                        ELSE Next[Nth[k - 1] + 1]
      at == kqlIndexOf(Str(t), Str(match), start, length, occurrence)
      whole == kqlIndexOf(Str(t), Str(match), 0, -1, occurrence)
      count == kqlCountOf(Str(t), Str(match))[2]
  IN  /\ match # <<>> /\ from \in 0..n => at = Num(Nth[occurrence])
      /\ match # <<>> =>
           /\ count = Cardinality(Places(t, match))
           /\ (whole[2] # -1) = (occurrence <= count)
      /\ at[1] = "num" /\ at[2] >= 0 /\ length = -1 =>
           \A offset \in {at, Num(at[2] - n)} : at[2] < n =>
             kqlSubstring(Str(t), offset, <<Num(Len(match))>>) = Str(match)

(* indexof_regex answers with an occurrence that lies within length of start,*)
(* the first one when that is asked for.                                     *)
RegexWindowLaw(t, match, start, length, occurrence) ==
  LET at == kqlIndexOfRegex(Str(t), Str(match), start, length, occurrence)
      Ends(i) == i - 1 + Len(match)
      inside == {i \in Places(t, match) :
                   i > start /\ (length >= 0 => Ends(i) <= start + length)}
  IN  start \in 0..Len(t) =>
        /\ at # Error
        /\ at[2] >= 0 => at[2] + 1 \in inside
        /\ occurrence = 1 =>
             at[2] = IF inside = {} THEN -1 ELSE Min(inside) - 1

(* It does so as long as the end of the window is an int64.                  *)
RegexSearchLaw(t, match, start, length, occurrence) ==
  start + length <= MaxInt =>
    RegexWindowLaw(t, match, start, length, occurrence)

(* What a rewrite writes is never searched again: the result is the same     *)
(* when marks that occur nowhere are written first and replaced then.        *)
MarksLaw(marked, many, x, y) ==
  LET finally == kqlReplaceString(kqlReplaceString(marked, Str(<<1>>), Str(x)),
                                  Str(<<2>>), Str(y))
  IN  Failed(many) \/ finally \in {NULL, Error, many}

(* One lookup is replaced as replace_string and replace_regex do it.         *)
OneLookupLaw(t, a, b, x, parts, marked) ==
  LET one == kqlReplaceString(Str(t), Str(a), Str(x))
      Begin(i) == Len(Joined(SubSeq(parts, 1, i), a)) + 1
      matches == [i \in 1..Len(parts) - 1 |->
                    [begin |-> Begin(i), end |-> Begin(i) + Len(a) - 1,
                     groups |-> <<Str(a)>>]]
      Doubled(w) == FoldLeft(LAMBDA s, c : s \o IF c = 92 THEN <<c, c>>
                                                ELSE <<c>>, <<>>, w)
      Regex(w) == kqlReplaceRegex(Str(t), matches, 0, Str(w))
      inBetween == [i \in DOMAIN parts |->
                      kqlReplaceString(Str(parts[i]), Str(b), Str(<<2>>))[2]]
      length == Len(t) + (Len(parts) - 1) * (Len(x) - Len(a))
  IN  /\ marked \in {Error, Str(Joined(inBetween, <<1>>))}
      /\ one = Error <=> length > maxReplacementBytes
      /\ Cardinality({one, Regex(Doubled(x))} \ {Error}) <= 1
      /\ Regex(<<92, 48>>) \in {Str(t), Error}
      /\ Regex(<<92, 49>>) = Error

ReplaceLaw(t, a, b, x, y) ==
  LET Many(r, s) == kqlReplaceStrings(Str(t), Arr(<<Str(a), Str(b)>>),
                                      Arr(<<Str(r), Str(s)>>))
      AllOf(marked) ==
        /\ Failed(marked) \/ MarksLaw(marked, Many(x, y), x, y)
        /\ a # <<>> => OneLookupLaw(t, a, b, x, Split(t, a), marked)
  IN  AllOf(Many(<<1>>, <<2>>))

(* A trimmed text neither starts nor ends with the pattern, and what is gone *)
(* are repetitions of it; trimming one end takes at most one.                *)
TrimLaw(t, p) ==
  LET both == trimRegex(Str(p), Str(t), "both")[2]
      start == trimRegex(Str(p), Str(t), "start")[2]
      end == trimRegex(Str(p), Str(t), "end")[2]
      Repeat(n) == FoldLeft(LAMBDA r, x : r \o x, <<>>, [i \in 1..n |-> p])
      thrice == kqlStrrep(Str(p), MaxInt, Str(<<>>), 3)
  IN  p # <<>> =>
        /\ ~IsPrefix(p, both) /\ ~IsSuffix(p, both)
        /\ thrice \in {Error, Str(Repeat(3))}
        /\ \E i, j \in 0..Len(t) : t = Repeat(i) \o both \o Repeat(j)
        /\ t \in {start, p \o start} /\ (start = t => ~IsPrefix(p, t))
        /\ t \in {end, end \o p} /\ (end = t => ~IsSuffix(p, t))

(* For a term of letters and digits: it is a word of the text, or the start  *)
(* or the end of one. The expression that stands for the operator says the   *)
(* same, and a quoted text is that text.                                     *)
TermLaw(t, term, fold) ==
  LET Sep(c) == ~isASCIIAlphaNumeric(c)
      f(x) == IF fold THEN Folded(x) ELSE x
      Word(i, j) == /\ \A k \in i..j : ~Sep(t[k])
                    /\ i = 1 \/ Sep(t[i - 1])
                    /\ j = Len(t) \/ Sep(t[j + 1])
      Some(P(_)) == \E i, j \in 1..Len(t) :
                      i <= j /\ Word(i, j) /\ P(f(Cut(t, i, j)))
      Pattern(mode) ==
        [left |-> TRUE, leading |-> mode = "suffix", right |-> mode # "prefix",
         trailing |-> mode = "prefix", fold |-> fold,
         body |-> kqlRegexQuote(Str(term))[2]]
      Answer(mode, b) == /\ matchTerm(t, term, mode, fold) = b
                         /\ matchKSQLTermRegex(t, Pattern(mode)) = Bool(b)
  IN  /\ decodeRegexpLiteral(kqlRegexQuote(Str(t))[2]) = Str(t)
      /\ term # <<>> /\ (\A i \in DOMAIN term : ~Sep(term[i])) =>
           /\ Answer("word", Some(LAMBDA w : w = f(term)))
           /\ Answer("prefix", Some(LAMBDA w : IsPrefix(f(term), w)))
           /\ Answer("suffix", Some(LAMBDA w : IsSuffix(f(term), w)))
           /\ kqlHas(t, term, ~fold) => matchTerm(t, term, "word", fold)
           /\ kqlHasAnyIndex(Str(t), Arr(<<Null, Str(term)>>), 2)
                = Num(IF matchTerm(t, term, "word", TRUE) THEN 1 ELSE -1)

(* Translating there and back again gives the text, when nothing else maps to*)
(* its characters; without a replacement the characters are gone.            *)
TranslateLaw(t, a, b) ==
  LET there == kqlTranslate(Str(a), Str(b), Str(t))
  IN  /\ /\ Len(a) = Len(b) /\ IsInjective(a) /\ IsInjective(b)
         /\ ToSet(b) \cap ToSet(t) \subseteq ToSet(a)
         => there = Error \/ kqlTranslate(Str(b), Str(a), there) = Str(t)
      /\ kqlTranslate(Str(a), Str(<<>>), Str(t)) \in
           {Error, Str(SelectSeq(t, LAMBDA c : c \notin ToSet(a)))}
=============================================================================
