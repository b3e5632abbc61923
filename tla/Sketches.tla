------------------------------ MODULE Sketches ------------------------------
(* The sketches of kql_sketches.go, percentiles as a t-digest and distinct   *)
(* counts as HyperLogLog, and the clustering of texts of kql_reduce.go.      *)
(* A digest keeps exact points, <<value, weight>>, and centroids,            *)
(* <<sum, weight>> with the mean sum / weight; values are integers. The limit*)
(* on the encoding of a digest is left out.                                  *)
EXTENDS Integers, SequencesExt, FiniteSetsExt, Functions, TLC

CONSTANTS
  exactDigestValues,   \* the values kept before they are merged
  digestCompression,   \* the larger, the more centroids
  HashBits,            \* the bits of a hash
  maxHLLSparseHashes,  \* the hashes kept before registers take their place
  separators,          \* the characters that separate the terms of a text
  maxReduceTerms       \* a text of more terms is one term

ASSUME SketchAssumption == maxHLLSparseHashes \in Nat /\ HashBits \in Nat

Refused == "error"
-----------------------------------------------------------------------------
NoDigest ==
  [exact |-> <<>>, centroids |-> <<>>, count |-> 0, min |-> 0, max |-> 0]

(* In order of their means; the code leaves equal means in any order. *)
SortedPoints(s) == SortSeq(s, LAMBDA p, q : p[1] * q[2] < q[1] * p[2])

Points(d) ==
  d.centroids \o [i \in DOMAIN d.exact |->
                    <<d.exact[i][1] * d.exact[i][2], d.exact[i][2]>>]

(* Whether a point joins the last centroid: their weight must not exceed 1   *)
(* or the k1 limit 4 * count * q * (1 - q) / compression, where q is the     *)
(* quantile at the middle of both, a / (2 * count).                          *)
Joins(last, point, cumulative, count) ==
  LET weight == last[2] + point[2]
      a == 2 * (cumulative - last[2]) + weight
  IN  weight <= 1 \/ weight * count * digestCompression <= a * (2 * count - a)

compress(d) ==
  LET Merge(m, p) ==
        IF m.out # <<>> /\ Joins(Last(m.out), p, m.cumulative, d.count)
        THEN [out |-> Append(Front(m.out), <<Last(m.out)[1] + p[1],
                                             Last(m.out)[2] + p[2]>>),
              cumulative |-> m.cumulative + p[2]]
        ELSE [out |-> Append(m.out, p), cumulative |-> m.cumulative + p[2]]
  IN  [d EXCEPT !.exact = <<>>,
                !.centroids = FoldLeft(Merge, [out |-> <<>>, cumulative |-> 0],
                                       SortedPoints(Points(d))).out]

Lowest(d, v) == IF d.count = 0 THEN v ELSE Min({v, d.min})
Highest(d, v) == IF d.count = 0 THEN v ELSE Max({v, d.max})

DigestAdd(d, value, weight) ==
  LET added == [d EXCEPT !.min = Lowest(d, value),
                         !.max = Highest(d, value),
                         !.count = @ + weight,
                         !.exact = Append(@, <<value, weight>>)]
  IN  CASE weight <= 0 -> d
        [] weight > 0 /\ Len(added.exact) > exactDigestValues -> compress(added)
        [] OTHER -> added

DigestMerge(d, other) ==
  LET exact == FoldLeft(LAMBDA e, p : DigestAdd(e, p[1], p[2]), d, other.exact)
      weight == FoldLeft(LAMBDA n, c : n + c[2], 0, other.centroids)
  IN  IF other.count = 0 \/ other.centroids = <<>>
      THEN exact
      ELSE compress([exact EXCEPT !.min = Lowest(exact, other.min),
                                  !.max = Highest(exact, other.max),
                                  !.count = @ + weight,
                                  !.centroids = @ \o other.centroids])

(* A digest that is written and read again: once it has centroids, all of    *)
(* its points are.                                                           *)
DigestRead(d) ==
  IF d.centroids = <<>>
  THEN [d EXCEPT !.exact = SortSeq(@, LAMBDA p, q : p[1] < q[1])]
  ELSE [d EXCEPT !.exact = <<>>, !.centroids = SortedPoints(Points(d))]

(* The nearest rank: the first point up to which p per cent of the weight    *)
(* lies, within the minimum and the maximum; a fraction.                     *)
percentile(d, p) ==
  LET points == SortedPoints(Points(d))
      To(k) == FoldLeft(LAMBDA n, c : n + c[2], 0, SubSeq(points, 1, k))
      reached == {k \in DOMAIN points : 100 * To(k) >= p * d.count}
      point == points[Min(reached)]
  IN  CASE d.count = 0 \/ p \notin 0..100 -> Refused
        [] d.count > 0 /\ p = 0 -> <<d.min, 1>>
        [] d.count > 0 /\ p = 100 -> <<d.max, 1>>
        [] OTHER -> CASE point[1] < d.min * point[2] -> <<d.min, 1>>
                      [] point[1] > d.max * point[2] -> <<d.max, 1>>
                      [] OTHER -> point

DigestRank(d, value) ==
  FoldLeft(LAMBDA n, c : IF c[1] <= value * c[2] THEN n + c[2] ELSE n,
           0, Points(d))
-----------------------------------------------------------------------------
(* A sketch of distinct values: their hashes, or for each of 2^p registers   *)
(* the longest run of zeros its hashes start with, plus one.                 *)
newHLL(p) == [p |-> p, sparse |-> {}, registers |-> <<>>]

LeadingZeros(n) ==
  Min({HashBits} \cup {k \in 0..HashBits - 1 : n >= 2 ^ (HashBits - 1 - k)})

addRegister(registers, p, hash) ==
  LET index == hash \div 2 ^ (HashBits - p)
      rest == (hash * 2 ^ p) % 2 ^ HashBits
      guard == 2 ^ (p - 1)
      guarded == IF (rest \div guard) % 2 = 1 THEN rest ELSE rest + guard
      rho == LeadingZeros(guarded) + 1
  IN  [registers EXCEPT ![index + 1] = Max({@, rho})]

densify(h) ==
  [h EXCEPT !.sparse = {},
            !.registers = FoldSet(LAMBDA x, r : addRegister(r, h.p, x),
                                  [i \in 1..2 ^ h.p |-> 0], h.sparse)]

addHash(h, hash) ==
  CASE h.registers # <<>> ->
         [h EXCEPT !.registers = addRegister(@, h.p, hash)]
    [] h.registers = <<>> ->
         LET added == [h EXCEPT !.sparse = @ \cup {hash}]
         IN  IF Cardinality(added.sparse) > maxHLLSparseHashes
             THEN densify(added) ELSE added

(* Mutant: the merge of exact sketches keeps the accuracy of the first one. *)
MergeAtFirst(h, other) ==
  FoldSet(LAMBDA x, t : addHash(t, x), h, other.sparse)

(* Sketches of different accuracy merge only while both are exact. *)
HLLMerge(h, other) ==
  LET p == Min({h.p, other.p})
      into == IF h.registers = <<>> THEN densify(h) ELSE h
  IN  IF other.p # h.p /\ (h.registers # <<>> \/ other.registers # <<>>)
      THEN Refused
      ELSE IF other.registers = <<>>
      THEN FoldSet(LAMBDA x, t : addHash(t, x),
                   [h EXCEPT !.p = p], other.sparse)
      ELSE [into EXCEPT !.registers =
              [i \in DOMAIN @ |-> Max({@[i], other.registers[i]})]]

(* The count is exact while the hashes are; from the registers it is an      *)
(* estimate, a function of them.                                             *)
estimate(h) ==
  IF h.registers = <<>> THEN <<"exact", Cardinality(h.sparse)>>
  ELSE <<"estimate", h.registers>>
-----------------------------------------------------------------------------
(* reduce: a text is split into its terms and the separators before, between *)
(* and after them; gaps has one element more than terms.                     *)
TermsOf(text) ==
  LET Read(r, c) ==
        CASE c \in separators ->
               [r EXCEPT !.inTerm = FALSE,
                         !.gaps = IF r.inTerm THEN Append(@, <<c>>)
                                  ELSE Append(Front(@), Append(Last(@), c))]
          [] OTHER ->
               [r EXCEPT !.inTerm = TRUE,
                         !.terms = IF r.inTerm
                                   THEN Append(Front(@), Append(Last(@), c))
                                   ELSE Append(@, <<c>>)]
      start == [terms |-> <<>>, gaps |-> <<<<>>>>, inTerm |-> FALSE]
      end == FoldLeft(Read, start, text)
      gaps == IF end.inTerm THEN Append(end.gaps, <<>>) ELSE end.gaps
  IN  IF Len(end.terms) > maxReduceTerms
      THEN [terms |-> <<text>>, gaps |-> <<<<>>, <<>>>>]
      ELSE [terms |-> end.terms, gaps |-> gaps]

Star == 42

(* The rows of a group are its distinct texts in the order they first occur  *)
(* and how often each occurs; the threshold is a percentage.                 *)
Group(rows) ==
  [order |-> FoldLeft(LAMBDA s, t : IF t \in ToSet(s) THEN s ELSE Append(s, t),
                      <<>>, rows),
   counts |-> FoldLeft(LAMBDA c, t :
                         (t :> 1 + IF t \in DOMAIN c THEN c[t] ELSE 0) @@ c,
                       <<>>, rows)]

Total(group, texts) == FoldSet(LAMBDA t, n : n + group.counts[t], 0, texts)

MoreThan(group, n, threshold) ==
  100 * n > threshold * Total(group, DOMAIN group.counts)

(* The places at which the term of a text is frequent.                       *)
FrequentPlaces(group, item, threshold) ==
  {p \in DOMAIN item.terms :
     MoreThan(group, Total(group, {t \in DOMAIN group.counts :
                                     LET terms == TermsOf(t).terms
                                     IN  /\ p <= Len(terms)
                                         /\ terms[p] = item.terms[p]}),
              threshold)}

(* The terms at the frequent places, and a star for the others, which takes  *)
(* in separators beside it that the query names.                             *)
Written(item, frequent, custom) ==
  LET n == Len(item.terms)
      Beside(r, p) == r.wildcard \/ (p <= n /\ p \notin frequent)
      Gap(r, p) == IF custom /\ Beside(r, p) THEN <<>> ELSE item.gaps[p]
      Part(r, p) ==
        CASE p \in frequent -> item.terms[p]
          [] OTHER -> IF r.wildcard /\ custom THEN <<>> ELSE <<Star>>
      Write(r, p) == [text |-> r.text \o Gap(r, p) \o Part(r, p),
                      wildcard |-> p \notin frequent]
      end == FoldLeft(Write, [text |-> <<>>, wildcard |-> FALSE],
                      [p \in 1..n |-> p])
  IN  [text |-> end.text \o Gap(end, n + 1), frequent |-> frequent # {}]

(* The pattern of a text.                                                    *)
PatternOf(group, text, threshold, custom) ==
  LET item == TermsOf(text)
  IN  Written(item, FrequentPlaces(group, item, threshold), custom)

(* reduceAggregate.Done: the patterns of more texts than the threshold, the  *)
(* most frequent first, each with its count and its first text; and how many *)
(* others there are. of is the pattern of each text.                         *)
Ranked(group, threshold, of) ==
  LET Having(pattern) ==
        {t \in DOMAIN of : of[t].frequent /\ of[t].text = pattern}
      Kept(t) == /\ of[t].frequent
                 /\ MoreThan(group, Total(group, Having(of[t].text)), threshold)
      Listed(i) == \A j \in 1..i - 1 :
                     of[group.order[j]] # of[group.order[i]]
      firsts == SelectSeq([i \in DOMAIN group.order |-> i],
                          LAMBDA i : Kept(group.order[i]) /\ Listed(i))
      rank == [k \in DOMAIN firsts |->
                 LET t == group.order[firsts[k]]
                 IN  [pattern |-> of[t].text, representative |-> t, place |-> k,
                      count |-> Total(group, Having(of[t].text))]]
  IN  [patterns |-> SortSeq(rank, LAMBDA a, b :
                      \/ a.count > b.count
                      \/ a.count = b.count /\ a.place < b.place),
       others |-> Total(group, {t \in DOMAIN of : ~Kept(t)})]

Reduce(rows, threshold, custom) ==
  LET group == Group(rows)
  IN  Ranked(group, threshold,
             FoldSet(LAMBDA t, f :
                       (t :> PatternOf(group, t, threshold, custom)) @@ f,
                     <<>>, DOMAIN group.counts))
-----------------------------------------------------------------------------
(* What the sketches and patterns of some rows must be.                      *)

DigestOf(rows) ==
  FoldLeft(LAMBDA d, r : DigestAdd(d, r[1], r[2]), NoDigest, rows)

SameValue(fraction, n) == fraction[1] = n * fraction[2]

(* The value of p per cent of the rows, were all of them kept: the lowest up *)
(* to which that much of the weight lies.                                    *)
NearestRank(rows, p) ==
  LET Upto(v) == FoldLeft(LAMBDA n, r : n + IF r[1] <= v THEN r[2] ELSE 0,
                          0, rows)
      all == FoldLeft(LAMBDA n, r : n + r[2], 0, rows)
  IN  Min({r[1] : r \in {x \in ToSet(rows) : 100 * Upto(x[1]) >= p * all}})

(* A digest made in two parts, one of them written and read in between,      *)
(* keeps the weight, the total and the extremes of all rows. Its percentiles *)
(* do not decrease and stay within the extremes, and while nothing has been  *)
(* merged they are exact.                                                    *)
DigestLaw(first, second) ==
  LET rows == SelectSeq(first \o second, LAMBDA r : r[2] > 0)
      d == DigestMerge(DigestOf(first), DigestRead(DigestOf(second)))
      values == {r[1] : r \in ToSet(rows)}
      SumOf(i, s) == FoldLeft(LAMBDA n, c : n + c[i], 0, s)
      quantiles == {0, 1, 25, 50, 75, 99, 100}
      At == FoldSet(LAMBDA p, f : (p :> percentile(d, p)) @@ f, <<>>, quantiles)
  IN  IF rows = <<>> THEN d = NoDigest
      ELSE /\ d.count = SumOf(2, rows) /\ d.count = SumOf(2, Points(d))
           /\ SumOf(1, Points(d)) = FoldLeft(LAMBDA n, r : n + r[1] * r[2],
                                             0, rows)
           /\ d.min = Min(values) /\ d.max = Max(values)
           /\ \A p, q \in quantiles :
                p <= q => At[p][1] * At[q][2] <= At[q][1] * At[p][2]
           /\ DigestRank(d, d.max) = d.count
           /\ Len(rows) <= exactDigestValues =>
                \A p \in quantiles :
                  SameValue(At[p], NearestRank(rows, p))

HLLOf(hashes, p) == FoldLeft(addHash, newHLL(p), hashes)

(* A sketch made in two parts is the one of all values at the lower accuracy,*)
(* whatever their order; parts of different accuracy are only refused once   *)
(* one of them has passed its limit.                                         *)
HLLLaw(first, second, p, q) ==
  LET merged == HLLMerge(HLLOf(first, p), HLLOf(second, q))
      whole == HLLOf(Reverse(second \o first), Min({p, q}))
      Long(s) == Cardinality(ToSet(s)) > maxHLLSparseHashes
      (* The place of the first bit set after the first n of a hash. *)
      FirstBit(x, n) ==
        Min({HashBits - n + 1} \cup
              {k \in 1..HashBits - n : (x \div 2 ^ (HashBits - n - k)) % 2 = 1})
      Register(i, n) ==
        Max({0} \cup {FirstBit(x, n) : x \in
              {y \in ToSet(first \o second) : y \div 2 ^ (HashBits - n) = i}})
  IN  IF p # q /\ (Long(first) \/ Long(second)) THEN merged = Refused
      ELSE /\ estimate(merged) = estimate(whole)
           /\ \A i \in DOMAIN merged.registers :
                merged.registers[i] = Register(i - 1, merged.p)
           /\ whole.registers = <<>> =>
                merged.sparse = ToSet(first) \cup ToSet(second)

(* Three sketches of one accuracy merge to that of all values in every order,*)
(* whichever of them are exact and wherever the limit of exactness is passed.*)
HLLMergesLaw(parts, p) ==
  LET Part(i) == HLLOf(parts[i], p)
      whole == HLLOf(parts[1] \o parts[2] \o parts[3], p)
  IN  \A i, j, k \in 1..3 :
        {i, j, k} = 1..3 => HLLMerge(HLLMerge(Part(i), Part(j)), Part(k)) = whole

(* Whether a text has the form of a pattern: a star stands for some of it.   *)
Covers(pattern, text) ==
  LET Next(ends, c) ==
        IF c = Star
        THEN {e \in 0..Len(text) : \E b \in ends : b <= e}
        ELSE {e \in 1..Len(text) : text[e] = c /\ e - 1 \in ends}
  IN  Len(text) \in FoldLeft(Next, {0}, pattern)

(* The counts of the patterns and of the others add up to the rows; each     *)
(* pattern is of more rows than the threshold, is not of stars alone, stands *)
(* for its representative and is listed once, the most frequent first.       *)
PatternsLaw(rows, threshold, result) ==
  LET patterns == result.patterns
  IN  /\ FoldLeft(LAMBDA n, x : n + x.count, result.others, patterns)
           = Len(rows)
      /\ \A i \in DOMAIN patterns :
           /\ 100 * patterns[i].count > threshold * Len(rows)
           /\ \E j \in DOMAIN rows : rows[j] = patterns[i].representative
           /\ Covers(patterns[i].pattern, patterns[i].representative)
           /\ ToSet(patterns[i].pattern) \ separators # {Star}
      /\ \A i, j \in DOMAIN patterns :
           i < j => /\ patterns[i].count >= patterns[j].count
                    /\ patterns[i].pattern # patterns[j].pattern

(* And the order of the rows does not change what is counted.                *)
ReduceLaw(rows, threshold, custom) ==
  LET Counted(r) == {<<x.pattern, x.count>> : x \in ToSet(r.patterns)}
      Same(r, turned) == Counted(turned) = Counted(r) /\ turned.others = r.others
  IN  /\ PatternsLaw(rows, threshold, Reduce(rows, threshold, custom))
      /\ Same(Reduce(rows, threshold, custom),
              Reduce(Reverse(rows), threshold, custom))
=============================================================================
