---------------------------- MODULE MCFunctions ----------------------------
(* The pure algorithms of internal/database and internal/ingest on small     *)
(* arguments. From Idle one call is chosen with its arguments; an aggregate  *)
(* is then given rows one at a time. The laws of a call hold of its answer.  *)
EXTENDS DynamicArrays, DynamicBags, Aggregates, Sketches,
        TextFunctions, Addresses, FieldCatalogue

CONSTANT MaxRows  \* the most rows an aggregate is given

VARIABLE call

Idle == <<"idle">>

Init == call = Idle

SeqsUpTo(S, n) == UNION {[1..k -> S] : k \in 0..n}

-----------------------------------------------------------------------------
(* ------------------------- field catalogue ------------------------------ *)
KeyIdentifiers == {"alpha", "Alpha", "Source", "RawData", "b"}
LowerCase == ("alpha" :> "alpha") @@ ("Alpha" :> "alpha") @@ ("b" :> "b")
               @@ ("Source" :> "source") @@ ("RawData" :> "rawdata")
               @@ ("x-y" :> "x-y")

InnerJson == Text(Bag("b" :> Text(Arr(<<>>))))
AlphaValues ==
  {Null, Num(1), Fraction, Str(<<>>), InnerJson, Bag("b" :> Str(<<>>)),
   Arr(<<Bag("b" :> Str(<<>>))>>), Arr(<<Bag("b" :> InnerJson)>>)}
Records ==
  {Bag("alpha" :> v) : v \in AlphaValues}
    \cup {Bag(("alpha" :> Num(1)) @@ ("Alpha" :> Null)),
          Bag("Alpha" :> Str(<<>>)),
          Bag("Source" :> Bag("x-y" :> Num(1))), Bag("RawData" :> InnerJson),
          Bag(("x-y" :> Bag("b" :> Num(1))) @@ ("alpha" :> Null))}

OtherRecords ==
  {Bag("alpha" :> Null), Bag("alpha" :> Fraction), Bag("Alpha" :> Num(1)),
   Bag("Source" :> Num(1))}

CallFields ==
  \E first \in SeqsUpTo(Records, 3) \ {<<>>}, second \in OtherRecords :
    call' = <<"fields", <<first, <<second>>>>>>

-----------------------------------------------------------------------------
(* ------------------------- dynamic values ------------------------------- *)
A == <<97>>
B == <<98>>
Ints == MinInt..MaxInt

Arrays == {Arr(s) : s \in SeqsUpTo({Null, Num(1), Num(2), Str(A)}, 3)}
Mixed ==
  {Arr(s) : s \in SeqsUpTo({Null, Num(1), Num(2), Str(A), Str(B),
                            Bool(TRUE), Bool(FALSE)}, 3)}
Sets == {Arr(s) : s \in SeqsUpTo({Num(1), Str(A), Arr(<<Null>>)}, 3)}
Inner ==
  {Num(1), Bag(Empty), Bag(A :> Num(1)),
   Bag((A :> Num(1)) @@ (B :> Null))}
Bags ==
  {Bag(Empty)} \cup {Bag(A :> v) : v \in Inner}
    \cup {Bag((A :> v) @@ (B :> Num(2))) : v \in Inner}

(* Names, $.a, $.a.b, $['a'], $["\""], $ and an unclosed $['a'. *)
Keys ==
  {A, B, <<36,46,97>>, <<36,46,97,46,98>>, <<36,91,39,97,39,93>>,
   <<36,91,34,92,34,34,93>>, <<36>>, <<36,91,39,97,39>>}

CallArray == \E v \in Arrays, n, m \in Ints : call' = <<"array", v, n, m>>
CallSort == \E v \in Mixed, d, l \in BOOLEAN : call' = <<"sort", v, d, l>>
CallRange == \E n, m, k \in Ints : call' = <<"range", n, m, k>>
CallSet ==
  \E a, b \in Sets, c \in {Arr(<<>>), Arr(<<Str(A), Num(1)>>)} :
    call' = <<"set", a, b, c>>
CallBag ==
  \E v \in Bags, w \in {Bag(Empty), Bag(B :> Null)}, k, o \in Keys,
     x \in {Num(2), Bag(Empty)} :
    call' = <<"bag", v, w, k, o, x>>

-----------------------------------------------------------------------------
(* ------------------------- aggregates ----------------------------------- *)
Kinds == {NULL, Null, Num(0), Num(1), Str(A)}
Numbers == {NULL} \cup {Num(n) : n \in {-4, -1, 0, 1, 2, 3}}

Rows(a) ==
  CASE a.of = "list" -> {NULL, Null, Num(1), Str(A), Arr(<<Num(1), Null>>)}
    [] a.of = "collection" -> {NULL, Num(1), Str(A), Str(A \o B)}
    [] a.of = "bag" ->
         {NULL, Num(1), Bag(A :> Num(1)),
          Bag((A :> Num(2)) @@ (B :> Null)), Bag(<<99>> :> Null)}
    [] a.of = "distinct" -> Kinds
    [] a.of \in {"bits", "statistic"} -> Numbers
    [] a.of = "schema" ->
         {NULL, Null, Num(1), Str(A), Arr(<<>>), Arr(<<Num(1), Null>>),
          Arr(<<Bag(A :> Num(1))>>)}
           \cup {Bag(A :> v) : v \in Kinds \ {NULL}}

AggregatesOf ==
  [of : {"list"}, kind : {"dynamic"}, distinct : BOOLEAN, nulls : BOOLEAN,
   limit : {0, 2}]
  \cup [of : {"collection"}, distinct : BOOLEAN]
  \cup [of : {"bag"}, limit : {0, 1, 2}]
  \cup [of : {"bits"}, operation : {"and", "or", "xor"}]
  \cup [of : {"distinct", "statistic", "schema"}]

Weighted == {<<-2, 1>>, <<3, 2>>, <<4, 1>>, <<4, 0>>}
Words ==
  {<<1, 32, 2>>, <<1, 32, 3>>, <<2, 32, 3>>, <<1>>, <<1, 32, 32, 2>>,
   <<32, 1>>, <<2, 32, 2, 32, 3>>, <<3, 32, 1>>}

CallAggregate ==
  \E a \in AggregatesOf : call' = <<"aggregate", a, <<>>, Acc(StartOf(a))>>
Row ==
  /\ call[1] = "aggregate" /\ ~Failed(call[4]) /\ Len(call[3]) < MaxRows
  /\ \E v \in Rows(call[2]) :
       call' = [call EXCEPT ![3] = Append(@, v),
                            ![4] = StepOf(call[2], @[2], v)]
CallDigest ==
  \E s \in SeqsUpTo(Weighted, 2), t \in SeqsUpTo(Weighted, 4) :
    call' = <<"digest", s, t>>
CallHLL ==
  \E s \in SeqsUpTo({0, 1, 2, 5}, 3), t \in SeqsUpTo({1, 3, 6}, 3),
     p, q \in {1, 2} :
    call' = <<"hll", s, t, p, q>>
CallMerges ==
  \E s \in SeqsUpTo({0, 1, 5}, 2), t \in SeqsUpTo({1, 3, 6}, 2),
     u \in {<<>>, <<2>>, <<2, 4, 7>>}, p \in {1, 2} :
    call' = <<"merges", <<s, t, u>>, p>>
CallReduce ==
  \E rows \in SeqsUpTo(Words, 3), threshold \in {0, 50}, custom \in BOOLEAN :
    call' = <<"reduce", rows, threshold, custom>>

-----------------------------------------------------------------------------
(* ------------------------- texts ---------------------------------------- *)
Few == {<<>>, A, B, A \o A, A \o B}
Matches == {<<>>, A, A \o A, A \o B, A \o A \o B, A \o B \o A}

CallSplit ==
  \E t \in SeqsUpTo({97, 98}, 4), s \in Few : call' = <<"split", t, s>>
CallSearch ==
  \E t \in SeqsUpTo({97, 98}, 4), s \in Matches, n \in {-2, 0, 1, 3},
     m \in {-1, 0, 2, 3}, k \in 1..3 :
    call' = <<"search", t, s, n, m, k>>
CallReplace ==
  \E t \in SeqsUpTo({97, 98}, 3), a, b \in Few,
     x, y \in {<<>>, A, <<92>>, B \o B} :
    call' = <<"replace", t, a, b, x, y>>
CallTerm ==
  \E t \in SeqsUpTo({97, 65, 46, 95}, 3),
     s \in {<<>>, A, <<65>>, <<65, 97>>, <<46>>}, f \in BOOLEAN :
    call' = <<"term", t, s, f>>
CallTranslate ==
  \E t \in SeqsUpTo({97, 98, 99}, 3), s, u \in SeqsUpTo({97, 98, 99}, 2) :
    call' = <<"translate", t, s, u>>

-----------------------------------------------------------------------------
(* ------------------------- addresses ------------------------------------ *)
PrivateRanges == {<<0, 2>>, <<4, 1>>}

Address(form, width) ==
  [form : {form}, bits : 0..2 ^ width - 1, prefix : {-1, 0, 1, 2, 3, 4}]
V4 == Address("v4", V4Bits) \cup {NoAddress}
V6 ==
  {v \in Address("v6", V6Bits) \cup Address("dotted", V6Bits) :
     v.bits \in {0, 3, 8, 9, 15, 16, 31} /\ v.prefix # 2}
    \cup [form : {"v4"}, bits : 1..2, prefix : {-1, 1, 4}] \cup {NoAddress}
V6Ranges == {v \in V6 : v.prefix # 0 /\ v.bits \in {0, 1, 9, 16}}

(* 1.1 and pieces of an address, among them the octet 256. *)
OneOne == <<49, 46, 49>>
Tokens == {OneOne, <<46, 49>>, <<46, 50, 53, 54>>, <<46>>, <<32>>, A}
Targets ==
  {OneOne \o <<46>> \o OneOne, OneOne \o <<46, 46, 49>>, OneOne, A,
   OneOne \o <<46>>, OneOne \o <<46, 50, 53, 54, 46, 49>>}

CallBlocks == \E a, b \in V4 : call' = <<"blocks", a, b>>
CallRanges ==
  \E a, b \in V4, masks \in {<<>>, <<0>>, <<2>>, <<4>>} :
    call' = <<"ranges", a, b, masks>>
CallAnyRange ==
  \E a \in V6, b, c \in V6Ranges : call' = <<"anyRange", a, b, c>>
CallHasAddress ==
  \E s \in SeqsUpTo(Tokens, 4), t \in Targets :
    call' = <<"hasAddress", FlattenSeq(s), t>>

-----------------------------------------------------------------------------
CallData == CallArray \/ CallSort \/ CallRange \/ CallSet \/ CallBag
CallRows == CallHLL \/ CallMerges \/ CallDigest \/ CallReduce \/ CallAggregate
CallText ==
  CallSplit \/ CallSearch \/ CallReplace \/ CallTerm \/ CallTranslate
CallAddress == CallBlocks \/ CallRanges \/ CallAnyRange \/ CallHasAddress

Next ==
  \/ call = Idle /\ CallFields
  \/ call = Idle /\ (CallRows \/ CallData \/ CallText \/ CallAddress)
  \/ call # Idle /\ Row
  \/ call # Idle /\ call' = Idle

Spec == Init /\ [][Next]_call

-----------------------------------------------------------------------------
(* The functions of one row (array_*, set_*, bag_*, the text and the address *)
(* functions) answer what their reference definition says, at the limits of  *)
(* their arguments too, and agree with their inverses and with each other.   *)
ScalarLaws ==
  CASE call[1] = "array" -> ArrayLaws(call[2], call[3], call[4])
    [] call[1] = "sort" -> SortLaws(call[2], call[3], call[4])
    [] call[1] = "range" -> ProgressionLaws(call[2], call[3], call[4])
    [] call[1] = "set" -> SetLaws(call[2], call[3], call[4])
    [] call[1] = "bag" -> BagLaws(call[2], call[3], call[4], call[5], call[6])
    [] call[1] = "split" ->
         SplitLaw(call[2], call[3]) /\ TrimLaw(call[2], call[3])
    [] call[1] = "search" ->
         /\ SearchLaw(call[2], call[3], call[4], call[5], call[6])
         /\ \/ call[3] = <<>>
            \/ RegexSearchLaw(call[2], call[3], call[4], call[5], call[6])
    [] call[1] = "replace" ->
         ReplaceLaw(call[2], call[3], call[4], call[5], call[6])
    [] call[1] = "term" -> TermLaw(call[2], call[3], call[4])
    [] call[1] = "translate" -> TranslateLaw(call[2], call[3], call[4])
    [] call[1] = "blocks" -> BlocksLaw(call[2], call[3])
    [] call[1] = "ranges" -> RangeLaw(call[2], call[3], call[4])
    [] call[1] = "anyRange" -> AnyRangeLaw(call[2], call[3], call[4])
    [] call[1] = "hasAddress" -> HasAddressLaw(call[2], call[3])
    [] OTHER -> TRUE

AggregateLaw(a, rows, state) ==
  CASE a.of = "list" ->
         CollectLaw(rows, state, a.distinct, a.nulls, collectLimit(a.limit))
    [] a.of = "collection" -> CollectionLaw(rows, state, a.distinct)
    [] a.of = "bag" -> BagLaw(rows, state, a.limit)
    [] a.of = "distinct" -> state = ToSet(rows) \ {NULL}
    [] a.of = "bits" -> BitwiseLaw(rows, state, a.operation)
    [] a.of = "statistic" -> StatisticLaw(rows, state)
    [] a.of = "schema" -> SchemaLaw(rows, state)

(* The result of an aggregate, and of a merge of two sketches, is that of    *)
(* all its rows, in whatever order SQLite delivers them; where the code does *)
(* depend on the order, at a limit, it is that of a part of the rows.        *)
AggregateLaws ==
  CASE call[1] = "aggregate" ->
         Failed(call[4]) \/ AggregateLaw(call[2], call[3], call[4][2])
    [] call[1] = "digest" -> DigestLaw(call[2], call[3])
    [] call[1] = "hll" -> HLLLaw(call[2], call[3], call[4], call[5])
    [] call[1] = "merges" -> HLLMergesLaw(call[2], call[3])
    [] call[1] = "reduce" -> ReduceLaw(call[2], call[3], call[4])
    [] OTHER -> TRUE

(* The catalogue of fields describes the records that were searched, in      *)
(* whatever order they came; what is stored of a record is the same data,    *)
(* parsed at every path known to hold JSON; and the columns of a table do    *)
(* not depend on the order of its datasets.                                  *)
FieldLaws ==
  call[1] = "fields" =>
    /\ CatalogueLaw(call[2][1])
    /\ StoredLaw(call[2][1])
    /\ ColumnsLaw(Catalogues(call[2]))

(* README.md:166, "Root keys that differ only by case are omitted from any   *)
(* schema in which they collide". catalogueFields of internal/ingest takes   *)
(* both keys of a dataset out of the root columns, so that logicalFields of  *)
(* internal/api does not see them when another dataset of the table has one. *)
CollisionsOmitted == call[1] = "fields" => CollidingKeysOmitted(call[2])

(* The comment of kqlIndexOfRegex, kql_text_tools.go:443-444: it "returns    *)
(* the zero-based character index of the given non-overlapping occurrence of *)
(* a regex within [start, start+length)". Line 469 adds the two without the  *)
(* clamp of kql_indexof.go:43, "Clamp before adding, including when length   *)
(* is MaxInt64", so that a length without end makes the query fail.          *)
WindowedSearchAnswers ==
  call[1] = "search" /\ call[3] # <<>> =>
    RegexWindowLaw(call[2], call[3], call[4], call[5], call[6])
=============================================================================
