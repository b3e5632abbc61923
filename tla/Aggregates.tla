----------------------------- MODULE Aggregates -----------------------------
(* The aggregates SQLite calls once for each row of a group (Step), in an    *)
(* order the query does not determine, and then for their result (Done):     *)
(* make_list and make_set in both forms (kql_collect.go, kqlCollection),     *)
(* make_bag (kql_bag.go), count_distinct (kql_compat.go), binary_all_and, _or*)
(* and _xor (kql_bitwise_aggregate.go), variance and stdev                   *)
(* (kql_statistics.go) and buildschema (kql_buildschema.go). A state is the  *)
(* struct of the aggregate, or Error when a step has failed; the size of a   *)
(* value is the length of its JSON.                                          *)
EXTENDS DynamicValues

CONSTANTS
  maxCollectSize, maxCollectBytes, \* of make_list and make_set
  maxCollectionBytes,  \* of their form without a limit; see DynamicValues
  maxBagProperties,    \* of make_bag
  maxDistinctValues,   \* of count_distinct
  maxSchemaNodes,      \* of buildschema
  Width                \* the bits of an int64

ASSUME WidthAssumption == Width \in Nat /\ 2 ^ Width = 2 * (MaxInt + 1)

Acc(state) == <<"acc", state>>

Result(state) == IF state = Error THEN Error ELSE Acc(state)

Bytes(values) == FoldLeft(LAMBDA n, v : n + Len(Json(v)), 0, values)

(* ------------------------- make_list, make_set -------------------------- *)
collectLimit(n) == IF n \in 1..maxCollectSize - 1 THEN n ELSE maxCollectSize

(* add: nothing beyond the limit, and in a set no value twice. A comma is    *)
(* counted with every value.                                                 *)
CollectAdd(values, v, distinct, limit) ==
  CASE \/ Len(values) >= limit
       \/ distinct /\ v \in ToSet(values) -> values
    [] OTHER -> IF Bytes(values) + Len(values) + Len(Json(v)) > maxCollectBytes
                THEN Error ELSE Append(values, v)

(* A dynamic array adds its elements; a null is only added on demand.        *)
CollectStep(values, v, kind, distinct, nulls, limit) ==
  LET Add(s, x) == IF s = Error THEN s ELSE CollectAdd(s, x, distinct, limit)
      element == packJSONValue(v, kind)
  IN  CASE v = NULL -> IF nulls THEN Add(values, Null) ELSE values
        [] v # NULL /\ kind = "dynamic" /\ Is("arr", v) ->
             FoldLeft(Add, values,
                      SelectSeq(v[2], LAMBDA x : x # Null \/ nulls))
        [] OTHER -> Add(values, element)

(* kqlCollection: a value that does not fit is passed over. *)
CollectionStep(values, v, distinct) ==
  IF \/ v = NULL
     \/ Len(values) >= maxCollectionValues
     \/ Bytes(values) + Len(Json(v)) > maxCollectionBytes
     \/ distinct /\ v \in ToSet(values)
  THEN values
  ELSE Append(values, v)

(* ------------------------- make_bag, count_distinct --------------------- *)
(* The first value of a name wins; within a row the names are added in order.*)
BagStep(bag, v, maximum) ==
  LET Add(f, name) ==
        IF Cardinality(DOMAIN f) >= maximum \/ name \in DOMAIN f
        THEN f
        ELSE [x \in DOMAIN f \cup {name} |-> IF x = name THEN v[2][x] ELSE f[x]]
  IN  CASE maximum \notin 1..maxBagProperties -> Error
        [] ~Is("bag", v) -> Acc(bag)
        [] OTHER -> Acc(FoldLeft(Add, bag, SetToSortSeq(DOMAIN v[2], TextBefore)))

DistinctStep(seen, v) ==
  CASE v = NULL \/ v \in seen -> Acc(seen)
    [] OTHER -> IF Cardinality(seen) >= maxDistinctValues THEN Error
                ELSE Acc(seen \cup {v})

(* ------------------------- binary_all_and, _or, _xor -------------------- *)
(* The bits of an integer in two's complement, and the integer of some bits. *)
BitsOf(n) == {k \in 0..Width - 1 : (n \div 2 ^ k) % 2 = 1}
FromBits(S) == Wrap(FoldSet(LAMBDA k, n : n + 2 ^ k, 0, S))

OnBits(operation, a, b) ==
  LET s == BitsOf(a)
      t == BitsOf(b)
  IN  FromBits(CASE operation = "and" -> s \cap t
                 [] operation = "or" -> s \cup t
                 [] operation = "xor" -> (s \cup t) \ (s \cap t))

BitwiseStep(acc, v, operation) ==
  CASE v = NULL -> acc
    [] v # NULL /\ ~Is("num", v) -> Error
    [] OTHER -> IF acc = NULL THEN v ELSE Num(OnBits(operation, acc[2], v[2]))

(* ------------------------- variance, stdev ------------------------------ *)
(* Moments relative to the first value. The mean and m2 are fractions: their *)
(* numerators over the factorial of the count and over its square.           *)
NoStatistic == [count |-> 0, origin |-> 0, mean |-> <<0, 1>>, m2 |-> <<0, 1>>]

Plus(p, q) == <<p[1] * q[2] + q[1] * p[2], p[2] * q[2]>>
Times(p, q) == <<p[1] * q[1], p[2] * q[2]>>
Minus(p, q) == Plus(p, <<-q[1], q[2]>>)
SameFraction(p, q) == p[1] * q[2] = q[1] * p[2]

(* The difference of two int64, taken as an unsigned number. *)
shiftedNumber(v, base) ==
  LET Unsigned(n) == n % (2 * (MaxInt + 1))
  IN  IF v >= base THEN Unsigned(Unsigned(v) - Unsigned(base))
      ELSE -Unsigned(Unsigned(base) - Unsigned(v))

StatisticStep(s, v) ==
  IF ~Is("num", v) THEN s
  ELSE LET count == s.count + 1
           origin == IF s.count = 0 THEN v[2] ELSE s.origin
           x == <<shiftedNumber(v[2], origin), 1>>
           delta == Minus(x, s.mean)
           mean == Plus(s.mean, Times(delta, <<1, count>>))
       IN  [count |-> count, origin |-> origin, mean |-> mean,
            m2 |-> Plus(s.m2, Times(delta, Minus(x, mean)))]

(* The variance; stdev is its root. *)
StatisticDone(s, population) ==
  LET denominator == IF population THEN s.count ELSE s.count - 1
  IN  IF denominator <= 0 THEN <<0, 1>> ELSE Times(s.m2, <<1, denominator>>)

(* ------------------------- buildschema ---------------------------------- *)
(* schemaNode: the kinds of the values seen at one place, in the order first *)
(* seen, the schemas of their properties and that of their elements.         *)
NoSchema == [order |-> <<>>, keys |-> <<>>, fields |-> [x \in {} |-> 0],
             indexer |-> {}, nodes |-> 0]

Note(n, kind) ==
  IF kind \in ToSet(n.order) THEN n ELSE [n EXCEPT !.order = Append(@, kind)]

(* Merges a value into a schema; indexer holds the schema of the elements    *)
(* once there is an array. nodes counts the values merged.                   *)
RECURSIVE SchemaAdd(_, _)
SchemaAdd(node, v) ==
  LET n == [node EXCEPT !.nodes = @ + 1]
      AddField(m, x) ==
        LET field == SchemaAdd(IF x \in DOMAIN m.fields THEN m.fields[x]
                               ELSE NoSchema, v[2][x])
            before == IF x \in DOMAIN m.fields THEN m.fields[x].nodes ELSE 0
        IN  [m EXCEPT !.keys = IF x \in ToSet(@) THEN @ ELSE Append(@, x),
                      !.fields = [y \in DOMAIN @ \cup {x} |->
                                    IF y = x THEN field ELSE @[y]],
                      !.nodes = @ + field.nodes - before]
      AddItem(m, x) ==
        LET item == CHOOSE i \in m.indexer : TRUE
            merged == SchemaAdd(item, x)
        IN  [m EXCEPT !.indexer = {merged},
                      !.nodes = @ + merged.nodes - item.nodes]
      array == Note(n, "array")
  IN  CASE Is("null", v) -> n
        [] Is("bag", v) -> FoldLeft(AddField, Note(n, "object"),
                                    SetToSortSeq(DOMAIN v[2], TextBefore))
        [] Is("arr", v) ->
             FoldLeft(AddItem,
                      IF n.indexer # {} THEN array
                      ELSE [array EXCEPT !.indexer = {NoSchema}], v[2])
        [] OTHER -> Note(n, v[1])

SchemaStep(root, v) ==
  IF v = NULL THEN Acc(root)
  ELSE IF SchemaAdd(root, v).nodes > maxSchemaNodes THEN Error
  ELSE Acc(SchemaAdd(root, v))

(* write: a single kind is written alone, several as an array of them. *)
RECURSIVE SchemaWrite(_)
SchemaWrite(n) ==
  LET seen == SelectSeq(n.keys, LAMBDA x : n.fields[x].order # <<>>)
      Elements(i) == IF i.order = <<>> THEN Null ELSE SchemaWrite(i)
      Part(kind) ==
        CASE kind = "object" ->
               <<"object", [x \in ToSet(seen) |-> SchemaWrite(n.fields[x])]>>
          [] kind = "array" ->
               <<"indexer", Elements(CHOOSE i \in n.indexer : TRUE)>>
          [] OTHER -> <<"type", kind>>
      parts == [i \in DOMAIN n.order |-> Part(n.order[i])]
  IN  IF Len(parts) = 1 THEN parts[1] ELSE <<"any", parts>>

SchemaDone(root) == IF root.order = <<>> THEN NULL ELSE SchemaWrite(root)
-----------------------------------------------------------------------------
(* The aggregate a of a group: what it starts with and does with a row.      *)
StartOf(a) ==
  CASE a.of \in {"list", "collection"} -> <<>>
    [] a.of = "bag" -> Empty
    [] a.of = "distinct" -> {}
    [] a.of = "bits" -> NULL
    [] a.of = "statistic" -> NoStatistic
    [] a.of = "schema" -> NoSchema

StepOf(a, state, v) ==
  CASE a.of = "list" -> Result(CollectStep(state, v, a.kind, a.distinct, a.nulls,
                                           collectLimit(a.limit)))
    [] a.of = "collection" -> Acc(CollectionStep(state, v, a.distinct))
    [] a.of = "bag" -> BagStep(state, v, a.limit)
    [] a.of = "distinct" -> DistinctStep(state, v)
    [] a.of = "bits" -> Result(BitwiseStep(state, v, a.operation))
    [] a.of = "statistic" -> Acc(StatisticStep(state, v))
    [] a.of = "schema" -> SchemaStep(state, v)
-----------------------------------------------------------------------------
(* What the result of a group must be, whatever the order of its rows.       *)

(* The values added to a list or a set: those of the arrays one by one.      *)
Collected(rows, nulls) ==
  LET Of(v) == CASE v = NULL -> <<Null>>
                 [] Is("arr", v) -> v[2]
                 [] OTHER -> <<v>>
      Kept(v) == SelectSeq(Of(v), LAMBDA x : nulls \/ v = Null \/ x # Null)
  IN  FoldLeft(LAMBDA s, v : s \o Kept(v), <<>>, rows)

Occurrences(s, x) == Cardinality({i \in DOMAIN s : s[i] = x})

(* A list holds values of the rows, as often as they occur and as many as    *)
(* fit; a set holds each of them once.                                       *)
CollectLaw(rows, values, distinct, nulls, limit) ==
  LET all == Collected(rows, nulls)
      most == IF distinct THEN Cardinality(ToSet(all)) ELSE Len(all)
  IN  /\ Len(values) = Min({most, limit})
      /\ \A x \in ToSet(values) :
           Occurrences(values, x) <=
             IF distinct THEN 1 ELSE Occurrences(all, x)

(* Rows that do not fit leave the collection short, but never too long, and  *)
(* a value that would still fit has not been passed over.                    *)
CollectionLaw(rows, values, distinct) ==
  /\ Bytes(values) <= maxCollectionBytes
  /\ \A x \in ToSet(rows) \ {NULL} :
       \/ x \in ToSet(values)
       \/ Len(values) = maxCollectionValues
       \/ Bytes(values) + Len(Json(x)) > maxCollectionBytes
  /\ distinct => IsInjective(values)

(* A bag has the names of the rows, as many as fit, each with the value of   *)
(* the first row that has it.                                                *)
BagLaw(rows, bag, maximum) ==
  LET bags == SelectSeq(rows, LAMBDA v : Is("bag", v))
      names == UNION {DOMAIN v[2] : v \in ToSet(bags)}
      First(x) == bags[Min({i \in DOMAIN bags : x \in DOMAIN bags[i][2]})]
  IN  /\ Cardinality(DOMAIN bag) = Min({Cardinality(names), maximum})
      /\ \A x \in DOMAIN bag : x \in names /\ bag[x] = First(x)[2][x]

(* Bit by bit: set in all of the rows, in some, in an odd number of them.    *)
BitwiseLaw(rows, acc, operation) ==
  LET numbers == SelectSeq(rows, LAMBDA v : v # NULL)
      Ones(k) == Cardinality({i \in DOMAIN numbers :
                                k \in BitsOf(numbers[i][2])})
      Set(k) == CASE operation = "and" -> Ones(k) = Len(numbers)
                  [] operation = "or" -> Ones(k) > 0
                  [] operation = "xor" -> Ones(k) % 2 = 1
  IN  CASE numbers = <<>> -> acc = NULL
        [] OTHER -> BitsOf(acc[2]) = {k \in 0..Width - 1 : Set(k)}

(* The moments about the mean, from sums over all rows at once.              *)
StatisticLaw(rows, s) ==
  LET x == SelectSeq(rows, LAMBDA v : Is("num", v))
      n == Len(x)
      sum == FoldLeft(LAMBDA t, v : t + v[2], 0, x)
      squares == FoldLeft(LAMBDA t, v : t + v[2] * v[2], 0, x)
  IN  /\ s.count = n
      /\ n > 0 => SameFraction(StatisticDone(s, TRUE),
                               <<n * squares - sum * sum, n * n>>)
      /\ n > 1 => SameFraction(StatisticDone(s, FALSE),
                               <<n * squares - sum * sum, n * (n - 1)>>)

RECURSIVE Conforms(_, _)
Conforms(v, schema) ==
  CASE v \in {NULL, Null} -> TRUE
    [] schema \in {NULL, Null} -> FALSE
    [] OTHER ->
         CASE schema[1] = "type" -> Is(schema[2], v)
           [] schema[1] = "object" ->
                /\ Is("bag", v)
                /\ \A x \in DOMAIN v[2] :
                     Conforms(v[2][x], IF x \in DOMAIN schema[2]
                                       THEN schema[2][x] ELSE NULL)
           [] schema[1] = "indexer" ->
                Is("arr", v) /\ \A x \in ToSet(v[2]) : Conforms(x, schema[2])
           [] schema[1] = "any" ->
                \E i \in DOMAIN schema[2] : Conforms(v, schema[2][i])

(* Every row conforms to the schema, which has no kind that occurs in no row.*)
SchemaLaw(rows, root) ==
  /\ \A v \in ToSet(rows) : Conforms(v, SchemaDone(root))
  /\ \A kind \in ToSet(root.order) :
       \E v \in ToSet(rows) :
         v[1] = CASE kind = "object" -> "bag" [] kind = "array" -> "arr"
                  [] OTHER -> kind
=============================================================================
