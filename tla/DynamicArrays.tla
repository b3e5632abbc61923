--------------------------- MODULE DynamicArrays ---------------------------
(* The other functions on dynamic arrays: kql_array_operations.go (concat,   *)
(* zip, split, sum, repeat), kql_array_iff.go, kql_array_search.go,          *)
(* kql_sorting.go (array_sort) and kql_scalar_range.go. The limits on bytes  *)
(* are left out, and a real number is an integer whose finite values are     *)
(* those up to MaxInt.                                                       *)
EXTENDS DynamicValues, ArrayMoves

CONSTANTS
  maxScalarRangeElements  \* the most numbers of a range

kqlArrayConcat(values) ==
  IF Len(values) \notin 1..64
  THEN Error
  ELSE UntilFailure(LAMBDA r, v :
         CASE ~Is("arr", v) -> NULL
           [] Is("arr", v) /\ Len(r[2] \o v[2]) > maxReplacementParts -> Error
           [] OTHER -> Arr(r[2] \o v[2]), Arr(<<>>), values)

(* Row i holds element i of every array, null beyond the end of one. *)
kqlZip(values) ==
  IF Len(values) \notin 2..64
  THEN Error
  ELSE LET Read(r, v) ==
             CASE ~Is("arr", v) -> NULL
               [] Is("arr", v) /\ Len(v[2]) * Len(values) > maxReplacementParts
                    -> Error
               [] OTHER -> Arr(Append(r[2], v[2]))
           arrays == UntilFailure(Read, Arr(<<>>), values)
           rows == Max({0} \cup {Len(arrays[2][i]) : i \in DOMAIN arrays[2]})
           Cell(a, i) == IF i <= Len(a) THEN a[i] ELSE Null
       IN  IF Failed(arrays) THEN arrays
           ELSE Arr([i \in 1..rows |->
                       Arr([k \in DOMAIN values |-> Cell(arrays[2][k], i)])])

(* Segments between ascending split points, the last up to the end. *)
kqlArraySplit(v, indicesValue) ==
  OfArray(v, LAMBDA e :
    LET indices == IF Is("num", indicesValue)
                   THEN Arr(<<indicesValue>>) ELSE indicesValue
        Point(i) == LET n == indices[2][i][2]
                    IN  IF n < 0 THEN Wrap(n + Len(e)) ELSE n
    IN  IF \/ ~Is("arr", indices)
           \/ Len(indices[2]) >= maxReplacementParts
           \/ \E i \in DOMAIN indices[2] :
                \/ ~Is("num", indices[2][i])
                \/ Point(i) \notin 0..Len(e)
                \/ i > 1 /\ Point(i) < Point(i - 1)
        THEN Error
        ELSE LET m == Len(indices[2])
                 Cut(i) == CASE i = 0 -> 0
                             [] i \in 1..m -> Point(i)
                             [] OTHER -> Len(e)
                 Segment(i) == Arr(SubSeq(e, Cut(i - 1) + 1, Cut(i)))
             IN  Arr([i \in 1..m + 1 |-> Segment(i)]))

(* An element that is no number makes the sum null, wherever it is; a sum    *)
(* that leaves the finite reals at any element is an error.                  *)
kqlArraySum(v) ==
  OfArray(v, LAMBDA e :
    LET SumTo(k) == FoldLeft(LAMBDA s, x : s + x[2], 0, SubSeq(e, 1, k))
    IN  CASE \E i \in DOMAIN e : ~Is("num", e[i]) -> NULL
          [] (\A i \in DOMAIN e : Is("num", e[i]))
               /\ \E k \in DOMAIN e : SumTo(k) \notin -MaxInt..MaxInt -> Error
          [] OTHER -> Num(SumTo(Len(e))))

kqlRepeat(v, countValue, kind) ==
  CASE ~Is("num", countValue) -> NULL
    [] Is("num", countValue) /\ countValue[2] < 0 -> NULL
    [] countValue = Num(0) -> Arr(<<>>)
    [] OTHER -> IF countValue[2] > maxReplacementParts \/ kind = "datetime"
                THEN Error
                ELSE Arr([i \in 1..countValue[2] |-> packJSONValue(v, kind)])

arrayCondition(c) ==
  CASE Is("bool", c) -> c[2]
    [] Is("num", c) -> c[2] # 0

kqlArrayIff(v, whenTrue, whenFalse, trueKind, falseKind) ==
  OfArray(v, LAMBDA e :
    LET Branch(value, kind) == packJSONValue(value, kind)
        TooLong(value, kind) ==
          /\ kind = "dynamic"
          /\ Is("arr", value)
          /\ Len(value[2]) > maxReplacementParts
        At(b, kind, i) ==
          IF kind = "dynamic" /\ Is("arr", b)
          THEN IF i <= Len(b[2]) THEN b[2][i] ELSE Null
          ELSE b
        Element(i) ==
          CASE ~Is("bool", e[i]) /\ ~Is("num", e[i]) -> Null
            [] Is("bool", e[i]) \/ Is("num", e[i]) ->
                 IF arrayCondition(e[i])
                 THEN At(Branch(whenTrue, trueKind), trueKind, i)
                 ELSE At(Branch(whenFalse, falseKind), falseKind, i)
    IN  IF TooLong(whenTrue, trueKind) \/ TooLong(whenFalse, falseKind)
        THEN Error
        ELSE Arr([i \in DOMAIN e |-> Element(i)]))

(* Where the occurrence-th element equal to the value looked up is, within   *)
(* length elements from start (-1: up to the end of the array).              *)
kqlArrayIndexOf(v, lookup, kind, start, length, occurrence) ==
  OfArray(v, LAMBDA e :
    LET needle == packJSONValue(lookup, kind)
        first == IF start < 0 THEN Wrap(start + Len(e)) ELSE start
        last == IF length >= 0 /\ length < Len(e) - first
                THEN first + length ELSE Len(e)
        found == {i \in first..last - 1 : e[i + 1] = needle}
        nth == {i \in found :
                  Cardinality({j \in found : j <= i}) = occurrence}
    IN  CASE length < -1 \/ occurrence < 0 -> NULL
          [] length >= -1 /\ occurrence = 0 -> Error
          [] OTHER ->
               CASE lookup = NULL -> NULL
                 [] kind = "datetime" -> Error
                 [] OTHER ->
                      CASE needle[1] \in {"null", "arr", "bag"} -> Error
                        [] first < 0 -> NULL
                        [] OTHER -> Num(IF nth = {} THEN -1 ELSE Min(nth)))

kqlSetHasElementTyped(v, lookup, kind) ==
  LET index == kqlArrayIndexOf(v, lookup, kind, 0, -1, 1)
  IN  IF Failed(index) THEN index ELSE Bool(index[2] >= 0)
-----------------------------------------------------------------------------
(* Numbers before texts before everything else, which is ordered by its JSON.*)
sortRank(v) == CASE Is("num", v) -> 0 [] Is("str", v) -> 1 [] OTHER -> 2

compareJSON(a, b) ==
  \/ sortRank(a) < sortRank(b)
  \/ /\ sortRank(a) = sortRank(b)
     /\ CASE Is("num", a) -> a[2] < b[2]
          [] Is("str", a) -> TextBefore(a[2], b[2])
          [] OTHER -> TextBefore(Json(a), Json(b))

(* The permutation that sorts an array: stable, the nulls at one end.        *)
SortOrder(e, descending, nullsLast) ==
  LET Less(i, j) ==
        CASE e[i] = Null \/ e[j] = Null ->
               e[i] # e[j] /\ (e[j] = Null) = nullsLast
          [] OTHER -> IF descending THEN compareJSON(e[j], e[i])
                      ELSE compareJSON(e[i], e[j])
      Before(i, j) == Less(i, j) \/ (~Less(j, i) /\ i < j)
  IN  SetToSortSeq(DOMAIN e, Before)

(* array_sort_asc and _desc: the first array is sorted and the others follow *)
(* its permutation; an array of another length becomes null. A last argument *)
(* that is a number says whether the nulls come last.                        *)
kqlArraySort(values, descending) ==
  LET flagged == Len(values) > 1 /\ Is("num", Last(values))
      nullsLast == flagged => Last(values)[2] # 0
      arrays == IF flagged THEN Front(values) ELSE values
      e == IF Is("arr", arrays[1]) THEN arrays[1][2] ELSE <<>>
      Result(v, order) ==
        IF Is("arr", v) /\ Len(v[2]) = Len(order)
        THEN Arr([i \in DOMAIN order |-> v[2][order[i]]])
        ELSE Null
      Results(order) ==
        IF Len(arrays) = 1 THEN Result(arrays[1], order)
        ELSE Arr([i \in DOMAIN arrays |-> Result(arrays[i], order)])
  IN  CASE ~Is("arr", arrays[1]) /\ arrays[1] # Null -> NULL
        [] Len(e) > maxCollectionValues -> NULL
        [] OTHER -> Results(SortOrder(e, descending, nullsLast))

(* The numbers from current to stop; the last one before an overflow ends it.*)
RECURSIVE RangeFrom(_, _, _, _)
RangeFrom(current, stop, step, room) ==
  CASE room = 0 \/ (step > 0 /\ current > stop) \/ (step < 0 /\ current < stop)
         -> <<>>
    [] OTHER ->
         IF \/ current = stop
            \/ step > 0 /\ current > Wrap(MaxInt - step)
            \/ step < 0 /\ current < Wrap(MinInt - step)
         THEN <<Num(current)>>
         ELSE <<Num(current)>>
                \o RangeFrom(Wrap(current + step), stop, step, room - 1)

(* range of numbers, of timespans and of datetimes, as ticks. *)
kqlScalarRange(start, stop, step) ==
  CASE ~(Is("num", start) /\ Is("num", stop) /\ Is("num", step)) -> NULL
    [] OTHER -> IF step[2] = 0 THEN NULL
                ELSE Arr(RangeFrom(start[2], stop[2], step[2],
                                   maxScalarRangeElements))
-----------------------------------------------------------------------------
(* An array that is cut and put together again, moved there and back, or     *)
(* turned over twice is the array it was, at every count and index an int64  *)
(* can hold; and where an element ends up is where the documentation of the  *)
(* language puts it.                                                         *)
ArrayLaws(v, n, m) ==
  LET e == v[2]
      split == kqlArraySplit(v, Num(n))
      parts == kqlArraySplit(v, Arr(<<Num(n), Num(m)>>))
      found == kqlArrayIndexOf(v, Num(n), "int", m, -1, 1)
  IN  /\ kqlArrayReverse(kqlArrayReverse(v)) = v
      /\ split # Error => kqlArrayConcat(split[2]) = v
      /\ parts # Error =>
           kqlArrayConcat(parts[2]) = v /\ Len(parts[2]) = 3
      /\ SliceLaw(v, n, m)
      /\ RotateLaw(v, n)
      /\ ShiftLaw(v, n, Num(0), "int")
      /\ found \notin {NULL, Num(-1)} =>
           /\ e[found[2] + 1] = Num(n)
           /\ kqlSetHasElementTyped(v, Num(n), "int") = Bool(TRUE)
           /\ kqlArraySlice(v, found, found) = Arr(<<Num(n)>>)

(* Sorting permutes the arrays alike, keeps equal elements in their order,   *)
(* puts the nulls where they are asked for, and turning the order around     *)
(* turns the elements around; transposing twice only pads.                   *)
SortedLaw(e, s, order, descending, nullsLast) ==
  LET Ordered(x, y) ==
        CASE x = Null \/ y = Null ->
               (nullsLast /\ y = Null) \/ (~nullsLast /\ x = Null)
          [] OTHER -> ~(IF descending THEN compareJSON(x, y)
                        ELSE compareJSON(y, x))
  IN  /\ {order[i][2] : i \in DOMAIN order} = DOMAIN e
      /\ \A i \in DOMAIN e : s[i] = e[order[i][2]]
      /\ \A i, j \in DOMAIN e :
           i < j => IF s[i] = s[j] THEN order[i][2] < order[j][2]
                    ELSE Ordered(s[i], s[j])

TransposedLaw(v, zipped) ==
  zipped # Error /\ Len(v[2]) > 1 => kqlZip(zipped[2])[2][1] = v

SortLaws(v, descending, nullsLast) ==
  LET Sorted(arrays) ==
        SortedLaw(v[2], arrays[1][2], arrays[2][2], descending, nullsLast)
      places == Arr([i \in DOMAIN v[2] |-> Num(i)])
      flag == Num(IF nullsLast THEN 1 ELSE 0)
  IN  Len(v[2]) <= maxCollectionValues =>
        /\ Sorted(kqlArraySort(<<v, places, flag>>, descending)[2])
        /\ TransposedLaw(v, kqlZip(<<v, Arr(<<Num(0)>>)>>))

(* Bins are what BinLaw says, and a range holds every number of its          *)
(* progression up to its end, its length or the end of the integers.         *)
ProgressionLaws(x, y, step) ==
  LET range == kqlScalarRange(Num(x), Num(y), Num(step))
      Within(n) == IsInt64(n) /\ IF step > 0 THEN n <= y ELSE n >= y
  IN  /\ BinLaw(x, step, y)
      /\ step # 0 =>
           range[2] = [i \in 1..Cardinality({k \in 0..maxScalarRangeElements - 1 :
                                                Within(x + k * step)})
                         |-> Num(x + (i - 1) * step)]
=============================================================================
