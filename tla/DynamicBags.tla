---------------------------- MODULE DynamicBags ----------------------------
(* The functions on bags (JSON objects) and on arrays taken as sets:         *)
(* kql_pack.go, kql_bag_operations.go, kql_sets.go and the paths, keys and   *)
(* membership of sqlite_functions.go. A bag is a function from names to      *)
(* values. The limits on bytes and on work are left out.                     *)
EXTENDS DynamicValues

CONSTANTS
  maxBagPathBytes, maxBagPathDepth,  \* the longest path, and its most names
  maxSetKeyDepth, maxSetValues       \* the deepest element and most elements


With(f, name, v) ==
  [x \in DOMAIN f \cup {name} |-> IF x = name THEN v ELSE f[x]]

kqlPackArray(kinds, values) ==
  IF Len(values) \notin 1..64 \/ Len(kinds) # Len(values)
  THEN Error
  ELSE Arr([i \in DOMAIN values |-> packJSONValue(values[i], kinds[i])])

(* kinds are those of the values, which alternate with their names. *)
kqlBagPack(kinds, values) ==
  LET Name(i) == values[2 * i - 1]
      Add(r, i) ==
        IF \/ ~Is("str", Name(i))
           \/ Is("str", Name(i)) /\ Name(i)[2] \in DOMAIN r[2]
        THEN Error
        ELSE Bag(With(r[2], Name(i)[2], packJSONValue(values[2 * i], kinds[i])))
  IN  IF Len(kinds) \notin 1..64 \/ Len(values) # 2 * Len(kinds)
      THEN Error
      ELSE UntilFailure(Add, Bag(Empty), [i \in DOMAIN kinds |-> i])
-----------------------------------------------------------------------------
(* A path is read as <<TRUE, names>>, or it is Invalid. *)
Invalid == <<FALSE>>

Dollar == 36
Dot == 46
Backslash == 92
Bracket == <<91, 93>>
Quotes == {34, 39}

isBagIdentifierStart(c) == c \in 65..90 \cup 97..122 \cup {95}
isBagIdentifierContinue(c) == isBagIdentifierStart(c) \/ c \in 48..57

(* The name a text between quotes stands for. Of the escapes of JSON, those  *)
(* of control characters and code points are left out.                       *)
decodeBagQuotedProperty(t, quote) ==
  LET Read(r, c) ==
        CASE ~r.ok -> r
          [] r.ok /\ r.escaped ->
               IF c \in {34, 47, Backslash} \/ (c = quote /\ c = 39)
               THEN [r EXCEPT !.escaped = FALSE, !.name = Append(@, c)]
               ELSE [r EXCEPT !.ok = FALSE]
          [] OTHER -> IF c = Backslash THEN [r EXCEPT !.escaped = TRUE]
                      ELSE [r EXCEPT !.name = Append(@, c)]
      end == FoldLeft(Read, [ok |-> TRUE, escaped |-> FALSE, name |-> <<>>], t)
  IN  IF end.ok /\ ~end.escaped THEN <<TRUE, end.name>> ELSE Invalid

(* Where the first quote that no backslash escapes is in a text, or 0. *)
ClosingQuote(t, quote) ==
  LET Escapes(k) == Max({n \in 0..k-1 : \A j \in k-n..k-1 : t[j] = Backslash})
      ends == {k \in DOMAIN t : t[k] = quote /\ Escapes(k) % 2 = 0}
  IN  IF ends = {} THEN 0 ELSE Min(ends)

RECURSIVE PathFrom(_, _)
PathFrom(t, names) ==
  LET Rest(n) == SubSeq(t, n + 1, Len(t))
      word == Max({n \in 0..Len(t) - 1 :
                     \A i \in 2..n + 1 : isBagIdentifierContinue(t[i])})
      close == ClosingQuote(Rest(2), t[2])
      quoted == decodeBagQuotedProperty(SubSeq(t, 3, close + 1), t[2])
  IN  CASE t = <<>> -> IF names = <<>> THEN Invalid ELSE <<TRUE, names>>
        [] t # <<>> /\ Len(names) >= maxBagPathDepth -> Invalid
        [] OTHER ->
             CASE t[1] = Dot ->
                    IF word = 0 \/ ~isBagIdentifierStart(t[2])
                    THEN Invalid
                    ELSE PathFrom(Rest(word + 1),
                                  Append(names, SubSeq(t, 2, word + 1)))
               [] t[1] = Bracket[1] ->
                    IF \/ Len(t) < 2
                       \/ t[2] \notin Quotes
                       \/ close = 0
                       \/ Len(t) < close + 3
                       \/ t[close + 3] # Bracket[2]
                       \/ ~quoted[1]
                    THEN Invalid
                    ELSE PathFrom(Rest(close + 3), Append(names, quoted[2]))
               [] OTHER -> Invalid

parseBagPath(t) ==
  CASE t = <<Dollar>> -> <<TRUE, <<>>>>
    [] t = <<>> \/ t[1] # Dollar -> Invalid
    [] OTHER -> PathFrom(Tail(t), <<>>)

(* What a key names: a path when it starts with $, else one property. *)
KeyPath(key) ==
  IF key # <<>> /\ key[1] = Dollar THEN parseBagPath(key) ELSE <<TRUE, <<key>>>>

UsablePath(key) ==
  Len(key) <= maxBagPathBytes /\ KeyPath(key) \notin {Invalid, <<TRUE, <<>>>>}

RECURSIVE HasPath(_, _)
HasPath(v, path) ==
  \/ path = <<>>
  \/ /\ Is("bag", v)
     /\ path[1] \in DOMAIN v[2]
     /\ HasPath(v[2][path[1]], Tail(path))

kqlBagHasKey(v, key) ==
  LET At(path) == IF path = Invalid THEN NULL ELSE Bool(HasPath(v, path[2]))
  IN  IF \/ ~Is("bag", v) \/ ~Is("str", key)
         \/ Len(key[2]) > maxBagPathBytes
      THEN NULL
      ELSE At(KeyPath(key[2]))

kqlBagKeys(v) ==
  IF ~Is("bag", v) THEN NULL
  ELSE LET names == SetToSortSeq(DOMAIN v[2], TextBefore)
       IN  Arr([i \in DOMAIN names |-> Str(names[i])])

kqlArrayLength(v) == IF Is("arr", v) THEN Num(Len(v[2])) ELSE NULL
-----------------------------------------------------------------------------
(* The first value of a name wins. *)
kqlBagMerge(values) ==
  LET Merge(r, v) ==
        OfBag(v, LAMBDA f :
          LET merged == [x \in DOMAIN f \cup DOMAIN r[2] |->
                           IF x \in DOMAIN r[2] THEN r[2][x] ELSE f[x]]
          IN  IF Cardinality(DOMAIN merged) > maxReplacementParts
              THEN Error ELSE Bag(merged))
  IN  IF Len(values) \notin 2..64 THEN Error
      ELSE UntilFailure(Merge, Bag(Empty), values)

(* bagRemoval: the paths to remove as the prefixes in its tree. A path stops *)
(* at a prefix that is already removed.                                      *)
Removal(tree, path) ==
  LET Prefix(n) == SubSeq(path, 1, n)
      last == Min({Len(path)} \cup
                  {n \in DOMAIN path : Prefix(n) \in tree.removed})
  IN  [nodes |-> tree.nodes \cup {Prefix(n) : n \in 1..last},
       removed |-> tree.removed \cup {Prefix(last)}]

RECURSIVE removeBagProperties(_, _)
removeBagProperties(f, removed) ==
  [x \in DOMAIN f \ {p[1] : p \in {q \in removed : Len(q) = 1}} |->
     IF Is("bag", f[x])
     THEN Bag(removeBagProperties(f[x][2],
                {Tail(p) : p \in {q \in removed : q[1] = x}}))
     ELSE f[x]]

kqlBagRemoveKeys(v, keys) ==
  OfBag(v, LAMBDA f :
    IF \/ ~Is("arr", keys)
       \/ Len(keys[2]) > maxReplacementParts
       \/ \E i \in DOMAIN keys[2] :
            ~Is("str", keys[2][i]) \/ ~UsablePath(keys[2][i][2])
    THEN Error
    ELSE LET tree == FoldLeft(LAMBDA t, k : Removal(t, KeyPath(k[2])[2]),
                              [nodes |-> {}, removed |-> {}], keys[2])
         IN  IF Cardinality(tree.nodes) > maxReplacementParts THEN Error
             ELSE Bag(removeBagProperties(f, tree.removed)))

RECURSIVE setBagProperty(_, _, _)
setBagProperty(f, path, v) ==
  LET key == path[1]
      nested == IF key \in DOMAIN f THEN f[key] ELSE Bag(Empty)
      inner == CASE Len(path) = 1 -> v
                 [] Len(path) > 1 /\ ~Is("bag", nested) -> Error
                 [] OTHER -> setBagProperty(nested[2], Tail(path), v)
  IN  IF \/ inner = Error
         \/ Cardinality(DOMAIN f \cup {key}) > maxReplacementParts
      THEN Error
      ELSE Bag(With(f, key, inner))

kqlBagSetKey(v, key, replacement, kind) ==
  OfBag(v, LAMBDA f :
    IF ~Is("str", key) \/ (Is("str", key) /\ ~UsablePath(key[2]))
    THEN Error
    ELSE setBagProperty(f, KeyPath(key[2])[2],
                        packJSONValue(replacement, kind)))

(* Names that are no texts are passed over, those without a value are null.  *)
kqlBagZip(keys, valuesValue) ==
  OfArray(keys, LAMBDA names :
    LET values == OfArray(valuesValue, LAMBDA e : Arr(e))
        At(i) == IF Is("arr", values) /\ i <= Len(values[2])
                 THEN values[2][i] ELSE Null
        Add(r, i) ==
          CASE ~Is("str", names[i]) -> r
            [] OTHER -> IF names[i][2] \in DOMAIN r[2] THEN Error
                        ELSE Bag(With(r[2], names[i][2], At(i)))
    IN  IF values = Error THEN Error
        ELSE UntilFailure(Add, Bag(Empty), [i \in DOMAIN names |-> i]))
-----------------------------------------------------------------------------
RECURSIVE Depth(_)
Depth(v) ==
  LET children == CASE Is("arr", v) -> ToSet(v[2])
                    [] Is("bag", v) -> {v[2][x] : x \in DOMAIN v[2]}
                    [] OTHER -> {}
  IN  IF children = {} THEN 0 ELSE 1 + Max({Depth(c) : c \in children})

(* The elements of an array, each once, in the order they first occur.       *)
(* setValueKey gives two values one key when they are the same value.        *)
Distinct(e) ==
  FoldLeft(LAMBDA r, x : IF x \in ToSet(r) THEN r ELSE Append(r, x), <<>>, e)

readDynamicSet(v) ==
  OfArray(v, LAMBDA e :
    IF \E x \in ToSet(e) : Depth(x) > maxSetKeyDepth THEN Error
    ELSE Arr(Distinct(e)))

kqlSetOperation(operation, values) ==
  LET Combine(r, current) ==
        LET In(x) == x \in ToSet(current[2])
            union == Distinct(r[2] \o current[2])
        IN  CASE Failed(current) -> current
              [] operation = "set_union" /\ ~Failed(current) ->
                   IF Len(union) > maxReplacementParts THEN Error
                   ELSE Arr(union)
              [] operation = "set_intersect" /\ ~Failed(current) ->
                   Arr(SelectSeq(r[2], In))
              [] operation = "set_difference" /\ ~Failed(current) ->
                   Arr(SelectSeq(r[2], LAMBDA x : ~In(x)))
      From(first) ==
        IF Failed(first) THEN first
        ELSE UntilFailure(LAMBDA r, v : Combine(r, readDynamicSet(v)),
                          first, Tail(values))
  IN  IF Len(values) \notin 2..64 THEN Error
      ELSE From(readDynamicSet(values[1]))

(* F of two arrays as the sets of their elements. *)
OfSets(a, b, F(_, _)) ==
  LET Of(left, right) ==
        CASE Failed(left) -> left
          [] ~Failed(left) /\ Failed(right) -> right
          [] OTHER -> F(ToSet(left[2]), ToSet(right[2]))
  IN  Of(readDynamicSet(a), readDynamicSet(b))

kqlSetEquals(a, b) == OfSets(a, b, LAMBDA s, t : Bool(s = t))

(* A fraction, as the pair of its numerator and denominator. *)
kqlJaccardIndex(a, b) ==
  OfSets(a, b, LAMBDA s, t :
    IF s \cup t = {} THEN Error
    ELSE <<"real", Cardinality(s \cap t), Cardinality(s \cup t)>>)

(* A value of SQL is an element when it is the same scalar; a Boolean counts *)
(* as the number 1 or 0.                                                     *)
kqlSetHasElement(v, element) ==
  LET Scalar(x) == IF Is("bool", x) THEN Num(IF x[2] THEN 1 ELSE 0) ELSE x
      scalars == {Scalar(x) : x \in {y \in ToSet(v[2]) :
                                       y[1] \notin {"null", "arr", "bag"}}}
  IN  IF \/ ~Is("arr", v)
         \/ element[1] \notin {"str", "num"}
         \/ Len(v[2]) > maxSetValues
      THEN NULL
      ELSE Bool(element \in scalars)
-----------------------------------------------------------------------------
(* The elements of both are those of one and the rest of it, as sets.        *)
SameSet(x, y) == kqlSetEquals(x, y) = Bool(TRUE)

PartsLaw(a, b, union, common, rest) ==
  /\ SameSet(union, kqlSetOperation("set_union", <<b, a>>))
  /\ SameSet(common, kqlSetOperation("set_intersect", <<b, a>>))
  /\ SameSet(a, kqlSetOperation("set_union", <<common, rest>>))
  /\ ToSet(common[2]) \cap ToSet(rest[2]) = {}
  /\ union[2] # <<>> =>
       kqlJaccardIndex(a, b) = <<"real", Len(common[2]), Len(union[2])>>

(* Union, intersection and difference are those of sets, whatever the order  *)
(* and repetition of the elements, and taking several arrays at once is      *)
(* taking them one by one.                                                   *)
SetLaws(a, b, c) ==
  LET Op(operation, values) == kqlSetOperation(operation, values)
  IN  ~Failed(Op("set_union", <<a, b>>)) =>
        /\ PartsLaw(a, b, Op("set_union", <<a, b>>),
                    Op("set_intersect", <<a, b>>),
                    Op("set_difference", <<a, b>>))
        /\ \A operation \in {"set_union", "set_intersect", "set_difference"} :
             Op(operation, <<a, b, c>>)
               = Op(operation, <<Op(operation, <<a, b>>), c>>)

HasKey(bag, key) == kqlBagHasKey(bag, Str(key)) = Bool(TRUE)

Without(bag, keys) ==
  kqlBagRemoveKeys(bag, Arr([i \in DOMAIN keys |-> Str(keys[i])]))

Apart(p, q) == ~IsPrefix(p, q) /\ ~IsPrefix(q, p)

SetKeyLaw(v, set, key, other, x) ==
  ~Failed(set) =>
    /\ HasKey(set, key)
    /\ kqlBagSetKey(set, Str(key), x, "dynamic") = set
    /\ Len(KeyPath(key)[2]) = 1 => Without(set, <<key>>) = Without(v, <<key>>)
    /\ UsablePath(other) /\ Apart(KeyPath(key)[2], KeyPath(other)[2]) =>
         HasKey(set, other) = HasKey(v, other)

RemoveLaw(v, removed, key, other) ==
  ~Failed(removed) =>
    /\ ~HasKey(removed, key) /\ ~HasKey(removed, other)
    /\ removed = Without(v, <<other, key>>)
    /\ removed = Without(Without(v, <<key>>), <<other>>)

ZippedAgain(bag, keys) ==
  kqlBagZip(keys, Arr([i \in DOMAIN keys[2] |-> bag[2][keys[2][i][2]]])) = bag

MergeLaw(v, merged) ==
  ~Failed(merged) =>
    /\ \A name \in DOMAIN v[2] : merged[2][name] = v[2][name]
    /\ kqlBagMerge(<<merged, v>>) = merged
    /\ ZippedAgain(merged, kqlBagKeys(merged))

(* A property that is set is there, with its value and nothing else changed; *)
(* one that is removed is gone, whatever the order of the keys; a merge keeps*)
(* the first value of every name, and what is zipped from its keys and their *)
(* values is the same bag.                                                   *)
BagLaws(v, w, key, other, x) ==
  /\ SetKeyLaw(v, kqlBagSetKey(v, Str(key), x, "dynamic"), key, other, x)
  /\ RemoveLaw(v, Without(v, <<key, other>>), key, other)
  /\ MergeLaw(v, kqlBagMerge(<<v, w>>))
=============================================================================
