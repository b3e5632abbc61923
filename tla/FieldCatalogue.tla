--------------------------- MODULE FieldCatalogue ---------------------------
(* The fields of the imported records: fieldDiscovery of internal/ingest,    *)
(* which catalogues the paths and types of a dataset while its records are   *)
(* read (see FieldColumns) and parses the JSON it finds inside texts.        *)
(*                                                                           *)
(* A text that holds the JSON of an array or object is <<"text", value>>, a  *)
(* number with a fraction is <<"fraction">>.                                 *)
EXTENDS DynamicValues, FieldColumns

CONSTANTS
  fieldDiscoverySampleRecords,
  MaxNesting    \* discovery and normalization stop at this depth, 32

ASSUME CatalogueAssumption == MaxNesting \in Nat

Text(v) == <<"text", v>>
Fraction == <<"fraction">>

(* The step from an array to its elements, in a path of embedded JSON. *)
Element == <<"element">>

fieldType(v) ==
  CASE Is("null", v) -> "null"
    [] Is("bool", v) -> "bool"
    [] Is("num", v) -> "long"
    [] Is("fraction", v) -> "real"
    [] Is("str", v) \/ Is("text", v) -> "string"
    [] Is("arr", v) \/ Is("bag", v) -> "dynamic"

(* A text found at this depth is catalogued as what it holds. *)
resultFieldType(v, depth) ==
  IF Is("text", v) /\ depth < MaxNesting THEN "dynamic" ELSE fieldType(v)

-----------------------------------------------------------------------------
(* The pairs of path and type that discoverResult, and discover within a     *)
(* parsed text, hand to recordField. Arrays are searched, not catalogued.    *)
RECURSIVE Observed(_, _, _)
Observed(v, path, depth) ==
  CASE depth >= MaxNesting -> {}
    [] depth < MaxNesting /\ Is("text", v) -> Observed(v[2], path, depth + 1)
    [] depth < MaxNesting /\ Is("bag", v) ->
         UNION {{<<appendFieldPath(path, key),
                   resultFieldType(v[2][key], depth + 1)>>}
                  \cup Observed(v[2][key], appendFieldPath(path, key),
                                depth + 1) : key \in DOMAIN v[2]}
    [] OTHER -> {}

(* The embedded paths they find: the nodes of embeddedPathNode that are      *)
(* embedded. The value inside a text shares the node of that text.           *)
RECURSIVE EmbeddedPaths(_, _)
EmbeddedPaths(v, depth) ==
  LET Under(step, child) ==
        {<<step>> \o path : path \in EmbeddedPaths(child, depth + 1)}
  IN  CASE depth >= MaxNesting -> {}
        [] depth < MaxNesting /\ Is("text", v) ->
             {<<>>} \cup EmbeddedPaths(v[2], depth + 1)
        [] depth < MaxNesting /\ Is("arr", v) ->
             UNION {Under(Element, v[2][i]) : i \in DOMAIN v[2]}
        [] depth < MaxNesting /\ Is("bag", v) ->
             UNION {Under(Named(key), v[2][key]) : key \in DOMAIN v[2]}
        [] OTHER -> {}

Below(paths, step) ==
  {Tail(path) : path \in {p \in paths : p # <<>> /\ p[1] = step}}

(* Texts at the known paths are replaced by the values they hold. *)
RECURSIVE normalizeKnownEmbeddedJSON(_, _, _)
normalizeKnownEmbeddedJSON(v, paths, depth) ==
  LET w == IF <<>> \in paths /\ Is("text", v) THEN v[2] ELSE v
      Inside(child, step) ==
        IF Below(paths, step) = {} THEN child
        ELSE normalizeKnownEmbeddedJSON(child, Below(paths, step), depth + 1)
  IN  CASE depth >= MaxNesting -> v
        [] depth < MaxNesting /\ Is("arr", w) ->
             Arr([i \in DOMAIN w[2] |-> Inside(w[2][i], Element)])
        [] depth < MaxNesting /\ Is("bag", w) ->
             Bag([key \in DOMAIN w[2] |-> Inside(w[2][key], Named(key))])
        [] OTHER -> w

-----------------------------------------------------------------------------
(* An import. count records have been read; a key set is compared exactly.   *)
newFieldDiscovery ==
  [count |-> 0, fields |-> Empty, keySets |-> {}, paths |-> {}, stored |-> <<>>]

(* Mutant: nothing is discovered after the sample. *)
OnlySample(d, record) == d.count < fieldDiscoverySampleRecords

(* fullDiscovery: the records of the sample, and the first of a key set. *)
InFull(d, record) ==
  \/ d.count < fieldDiscoverySampleRecords
  \/ DOMAIN record[2] \notin d.keySets

(* prepareParsedEvent, with the discovery or with the paths known so far. *)
Import(d, record) ==
  LET full == InFull(d, record)
      found == IF full THEN EmbeddedPaths(record, 0) ELSE {}
      paths == d.paths \cup found
      Recorded(fields, pair) == recordField(fields, pair[1], pair[2])
  IN  [count |-> d.count + 1,
       keySets |-> d.keySets \cup {DOMAIN record[2]},
       paths |-> paths,
       fields |-> IF full
                  THEN FoldLeft(Recorded, d.fields,
                                SetToSeq(Observed(record, <<>>, 0)))
                  ELSE d.fields,
       stored |-> Append(d.stored,
                         IF full /\ found = {} THEN record
                         ELSE normalizeKnownEmbeddedJSON(record, paths, 0))]

Discovered(records) == FoldLeft(Import, newFieldDiscovery, records)

-----------------------------------------------------------------------------
(* What the catalogue is to say, from the records alone.                     *)

(* The value with every text in it parsed. *)
RECURSIVE Parsed(_, _)
Parsed(v, depth) ==
  CASE depth >= MaxNesting -> v
    [] depth < MaxNesting /\ Is("text", v) -> Parsed(v[2], depth + 1)
    [] depth < MaxNesting /\ Is("arr", v) ->
         Arr([i \in DOMAIN v[2] |-> Parsed(v[2][i], depth + 1)])
    [] depth < MaxNesting /\ Is("bag", v) ->
         Bag([key \in DOMAIN v[2] |-> Parsed(v[2][key], depth + 1)])
    [] OTHER -> v

(* What a path reads in a record: {} if there is nothing, and otherwise the  *)
(* set of that one value.                                                    *)
Read(record, path) ==
  LET keys == [i \in DOMAIN path |-> path[i][2]]
      steps == IF keys[1] = "RawData" THEN Tail(keys) ELSE keys
      Into(found, key) ==
        UNION {IF Is("bag", v) /\ key \in DOMAIN v[2] THEN {v[2][key]} ELSE {}
                 : v \in found}
  IN  FoldLeft(Into, {record}, steps)

FullRecords(records) ==
  {i \in DOMAIN records :
     \/ i <= fieldDiscoverySampleRecords
     \/ \A j \in 1..i-1 : DOMAIN records[j][2] # DOMAIN records[i][2]}

(* The catalogue of an import does not depend on the order of the records    *)
(* that were searched: every path reads something, its type is the one its   *)
(* values agree on, no root key of any record and no key within a searched   *)
(* one is missing, and no column has a name that is another column's or a    *)
(* system column's. A record with a key RawData is set aside: the paths      *)
(* below it are spelled like those of other keys in brackets.                *)
CatalogueLaw(records) ==
  LET catalogue == catalogueFields(Discovered(records).fields)
      Values(path) == UNION {Read(Parsed(records[i], 0), path)
                               : i \in FullRecords(records)}
      Keys(i) == DOMAIN records[i][2]
      Spelled(key) == IF key \in Identifiers THEN Named(key) ELSE Quoted(key)
      names == RootNames(DOMAIN catalogue)
  IN  /\ \A i \in DOMAIN records : \A key \in Keys(i) :
           \/ <<Named(key)>> \in DOMAIN catalogue
           \/ <<Named("RawData"), Quoted(key)>> \in DOMAIN catalogue
           \/ \E j \in DOMAIN records : "RawData" \in Keys(j)
      /\ (\A i \in DOMAIN records : "RawData" \notin Keys(i)) =>
           /\ \A path \in DOMAIN catalogue :
                /\ Values(path) # {}
                /\ catalogue[path] =
                     CommonType({fieldType(v) : v \in Values(path)})
                /\ \A v \in Values(path) : Is("bag", v) =>
                     \A key \in DOMAIN v[2] :
                       Append(path, Spelled(key)) \in DOMAIN catalogue
      /\ \A key \in names : Lower[key] \notin ReservedNames
                              /\ ~Collide(key, names)
      /\ \A i \in DOMAIN records : \A key \in Keys(i) \cap names :
           ~Collide(key, UNION {Keys(j) \cap Identifiers
                                  : j \in DOMAIN records})

(* What is stored of a record is the same data: fully parsed if the record   *)
(* was searched, and otherwise at every path that a record searched before   *)
(* it had JSON at.                                                           *)
StoredLaw(records) ==
  LET d == Discovered(records)
      Known(i) == UNION {EmbeddedPaths(records[j], 0)
                           : j \in FullRecords(records) \cap 1..i-1}
  IN  \A i \in DOMAIN records :
        /\ i \in FullRecords(records) =>
             d.stored[i] = Parsed(records[i], 0)
        /\ Parsed(d.stored[i], 0) = Parsed(records[i], 0)
        /\ EmbeddedPaths(d.stored[i], 0) \cap Known(i) = {}

(* The catalogues of the datasets of a table. *)
Catalogues(datasets) ==
  {catalogueFields(Discovered(datasets[i]).fields) : i \in DOMAIN datasets}

(* The reading of README.md:166: a root key that differs only by case from   *)
(* another one of the table's records is no column of the table.             *)
CollidingKeysOmitted(datasets) ==
  LET keys == UNION {UNION {DOMAIN datasets[i][j][2] \cap Identifiers
                              : j \in DOMAIN datasets[i]}
                       : i \in DOMAIN datasets}
  IN  \A key \in DOMAIN Columns(Catalogues(datasets)) : ~Collide(key, keys)
=============================================================================
