---------------------------- MODULE FieldColumns ----------------------------
(* The fields of a dataset and the columns of a table, from the pairs of a   *)
(* path and a type that fieldDiscovery of internal/ingest comes across: the  *)
(* type recorded for a path, the catalogue stored for a dataset, its merge   *)
(* over the datasets of a table in internal/database and the columns that    *)
(* internal/api publishes. A field path is the sequence of its steps, by     *)
(* name (.key) or in brackets (["key"]).                                     *)
EXTENDS Integers, Sequences, FiniteSets

CONSTANTS
  Identifiers,  \* the keys that are KQL identifiers
  Lower         \* [key -> the key in lower case]

ASSUME ColumnsAssumption ==
  "RawData" \in Identifiers /\ Identifiers \subseteq DOMAIN Lower

Named(key) == <<"name", key>>
Quoted(key) == <<"bracket", key>>

appendFieldPath(path, key) ==
  LET root == IF path = <<>> /\ key \notin Identifiers
              THEN <<Named("RawData")>> ELSE path
  IN  Append(root, IF key \in Identifiers THEN Named(key) ELSE Quoted(key))

MergedType(existing, observed) ==
  CASE existing = "null" -> observed
    [] existing # "null" /\ observed \in {"null", existing} -> existing
    [] OTHER -> "mixed"

recordField(fields, path, observed) ==
  [p \in DOMAIN fields \cup {path} |->
     CASE p # path -> fields[p]
       [] p = path /\ path \in DOMAIN fields ->
            MergedType(fields[path], observed)
       [] OTHER -> observed]

-----------------------------------------------------------------------------
ReservedNames == {"timegenerated", "source", "rawdata"}

(* The root columns among the paths, and those whose name another one takes. *)
RootNames(paths) == {key \in Identifiers : <<Named(key)>> \in paths}

Collide(key, names) ==
  \E other \in names \ {key} : Lower[other] = Lower[key]

(* catalogueFields: the roots that cannot be columns go below RawData.       *)
BlockedRoots(paths) ==
  {key \in RootNames(paths) :
     Lower[key] \in ReservedNames \/ Collide(key, RootNames(paths))}

CataloguePath(path, blocked) ==
  IF \E key \in blocked : path[1] = Named(key)
  THEN <<Named("RawData"), Quoted(path[1][2])>> \o Tail(path)
  ELSE path

catalogueFields(fields) ==
  LET Stored(path) == CataloguePath(path, BlockedRoots(DOMAIN fields))
  IN  [path \in {Stored(p) : p \in DOMAIN fields} |->
        fields[CHOOSE p \in DOMAIN fields : Stored(p) = path]]

(* The fields of a table whose datasets have these catalogues. *)
TypesOf(catalogues, path) ==
  {c[path] : c \in {d \in catalogues : path \in DOMAIN d}}

ListFieldGroups(catalogues) ==
  [path \in UNION {DOMAIN c : c \in catalogues} |->
    IF Cardinality(TypesOf(catalogues, path)) = 1
    THEN CHOOSE type \in TypesOf(catalogues, path) : TRUE ELSE "mixed"]

(* The columns of the table, by name. *)
logicalFields(fields) ==
  LET names == RootNames(DOMAIN fields)
  IN  [key \in {k \in names : Lower[k] \notin ReservedNames
                                /\ ~Collide(k, names)} |->
        fields[<<Named(key)>>]]

Columns(catalogues) == logicalFields(ListFieldGroups(catalogues))

-----------------------------------------------------------------------------
(* What the types and columns are to be.                                     *)

(* A type that the records agree on; a null does not disagree. *)
CommonType(types) ==
  CASE types \subseteq {"null"} -> "null"
    [] \E type \in types : types \ {"null"} = {type} ->
         CHOOSE type \in types : types \ {"null"} = {type}
    [] OTHER -> "mixed"

(* The columns of a table do not depend on the order of its datasets: a      *)
(* column has the type all the datasets that have it agree on, and only a    *)
(* name that collides with that of another column is left out.               *)
ColumnsLaw(catalogues) ==
  LET columns == Columns(catalogues)
      names == UNION {RootNames(DOMAIN c) : c \in catalogues}
      Types(key) == TypesOf(catalogues, <<Named(key)>>)
  IN  /\ DOMAIN columns = {key \in names : ~Collide(key, names)}
      /\ \A key \in DOMAIN columns :
           IF columns[key] = "mixed"
           THEN "mixed" \in Types(key) \/ Cardinality(Types(key)) > 1
           ELSE Types(key) = {columns[key]}
=============================================================================
