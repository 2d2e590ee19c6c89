-------------------------------- MODULE Arrow --------------------------------
(***************************************************************************)
(* The columns that DuckDB sees: the type a field has as a column, decoded *)
(* values as an array of that type and one row of an array as a value      *)
(* again (arrow_map.rs and value_in.rs in fixedformat-worker), and the     *)
(* sparse union of several record types (read_multi.rs).  Rows are counted *)
(* from one.  A list keeps all its elements in one child array and the     *)
(* offset where each row's begin; a struct has a child array a field.      *)
(***************************************************************************)
EXTENDS Codec

MaxPrecision == 38   \* MAX_DECIMAL_PRECISION
MaxVariants  == 127  \* MAX_VARIANTS

Scalar(t)      == [t |-> t]
ListOf(item)   == [t |-> "list", item |-> item]
StructOf(fs)   == [t |-> "struct", fields |-> fs]   \* a sequence of <<name, type>>
DecimalOf(p, s) == [t |-> "decimal", precision |-> p, scale |-> s]

Columns(fields) == SelectSeq(fields, LAMBDA f : ~IsPad(f))

(* base_type of a kind that is neither a group nor a decimal. *)
LeafType(kind) ==
    CASE kind.k \in {"text", "hex"}   -> Scalar("text")
      [] kind.k \in {"int", "binary"} -> Scalar("int")
      [] kind.k = "float" -> Scalar(IF kind.bits = 64 THEN "double" ELSE "float")
      [] kind.k = "bool"  -> Scalar("bool")
      [] kind.k = "pad"   -> Scalar("null")
      [] kind.k = "datetime" -> Scalar(kind.is)

RECURSIVE ColumnType(_), StructType(_)

BaseType(f) ==
    CASE f.kind.k = "group" -> StructType(f.kind.fields)
      [] f.kind.k \in {"decimal", "edited"} ->
            IF f.kind.precision > MaxPrecision THEN Err
            ELSE Ok(DecimalOf(Max({1, f.kind.precision}), f.kind.scale))
      [] OTHER -> Ok(LeafType(f.kind))

ColumnType(f) ==
    Then(BaseType(f), LAMBDA t : Ok(IF f.occurs # Once \/ IsTable(f) THEN ListOf(t) ELSE t))

(* The fields of a layout or a group as columns. *)
StructType(fields) ==
    LET cols  == Columns(fields)
        types == [i \in 1 .. Len(cols) |-> ColumnType(cols[i])]
    IN  IF \E i \in 1 .. Len(cols) : ~IsOk(types[i]) THEN Err
        ELSE Ok(StructOf([i \in 1 .. Len(cols) |-> <<cols[i].name, types[i].ok>>]))

-----------------------------------------------------------------------------
(* build_array *)

(* A value in a column of this type. *)
Cell(ty, v) ==
    LET of(tags) == IF v = Null \/ \E tag \in tags : Is(v, tag) THEN Ok(v) ELSE Err
    IN  CASE ty.t = "text" -> Ok(IF v = Null THEN Null ELSE TextVal(DisplayScalar(v)))
          [] ty.t = "int"  -> IF Is(v, "dec") THEN (IF v.scale = 0 THEN Ok(IntVal(v.dec)) ELSE Err)
                              ELSE of({"int"})
          [] ty.t \in {"float", "double"} ->
                IF Is(v, "int") THEN Ok(FloatVal(FloatOfInt(v.int))) ELSE of({"float"})
          [] ty.t = "bool" -> of({"bool"})
          [] ty.t = "decimal" -> IF Is(v, "dec") \/ Is(v, "int")
                                 THEN Ok(DecVal(AsDecimal(v, ty.scale).ok, ty.scale)) ELSE of({})
          [] ty.t = "date" -> of({"date"})
          [] ty.t = "time" -> of({"time"})
          [] ty.t = "timestamp" -> of({"stamp"})
          [] OTHER -> Err

(* Where each row's elements begin, and the last end.  Slip: a row's end   *)
(* does not count those before it.                                         *)
OffsetsOwn(lengths) == [i \in 1 .. Len(lengths) + 1 |-> IF i = 1 THEN 0 ELSE lengths[i - 1]]
Offsets(lengths) ==
    [i \in 1 .. Len(lengths) + 1 |-> FoldLeft(LAMBDA n, x : n + x, 0, SubSeq(lengths, 1, i - 1))]

RECURSIVE BuildArray(_, _)

BuildList(ty, col) ==
    LET items(v) == IF Is(v, "list") THEN v.list ELSE <<>>
        rows     == [i \in 1 .. Len(col) |-> items(col[i])]
    IN  IF \E i \in 1 .. Len(col) : col[i] # Null /\ ~Is(col[i], "list") THEN Err
        ELSE Then(BuildArray(ty.item, FlattenSeq(rows)),
                  LAMBDA child : Ok([ty      |-> ty,
                                     valid   |-> [i \in 1 .. Len(col) |-> col[i] # Null],
                                     offsets |-> Offsets([i \in 1 .. Len(col) |-> Len(rows[i])]),
                                     child   |-> child]))

(* A NULL struct is NULL in every field. *)
BuildStruct(ty, col) ==
    LET field(v, name) == IF v = Null THEN Null ELSE Lookup(v.struct, name)
        child(k) == BuildArray(ty.fields[k][2],
                               [i \in 1 .. Len(col) |-> field(col[i], ty.fields[k][1])])
    IN  IF \/ \E i \in 1 .. Len(col) : col[i] # Null /\ ~Is(col[i], "struct")
           \/ \E k \in 1 .. Len(ty.fields) : ~IsOk(child(k))
        THEN Err
        ELSE Ok([ty       |-> ty,
                 valid    |-> [i \in 1 .. Len(col) |-> col[i] # Null],
                 children |-> [k \in 1 .. Len(ty.fields) |-> child(k).ok]])

BuildArray(ty, col) ==
    CASE ty.t = "list"   -> BuildList(ty, col)
      [] ty.t = "struct" -> BuildStruct(ty, col)
      [] OTHER ->
            IF \E i \in 1 .. Len(col) : ~IsOk(Cell(ty, col[i])) THEN Err
            ELSE Ok([ty |-> ty, cells |-> [i \in 1 .. Len(col) |-> Cell(ty, col[i]).ok]])

(* value_at: one row of an array. *)
RECURSIVE ValueAt(_, _)
ValueAt(array, row) ==
    CASE array.ty.t \notin {"list", "struct"} -> array.cells[row]
      [] array.ty.t = "list" ->
            IF ~array.valid[row] THEN Null
            ELSE LET from == array.offsets[row]
                 IN  ListVal([i \in 1 .. array.offsets[row + 1] - from |-> ValueAt(array.child, from + i)])
      [] array.ty.t = "struct" ->
            IF ~array.valid[row] THEN Null
            ELSE StructVal([k \in 1 .. Len(array.ty.fields) |->
                               <<array.ty.fields[k][1], ValueAt(array.children[k], row)>>])

-----------------------------------------------------------------------------
(* A union of record types.  A row of one is [which, value]: the number of  *)
(* its variant and a struct or NULL.                                        *)

(* union_fields: a struct for each variant, named by its tag. *)
UnionFields(variants) ==
    LET types == [i \in 1 .. Len(variants) |-> StructType(variants[i].layout)]
    IN  IF Len(variants) > MaxVariants \/ \E i \in 1 .. Len(variants) : ~IsOk(types[i]) THEN Err
        ELSE Ok([i \in 1 .. Len(variants) |-> <<variants[i].tag, types[i].ok>>])

(* Every variant's child has a place for every row, NULL where another is   *)
(* active.                                                                  *)
BuildUnion(uf, rows) ==
    LET child(k) == BuildArray(uf[k][2], [i \in 1 .. Len(rows) |->
                                             IF rows[i].which = k THEN rows[i].value ELSE Null])
    IN  IF \E k \in 1 .. Len(uf) : ~IsOk(child(k)) THEN Err
        ELSE Ok([fields   |-> uf,
                 types    |-> [i \in 1 .. Len(rows) |-> rows[i].which],
                 children |-> [k \in 1 .. Len(uf) |-> child(k).ok]])

(* union_at: the tag of a row and its pairs, none for NULL. *)
UnionAt(union, row) ==
    LET which == union.types[row]
        v     == ValueAt(union.children[which], row)
    IN  [tag |-> union.fields[which][1], pairs |-> IF v = Null THEN <<>> ELSE v.struct]
=============================================================================
