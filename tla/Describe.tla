------------------------------- MODULE Describe -------------------------------
(***************************************************************************)
(* What describe_fixed and describe_multi list of a layout: every field     *)
(* that is no filler, a group before its fields, with its path, its place,  *)
(* the type of its column and what it repeats by (fixedformat-core/src/     *)
(* describe.rs and the producers in table/describe_fixed.rs and             *)
(* describe_multi.rs).  A path is the sequence of the names.                *)
(***************************************************************************)
EXTENDS Arrow

(* base_sql_type: a precision that no column has is shown as the largest.   *)
BaseSqlType(f) ==
    CASE IsGroup(f) -> Scalar("struct")
      [] f.kind.k \in {"decimal", "edited"} ->
            DecimalOf(Min({MaxPrecision, Max({1, f.kind.precision})}), f.kind.scale)
      [] OTHER -> LeafType(f.kind)

SqlType(f) == IF f.occurs # Once \/ IsTable(f) THEN ListOf(BaseSqlType(f)) ELSE BaseSqlType(f)

FieldDesc(f, path, base) ==
    [path |-> path, kind |-> f.kind, type |-> SqlType(f), offset |-> base + f.offset, width |-> f.width,
     occurs |-> f.occurs, controller |-> f.controller]

RECURSIVE Walk(_, _, _)

(* Slip of Walk: the fields of a group are placed within the group.        *)
WalkInGroup(fields, prefix, base) ==
    LET rowsOf(f) ==
            LET path == Append(prefix, f.name)
            IN  IF IsPad(f) THEN <<>>
                ELSE <<FieldDesc(f, path, base)>> \o IF IsGroup(f) THEN Walk(f.kind.fields, path, 0) ELSE <<>>
    IN  FlattenSeq([i \in 1 .. Len(fields) |-> rowsOf(fields[i])])

(* The fields that begin at a base, below a prefix. *)
Walk(fields, prefix, base) ==
    LET rowsOf(f) ==
            LET path == Append(prefix, f.name)
            IN  IF IsPad(f) THEN <<>>
                ELSE <<FieldDesc(f, path, base)>>
                     \o IF IsGroup(f) THEN Walk(f.kind.fields, path, base + f.offset) ELSE <<>>
    IN  FlattenSeq([i \in 1 .. Len(fields) |-> rowsOf(fields[i])])

(* One record type after the other. *)
DescribeMulti(variants) ==
    FlattenSeq([i \in 1 .. Len(variants) |->
        LET listed == Walk(variants[i].layout, <<>>, 0)
        IN  [k \in 1 .. Len(listed) |-> [tag |-> variants[i].tag, row |-> listed[k]]]])
=============================================================================
