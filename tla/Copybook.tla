------------------------------ MODULE Copybook ------------------------------
(***************************************************************************)
(* Reading a COBOL copybook (fixedformat-core/src/copybook.rs): statements *)
(* become items of a tree by their level numbers, and the lists of         *)
(* siblings of the tree, inner ones first, become the fields of a layout.  *)
(*                                                                         *)
(* A statement is a record [level, name, clauses]; a clause is a record    *)
(* [is, what], OCCURS ... DEPENDING ON being two of them, and a picture is *)
(* the sequence of its symbols with the repetitions written out.  Items    *)
(* are known by their number in the text, 0 stands above the roots.  The   *)
(* recursion of layout_nodes is a stack of frames, one for each list of    *)
(* siblings that is being laid out.  Names are compared as they are.       *)
(***************************************************************************)
EXTENDS Integers, SequencesExt

CONSTANTS
    Texts,      \* the copybooks that may be read, sequences of statements
    MaxDepth,   \* MAX_NESTING_DEPTH
    NoName,     \* the value of a clause that is not written
    Once        \* the number of occurrences without an OCCURS clause

ASSUME DepthAssumption == MaxDepth \in Nat

(* The statements that may be read, the level and the count of each being  *)
(* numbers and its picture the characters of one.                          *)
Entries == UNION {Range(t) : t \in Texts}

ASSUME TextsAssumption ==
    /\ \A t \in Texts : t \in Seq(Range(t))
    /\ \A e \in Entries :
          /\ e.level \in Nat
          /\ e.clauses \in Seq(Range(e.clauses))
          /\ \A c \in Range(e.clauses) : /\ c.is = "occurs" => c.what \in Nat
                                         /\ c.is = "pic"    => c.what \in Seq(STRING)

VARIABLES
    text,       \* the statements not read yet
    items,      \* the items of the tree, in the order of the text
    parents,    \* the number of each item's parent
    path,       \* the items from a root to the last one read
    phase,      \* "tree", "fields", "done" or "failed"
    frames,     \* the lists of siblings being laid out, the innermost last
    layout      \* the fields of the record

vars == <<text, items, parents, path, phase, frames, layout>>

-----------------------------------------------------------------------------
(* Statements *)

(* Whatever follows a VALUE clause is not looked at. *)
Heard(s) == {k \in DOMAIN s.clauses : \A j \in 1 .. k : s.clauses[j].is # "value"}

(* The last clause of a kind counts. *)
Said(s, kind, default) ==
    LET at == {k \in Heard(s) : s.clauses[k].is = kind}
    IN  IF at = {} THEN default ELSE s.clauses[Max(at)].what

Item(s) ==
    [level      |-> s.level,
     name       |-> s.name,
     pic        |-> Said(s, "pic", <<>>),
     usage      |-> Said(s, "usage", "display"),
     occurs     |-> Said(s, "occurs", Once),
     controller |-> Said(s, "depending", NoName),
     redefines  |-> Said(s, "redefines", NoName),
     sign       |-> Said(s, "sign", "embedded"),
     sync       |-> Said(s, "sync", FALSE)]

-----------------------------------------------------------------------------
(* Pictures *)

Editing == {"Z", "*", ",", "/", "B", "0", ".", "$", "+", "-", "CR", "DB"}
Symbols == {"X", "A", "9", "S", "V", "P"} \cup Editing

Where(pic, symbols) == {i \in DOMAIN pic : pic[i] \in symbols}
Count(pic, symbols) == Cardinality(Where(pic, symbols))

(* A digit after the point; every P is one, as if it stood after it. *)
Fraction(pic) ==
    Cardinality({i \in Where(pic, {"9", "Z", "*"}) : \E j \in Where(pic, {"V", "."}) : j < i})
    + Count(pic, {"P"})

(* A run of a sign or of a currency symbol floats over one digit less. *)
RunOf(pic, c) == Max({0, Count(pic, {c}) - 1})
Floating(pic) == RunOf(pic, "$") + RunOf(pic, "+") + RunOf(pic, "-")

Digits(pic) == Count(pic, {"9", "Z", "*", "P"}) + Floating(pic)

IsText(pic)   == Where(pic, {"X", "A"}) # {}
IsEdited(pic) == Where(pic, Editing) # {}
IsSigned(pic) == Where(pic, {"S", "+", "-", "CR", "DB"}) # {}

ImageWidth(pic) == Count(pic, Symbols \ {"S", "V", "P"}) + Count(pic, {"CR", "DB"})

(* An item without a picture, or with one of unknown or mixed symbols, is  *)
(* refused.                                                                *)
Readable(item) ==
    /\ item.pic # <<>>
    /\ Where(item.pic, Symbols) = DOMAIN item.pic
    /\ IsText(item.pic) => Digits(item.pic) = 0 /\ ~IsEdited(item.pic)

SignOf(item) == IF IsSigned(item.pic) THEN item.sign ELSE "unsigned"

CompWidth(digits) == CASE digits <= 4 -> 2 [] digits \in 5 .. 9 -> 4 [] OTHER -> 8

Decimal(repr, digits, scale, sign) ==
    [k |-> "decimal", repr |-> repr, precision |-> digits, scale |-> scale, sign |-> sign]

(* What the bytes of an elementary item hold. *)
KindOf(item) ==
    LET digits == Digits(item.pic)
        scale  == Fraction(item.pic)
        sign   == SignOf(item)
    IN  CASE IsText(item.pic) -> [k |-> "text", justify |-> "left", pad |-> 32]
          [] IsEdited(item.pic) /\ item.usage = "display" ->
                [k |-> "edited", precision |-> Max({1, digits}), scale |-> scale,
                 signed |-> IsSigned(item.pic), mask |-> item.pic]
          [] item.usage = "comp" /\ ~IsText(item.pic) ->
                [k |-> "binary", endian |-> "big", signed |-> IsSigned(item.pic)]
          [] item.usage = "comp3" /\ ~IsText(item.pic) ->
                Decimal("packed", digits, scale, "embedded")
          [] OTHER ->
                IF sign = "embedded" THEN Decimal("zoned", digits, scale, sign)
                ELSE IF scale = 0 THEN [k |-> "int", signed |-> sign # "unsigned", sign |-> sign]
                ELSE Decimal("display", digits, scale, sign)

WidthOf(item) ==
    LET kind   == KindOf(item)
        digits == Digits(item.pic)
    IN  CASE kind.k = "text"   -> Count(item.pic, {"X", "A"})
          [] kind.k = "edited" -> ImageWidth(item.pic)
          [] kind.k = "binary" -> CompWidth(digits)
          [] item.usage = "comp3" /\ kind.k = "decimal" -> digits \div 2 + 1
          [] OTHER -> digits + (IF SignOf(item) \in {"leading", "trailing"} THEN 1 ELSE 0)

-----------------------------------------------------------------------------
(* Fields *)

Times(f) == IF f.occurs = Once THEN 1 ELSE f.occurs
TotalWidth(f) == f.width * Times(f)

(* A table that depends on a field reserves no place.  Slip: every field   *)
(* reserves one occurrence.                                                *)
ReservedOnce(f) == IF f.controller # NoName THEN 0 ELSE f.width
Reserved(f) == IF f.controller # NoName THEN 0 ELSE TotalWidth(f)

RecordLen == Max({0} \cup {layout[i].offset + Reserved(layout[i]) : i \in DOMAIN layout})

Known(fields, name) == \E i \in DOMAIN fields : fields[i].name = name

(* Where a redefined name stands: the last field of that name counts. *)
OffsetOf(fields, name) ==
    fields[Max({i \in DOMAIN fields : fields[i].name = name})].offset

(* The field that holds the place a field redefines: the last one before   *)
(* it of that name which redefines nothing itself, 0 without one.          *)
BaseOf(fields, j) ==
    Max({0} \cup {i \in 1 .. j - 1 : /\ fields[i].redefines = NoName
                                     /\ fields[i].name = fields[j].redefines})

Redefiners(fields, i) == {j \in DOMAIN fields : fields[j].redefines # NoName /\ BaseOf(fields, j) = i}

(* A member's place is counted from its group's; one below zero wraps in   *)
(* the code, as the sum that undoes it does.  Slip: from the record's.     *)
RebasedNot(f, by) == [f EXCEPT !.redefines = NoName]
Rebased(f, by) == [f EXCEPT !.offset = @ - by, !.redefines = NoName]

(* A group with a child of its own name counts as one made here before. *)
IsUnion(f) == f.kind.k = "group" /\ Known(f.kind.fields, f.name)

InOrder(S) == CHOOSE s \in [1 .. Cardinality(S) -> S] : \A i, j \in DOMAIN s : i < j => s[i] < s[j]

(* A field and all that redefine it, as one group of its name. *)
Union(fields, i) ==
    LET base    == fields[i]
        own     == IF IsUnion(base) THEN base.kind.fields ELSE <<Rebased(base, base.offset)>>
        others  == InOrder(Redefiners(fields, i))
        members == own \o [n \in DOMAIN others |-> Rebased(fields[others[n]], base.offset)]
    IN  [base EXCEPT !.width      = Max({TotalWidth(members[m]) : m \in DOMAIN members}),
                     !.kind       = [k |-> "group", fields |-> members],
                     !.occurs     = Once,
                     !.controller = NoName]

Folded(fields) ==
    LET kept == InOrder({i \in DOMAIN fields : fields[i].redefines = NoName \/ BaseOf(fields, i) = 0})
    IN  [n \in DOMAIN kept |-> IF Redefiners(fields, kept[n]) = {} THEN fields[kept[n]]
                               ELSE Union(fields, kept[n])]

-----------------------------------------------------------------------------
(* The tree *)

TypeOK ==
    /\ Len(parents) = Len(items)
    /\ \A i \in DOMAIN items : parents[i] \in 0 .. i - 1
    /\ path \in Seq(DOMAIN items)
    /\ phase \in {"tree", "fields", "done", "failed"}
    /\ \A f \in Range(frames) :
          /\ f.group \in {0} \cup DOMAIN items
          /\ f.rest \subseteq DOMAIN items
          /\ f.cursor \in Nat /\ f.end \in Nat
          /\ \A i \in DOMAIN f.fields : f.fields[i].offset \in Nat /\ f.fields[i].width \in Nat
    /\ \A i \in DOMAIN layout : layout[i].offset \in Nat

Init ==
    /\ text \in Texts
    /\ items = <<>> /\ parents = <<>> /\ path = <<>>
    /\ phase = "tree"
    /\ frames = <<>> /\ layout = <<>>

(* The items above one of this level: those read last of the same or a     *)
(* higher level are left.  Slip: one of the same level is kept.            *)
AboveOrBeside(level) == SubSeq(path, 1, Max({0} \cup {k \in DOMAIN path : items[path[k]].level <= level}))
Above(level) == SubSeq(path, 1, Max({0} \cup {k \in DOMAIN path : items[path[k]].level < level}))

(* The number of the item to come.  Slip: of the one before it. *)
NumberBehind == Len(items)
Number == Len(items) + 1

(* A condition name has no place in the record. *)
SkipCondition ==
    /\ phase = "tree" /\ text # <<>>
    /\ Head(text).level = 88
    /\ text' = Tail(text)
    /\ UNCHANGED <<items, parents, path, phase, frames, layout>>

AddItem ==
    /\ phase = "tree" /\ text # <<>>
    /\ Head(text).level # 88
    /\ LET above == Above(Head(text).level)
       IN  /\ items' = Append(items, Item(Head(text)))
           /\ parents' = Append(parents, IF above = <<>> THEN 0 ELSE Last(above))
           /\ path' = Append(above, Number)
    /\ text' = Tail(text)
    /\ UNCHANGED <<phase, frames, layout>>

Children(i) == {j \in DOMAIN items : parents[j] = i}

(* The children of a single root are the fields of the record. *)
Top == IF Cardinality(Children(0)) = 1 /\ \A i \in Children(0) : Children(i) # {}
       THEN CHOOSE i \in DOMAIN items : parents[i] = 0
       ELSE 0

Frame(group) ==
    [group |-> group, rest |-> Children(group), fields |-> <<>>, cursor |-> 0, end |-> 0]

EndTree ==
    /\ phase = "tree" /\ text = <<>>
    /\ phase' = "fields"
    /\ frames' = <<Frame(Top)>>
    /\ UNCHANGED <<text, items, parents, path, layout>>

-----------------------------------------------------------------------------
(* The fields *)

Working == phase = "fields"
Current == Last(frames)
Coming  == Min(Current.rest)

(* A synchronized binary item moves on to a multiple of its width.         *)
Aligned(cursor, item, kind, width) ==
    IF item.sync /\ item.redefines = NoName /\ kind.k = "binary"
    THEN cursor + ((width - (cursor % width)) % width)
    ELSE cursor

(* The frame after one more sibling of this kind and width. *)
Placed(frame, i, kind, width) ==
    LET item   == items[i]
        cursor == Aligned(frame.cursor, item, kind, width)
        field  == [name |-> item.name, width |-> width, kind |-> kind, occurs |-> item.occurs,
                   controller |-> item.controller, redefines |-> item.redefines,
                   offset |-> IF item.redefines = NoName THEN cursor
                              ELSE OffsetOf(frame.fields, item.redefines)]
        end    == field.offset + Reserved(field)
    IN  [frame EXCEPT !.rest   = @ \ {i},
                      !.fields = Append(@, field),
                      !.cursor = IF item.redefines = NoName THEN end ELSE cursor,
                      !.end    = Max({@, end})]

(* Groups may stand in each other MaxDepth times.  Slip: once less.        *)
TooDeepBy1 == Len(frames) >= MaxDepth
TooDeep    == Len(frames) > MaxDepth

TargetKnown(frame, i) == items[i].redefines # NoName => Known(frame.fields, items[i].redefines)

PlaceItem ==
    /\ Working /\ Current.rest # {}
    /\ Children(Coming) = {}
    /\ Readable(items[Coming])
    /\ TargetKnown(Current, Coming)
    /\ frames' = [frames EXCEPT ![Len(frames)] =
                     Placed(@, Coming, KindOf(items[Coming]), WidthOf(items[Coming]))]
    /\ UNCHANGED <<text, items, parents, path, phase, layout>>

EnterGroup ==
    /\ Working /\ Current.rest # {}
    /\ Children(Coming) # {}
    /\ ~TooDeep
    /\ frames' = Append(frames, Frame(Coming))
    /\ UNCHANGED <<text, items, parents, path, phase, layout>>

(* A group whose children have their places is placed itself. *)
LeaveGroup ==
    /\ Working /\ Current.rest = {} /\ Len(frames) > 1
    /\ LET outer == frames[Len(frames) - 1]
       IN  /\ TargetKnown(outer, Current.group)
           /\ frames' = Append(SubSeq(frames, 1, Len(frames) - 2),
                               Placed(outer, Current.group,
                                      [k |-> "group", fields |-> Folded(Current.fields)],
                                      Current.end))
    /\ UNCHANGED <<text, items, parents, path, phase, layout>>

Finish ==
    /\ Working /\ Current.rest = {} /\ Len(frames) = 1
    /\ layout' = Folded(Current.fields)
    /\ phase' = "done"
    /\ UNCHANGED <<text, items, parents, path, frames>>

(* No picture or none that is understood, a target that is not among the   *)
(* earlier siblings, and groups in groups beyond the limit are errors.     *)
Refuse ==
    /\ Working
    /\ \/ /\ Current.rest # {} /\ Children(Coming) = {}
          /\ ~Readable(items[Coming]) \/ ~TargetKnown(Current, Coming)
       \/ Current.rest # {} /\ Children(Coming) # {} /\ TooDeep
       \/ /\ Current.rest = {} /\ Len(frames) > 1
          /\ ~TargetKnown(frames[Len(frames) - 1], Current.group)
    /\ phase' = "failed"
    /\ UNCHANGED <<text, items, parents, path, frames, layout>>

Next == SkipCondition \/ AddItem \/ EndTree \/ PlaceItem \/ EnterGroup \/ LeaveGroup \/ Finish \/ Refuse

Spec == Init /\ [][Next]_vars

-----------------------------------------------------------------------------
(* Properties *)

(* The parent of an item is the last item before it with a smaller level    *)
(* number, whatever levels stand between them (build_tree).                 *)
NearestParent ==
    \A i \in DOMAIN items :
        parents[i] = Max({0} \cup {j \in 1 .. i - 1 :
                             /\ items[j].level < items[i].level
                             /\ \A k \in j + 1 .. i - 1 : items[k].level >= items[i].level})

(* Of two siblings that redefine nothing the later begins where the earlier *)
(* has ended, with every occurrence of it; one that redefines begins where  *)
(* an earlier field of that name does; no field ends beyond its list of     *)
(* siblings (layout_nodes).                                                 *)
Apart(fields) ==
    \A j \in DOMAIN fields :
        IF fields[j].redefines = NoName
        THEN \A i \in 1 .. j - 1 :
                fields[i].redefines = NoName /\ fields[i].controller = NoName
                    => fields[i].offset + TotalWidth(fields[i]) <= fields[j].offset
        ELSE \E i \in 1 .. j - 1 : /\ fields[i].name = fields[j].redefines
                                   /\ fields[i].offset = fields[j].offset

SiblingsApart ==
    \A f \in Range(frames) :
        /\ Apart(f.fields)
        /\ \A i \in DOMAIN f.fields :
              f.fields[i].controller = NoName => f.fields[i].offset + TotalWidth(f.fields[i]) <= f.end

(* The items that become fields, and the earlier ones that an item may      *)
(* redefine.                                                               *)
Written     == {i \in DOMAIN items : i # Top}
Siblings(i) == {j \in DOMAIN items : parents[j] = parents[i]}
Target(i)   == {j \in Siblings(i) : j < i /\ items[j].name = items[i].redefines}

(* The groups an item stands in, but for a single root. *)
Depth(i) ==
    LET d[j \in DOMAIN items] == IF parents[j] \in {0, Top} THEN 0 ELSE 1 + d[parents[j]]
    IN  d[i]

Cause(i) ==
    \/ Children(i) = {} /\ ~Readable(items[i])
    \/ items[i].redefines # NoName /\ Target(i) = {}
    \/ Depth(i) > MaxDepth

(* A copybook is refused for a cause that some item of it gives, and never  *)
(* read in spite of one, whatever the order its groups are gone through in *)
(* (layout_nodes, its errors).                                             *)
RefusedForCause ==
    /\ phase = "failed" => \E i \in Written : Cause(i)
    /\ phase = "done" => \A i \in Written : ~Cause(i)

-----------------------------------------------------------------------------
(* Where an item stands, told from the tree alone *)

Synchronized(i) == items[i].sync /\ Children(i) = {} /\ KindOf(items[i]).k = "binary"
InPlace(i)      == {j \in Siblings(i) : j < i /\ items[j].redefines = NoName}

EndFrom(i, start, size) == start + (IF items[i].controller # NoName THEN 0 ELSE size * Times(items[i]))

(* The first byte of each item among its siblings, given the sizes of all: *)
(* that of the item it redefines, or the one behind all that have a place  *)
(* of their own, if it is synchronized on a multiple of its width, counted *)
(* from its first sibling as the code counts it (SyncFromRecord says       *)
(* otherwise).                                                             *)
Starts(size) ==
    LET start[i \in DOMAIN items] ==
            IF items[i].redefines # NoName /\ Target(i) # {} THEN start[Max(Target(i))]
            ELSE LET end   == Max({0} \cup {EndFrom(j, start[j], size[j]) : j \in InPlace(i)})
                     width == WidthOf(items[i])
                 IN  IF Synchronized(i) THEN Min({p \in end .. end + width : p % width = 0}) ELSE end
    IN  start

(* The bytes of one occurrence; a group's end where the last member's do.  *)
Sizes ==
    LET size[i \in DOMAIN items] ==
            IF Children(i) = {} THEN WidthOf(items[i])
            ELSE Max({EndFrom(j, Starts(size)[j], size[j]) : j \in Children(i)})
    IN  size

Start(i) == Starts(Sizes)[i]
End(i)   == EndFrom(i, Start(i), Sizes[i])

(* A place is the name, the first byte and, unless it is a group's, the    *)
(* width of an item or a field.                                            *)
Moved(places, by) == {<<p[1], p[2] + by, p[3]>> : p \in places}

(* The places in a group of the tree, counted from its first byte.         *)
PlacesIn ==
    LET in[g \in 0 .. Len(items)] ==
            UNION {{<<items[i].name, Start(i), IF Children(i) = {} THEN Sizes[i] ELSE 0>>}
                       \cup Moved(in[i], Start(i)) : i \in Children(g)}
    IN  in

(* The fields of a layout with their first bytes: those that stand in no   *)
(* group, in one, in two, and so on.                                       *)
Standing(fields, at) == {<<fields[n], at + fields[n].offset>> : n \in DOMAIN fields}
IsGroup(f) == f.kind.k = "group"

Levels(fields) ==
    LET level[n \in Nat] ==
            IF n = 0 THEN Standing(fields, 0)
            ELSE UNION {Standing(p[1].kind.fields, p[2]) : p \in {q \in level[n - 1] : IsGroup(q[1])}}
    IN  level

(* Folding makes a group of each redefined item, so that a layout is       *)
(* nested up to twice as deep as its text.                                 *)
MaxLevel == 2 * MaxDepth + 1

LayoutPlaces ==
    {<<p[1].name, p[2], IF IsGroup(p[1]) THEN 0 ELSE p[1].width>> :
        p \in UNION {Levels(layout)[n] : n \in 0 .. MaxLevel}}

(* COBOL lets no item redefine one that depends on a field, and asks for a *)
(* name that tells which item it is.                                       *)
RedefinesOne(i) ==
    /\ items[i].controller = NoName
    /\ \A j \in Target(i) : /\ items[j].controller = NoName
                            /\ \A k \in Target(i) : k = j
                            /\ \A k \in Children(j) : items[k].name # items[j].name

(* No item of the text is lost, doubled, moved or resized by the folding of *)
(* redefined fields: each has the place that the tree gives it, and nothing *)
(* else holds bytes; the group made of a redefined item bears its name and *)
(* adds nothing else (fold_redefines).  A record is as long as the items   *)
(* of the text need, if what they redefine can be told.                    *)
PlacesRight ==
    phase = "done" =>
        /\ PlacesIn[Top] \subseteq LayoutPlaces
        /\ {p \in LayoutPlaces : p[3] > 0} \subseteq PlacesIn[Top]
        /\ Levels(layout)[MaxLevel + 1] = {}
        /\ (\A i \in Children(Top) : items[i].redefines # NoName => RedefinesOne(i))
               => RecordLen = Max({0} \cup {End(i) : i \in Children(Top)})

(* The items that stand in the record once, in groups that do not redefine. *)
StandsOnce ==
    LET once[i \in 0 .. Len(items)] ==
            i = Top \/ (items[i].redefines = NoName /\ items[i].occurs = Once /\ once[parents[i]])
    IN  {i \in DOMAIN items : once[i] /\ \A j \in DOMAIN items \ {i} : items[j].name # items[i].name}

(* The comment in layout_nodes says of the slack bytes of a synchronized   *)
(* item: `Alignment is measured from the start of the record`.             *)
SyncFromRecord ==
    phase = "done" =>
        \A i \in StandsOnce : \A p \in LayoutPlaces :
            Synchronized(i) /\ p[1] = items[i].name => p[2] % WidthOf(items[i]) = 0
=============================================================================
