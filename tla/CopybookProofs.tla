--------------------------- MODULE CopybookProofs ---------------------------
(***************************************************************************)
(* Copybook, for every set of copybooks and every limit on the nesting:    *)
(* the tree follows the level numbers, of the siblings that are laid out   *)
(* none overlaps another, a copybook is refused for a cause in its text    *)
(* only, and one that is read puts every item where the reference has it.  *)
(***************************************************************************)
EXTENDS Copybook, Induction, FiniteSetTheorems

-----------------------------------------------------------------------------
(* Items *)

ItemSet == {Item(e) : e \in Entries}

LEMMA EntryClauses ==
    ASSUME NEW e \in Entries
    PROVE  /\ e.level \in Nat
           /\ \E n \in Nat : DOMAIN e.clauses = 1 .. n
           /\ \A k \in DOMAIN e.clauses :
                 /\ e.clauses[k].is = "occurs" => e.clauses[k].what \in Nat
                 /\ e.clauses[k].is = "pic"    => e.clauses[k].what \in Seq(STRING)
<1>1. /\ e.level \in Nat
      /\ e.clauses \in Seq(Range(e.clauses))
      /\ \A c \in Range(e.clauses) : /\ c.is = "occurs" => c.what \in Nat
                                     /\ c.is = "pic"    => c.what \in Seq(STRING)
  BY TextsAssumption
<1>2. DOMAIN e.clauses = 1 .. Len(e.clauses) /\ Len(e.clauses) \in Nat
  BY <1>1, LenProperties
<1>3. \A k \in DOMAIN e.clauses : e.clauses[k] \in Range(e.clauses)
  BY DEF Range
<1> QED
  BY <1>1, <1>2, <1>3

(* What is said of an item is the default or what some clause says. *)
LEMMA SaidBy ==
    ASSUME NEW e \in Entries, NEW kind, NEW default
    PROVE  \/ Said(e, kind, default) = default
           \/ \E k \in DOMAIN e.clauses : /\ e.clauses[k].is = kind
                                          /\ Said(e, kind, default) = e.clauses[k].what
<1> DEFINE places == {k \in Heard(e) : e.clauses[k].is = kind}
<1>1. CASE places = {}
  BY <1>1 DEF Said
<1>2. CASE places # {}
  <2>1. PICK n \in Nat : DOMAIN e.clauses = 1 .. n
    BY EntryClauses
  <2>2. places \in SUBSET (0 .. n)
    BY <2>1 DEF Heard
  <2>3. \A k \in places : k \in DOMAIN e.clauses /\ e.clauses[k].is = kind
    BY DEF Heard
  <2>4. Said(e, kind, default) = e.clauses[Max(places)].what
    BY <1>2 DEF Said
  <2> HIDE DEF places
  <2>5. Max(places) \in places
    BY <1>2, <2>2, MaxOf
  <2> QED
    BY <2>3, <2>4, <2>5
<1> QED
  BY <1>1, <1>2

LEMMA ItemType ==
    ASSUME NEW item \in ItemSet
    PROVE  /\ item.level \in Nat
           /\ item.occurs \in Nat \cup {Once}
           /\ item.pic \in Seq(STRING)
<1>1. PICK e \in Entries : item = Item(e)
  BY DEF ItemSet
<1>2. item.level = e.level /\ item.occurs = Said(e, "occurs", Once) /\ item.pic = Said(e, "pic", <<>>)
  BY <1>1 DEF Item
<1>3. <<>> \in Seq(STRING)
  BY EmptySeq
<1>4. Said(e, "occurs", Once) \in Nat \cup {Once}
  <2>1. \/ Said(e, "occurs", Once) = Once
        \/ \E k \in DOMAIN e.clauses : /\ e.clauses[k].is = "occurs"
                                       /\ Said(e, "occurs", Once) = e.clauses[k].what
    BY SaidBy
  <2> QED
    BY <2>1, EntryClauses
<1>5. Said(e, "pic", <<>>) \in Seq(STRING)
  <2>1. \/ Said(e, "pic", <<>>) = <<>>
        \/ \E k \in DOMAIN e.clauses : /\ e.clauses[k].is = "pic"
                                       /\ Said(e, "pic", <<>>) = e.clauses[k].what
    BY SaidBy
  <2> QED
    BY <1>3, <2>1, EntryClauses
<1> QED
  BY <1>2, <1>4, <1>5, EntryClauses

-----------------------------------------------------------------------------
(* The tree *)

(* Whatever item was read, one on the path that was read no earlier stands *)
(* no lower: what is not on the path is hidden by what is.                 *)
Covered ==
    \A i \in 1 .. Len(items) :
       \E k \in 1 .. Len(path) : path[k] >= i /\ items[path[k]].level =< items[i].level

TreeInv ==
    /\ text \in Seq(Entries)
    /\ items \in Seq(ItemSet)
    /\ parents \in Seq(Nat) /\ Len(parents) = Len(items)
    /\ path \in Seq(Nat)
    /\ \A k \in 1 .. Len(path) : path[k] \in 1 .. Len(items)
    /\ \A k, m \in 1 .. Len(path) : k < m => path[k] < path[m]
    /\ Covered
    /\ \A i \in 1 .. Len(items) : parents[i] \in 0 .. i - 1
    /\ NearestParent

(* The items an item of this level may be the child of. *)
Higher(level) == {k \in DOMAIN path : items[path[k]].level < level}

LEMMA AboveIs ==
    ASSUME TreeInv, NEW level \in Nat
    PROVE  \E h \in 0 .. Len(path) :
              /\ Above(level) \in Seq(Nat) /\ Len(Above(level)) = h
              /\ \A k \in 1 .. h : Above(level)[k] = path[k]
              /\ h > 0 => items[path[h]].level < level /\ Last(Above(level)) = path[h]
              /\ h = 0 => Above(level) = <<>>
              /\ \A k \in 1 .. Len(path) : items[path[k]].level < level => k =< h
<1> DEFINE T == {0} \cup Higher(level)
           h == Max(T)
<1>1. path \in Seq(Nat) /\ Len(path) \in Nat /\ DOMAIN path = 1 .. Len(path)
      /\ \A k \in 1 .. Len(path) : path[k] \in Nat
  BY LenProperties, ElementOfSeq DEF TreeInv
<1>2. T \in SUBSET (0 .. Len(path)) /\ T # {}
  BY <1>1 DEF Higher
<1>3. Above(level) = SubSeq(path, 1, h)
  BY DEF Above, Higher
<1>4. h \in T /\ \A k \in T : k =< h
  <2> HIDE DEF T
  <2> QED
    BY <1>1, <1>2, MaxOf
<1>5. h \in 0 .. Len(path)
  BY <1>2, <1>4
<1> HIDE DEF h
<1>6. h > 0 => items[path[h]].level < level
  BY <1>4 DEF Higher
<1>7. \A k \in 1 .. Len(path) : items[path[k]].level < level => k =< h
  BY <1>1, <1>4 DEF Higher
<1>8. /\ SubSeq(path, 1, h) \in Seq(Nat) /\ Len(SubSeq(path, 1, h)) = h
      /\ \A k \in 1 .. h : SubSeq(path, 1, h)[k] = path[k]
  <2>1. 1 \in Int /\ h \in Int /\ \A k \in 1 .. h : path[k] \in Nat
    BY <1>1, <1>5
  <2>2. /\ SubSeq(path, 1, h) \in Seq(Nat)
        /\ Len(SubSeq(path, 1, h)) = IF 1 =< h THEN h - 1 + 1 ELSE 0
        /\ \A k \in 1 .. h - 1 + 1 : SubSeq(path, 1, h)[k] = path[1 + k - 1]
    BY <2>1, SubSeqProperties
  <2>3. \A k \in 1 .. h : SubSeq(path, 1, h)[k] = path[k]
    BY <2>1, <2>2
  <2>4. Len(SubSeq(path, 1, h)) = h
    BY <1>5, <2>2
  <2> QED
    BY <2>2, <2>3, <2>4
<1>9. h > 0 => Last(Above(level)) = path[h]
  BY <1>3, <1>5, <1>8 DEF Last
<1>10. h = 0 => Above(level) = <<>>
  BY <1>3, <1>8, EmptySeq
<1> QED
  BY <1>3, <1>5, <1>6, <1>7, <1>8, <1>9, <1>10

(* The last of the items above is the nearest that stands higher. *)
LEMMA AboveIsNearest ==
    ASSUME TreeInv, NEW level \in Nat
    PROVE  (IF Above(level) = <<>> THEN 0 ELSE Last(Above(level)))
             = Max({0} \cup {j \in 1 .. Len(items) :
                               /\ items[j].level < level
                               /\ \A k \in j + 1 .. Len(items) : items[k].level >= level})
<1> DEFINE near == {j \in 1 .. Len(items) :
                       /\ items[j].level < level
                       /\ \A k \in j + 1 .. Len(items) : items[k].level >= level}
           T == {0} \cup near
           p == IF Above(level) = <<>> THEN 0 ELSE Last(Above(level))
<1>1. PICK h \in 0 .. Len(path) :
         /\ Above(level) \in Seq(Nat) /\ Len(Above(level)) = h
         /\ h > 0 => items[path[h]].level < level /\ Last(Above(level)) = path[h]
         /\ h = 0 => Above(level) = <<>>
         /\ \A k \in 1 .. Len(path) : items[path[k]].level < level => k =< h
  BY AboveIs
<1>2. /\ items \in Seq(ItemSet) /\ Len(items) \in Nat /\ Len(path) \in Nat
      /\ \A i \in 1 .. Len(items) : items[i].level \in Nat
      /\ \A k \in 1 .. Len(path) : path[k] \in 1 .. Len(items)
  BY LenProperties, ElementOfSeq, ItemType DEF TreeInv
<1>3. p = IF h = 0 THEN 0 ELSE path[h]
  BY <1>1, <1>2, EmptySeq
<1>4. p \in 0 .. Len(items) /\ (p # 0 => h > 0 /\ p = path[h])
  BY <1>1, <1>2, <1>3
<1> HIDE DEF p
(* No later item stands higher: something on the path would. *)
<1>5. ASSUME NEW i \in 1 .. Len(items), items[i].level < level PROVE i =< p
  <2>1. PICK k \in 1 .. Len(path) : path[k] >= i /\ items[path[k]].level =< items[i].level
    BY DEF TreeInv, Covered
  <2>2. path[k] \in 1 .. Len(items) /\ items[path[k]].level \in Nat /\ items[i].level \in Nat
    BY <1>2
  <2>3. items[path[k]].level < level
    BY <1>5, <2>1, <2>2
  <2>4. k =< h
    BY <1>1, <2>3
  <2>5. h > 0 /\ p = path[h] /\ h \in 1 .. Len(path)
    BY <1>1, <1>2, <1>3, <2>4
  <2>6. path[k] =< path[h]
    <3>1. \A m, n \in 1 .. Len(path) : m < n => path[m] < path[n]
      BY DEF TreeInv
    <3>2. path[k] \in Nat /\ path[h] \in Nat /\ k \in Int /\ h \in Int
      BY <1>2, <2>5
    <3>3. CASE k = h
      BY <3>2, <3>3
    <3>4. CASE k < h
      <4>1. path[k] < path[h]
        BY <2>5, <3>1, <3>4
      <4> QED
        BY <3>2, <4>1
    <3> QED
      BY <2>4, <3>2, <3>3, <3>4
  <2>7. path[h] \in Nat /\ path[k] \in Nat
    BY <1>2, <2>5
  <2> QED
    BY <2>1, <2>5, <2>6, <2>7
<1>6. p \in T
  <2>1. CASE p = 0
    BY <2>1
  <2>2. CASE p # 0
    <3>1. p \in 1 .. Len(items) /\ items[p].level < level
      BY <1>1, <1>2, <1>4, <2>2
    <3>2. ASSUME NEW k \in p + 1 .. Len(items) PROVE items[k].level >= level
      <4>1. k \in 1 .. Len(items) /\ ~(k =< p)
        BY <1>2, <3>1
      <4>2. ~(items[k].level < level) /\ items[k].level \in Nat
        BY <1>2, <1>5, <4>1
      <4> QED
        BY <4>2
    <3> QED
      BY <3>1, <3>2
  <2> QED
    BY <2>1, <2>2
<1>7. \A j \in T : j =< p
  BY <1>4, <1>5
<1>8. T \in SUBSET Int
  BY <1>2
<1> HIDE DEF T
<1>9. Max(T) = p
  BY <1>6, <1>7, <1>8, MaxIs
<1> QED
  BY <1>9 DEF T, p

-----------------------------------------------------------------------------
(* Every step keeps the tree in order *)

LEMMA SeqOfMore ==
    ASSUME NEW S, NEW T, S \subseteq T, NEW s \in Seq(S)
    PROVE  s \in Seq(T)
<1>1. s \in [1 .. Len(s) -> S] /\ Len(s) \in Nat
  BY LenProperties
<1>2. s \in [1 .. Len(s) -> T]
  BY <1>1
<1> QED
  BY <1>1, <1>2, SeqDef

(* The items among the first n an item of this level may be the child of,   *)
(* nothing behind them standing as high.                                   *)
Nearer(list, n, level) ==
    {0} \cup {j \in 1 .. n : /\ list[j].level < level
                             /\ \A k \in j + 1 .. n : list[k].level >= level}

LEMMA NearerSame ==
    ASSUME NEW n \in Nat, NEW f, NEW g, NEW level, \A j \in 1 .. n : f[j] = g[j]
    PROVE  Nearer(f, n, level) = Nearer(g, n, level)
<1>1. \A j \in 1 .. n : \A k \in j + 1 .. n : k \in 1 .. n
  OBVIOUS
<1>2. ASSUME NEW j \in 1 .. n
      PROVE  (f[j].level < level /\ \A k \in j + 1 .. n : f[k].level >= level)
               <=> (g[j].level < level /\ \A k \in j + 1 .. n : g[k].level >= level)
  <2>1. f[j] = g[j] /\ \A k \in j + 1 .. n : f[k] = g[k]
    BY <1>1
  <2> QED
    BY <2>1
<1> QED
  BY <1>2 DEF Nearer

LEMMA InitTree == Init => TreeInv
<1> SUFFICES ASSUME Init PROVE TreeInv
  OBVIOUS
<1>1. text \in Seq(Entries)
  <2>1. text \in Texts /\ text \in Seq(Range(text))
    BY TextsAssumption DEF Init
  <2>2. Range(text) \subseteq Entries
    BY <2>1 DEF Entries
  <2> QED
    BY <2>1, <2>2, SeqOfMore
<1>2. items = <<>> /\ parents = <<>> /\ path = <<>>
  BY DEF Init
<1>3. /\ items \in Seq(ItemSet) /\ parents \in Seq(Nat) /\ path \in Seq(Nat)
      /\ Len(items) = 0 /\ Len(parents) = 0 /\ Len(path) = 0 /\ DOMAIN items = {}
  BY <1>2, EmptySeq
<1> QED
  BY <1>1, <1>3 DEF TreeInv, Covered, NearestParent

LEMMA TextGoesOn ==
    ASSUME TreeInv, text # <<>>
    PROVE  /\ Head(text) \in Entries /\ Head(text).level \in Nat
           /\ Item(Head(text)) \in ItemSet /\ Item(Head(text)).level = Head(text).level
           /\ Tail(text) \in Seq(Entries)
<1>1. Head(text) \in Entries /\ Tail(text) \in Seq(Entries)
  BY HeadThenTail DEF TreeInv
<1> QED
  BY <1>1, EntryClauses DEF ItemSet, Item

(* What AddItem leaves behind, seen from the length h of what it keeps of  *)
(* the path.                                                               *)
Grown(n, e, p) ==
    /\ items' \in Seq(ItemSet) /\ Len(items') = n + 1
    /\ \A i \in 1 .. n : items'[i] = items[i]
    /\ items'[n + 1] = e
    /\ parents' \in Seq(Nat) /\ Len(parents') = n + 1
    /\ \A i \in 1 .. n : parents'[i] = parents[i]
    /\ parents'[n + 1] = p

Turned(n, h, e) ==
    /\ path' \in Seq(Nat) /\ Len(path') = h + 1
    /\ \A k \in 1 .. h : path'[k] = path[k]
    /\ path'[h + 1] = n + 1
    /\ \A k \in 1 .. Len(path) : items[path[k]].level < e.level => k =< h

LEMMA ItemAdded ==
    ASSUME TreeInv, AddItem
    PROVE  \E h \in 0 .. Len(path), p \in 0 .. Len(items), e \in ItemSet :
              Grown(Len(items), e, p) /\ Turned(Len(items), h, e) /\ p = Max(Nearer(items, Len(items), e.level))
<1> DEFINE level == Head(text).level
           above == Above(level)
           e == Item(Head(text))
           p == IF above = <<>> THEN 0 ELSE Last(above)
           n == Len(items)
<1>1. level \in Nat /\ e \in ItemSet /\ e.level = level
  BY TextGoesOn DEF AddItem
<1>2. /\ items \in Seq(ItemSet) /\ n \in Nat /\ parents \in Seq(Nat) /\ Len(parents) = n
      /\ \A k \in 1 .. Len(path) : path[k] \in 1 .. n
  BY LenProperties DEF TreeInv
<1>3. items' = Append(items, e) /\ parents' = Append(parents, p) /\ path' = Append(above, n + 1)
  BY DEF AddItem, Number
<1> HIDE DEF e
<1>4. /\ items' \in Seq(ItemSet) /\ Len(items') = n + 1
      /\ \A i \in 1 .. n : items'[i] = items[i]
      /\ items'[n + 1] = e
  BY <1>1, <1>2, <1>3, AppendProperties
<1>5. PICK h \in 0 .. Len(path) :
         /\ above \in Seq(Nat) /\ Len(above) = h
         /\ \A k \in 1 .. h : above[k] = path[k]
         /\ h > 0 => Last(above) = path[h]
         /\ h = 0 => above = <<>>
         /\ \A k \in 1 .. Len(path) : items[path[k]].level < level => k =< h
  BY <1>1, AboveIs
<1>6. p = Max({0} \cup {j \in 1 .. n :
                  /\ items[j].level < level
                  /\ \A k \in j + 1 .. n : items[k].level >= level})
  BY <1>1, AboveIsNearest
<1>7. p \in 0 .. n
  <2>1. above # <<>> => h > 0 /\ h \in 1 .. Len(path)
    BY <1>5
  <2> QED
    BY <1>2, <1>5, <2>1
<1> HIDE DEF p, above, level
<1>8. /\ parents' \in Seq(Nat) /\ Len(parents') = n + 1
      /\ \A i \in 1 .. n : parents'[i] = parents[i]
      /\ parents'[n + 1] = p
  BY <1>2, <1>3, <1>7, AppendProperties
<1>9. /\ path' \in Seq(Nat) /\ Len(path') = h + 1
      /\ \A k \in 1 .. h : path'[k] = path[k]
      /\ path'[h + 1] = n + 1
  BY <1>2, <1>3, <1>5, AppendProperties
<1>10. Grown(n, e, p)
  BY <1>4, <1>8 DEF Grown
<1>11. Turned(n, h, e)
  BY <1>1, <1>5, <1>9 DEF Turned
<1>12. p = Max(Nearer(items, n, e.level))
  BY <1>1, <1>6 DEF Nearer
<1> QED
  BY <1>1, <1>7, <1>10, <1>11, <1>12

LEMMA AddItemTree == TreeInv /\ AddItem => TreeInv'
<1> SUFFICES ASSUME TreeInv, AddItem PROVE TreeInv'
  OBVIOUS
<1> DEFINE n == Len(items)
<1>1. PICK h \in 0 .. Len(path), p \in 0 .. n, e \in ItemSet :
         Grown(n, e, p) /\ Turned(n, h, e) /\ p = Max(Nearer(items, n, e.level))
  BY ItemAdded
<1>n. /\ n \in Nat /\ Len(items) = n /\ Len(path) \in Nat
      /\ h \in 0 .. Len(path) /\ p \in 0 .. n
  BY <1>1, LenProperties DEF TreeInv
<1>l. e.level \in Nat /\ \A i \in 1 .. n : items[i].level \in Nat
  BY <1>1, ElementOfSeq, ItemType DEF TreeInv
<1>p. \A k \in 1 .. Len(path) : path[k] \in 1 .. n
  BY DEF TreeInv
<1> HIDE DEF n
<1>g. /\ items' \in Seq(ItemSet) /\ Len(items') = n + 1
      /\ \A i \in 1 .. n : items'[i] = items[i]
      /\ items'[n + 1] = e
      /\ parents' \in Seq(Nat) /\ Len(parents') = n + 1
      /\ \A i \in 1 .. n : parents'[i] = parents[i]
      /\ parents'[n + 1] = p
  BY <1>1 DEF Grown
<1>t. /\ path' \in Seq(Nat) /\ Len(path') = h + 1
      /\ \A k \in 1 .. h : path'[k] = path[k]
      /\ path'[h + 1] = n + 1
      /\ \A k \in 1 .. Len(path) : items[path[k]].level < e.level => k =< h
  BY <1>1 DEF Turned
<1>3. text' \in Seq(Entries)
  BY TextGoesOn DEF AddItem
<1>4. \A k \in 1 .. Len(path') : path'[k] \in 1 .. Len(items')
  <2> SUFFICES ASSUME NEW k \in 1 .. h + 1 PROVE path'[k] \in 1 .. n + 1
    BY <1>g, <1>t
  <2>1. CASE k = h + 1
    BY <1>t, <1>n, <2>1
  <2>2. CASE k \in 1 .. h
    <3>1. path'[k] = path[k]
      BY <1>t, <2>2
    <3>2. k \in 1 .. Len(path)
      BY <1>n, <2>2
    <3>3. path[k] \in 1 .. n
      BY <1>p, <3>2
    <3> QED
      BY <1>n, <3>1, <3>3
  <2> QED
    BY <2>1, <2>2
<1>5. \A k, m \in 1 .. Len(path') : k < m => path'[k] < path'[m]
  <2> SUFFICES ASSUME NEW k \in 1 .. h + 1, NEW m \in 1 .. h + 1, k < m PROVE path'[k] < path'[m]
    BY <1>g, <1>t
  <2>1. k \in 1 .. h /\ path'[k] = path[k] /\ path[k] \in 1 .. n
    BY <1>g, <1>t, <1>n, <1>l, <1>p
  <2>2. CASE m = h + 1
    BY <1>g, <1>t, <1>n, <1>l, <1>p, <2>1, <2>2
  <2>3. CASE m \in 1 .. h
    <3>1. path'[m] = path[m] /\ m \in 1 .. Len(path)
      BY <1>t, <1>n, <2>3
    <3>2. k \in 1 .. Len(path)
      BY <1>n, <2>1
    <3>3. path[k] < path[m]
      BY <3>1, <3>2 DEF TreeInv
    <3> QED
      BY <2>1, <3>1, <3>3
  <2> QED
    BY <2>2, <2>3
<1>6. Covered'
  <2> SUFFICES ASSUME NEW i \in 1 .. n + 1
               PROVE  \E k \in 1 .. h + 1 : path'[k] >= i /\ items'[path'[k]].level =< items'[i].level
    BY <1>g, <1>t DEF Covered
  <2>1. h + 1 \in 1 .. h + 1 /\ items'[path'[h + 1]] = e
    BY <1>g, <1>t
  <2>2. CASE i = n + 1
    <3>1. path'[h + 1] >= i /\ items'[i] = e
      BY <1>g, <1>t, <1>n, <2>2
    <3>2. items'[path'[h + 1]].level =< items'[i].level
      BY <1>l, <2>1, <3>1
    <3> QED
      BY <2>1, <3>1, <3>2
  <2>3. CASE i \in 1 .. n
    <3>1. PICK k \in 1 .. Len(path) : path[k] >= i /\ items[path[k]].level =< items[i].level
      BY <1>n, <2>3 DEF TreeInv, Covered
    <3>2. items'[i] = items[i] /\ items[path[k]].level \in Nat /\ items[i].level \in Nat
      BY <1>g, <1>t, <1>n, <1>l, <1>p, <2>3
    <3>3. CASE k =< h
      <4>1. k \in 1 .. h + 1 /\ path'[k] = path[k] /\ items'[path[k]] = items[path[k]]
        BY <1>g, <1>t, <1>n, <1>l, <1>p, <3>3
      <4> QED
        BY <3>1, <3>2, <4>1
    <3>4. CASE k > h
      <4>1. e.level =< items[path[k]].level
        BY <1>g, <1>t, <1>n, <1>l, <1>p, <3>2, <3>4
      <4>2. e.level =< items[i].level /\ n + 1 >= i
        BY <1>n, <1>l, <2>3, <3>1, <3>2, <4>1
      <4> QED
        BY <1>g, <1>t, <2>1, <3>2, <4>2
    <3> QED
      BY <3>3, <3>4
  <2> QED
    BY <1>n, <2>2, <2>3
<1>7. \A i \in 1 .. Len(items') : parents'[i] \in 0 .. i - 1
  <2> SUFFICES ASSUME NEW i \in 1 .. n + 1 PROVE parents'[i] \in 0 .. i - 1
    BY <1>g
  <2>1. CASE i = n + 1
    BY <1>g, <1>n, <2>1
  <2>2. CASE i \in 1 .. n
    <3>1. parents'[i] = parents[i] /\ i \in 1 .. Len(items)
      BY <1>g, <1>n, <2>2
    <3> QED
      BY <3>1 DEF TreeInv
  <2> QED
    BY <1>n, <2>1, <2>2
<1>8. NearestParent'
  <2>1. DOMAIN items' = 1 .. n + 1 /\ DOMAIN items = 1 .. n
    BY <1>g, <1>n, LenProperties DEF TreeInv
  <2> SUFFICES ASSUME NEW i \in 1 .. n + 1
               PROVE  parents'[i] = Max(Nearer(items', i - 1, items'[i].level))
    BY <2>1 DEF NearestParent, Nearer
  <2>2. i - 1 \in Nat /\ \A j \in 1 .. i - 1 : items'[j] = items[j]
    BY <1>g, <1>n
  <2>3. Nearer(items', i - 1, items'[i].level) = Nearer(items, i - 1, items'[i].level)
    BY <2>2, NearerSame
  <2>4. CASE i \in 1 .. n
    <3>1. parents'[i] = parents[i] /\ items'[i] = items[i]
      BY <1>g, <2>4
    <3>2. parents[i] = Max(Nearer(items, i - 1, items[i].level))
      BY <2>1, <2>4 DEF TreeInv, NearestParent, Nearer
    <3> QED
      BY <2>3, <3>1, <3>2
  <2>5. CASE i = n + 1
    <3>1. i - 1 = n /\ parents'[i] = p /\ items'[i] = e
      BY <1>g, <1>n, <2>5
    <3> QED
      BY <1>1, <2>3, <3>1, Zenon
  <2> QED
    BY <1>n, <2>4, <2>5
<1> QED
  BY <1>g, <1>t, <1>3, <1>4, <1>5, <1>6, <1>7, <1>8 DEF TreeInv

treeVars == <<text, items, parents, path>>

LEMMA TreeKept == TreeInv /\ UNCHANGED treeVars => TreeInv'
  BY DEF TreeInv, treeVars, Covered, NearestParent

LEMMA NextTree == TreeInv /\ [Next]_vars => TreeInv'
<1> SUFFICES ASSUME TreeInv, [Next]_vars PROVE TreeInv'
  OBVIOUS
<1>1. CASE SkipCondition
  BY <1>1, TextGoesOn DEF SkipCondition, TreeInv, Covered, NearestParent
<1>2. CASE AddItem
  BY <1>2, AddItemTree
<1>3. CASE UNCHANGED treeVars
  BY <1>3, TreeKept
<1> QED
  BY <1>1, <1>2, <1>3
     DEF Next, vars, treeVars, EndTree, PlaceItem, EnterGroup, LeaveGroup, Finish, Refuse

(* For every set of copybooks, the parent of an item is the last item       *)
(* before it with a smaller level number (build_tree).                      *)
THEOREM TreeFollowsLevels == Spec => []NearestParent
<1>1. Init => TreeInv
  BY InitTree
<1>2. TreeInv /\ [Next]_vars => TreeInv'
  BY NextTree
<1>3. TreeInv => NearestParent
  BY DEF TreeInv
<1> QED
  BY <1>1, <1>2, <1>3, PTL DEF Spec

-----------------------------------------------------------------------------
(* Numbers: what is counted in a picture, and what is chosen in order *)

LEMMA CountType ==
    ASSUME NEW n \in Nat, NEW pic, DOMAIN pic = 1 .. n, NEW symbols
    PROVE  Count(pic, symbols) \in Nat
<1>1. Where(pic, symbols) \in SUBSET (1 .. n)
  BY DEF Where
<1>2. IsFiniteSet(1 .. n)
  BY FS_Interval
<1>3. IsFiniteSet(Where(pic, symbols))
  BY <1>1, <1>2, FS_Subset
<1> QED
  BY <1>3, FS_CardinalityType DEF Count

LEMMA RunType ==
    ASSUME NEW n \in Nat, NEW pic, DOMAIN pic = 1 .. n, NEW c
    PROVE  RunOf(pic, c) \in Nat
<1> DEFINE m == Count(pic, {c}) - 1
<1>1. Count(pic, {c}) \in Nat
  BY CountType
<1>2. m \in Int
  BY <1>1
<1>3. RunOf(pic, c) = Max({0, m})
  BY DEF RunOf
<1> HIDE DEF m
<1>4. CASE m =< 0
  <2>1. Max({0, m}) = 0
    BY <1>2, <1>4, MaxIs
  <2> QED
    BY <1>3, <2>1
<1>5. CASE m > 0
  <2>1. Max({0, m}) = m
    BY <1>2, <1>5, MaxIs
  <2> QED
    BY <1>2, <1>3, <1>5, <2>1
<1> QED
  BY <1>2, <1>4, <1>5

LEMMA WidthType ==
    ASSUME NEW item \in ItemSet
    PROVE  /\ WidthOf(item) \in Nat
           /\ KindOf(item).k = "binary" => WidthOf(item) > 0 /\ WidthOf(item) \in {2, 4, 8}
<1> DEFINE n == Len(item.pic)
           digits == Digits(item.pic)
           kind == KindOf(item)
<1>1. n \in Nat /\ DOMAIN item.pic = 1 .. n
  BY ItemType, LenProperties
<1> HIDE DEF n
<1>2. \A symbols : Count(item.pic, symbols) \in Nat
  BY <1>1, CountType
<1>3. \A c : RunOf(item.pic, c) \in Nat
  BY <1>1, RunType
<1>4. digits \in Nat
  BY <1>2, <1>3 DEF Digits, Floating
<1>5. ImageWidth(item.pic) \in Nat
  BY <1>2 DEF ImageWidth
<1> HIDE DEF digits, kind
<1>6. CompWidth(digits) \in {2, 4, 8}
  BY <1>4 DEF CompWidth
<1>7. digits \div 2 + 1 \in Nat
  BY <1>4
<1>8. WidthOf(item) = CASE kind.k = "text"   -> Count(item.pic, {"X", "A"})
                        [] kind.k = "edited" -> ImageWidth(item.pic)
                        [] kind.k = "binary" -> CompWidth(digits)
                        [] item.usage = "comp3" /\ kind.k = "decimal" -> digits \div 2 + 1
                        [] OTHER -> digits + (IF SignOf(item) \in {"leading", "trailing"} THEN 1 ELSE 0)
  BY DEF WidthOf, digits, kind
<1>9. kind.k = "binary" => WidthOf(item) = CompWidth(digits)
  BY <1>8
<1>10. WidthOf(item) \in Nat
  <2>1. CASE kind.k = "text"
    BY <1>2, <1>8, <2>1
  <2>2. CASE kind.k = "edited"
    BY <1>5, <1>8, <2>2
  <2>3. CASE kind.k = "binary"
    BY <1>6, <1>8, <2>3
  <2>4. CASE kind.k \notin {"text", "edited", "binary"}
    BY <1>4, <1>7, <1>8, <2>4
  <2> QED
    BY <2>1, <2>2, <2>3, <2>4
<1> QED
  BY <1>6, <1>9, <1>10 DEF kind

Increasing(s) == \A i, j \in DOMAIN s : i < j => s[i] < s[j]

(* The members of a finite set of numbers can be put in order. *)
LEMMA OrderExists ==
    ASSUME NEW n \in Nat, NEW S \in SUBSET (1 .. n)
    PROVE  /\ Cardinality(S) \in Nat
           /\ \E s \in [1 .. Cardinality(S) -> S] : Increasing(s)
<1> DEFINE Ordered(T) == /\ IsFiniteSet(T) /\ Cardinality(T) \in Nat
                         /\ \E s \in [1 .. Cardinality(T) -> T] : Increasing(s)
           Good == {m \in Nat : \A T \in SUBSET (1 .. m) : Ordered(T)}
<1>1. 0 \in Good
  <2>1. \A T \in SUBSET (1 .. 0) : T = {}
    OBVIOUS
  <2>2. IsFiniteSet({}) /\ Cardinality({}) = 0
    BY FS_EmptySet
  <2>3. [k \in 1 .. 0 |-> k] \in [1 .. 0 -> {}] /\ Increasing([k \in 1 .. 0 |-> k])
    BY DEF Increasing
  <2>4. \E s \in [1 .. Cardinality({}) -> {}] : Increasing(s)
    BY <2>2, <2>3, Zenon
  <2>5. Ordered({})
    BY <2>2, <2>4
  <2> QED
    BY <2>1, <2>5
<1>2. ASSUME NEW m \in Nat, m \in Good PROVE m + 1 \in Good
  <2> SUFFICES ASSUME NEW T \in SUBSET (1 .. m + 1) PROVE Ordered(T)
    OBVIOUS
  <2>1. CASE m + 1 \notin T
    <3>1. T \in SUBSET (1 .. m)
      BY <2>1
    <3> QED
      BY <1>2, <3>1
  <2>2. CASE m + 1 \in T
    <3> DEFINE U == T \ {m + 1}
               c == Cardinality(U)
    <3>1. U \in SUBSET (1 .. m)
      OBVIOUS
    <3>2. T = U \cup {m + 1} /\ m + 1 \notin U
      BY <2>2
    <3> HIDE DEF U
    <3>3. Ordered(U)
      BY <1>2, <3>1
    <3>4. PICK s \in [1 .. c -> U] : Increasing(s)
      BY <3>3
    <3>5. IsFiniteSet(T) /\ Cardinality(T) = c + 1 /\ c \in Nat
      BY <3>2, <3>3, FS_AddElement
    <3> HIDE DEF c
    <3> DEFINE t == [k \in 1 .. c + 1 |-> IF k = c + 1 THEN m + 1 ELSE s[k]]
    <3>6. t \in [1 .. c + 1 -> T]
      BY <3>2, <3>4, <3>5
    <3>7. Increasing(t)
      <4> SUFFICES ASSUME NEW i \in 1 .. c + 1, NEW j \in 1 .. c + 1, i < j PROVE t[i] < t[j]
        BY DEF Increasing
      <4>1. i \in 1 .. c /\ t[i] = s[i] /\ s[i] \in U /\ s[i] < m + 1
        <5>1. i \in 1 .. c
          BY <3>5
        <5>2. t[i] = s[i]
          BY <3>5, <5>1
        <5>3. s[i] \in U
          BY <3>4, <5>1
        <5>4. s[i] \in 1 .. m
          BY <3>1, <5>3
        <5> QED
          BY <5>1, <5>2, <5>3, <5>4
      <4>2. CASE j = c + 1
        BY <4>1, <4>2
      <4>3. CASE j \in 1 .. c
        <5>1. t[j] = s[j]
          BY <3>5, <4>3
        <5>2. s[i] < s[j]
          BY <3>4, <4>1, <4>3 DEF Increasing
        <5> QED
          BY <4>1, <5>1, <5>2
      <4> QED
        BY <3>5, <4>2, <4>3
    <3> HIDE DEF t
    <3> QED
      BY <3>5, <3>6, <3>7
  <2> QED
    BY <2>1, <2>2
<1> HIDE DEF Ordered
<1>3. Nat \subseteq Good
  <2> HIDE DEF Good
  <2> QED
    BY <1>1, <1>2, SetInduction
<1> QED
  BY <1>3 DEF Ordered

LEMMA InOrderOf ==
    ASSUME NEW n \in Nat, NEW S \in SUBSET (1 .. n)
    PROVE  /\ Cardinality(S) \in Nat
           /\ InOrder(S) \in [1 .. Cardinality(S) -> S] /\ Increasing(InOrder(S))
<1>1. Cardinality(S) \in Nat /\ \E s \in [1 .. Cardinality(S) -> S] : Increasing(s)
  BY OrderExists
<1> QED
  BY <1>1, Zenon DEF InOrder, Increasing

-----------------------------------------------------------------------------
(* Sequences of anything *)

IsSequence(s) == s \in Seq(Range(s))

LEMMA SequenceIs ==
    ASSUME NEW s, IsSequence(s)
    PROVE  Len(s) \in Nat /\ DOMAIN s = 1 .. Len(s) /\ \A i \in 1 .. Len(s) : s[i] \in Range(s)
  BY LenProperties, ElementOfSeq DEF IsSequence

LEMMA Longer ==
    ASSUME NEW s, IsSequence(s), NEW x
    PROVE  /\ IsSequence(Append(s, x)) /\ Len(Append(s, x)) = Len(s) + 1
           /\ DOMAIN Append(s, x) = 1 .. Len(s) + 1
           /\ \A i \in 1 .. Len(s) : Append(s, x)[i] = s[i]
           /\ Append(s, x)[Len(s) + 1] = x
<1> DEFINE S == Range(s) \cup {x}
           t == Append(s, x)
<1>1. s \in Seq(S) /\ x \in S
  BY SeqOfMore DEF IsSequence
<1> HIDE DEF S
<1>2. /\ t \in Seq(S) /\ Len(t) = Len(s) + 1
      /\ \A i \in 1 .. Len(s) : t[i] = s[i]
      /\ t[Len(s) + 1] = x
  BY <1>1, AppendProperties
<1> HIDE DEF t
<1>3. IsSequence(t) /\ DOMAIN t = 1 .. Len(t)
  BY <1>2, SeqOfRange, LenProperties DEF IsSequence
<1> QED
  BY <1>2, <1>3 DEF t

ChangedAt(t, s, k, x) == t = [s EXCEPT ![k] = x]

LEMMA Changed ==
    ASSUME NEW s, IsSequence(s), NEW k \in 1 .. Len(s), NEW x, NEW t, ChangedAt(t, s, k, x)
    PROVE  /\ IsSequence(t) /\ Len(t) = Len(s)
           /\ \A i \in 1 .. Len(s) : t[i] = IF i = k THEN x ELSE s[i]
<1> DEFINE S == Range(s) \cup {x}
           n == Len(s)
<1>1. s \in Seq(S) /\ x \in S
  BY SeqOfMore DEF IsSequence
<1> HIDE DEF S
<1>2. s \in [1 .. n -> S] /\ n \in Nat
  BY <1>1, LenProperties
<1> HIDE DEF n
<1>3. t \in [1 .. n -> S] /\ \A i \in 1 .. n : t[i] = IF i = k THEN x ELSE s[i]
  BY <1>1, <1>2 DEF ChangedAt
<1>4. t \in Seq(S)
  BY <1>2, <1>3, SeqDef
<1>5. Len(t) \in Nat /\ DOMAIN t = 1 .. Len(t) /\ DOMAIN t = 1 .. n
  BY <1>3, <1>4, LenProperties
<1>6. Len(t) = n
  <2>1. \A i \in Nat : i \in 1 .. Len(t) <=> i \in 1 .. n
    BY <1>5
  <2>2. Len(t) =< n
    BY <1>2, <1>5, <2>1
  <2>3. n =< Len(t)
    BY <1>2, <1>5, <2>1
  <2>4. n \in Nat /\ Len(t) \in Nat
    BY <1>2, <1>5
  <2> QED
    BY <2>2, <2>3, <2>4
<1>7. IsSequence(t)
  BY <1>4, SeqOfRange DEF IsSequence
<1> QED
  BY <1>3, <1>6, <1>7 DEF n

LEMMA FirstOf ==
    ASSUME NEW s, IsSequence(s), NEW n \in 0 .. Len(s)
    PROVE  /\ IsSequence(SubSeq(s, 1, n)) /\ Len(SubSeq(s, 1, n)) = n
           /\ \A i \in 1 .. n : SubSeq(s, 1, n)[i] = s[i]
<1> DEFINE S == Range(s)
           t == SubSeq(s, 1, n)
<1>1. Len(s) \in Nat /\ \A i \in 1 .. Len(s) : s[i] \in S
  BY SequenceIs
<1> HIDE DEF S
<1>2. 1 \in Int /\ n \in Int /\ \A i \in 1 .. n : s[i] \in S
  BY <1>1
<1>3. t \in Seq(S) /\ Len(t) = (IF 1 =< n THEN n - 1 + 1 ELSE 0)
      /\ \A i \in 1 .. n - 1 + 1 : t[i] = s[1 + i - 1]
  BY <1>2, SubSeqProperties
<1> HIDE DEF t
<1>4. Len(t) = n /\ \A i \in 1 .. n : t[i] = s[i]
  <2>1. n - 1 + 1 = n /\ \A i \in 1 .. n : 1 + i - 1 = i
    BY <1>1
  <2>2. \A i \in 1 .. n : t[i] = s[i]
    BY <1>3, <2>1
  <2> QED
    BY <1>1, <1>3, <2>2
<1>5. IsSequence(t)
  BY <1>3, SeqOfRange DEF IsSequence
<1> QED
  BY <1>4, <1>5 DEF t

-----------------------------------------------------------------------------
(* A list of siblings while it is laid out *)

FieldOK(x) ==
    /\ DOMAIN x = {"name", "width", "kind", "occurs", "controller", "redefines", "offset"}
    /\ x.offset \in Nat /\ x.width \in Nat /\ x.occurs \in Nat \cup {Once}

LEMMA FieldSize ==
    ASSUME NEW x, FieldOK(x)
    PROVE  TotalWidth(x) \in Nat /\ Reserved(x) \in Nat
           /\ (x.controller = NoName => Reserved(x) = TotalWidth(x))
<1>1. x.width \in Nat /\ Times(x) \in Nat
  BY DEF FieldOK, Times
<1>2. x.width * Times(x) \in Nat
  BY <1>1
<1>3. TotalWidth(x) \in Nat
  BY <1>2, Zenon DEF TotalWidth
<1> HIDE DEF TotalWidth
<1> QED
  BY <1>3 DEF Reserved

(* Where the list stands is behind every field that holds a place of its   *)
(* own, and its end is behind every field.                                 *)
Behind(fields, cursor, end) ==
    \A i \in DOMAIN fields :
       fields[i].controller = NoName =>
          /\ fields[i].offset + TotalWidth(fields[i]) <= end
          /\ fields[i].redefines = NoName => fields[i].offset + TotalWidth(fields[i]) <= cursor

FieldsOK(f) ==
    /\ IsSequence(f.fields)
    /\ \A i \in DOMAIN f.fields : FieldOK(f.fields[i])
    /\ Apart(f.fields)
    /\ Behind(f.fields, f.cursor, f.end)

FrameOK(f) ==
    /\ DOMAIN f = {"group", "rest", "fields", "cursor", "end"}
    /\ f.group \in {0} \cup DOMAIN items
    /\ f.rest \subseteq DOMAIN items
    /\ f.cursor \in Nat /\ f.end \in Nat
    /\ FieldsOK(f)

LEMMA AlignedOn ==
    ASSUME NEW cursor \in Nat, NEW item, NEW kind, NEW width \in Nat,
           kind.k = "binary" => width > 0
    PROVE  /\ Aligned(cursor, item, kind, width) \in Nat
           /\ Aligned(cursor, item, kind, width) >= cursor
           /\ item.redefines # NoName => Aligned(cursor, item, kind, width) = cursor
<1>1. CASE item.sync /\ item.redefines = NoName /\ kind.k = "binary"
  <2> DEFINE gap == width - (cursor % width)
             more == gap % width
  <2>1. width > 0
    BY <1>1
  <2>2. cursor % width \in 0 .. width - 1
    BY <2>1
  <2>3. gap \in Nat
    BY <2>2
  <2> HIDE DEF gap
  <2>4. more \in Nat
    BY <2>1, <2>3
  <2>5. Aligned(cursor, item, kind, width) = cursor + more
    BY <1>1 DEF Aligned, gap
  <2> HIDE DEF more
  <2> QED
    BY <1>1, <2>4, <2>5
<1>2. CASE ~(item.sync /\ item.redefines = NoName /\ kind.k = "binary")
  BY <1>2 DEF Aligned
<1> QED
  BY <1>1, <1>2

LEMMA OffsetKnown ==
    ASSUME NEW fields, IsSequence(fields), NEW name, Known(fields, name)
    PROVE  \E i \in DOMAIN fields : fields[i].name = name /\ OffsetOf(fields, name) = fields[i].offset
<1> DEFINE T == {i \in DOMAIN fields : fields[i].name = name}
           n == Len(fields)
<1>1. n \in Nat /\ DOMAIN fields = 1 .. n
  BY SequenceIs
<1> HIDE DEF n
<1>2. T \in SUBSET (0 .. n) /\ T # {}
  BY <1>1 DEF Known
<1>3. \A i \in T : i \in DOMAIN fields /\ fields[i].name = name
  OBVIOUS
<1>4. OffsetOf(fields, name) = fields[Max(T)].offset
  BY DEF OffsetOf
<1> HIDE DEF T
<1>5. Max(T) \in T
  BY <1>1, <1>2, MaxOf
<1> QED
  BY <1>3, <1>4, <1>5

(* One more sibling, placed where Placed puts it. *)
LEMMA PlacedOK ==
    ASSUME items \in Seq(ItemSet), NEW f, FrameOK(f), NEW i \in DOMAIN items,
           NEW kind, NEW width \in Nat, kind.k = "binary" => width > 0, TargetKnown(f, i)
    PROVE  FrameOK(Placed(f, i, kind, width)) /\ Placed(f, i, kind, width).group = f.group
<1> DEFINE item == items[i]
           cursor == Aligned(f.cursor, item, kind, width)
           offset == IF item.redefines = NoName THEN cursor ELSE OffsetOf(f.fields, item.redefines)
           field == [name |-> item.name, width |-> width, kind |-> kind, occurs |-> item.occurs,
                     controller |-> item.controller, redefines |-> item.redefines,
                     offset |-> offset]
           ends == field.offset + Reserved(field)
           fields == Append(f.fields, field)
           newCursor == IF item.redefines = NoName THEN ends ELSE cursor
           newEnd == Max({f.end, ends})
           g == Placed(f, i, kind, width)
           n == Len(f.fields)
<1>1. item \in ItemSet /\ item.occurs \in Nat \cup {Once}
  BY ElementOfSeq, LenProperties, ItemType
<1>2. f.cursor \in Nat /\ f.end \in Nat /\ FieldsOK(f)
  BY DEF FrameOK
<1>3. n \in Nat /\ DOMAIN f.fields = 1 .. n
  BY <1>2, SequenceIs DEF FieldsOK
<1>4. g = [f EXCEPT !.rest = @ \ {i}, !.fields = fields, !.cursor = newCursor, !.end = newEnd]
  BY DEF Placed
<1>5. /\ DOMAIN g = DOMAIN f /\ g.group = f.group /\ g.rest = f.rest \ {i}
      /\ g.fields = fields /\ g.cursor = newCursor /\ g.end = newEnd
  <2> HIDE DEF g, fields, newCursor, newEnd
  <2> QED
    BY <1>4 DEF FrameOK
<1>6. cursor \in Nat /\ cursor >= f.cursor /\ (item.redefines # NoName => cursor = f.cursor)
  BY <1>2, AlignedOn
<1>7. item.redefines # NoName =>
         \E k \in 1 .. n : f.fields[k].name = item.redefines /\ offset = f.fields[k].offset
  <2> SUFFICES ASSUME item.redefines # NoName
               PROVE  \E k \in 1 .. n : f.fields[k].name = item.redefines
                                        /\ OffsetOf(f.fields, item.redefines) = f.fields[k].offset
    OBVIOUS
  <2>1. Known(f.fields, item.redefines)
    BY DEF TargetKnown
  <2> QED
    BY <1>2, <1>3, <2>1, OffsetKnown DEF FieldsOK
<1> HIDE DEF cursor, g
<1>8. offset \in Nat
  <2>1. CASE item.redefines = NoName
    BY <1>6, <2>1
  <2>2. CASE item.redefines # NoName
    <3>1. PICK k \in 1 .. n : offset = f.fields[k].offset
      BY <1>7, <2>2
    <3>2. FieldOK(f.fields[k])
      BY <1>2, <1>3 DEF FieldsOK
    <3> QED
      BY <3>1, <3>2 DEF FieldOK
  <2> QED
    BY <2>1, <2>2
<1>9. item.redefines = NoName => offset = cursor
  OBVIOUS
<1> HIDE DEF offset, item
<1>10. /\ FieldOK(field) /\ field.offset = offset /\ field.redefines = item.redefines
       /\ field.controller = item.controller
  BY <1>1, <1>8 DEF FieldOK
<1> HIDE DEF field
<1>11. /\ TotalWidth(field) \in Nat /\ Reserved(field) \in Nat
       /\ (field.controller = NoName => Reserved(field) = TotalWidth(field))
  BY <1>10, FieldSize
<1>12. ends \in Nat /\ ends = offset + Reserved(field)
  BY <1>8, <1>10, <1>11
<1> HIDE DEF ends
<1>13. newEnd \in Nat /\ f.end =< newEnd /\ ends =< newEnd
  BY <1>2, <1>12, MaxOfPair
<1>14. /\ newCursor \in Nat /\ f.cursor =< newCursor
       /\ item.redefines = NoName => newCursor = ends
  <2>1. CASE item.redefines = NoName
    <3>1. newCursor = ends /\ f.cursor =< offset /\ ends = offset + Reserved(field)
      BY <1>6, <1>9, <1>12, <2>1
    <3> HIDE DEF newCursor
    <3> QED
      BY <1>2, <1>8, <1>11, <1>12, <3>1
  <2>2. CASE item.redefines # NoName
    BY <1>2, <1>6, <2>2
  <2> QED
    BY <2>1, <2>2
<1> HIDE DEF newEnd, newCursor
<1>15. /\ IsSequence(fields) /\ DOMAIN fields = 1 .. n + 1
       /\ \A k \in 1 .. n : fields[k] = f.fields[k]
       /\ fields[n + 1] = field
  BY <1>2, Longer DEF FieldsOK
<1> HIDE DEF fields, n
<1>16. \A k \in DOMAIN fields : FieldOK(fields[k])
  <2> SUFFICES ASSUME NEW k \in 1 .. n + 1 PROVE FieldOK(fields[k])
    BY <1>15
  <2>1. CASE k = n + 1
    BY <1>10, <1>15, <2>1
  <2>2. CASE k \in 1 .. n
    BY <1>2, <1>3, <1>15, <2>2 DEF FieldsOK
  <2> QED
    BY <1>3, <2>1, <2>2
<1>17. Apart(fields)
  <2> SUFFICES ASSUME NEW j \in 1 .. n + 1
               PROVE  IF fields[j].redefines = NoName
                      THEN \A k \in 1 .. j - 1 :
                              fields[k].redefines = NoName /\ fields[k].controller = NoName
                                => fields[k].offset + TotalWidth(fields[k]) <= fields[j].offset
                      ELSE \E k \in 1 .. j - 1 : /\ fields[k].name = fields[j].redefines
                                                 /\ fields[k].offset = fields[j].offset
    BY <1>15 DEF Apart
  <2>1. CASE j \in 1 .. n
    <3>1. fields[j] = f.fields[j] /\ \A k \in 1 .. j - 1 : fields[k] = f.fields[k]
      BY <1>3, <1>15, <2>1
    <3>2. IF f.fields[j].redefines = NoName
          THEN \A k \in 1 .. j - 1 :
                  f.fields[k].redefines = NoName /\ f.fields[k].controller = NoName
                    => f.fields[k].offset + TotalWidth(f.fields[k]) <= f.fields[j].offset
          ELSE \E k \in 1 .. j - 1 : /\ f.fields[k].name = f.fields[j].redefines
                                     /\ f.fields[k].offset = f.fields[j].offset
      BY <1>2, <1>3, <2>1 DEF FieldsOK, Apart
    <3> HIDE DEF FieldOK
    <3> QED
      BY <3>1, <3>2
  <2>2. CASE j = n + 1
    <3>1. j - 1 = n /\ fields[j] = field
      BY <1>3, <1>15, <2>2
    <3>2. CASE field.redefines = NoName
      <4>1. ASSUME NEW k \in 1 .. n, fields[k].redefines = NoName, fields[k].controller = NoName
            PROVE  fields[k].offset + TotalWidth(fields[k]) <= field.offset
        <5>1. fields[k] = f.fields[k] /\ FieldOK(fields[k])
          BY <1>3, <1>15, <1>16
        <5>2. fields[k].offset + TotalWidth(fields[k]) <= f.cursor
          BY <1>2, <1>3, <4>1, <5>1 DEF FieldsOK, Behind
        <5>3. fields[k].offset \in Nat /\ TotalWidth(fields[k]) \in Nat
          BY <5>1, FieldSize DEF FieldOK
        <5>4. field.offset \in Nat /\ f.cursor =< field.offset
          BY <1>6, <1>9, <1>10, <3>2
        <5> QED
          BY <1>2, <5>2, <5>3, <5>4
      <4> QED
        BY <3>1, <3>2, <4>1
    <3>3. CASE field.redefines # NoName
      <4>1. PICK k \in 1 .. n : f.fields[k].name = field.redefines /\ field.offset = f.fields[k].offset
        BY <1>7, <1>10, <3>3
      <4> QED
        BY <1>15, <3>1, <3>3, <4>1
    <3> QED
      BY <3>2, <3>3
  <2> QED
    BY <1>3, <2>1, <2>2
<1>18. Behind(fields, newCursor, newEnd)
  <2> SUFFICES ASSUME NEW k \in 1 .. n + 1, fields[k].controller = NoName
               PROVE  /\ fields[k].offset + TotalWidth(fields[k]) <= newEnd
                      /\ fields[k].redefines = NoName
                            => fields[k].offset + TotalWidth(fields[k]) <= newCursor
    BY <1>15 DEF Behind
  <2>1. CASE k = n + 1
    <3>1. fields[k] = field
      BY <1>15, <2>1
    <3>2. field.offset + TotalWidth(field) = ends
      BY <1>10, <1>11, <1>12, <3>1
    <3> QED
      BY <1>10, <1>12, <1>13, <1>14, <3>1, <3>2
  <2>2. CASE k \in 1 .. n
    <3>1. fields[k] = f.fields[k] /\ FieldOK(fields[k])
      BY <1>15, <1>16, <2>2
    <3>2. /\ fields[k].offset + TotalWidth(fields[k]) <= f.end
          /\ fields[k].redefines = NoName => fields[k].offset + TotalWidth(fields[k]) <= f.cursor
      BY <1>2, <1>3, <2>2, <3>1 DEF FieldsOK, Behind
    <3>3. fields[k].offset \in Nat /\ TotalWidth(fields[k]) \in Nat
      BY <3>1, FieldSize DEF FieldOK
    <3> QED
      BY <1>2, <1>13, <1>14, <3>2, <3>3
  <2> QED
    BY <1>3, <2>1, <2>2
<1>19. FieldsOK(g)
  BY <1>5, <1>15, <1>16, <1>17, <1>18 DEF FieldsOK
<1> QED
  BY <1>5, <1>13, <1>14, <1>19 DEF FrameOK, g

-----------------------------------------------------------------------------
(* Every step keeps the lists in order *)

LayoutInv ==
    /\ phase \in {"tree", "fields", "done", "failed"}
    /\ phase = "tree" => frames = <<>>
    /\ phase = "fields" => Len(frames) > 0
    /\ IsSequence(frames)
    /\ \A k \in 1 .. Len(frames) : FrameOK(frames[k])
    /\ \A k \in 2 .. Len(frames) : frames[k].group \in DOMAIN items
    /\ \A i \in DOMAIN layout : layout[i].offset \in Nat

LEMMA EmptySequence == IsSequence(<<>>) /\ Len(<<>>) = 0 /\ DOMAIN <<>> = {}
  BY EmptySeq DEF IsSequence

LEMMA FrameStarts ==
    ASSUME NEW group \in {0} \cup DOMAIN items
    PROVE  FrameOK(Frame(group)) /\ Frame(group).group = group
<1> DEFINE f == Frame(group)
<1>1. /\ DOMAIN f = {"group", "rest", "fields", "cursor", "end"}
      /\ f.group = group /\ f.rest = Children(group)
      /\ f.fields = <<>> /\ f.cursor = 0 /\ f.end = 0
  BY DEF Frame
<1>2. f.rest \subseteq DOMAIN items
  BY <1>1 DEF Children
<1> HIDE DEF f
<1>3. IsSequence(f.fields) /\ DOMAIN f.fields = {}
  BY <1>1, EmptySequence
<1>4. FieldsOK(f)
  BY <1>3 DEF FieldsOK, Apart, Behind
<1> QED
  BY <1>1, <1>2, <1>4 DEF FrameOK, f

LEMMA CurrentIs ==
    ASSUME TreeInv, LayoutInv, Working
    PROVE  /\ Len(frames) \in Nat /\ Len(frames) > 0
           /\ Current = frames[Len(frames)] /\ FrameOK(Current)
           /\ Current.rest # {} => Coming \in Current.rest /\ Coming \in DOMAIN items
<1>1. Len(frames) \in Nat /\ Len(frames) > 0
  BY SequenceIs DEF LayoutInv, Working
<1>2. Current = frames[Len(frames)]
  BY DEF Current, Last
<1>3. FrameOK(Current)
  BY <1>1, <1>2 DEF LayoutInv
<1>4. Current.rest \subseteq DOMAIN items /\ DOMAIN items \subseteq Nat
  BY <1>3, LenProperties DEF FrameOK, TreeInv
<1> HIDE DEF Current
<1>5. ASSUME Current.rest # {} PROVE Coming \in Current.rest
  BY <1>4, <1>5, MinOf DEF Coming
<1> QED
  BY <1>1, <1>2, <1>3, <1>4, <1>5

LEMMA TopIs ==
    ASSUME TreeInv
    PROVE  Top \in {0} \cup DOMAIN items
<1>1. CASE Cardinality(Children(0)) = 1
  <2>1. DOMAIN items = 1 .. Len(items) /\ Len(items) \in Nat
    BY LenProperties DEF TreeInv
  <2>2. Children(0) \in SUBSET (1 .. Len(items))
    BY <2>1 DEF Children
  <2>3. IsFiniteSet(1 .. Len(items))
    BY <2>1, FS_Interval
  <2>4. IsFiniteSet(Children(0))
    BY <2>2, <2>3, FS_Subset
  <2>5. \E i : Children(0) = {i}
    BY <1>1, <2>4, FS_Singleton
  <2>6. \E i \in DOMAIN items : parents[i] = 0
    BY <2>5 DEF Children
  <2>7. (CHOOSE i \in DOMAIN items : parents[i] = 0) \in DOMAIN items
    BY <2>6
  <2> QED
    BY <2>7 DEF Top
<1>2. CASE Cardinality(Children(0)) # 1
  BY <1>2 DEF Top
<1> QED
  BY <1>1, <1>2

LEMMA FramesStay ==
    ASSUME LayoutInv, UNCHANGED <<items, frames, layout>>,
           phase' \in {"done", "failed"} \/ phase' = phase
    PROVE  LayoutInv'
<1>1. \A f : FrameOK(f)' <=> FrameOK(f)
  BY DEF FrameOK
<1> QED
  BY <1>1 DEF LayoutInv

LEMMA InitLayout == Init => LayoutInv
<1> SUFFICES ASSUME Init PROVE LayoutInv
  OBVIOUS
<1>1. phase = "tree" /\ frames = <<>> /\ layout = <<>>
  BY DEF Init
<1> QED
  BY <1>1, EmptySequence DEF LayoutInv

LEMMA FoldedOffsets ==
    ASSUME NEW fields, IsSequence(fields), \A i \in DOMAIN fields : FieldOK(fields[i])
    PROVE  \A m \in DOMAIN Folded(fields) : Folded(fields)[m].offset \in Nat
<1> DEFINE n == Len(fields)
           S == {i \in DOMAIN fields : fields[i].redefines = NoName \/ BaseOf(fields, i) = 0}
           kept == InOrder(S)
<1>1. n \in Nat /\ DOMAIN fields = 1 .. n
  BY SequenceIs
<1> HIDE DEF n
<1>2. S \in SUBSET (1 .. n)
  BY <1>1
<1>3. Folded(fields) = [m \in DOMAIN kept |-> IF Redefiners(fields, kept[m]) = {}
                                               THEN fields[kept[m]] ELSE Union(fields, kept[m])]
  BY DEF Folded
<1> HIDE DEF S
<1>4. kept \in [1 .. Cardinality(S) -> S]
  BY <1>1, <1>2, InOrderOf
<1> HIDE DEF kept
<1>5. \A i \in 1 .. n : Union(fields, i).offset = fields[i].offset
  <2> SUFFICES ASSUME NEW i \in 1 .. n PROVE Union(fields, i).offset = fields[i].offset
    OBVIOUS
  <2>1. "offset" \in DOMAIN fields[i]
    BY <1>1 DEF FieldOK
  <2> QED
    BY <2>1 DEF Union
<1>6. \A i \in 1 .. n : fields[i].offset \in Nat
  BY <1>1 DEF FieldOK
<1> SUFFICES ASSUME NEW m \in DOMAIN kept PROVE Folded(fields)[m].offset \in Nat
  BY <1>3
<1>7. kept[m] \in 1 .. n
  BY <1>2, <1>4
<1> QED
  BY <1>3, <1>5, <1>6, <1>7

LEMMA PlaceItemLayout == TreeInv /\ LayoutInv /\ PlaceItem => LayoutInv'
<1> SUFFICES ASSUME TreeInv, LayoutInv, PlaceItem PROVE LayoutInv'
  OBVIOUS
<1> DEFINE n == Len(frames)
           item == items[Coming]
           g == Placed(Current, Coming, KindOf(item), WidthOf(item))
<1>1. /\ n \in Nat /\ n > 0 /\ Current = frames[n] /\ FrameOK(Current)
      /\ Coming \in DOMAIN items
  BY CurrentIs DEF PlaceItem
<1>2. items \in Seq(ItemSet) /\ item \in ItemSet
  BY <1>1, ElementOfSeq, LenProperties DEF TreeInv
<1> HIDE DEF item
<1>3. WidthOf(item) \in Nat /\ (KindOf(item).k = "binary" => WidthOf(item) > 0)
  BY <1>2, WidthType
<1>4. TargetKnown(Current, Coming)
  BY DEF PlaceItem
<1>5. FrameOK(g) /\ g.group = Current.group
  BY <1>1, <1>2, <1>3, <1>4, PlacedOK
<1>6. frames' = [frames EXCEPT ![n] = g]
  BY <1>1, Zenon DEF PlaceItem, item
<1> HIDE DEF g, n, Current
<1>7. UNCHANGED <<items, phase, layout>> /\ phase = "fields"
  BY DEF PlaceItem, Working
<1>8. IsSequence(frames) /\ n \in 1 .. Len(frames)
  BY <1>1 DEF LayoutInv, n
<1>9. /\ IsSequence(frames') /\ Len(frames') = n
      /\ \A k \in 1 .. n : frames'[k] = IF k = n THEN g ELSE frames[k]
  <2>1. n = Len(frames)
    BY DEF n
  <2>2. /\ IsSequence(frames') /\ Len(frames') = Len(frames)
        /\ \A k \in 1 .. Len(frames) : frames'[k] = IF k = n THEN g ELSE frames[k]
    <3>1. ChangedAt(frames', frames, n, g)
      BY <1>6 DEF ChangedAt
    <3> QED
      BY <1>8, <3>1, Changed
  <2> QED
    BY <2>1, <2>2, Zenon
<1>10. \A k \in 1 .. n : FrameOK(frames'[k])
  BY <1>5, <1>9 DEF LayoutInv, n
<1>11. \A k \in 1 .. n : FrameOK(frames[k])'
  BY <1>7, <1>10 DEF FrameOK
<1>12. \A k \in 2 .. n : frames'[k].group \in DOMAIN items
  <2> TAKE k \in 2 .. n
  <2>1. frames[k].group \in DOMAIN items /\ k \in 1 .. n
    BY <1>1 DEF LayoutInv, n
  <2> QED
    BY <1>1, <1>5, <1>9, <2>1
<1> QED
  BY <1>1, <1>7, <1>9, <1>11, <1>12 DEF LayoutInv

LEMMA EnterGroupLayout == TreeInv /\ LayoutInv /\ EnterGroup => LayoutInv'
<1> SUFFICES ASSUME TreeInv, LayoutInv, EnterGroup PROVE LayoutInv'
  OBVIOUS
<1> DEFINE n == Len(frames)
           g == Frame(Coming)
<1>1. n \in Nat /\ n > 0 /\ Coming \in DOMAIN items
  BY CurrentIs DEF EnterGroup
<1>2. FrameOK(g) /\ g.group = Coming
  BY <1>1, FrameStarts
<1>3. frames' = Append(frames, g) /\ UNCHANGED <<items, phase, layout>> /\ phase = "fields"
  BY DEF EnterGroup, Working
<1> HIDE DEF g
<1>4. IsSequence(frames)
  BY DEF LayoutInv
<1>5. /\ IsSequence(frames') /\ Len(frames') = n + 1
      /\ \A k \in 1 .. n : frames'[k] = frames[k]
      /\ frames'[n + 1] = g
  BY <1>3, <1>4, Longer
<1> HIDE DEF n
<1>6. \A k \in 1 .. n : FrameOK(frames[k])
  BY DEF LayoutInv, n
<1>7. \A k \in 1 .. n + 1 : FrameOK(frames'[k])
  <2> TAKE k \in 1 .. n + 1
  <2>1. k = n + 1 \/ k \in 1 .. n
    BY <1>1
  <2> QED
    BY <1>2, <1>5, <1>6, <2>1
<1>8. \A k \in 1 .. n + 1 : FrameOK(frames[k])'
  BY <1>3, <1>7 DEF FrameOK
<1>9. \A k \in 2 .. n + 1 : frames'[k].group \in DOMAIN items
  <2> TAKE k \in 2 .. n + 1
  <2>1. CASE k = n + 1
    BY <1>1, <1>2, <1>5, <2>1
  <2>2. CASE k \in 2 .. n
    <3>1. frames[k].group \in DOMAIN items /\ k \in 1 .. n
      BY <1>1, <2>2 DEF LayoutInv, n
    <3> QED
      BY <1>5, <3>1
  <2> QED
    BY <1>1, <2>1, <2>2
<1> QED
  BY <1>1, <1>3, <1>5, <1>8, <1>9 DEF LayoutInv

LEMMA LeaveGroupLayout == TreeInv /\ LayoutInv /\ LeaveGroup => LayoutInv'
<1> SUFFICES ASSUME TreeInv, LayoutInv, LeaveGroup PROVE LayoutInv'
  OBVIOUS
<1> DEFINE n == Len(frames)
           outer == frames[n - 1]
           kind == [k |-> "group", fields |-> Folded(Current.fields)]
           g == Placed(outer, Current.group, kind, Current.end)
           first == SubSeq(frames, 1, n - 2)
<1>1. n \in Nat /\ n > 1 /\ Current = frames[n] /\ FrameOK(Current)
  BY CurrentIs DEF LeaveGroup
<1>2. Current.group \in DOMAIN items /\ Current.end \in Nat
  BY <1>1 DEF LayoutInv, FrameOK
<1>3. FrameOK(outer) /\ (n > 2 => outer.group \in DOMAIN items)
  BY <1>1 DEF LayoutInv
<1>4. TargetKnown(outer, Current.group) /\ frames' = Append(first, g)
      /\ UNCHANGED <<items, phase, layout>> /\ phase = "fields"
  BY DEF LeaveGroup, Working
<1>5. kind.k # "binary"
  OBVIOUS
<1> HIDE DEF kind
<1>6. FrameOK(g) /\ g.group = outer.group
  <2>1. items \in Seq(ItemSet)
    BY DEF TreeInv
  <2> HIDE DEF outer, n
  <2> QED
    BY <1>2, <1>3, <1>4, <1>5, <2>1, PlacedOK
<1> HIDE DEF g, outer
<1>7. IsSequence(frames) /\ n - 2 \in 0 .. Len(frames)
  BY <1>1 DEF LayoutInv
<1>8. IsSequence(first) /\ Len(first) = n - 2 /\ \A k \in 1 .. n - 2 : first[k] = frames[k]
  BY <1>7, FirstOf
<1> HIDE DEF first
<1>9. /\ IsSequence(frames') /\ Len(frames') = n - 2 + 1
      /\ \A k \in 1 .. n - 2 : frames'[k] = frames[k]
      /\ frames'[n - 2 + 1] = g
  BY <1>4, <1>8, Longer
<1> HIDE DEF n
<1>10. n - 2 + 1 = n - 1
  BY <1>1
<1>11. \A k \in 1 .. n - 1 : FrameOK(frames'[k])
  <2> TAKE k \in 1 .. n - 1
  <2>1. CASE k = n - 1
    BY <1>6, <1>9, <1>10, <2>1
  <2>2. CASE k \in 1 .. n - 2
    <3>1. FrameOK(frames[k])
      BY <1>1, <2>2 DEF LayoutInv, n
    <3> QED
      BY <1>9, <2>2, <3>1
  <2> QED
    BY <1>1, <2>1, <2>2
<1>12. \A k \in 1 .. n - 1 : FrameOK(frames[k])'
  BY <1>4, <1>11 DEF FrameOK
<1>13. \A k \in 2 .. n - 1 : frames'[k].group \in DOMAIN items
  <2> TAKE k \in 2 .. n - 1
  <2>1. CASE k = n - 1
    BY <1>1, <1>3, <1>6, <1>9, <1>10, <2>1
  <2>2. CASE k \in 2 .. n - 2
    <3>1. frames[k].group \in DOMAIN items /\ k \in 1 .. n - 2
      BY <1>1, <2>2 DEF LayoutInv, n
    <3> QED
      BY <1>9, <3>1
  <2> QED
    BY <1>1, <2>1, <2>2
<1>14. Len(frames') = n - 1 /\ n - 1 > 0
  BY <1>1, <1>9, <1>10
<1> QED
  BY <1>4, <1>9, <1>12, <1>13, <1>14 DEF LayoutInv

LEMMA NextLayout == TreeInv /\ LayoutInv /\ [Next]_vars => LayoutInv'
<1> SUFFICES ASSUME TreeInv, LayoutInv, [Next]_vars PROVE LayoutInv'
  OBVIOUS
<1>1. ASSUME SkipCondition \/ AddItem PROVE LayoutInv'
  <2>1. phase = "tree" /\ frames = <<>> /\ UNCHANGED <<phase, frames, layout>>
    BY <1>1 DEF SkipCondition, AddItem, LayoutInv
  <2> QED
    BY <2>1, EmptySequence DEF LayoutInv
<1>2. CASE EndTree
  <2> DEFINE g == Frame(Top)
  <2>1. FrameOK(g)
    BY TopIs, FrameStarts
  <2>2. /\ frames = <<>> /\ frames' = <<g>> /\ phase' = "fields"
        /\ UNCHANGED <<items, layout>>
    BY <1>2 DEF EndTree, LayoutInv
  <2> HIDE DEF g
  <2>3. <<g>> = Append(<<>>, g)
    OBVIOUS
  <2>4. IsSequence(frames') /\ Len(frames') = 1 /\ frames'[1] = g
    <3>1. /\ IsSequence(Append(<<>>, g)) /\ Len(Append(<<>>, g)) = Len(<<>>) + 1
          /\ Append(<<>>, g)[Len(<<>>) + 1] = g
      BY EmptySequence, Longer
    <3>2. Len(<<>>) + 1 = 1
      BY EmptySequence
    <3> QED
      BY <2>2, <2>3, <3>1, <3>2, Zenon
  <2>5. FrameOK(frames[1])'
    BY <2>1, <2>2, <2>4 DEF FrameOK
  <2> QED
    BY <2>2, <2>4, <2>5 DEF LayoutInv
<1>3. CASE PlaceItem
  BY <1>3, PlaceItemLayout
<1>4. CASE EnterGroup
  BY <1>4, EnterGroupLayout
<1>5. CASE LeaveGroup
  BY <1>5, LeaveGroupLayout
<1>6. CASE Finish
  <2>1. FrameOK(Current)
    BY <1>6, CurrentIs DEF Finish
  <2>2. \A i \in DOMAIN layout' : layout'[i].offset \in Nat
    BY <1>6, <2>1, FoldedOffsets DEF Finish, FrameOK, FieldsOK
  <2>3. \A f : FrameOK(f) => FrameOK(f)'
    BY <1>6 DEF FrameOK, Finish
  <2> QED
    BY <1>6, <2>2, <2>3 DEF Finish, LayoutInv
<1>7. CASE Refuse
  BY <1>7, FramesStay DEF Refuse
<1>8. CASE UNCHANGED vars
  BY <1>8, FramesStay DEF vars
<1> QED
  BY <1>1, <1>2, <1>3, <1>4, <1>5, <1>6, <1>7, <1>8 DEF Next

LEMMA Invariance == Spec => [](TreeInv /\ LayoutInv)
<1>1. Init => TreeInv /\ LayoutInv
  BY InitTree, InitLayout
<1>2. TreeInv /\ LayoutInv /\ [Next]_vars => (TreeInv /\ LayoutInv)'
  BY NextTree, NextLayout
<1> QED
  BY <1>1, <1>2, PTL DEF Spec

(* For every set of copybooks and every limit on the nesting, the variables *)
(* have their types: the numbers of the tree are items of it, and offsets,  *)
(* widths and ends never go below zero (build_tree, layout_nodes).          *)
THEOREM TypeCorrect == Spec => []TypeOK
<1>1. TreeInv /\ LayoutInv => TypeOK
  <2> SUFFICES ASSUME TreeInv, LayoutInv PROVE TypeOK
    OBVIOUS
  <2>1. DOMAIN items = 1 .. Len(items) /\ Len(items) \in Nat
    BY LenProperties DEF TreeInv
  <2>2. path \in Seq(DOMAIN items)
    <3>1. path \in [1 .. Len(path) -> Nat] /\ Len(path) \in Nat
      BY LenProperties DEF TreeInv
    <3>2. path \in [1 .. Len(path) -> DOMAIN items]
      BY <2>1, <3>1 DEF TreeInv
    <3> QED
      BY <3>1, <3>2, SeqDef
  <2>3. ASSUME NEW f \in Range(frames)
        PROVE  /\ f.group \in {0} \cup DOMAIN items
               /\ f.rest \subseteq DOMAIN items
               /\ f.cursor \in Nat /\ f.end \in Nat
               /\ \A i \in DOMAIN f.fields : f.fields[i].offset \in Nat /\ f.fields[i].width \in Nat
    <3>1. PICK k \in 1 .. Len(frames) : f = frames[k]
      BY SequenceIs DEF LayoutInv, Range
    <3> QED
      BY <3>1 DEF LayoutInv, FrameOK, FieldsOK, FieldOK
  <2> QED
    BY <2>1, <2>2, <2>3 DEF TypeOK, TreeInv, LayoutInv
<1> QED
  BY <1>1, Invariance, PTL

(* For every set of copybooks and every limit on the nesting: of two        *)
(* siblings with a place of their own the later begins where the earlier    *)
(* has ended with every occurrence of it, a redefinition begins where its   *)
(* target does, and the list ends behind all of them (layout_nodes).        *)
THEOREM NoneOverlaps == Spec => []SiblingsApart
<1>1. LayoutInv => SiblingsApart
  <2> SUFFICES ASSUME LayoutInv, NEW f \in Range(frames)
               PROVE  /\ Apart(f.fields)
                      /\ \A i \in DOMAIN f.fields :
                            f.fields[i].controller = NoName
                               => f.fields[i].offset + TotalWidth(f.fields[i]) <= f.end
    BY DEF SiblingsApart
  <2>1. PICK k \in 1 .. Len(frames) : f = frames[k]
    BY SequenceIs DEF LayoutInv, Range
  <2>2. FieldsOK(f)
    BY <2>1 DEF LayoutInv, FrameOK
  <2> QED
    BY <2>2 DEF FieldsOK, Behind
<1> QED
  BY <1>1, Invariance, PTL

-----------------------------------------------------------------------------
(* How deep an item stands *)

(* Where the recursion of Depth ends, and what it goes on with.            *)
Outer(d, j) == d[j] = IF parents[j] \in {0, Top} THEN 0 ELSE 1 + d[parents[j]]

LEMMA DepthsExist ==
    ASSUME TreeInv
    PROVE  \E g \in [DOMAIN items -> Nat] : \A j \in DOMAIN items : Outer(g, j)
<1> DEFINE n == Len(items)
           D == 1 .. n
           stop == {j \in D : parents[j] \in {0, Top}}
           rank == [j \in D |-> j]
           next == [j \in D |-> IF j \in stop THEN j ELSE parents[j]]
           base == [j \in D |-> 0]
           step == [x \in D \X Nat |-> 1 + x[2]]
<1>1. n \in Nat /\ DOMAIN items = D /\ \A j \in D : parents[j] \in 0 .. j - 1
  BY LenProperties DEF TreeInv
<1> HIDE DEF n
<1>2. \A j \in D \ stop : parents[j] \in D /\ parents[j] < j /\ next[j] = parents[j]
  BY <1>1
<1>3. Descends(D, Nat, n, rank, next, base, step, stop)
  <2>1. rank \in [D -> 0 .. n] /\ base \in [D -> Nat] /\ step \in [D \X Nat -> Nat]
    BY <1>1
  <2>2. next \in [D -> D]
    BY <1>2
  <2>3. \A j \in D \ stop : rank[next[j]] < rank[j]
    BY <1>2
  <2> QED
    BY <1>1, <2>1, <2>2, <2>3 DEF Descends
<1>4. PICK g \in [D -> Nat] : \A j \in D : Told(g, j, next, base, step, stop)
  <2> HIDE DEF D, rank, next, base, step, stop
  <2> QED
    BY <1>3, Recursion
<1>5. ASSUME NEW j \in D PROVE Outer(g, j)
  <2>1. CASE j \in stop
    BY <1>4, <2>1 DEF Told, Outer
  <2>2. CASE j \notin stop
    <3>1. <<j, g[parents[j]]>> \in D \X Nat
      BY <1>2, <1>4, <2>2
    <3>2. g[j] = step[<<j, g[parents[j]]>>]
      BY <1>2, <1>4, <2>2 DEF Told
    <3>3. parents[j] \notin {0, Top}
      BY <2>2
    <3> QED
      BY <3>1, <3>2, <3>3 DEF Outer
  <2> QED
    BY <2>1, <2>2
<1> QED
  BY <1>1, <1>4, <1>5

LEMMA DepthIs ==
    ASSUME TreeInv, NEW i \in DOMAIN items
    PROVE  /\ Depth(i) \in Nat
           /\ parents[i] \in {0, Top} => Depth(i) = 0
           /\ parents[i] \notin {0, Top} => Depth(i) = 1 + Depth(parents[i])
<1> DEFINE D == DOMAIN items
           Turn(h) == [j \in D |-> IF parents[j] \in {0, Top} THEN 0 ELSE 1 + h[parents[j]]]
           f == CHOOSE h : h = Turn(h)
<1>1. PICK g \in [D -> Nat] : \A j \in D : Outer(g, j)
  BY DepthsExist
<1>2. g = Turn(g)
  BY <1>1 DEF Outer
<1>3. f = Turn(f)
  <2> HIDE DEF Turn
  <2> QED
    BY <1>2
<1>4. \A j \in D : Depth(j) = f[j]
  BY DEF Depth
<1> HIDE DEF f
<1>5. \A j \in D : f[j] = IF parents[j] \in {0, Top} THEN 0 ELSE 1 + f[parents[j]]
  BY <1>3, Zenon
<1>6. /\ DOMAIN items = 1 .. Len(items) /\ Len(items) \in Nat
      /\ \A j \in D : parents[j] \in 0 .. j - 1
  BY LenProperties DEF TreeInv
<1>7. \A j \in D : f[j] \in Nat
  <2> DEFINE Good == {n \in Nat : \A j \in D : j =< n => f[j] \in Nat}
  <2>1. 0 \in Good
    BY <1>6
  <2>2. ASSUME NEW n \in Nat, n \in Good PROVE n + 1 \in Good
    <3> SUFFICES ASSUME NEW j \in D, j =< n + 1 PROVE f[j] \in Nat
      OBVIOUS
    <3>1. CASE parents[j] \in {0, Top}
      BY <1>5, <3>1
    <3>2. CASE parents[j] \notin {0, Top}
      <4>1. parents[j] \in D /\ parents[j] =< n
        BY <1>6, <3>2
      <4>2. f[parents[j]] \in Nat
        BY <2>2, <4>1
      <4> QED
        BY <1>5, <3>2, <4>2
    <3> QED
      BY <3>1, <3>2
  <2>3. Nat \subseteq Good
    <3> HIDE DEF Good
    <3> QED
      BY <2>1, <2>2, SetInduction
  <2> QED
    BY <1>6, <2>3
<1>8. parents[i] \notin {0, Top} => parents[i] \in D
  BY <1>6
<1> QED
  BY <1>4, <1>5, <1>7, <1>8

(* A single root stands for the record itself. *)
LEMMA SingleRoot ==
    ASSUME TreeInv, Top # 0
    PROVE  Children(0) = {Top}
<1>1. Cardinality(Children(0)) = 1 /\ Top = CHOOSE i \in DOMAIN items : parents[i] = 0
  BY DEF Top
<1>2. DOMAIN items = 1 .. Len(items) /\ Len(items) \in Nat
  BY LenProperties DEF TreeInv
<1>3. IsFiniteSet(Children(0))
  <2>1. Children(0) \in SUBSET (1 .. Len(items))
    BY <1>2 DEF Children
  <2>2. IsFiniteSet(1 .. Len(items))
    BY <1>2, FS_Interval
  <2> QED
    BY <2>1, <2>2, FS_Subset
<1>4. PICK x : Children(0) = {x}
  BY <1>1, <1>3, FS_Singleton
<1>5. \A i : i = x <=> i \in DOMAIN items /\ parents[i] = 0
  BY <1>4 DEF Children
<1>6. Top = x
  BY <1>1, <1>5
<1> QED
  BY <1>4, <1>6

-----------------------------------------------------------------------------
(* What was gone through without a refusal *)

(* Items that bring all of their members with them and give no cause.       *)
Sound(C) ==
    /\ C \subseteq Written
    /\ \A i \in C : Children(i) \subseteq C /\ ~Cause(i)

Clean == UNION {C \in SUBSET DOMAIN items : Sound(C)}

LEMMA CleanIsSound == Sound(Clean)
<1>1. Clean \subseteq Written
  BY DEF Clean, Sound
<1>2. ASSUME NEW i \in Clean PROVE Children(i) \subseteq Clean /\ ~Cause(i)
  <2>1. PICK C \in SUBSET DOMAIN items : i \in C /\ Sound(C)
    BY <1>2 DEF Clean
  <2>2. Children(i) \subseteq C /\ ~Cause(i)
    BY <2>1 DEF Sound
  <2>3. C \subseteq Clean
    BY <2>1 DEF Clean
  <2> QED
    BY <2>2, <2>3
<1> HIDE DEF Clean
<1> QED
  BY <1>1, <1>2 DEF Sound

(* An item whose members are clean is clean unless it gives a cause itself. *)
LEMMA CleanGrows ==
    ASSUME NEW i \in Written, Children(i) \subseteq Clean, ~Cause(i)
    PROVE  i \in Clean
<1> DEFINE C == Clean \cup {i}
<1>1. Sound(Clean)
  BY CleanIsSound
<1>2. Sound(C)
  BY <1>1 DEF Sound
<1>3. C \subseteq DOMAIN items
  BY <1>2 DEF Sound, Written
<1> HIDE DEF C
<1>4. C \subseteq Clean
  BY <1>2, <1>3 DEF Clean
<1> QED
  BY <1>4 DEF C

(* The siblings of a list are placed in their order: those placed, whose    *)
(* names the fields bear, come before those that are left.                 *)
Gone(f) == Children(f.group) \ f.rest

Partway(f) ==
    /\ f.rest \subseteq Children(f.group)
    /\ \A j \in Gone(f), i \in f.rest : j < i
    /\ \A name : Known(f.fields, name) <=> \E j \in Gone(f) : items[j].name = name
    /\ Gone(f) \subseteq Clean

LEMMA TargetIs ==
    ASSUME TreeInv, NEW f, Partway(f), NEW i \in f.rest, \A r \in f.rest : i =< r
    PROVE  TargetKnown(f, i) <=> (items[i].redefines # NoName => Target(i) # {})
<1>1. /\ i \in DOMAIN items /\ parents[i] = f.group
      /\ \A j : j \in Children(f.group) <=> j \in DOMAIN items /\ parents[j] = f.group
  BY DEF Partway, Children
<1>2. DOMAIN items \subseteq Nat
  BY LenProperties DEF TreeInv
<1>3. \A j : j \in Gone(f) <=> j \in DOMAIN items /\ parents[j] = f.group /\ j < i
  <2> SUFFICES ASSUME NEW j \in Children(f.group) PROVE j \in Gone(f) <=> j < i
    BY <1>1 DEF Gone
  <2>1. j \in Nat /\ i \in Nat
    BY <1>1, <1>2
  <2>2. j \in f.rest => i =< j
    OBVIOUS
  <2>3. j \notin f.rest => j < i
    BY DEF Partway, Gone
  <2> QED
    BY <2>1, <2>2, <2>3 DEF Gone
<1>4. Target(i) = {j \in Gone(f) : items[j].name = items[i].redefines}
  BY <1>1, <1>3 DEF Target, Siblings
<1>5. Known(f.fields, items[i].redefines) <=> \E j \in Gone(f) : items[j].name = items[i].redefines
  BY DEF Partway
<1> QED
  BY <1>4, <1>5 DEF TargetKnown

(* One more sibling: its name comes to those that are known. *)
LEMMA PlacedNames ==
    ASSUME NEW f, FrameOK(f), NEW i, NEW kind, NEW width
    PROVE  LET g == Placed(f, i, kind, width)
           IN  /\ g.group = f.group /\ g.rest = f.rest \ {i}
               /\ \A name : Known(g.fields, name) <=> Known(f.fields, name) \/ items[i].name = name
<1> DEFINE item == items[i]
           cursor == Aligned(f.cursor, item, kind, width)
           field == [name |-> item.name, width |-> width, kind |-> kind, occurs |-> item.occurs,
                     controller |-> item.controller, redefines |-> item.redefines,
                     offset |-> IF item.redefines = NoName THEN cursor
                                ELSE OffsetOf(f.fields, item.redefines)]
           ends == field.offset + Reserved(field)
           fields == Append(f.fields, field)
           newCursor == IF item.redefines = NoName THEN ends ELSE cursor
           newEnd == Max({f.end, ends})
           g == Placed(f, i, kind, width)
           n == Len(f.fields)
<1>1. g = [f EXCEPT !.rest = @ \ {i}, !.fields = fields, !.cursor = newCursor, !.end = newEnd]
  BY DEF Placed
<1>2. g.group = f.group /\ g.rest = f.rest \ {i} /\ g.fields = fields
  <2> HIDE DEF g, fields, newCursor, newEnd
  <2> QED
    BY <1>1 DEF FrameOK
<1>3. field.name = item.name
  OBVIOUS
<1> HIDE DEF g, field
<1>4. IsSequence(f.fields)
  BY DEF FrameOK, FieldsOK
<1>5. n \in Nat /\ DOMAIN f.fields = 1 .. n
  BY <1>4, SequenceIs
<1>6. DOMAIN fields = 1 .. n + 1 /\ (\A k \in 1 .. n : fields[k] = f.fields[k]) /\ fields[n + 1] = field
  BY <1>4, Longer
<1> HIDE DEF n, fields
<1>7. ASSUME NEW name
      PROVE  Known(fields, name) <=> Known(f.fields, name) \/ item.name = name
  <2>1. \A k : k \in 1 .. n + 1 <=> k \in 1 .. n \/ k = n + 1
    BY <1>5
  <2> QED
    BY <1>3, <1>5, <1>6, <2>1 DEF Known
<1> QED
  BY <1>2, <1>7 DEF g

LEMMA PlacedPartway ==
    ASSUME TreeInv, NEW f, FrameOK(f), Partway(f), NEW i \in f.rest, \A r \in f.rest : i =< r,
           i \in Clean, NEW kind, NEW width
    PROVE  Partway(Placed(f, i, kind, width))
<1> DEFINE g == Placed(f, i, kind, width)
<1>1. /\ g.group = f.group /\ g.rest = f.rest \ {i}
      /\ \A name : Known(g.fields, name) <=> Known(f.fields, name) \/ items[i].name = name
  BY PlacedNames
<1> HIDE DEF g
<1>2. i \in Children(f.group)
  BY DEF Partway
<1>3. Gone(g) = Gone(f) \cup {i}
  BY <1>1, <1>2 DEF Gone
<1>4. \A j \in Gone(g), r \in g.rest : j < r
  <2> SUFFICES ASSUME NEW j \in Gone(g), NEW r \in f.rest, r # i PROVE j < r
    BY <1>1
  <2>1. j \in Gone(f) => j < r
    BY DEF Partway
  <2>2. i \in Nat /\ r \in Nat
    BY LenProperties DEF Partway, Children, TreeInv
  <2>3. i < r
    BY <2>2
  <2> QED
    BY <1>3, <2>1, <2>3
<1>5. \A name : Known(g.fields, name) <=> \E j \in Gone(g) : items[j].name = name
  BY <1>1, <1>3 DEF Partway
<1>6. g.rest \subseteq Children(g.group) /\ Gone(g) \subseteq Clean
  BY <1>1, <1>3 DEF Partway
<1> QED
  BY <1>4, <1>5, <1>6 DEF Partway, g

-----------------------------------------------------------------------------
(* Every step keeps what was gone through clean *)

(* The k-th list is that of the group the list outside has come to, and its *)
(* members stand in k - 1 groups.                                          *)
Nested(fs, k) ==
    /\ fs[k].group >= Top
    /\ IF k = 1 THEN fs[k].group = Top
       ELSE /\ fs[k].group \in fs[k - 1].rest /\ \A r \in fs[k - 1].rest : fs[k].group =< r
            /\ Children(fs[k].group) # {}
    /\ \A c \in Children(fs[k].group) : Depth(c) = k - 1

ListsInv ==
    /\ Len(frames) =< MaxDepth + 1
    /\ \A k \in 1 .. Len(frames) : Partway(frames[k]) /\ Nested(frames, k)

WorkInv ==
    /\ phase = "fields" => ListsInv
    /\ RefusedForCause

LEMMA NestedSame ==
    ASSUME NEW fs, NEW gs, NEW k \in Nat, Nested(fs, k), gs[k].group = fs[k].group,
           k # 1 => gs[k - 1].rest = fs[k - 1].rest
    PROVE  Nested(gs, k)
  BY DEF Nested

LEMMA ItemNumbers ==
    ASSUME TreeInv
    PROVE  DOMAIN items = 1 .. Len(items) /\ Len(items) \in Nat /\ Top \in Nat
           /\ \A i \in DOMAIN items : parents[i] \in 0 .. i - 1
  BY TopIs, LenProperties DEF TreeInv

(* The members of a list are fields of the record. *)
LEMMA MembersWritten ==
    ASSUME TreeInv, NEW g \in Nat, g >= Top, NEW c \in Children(g)
    PROVE  c \in Written /\ c \in Nat /\ c > g
<1>1. c \in DOMAIN items /\ parents[c] = g
  BY DEF Children
<1>2. c \in Nat /\ parents[c] \in 0 .. c - 1 /\ Top \in Nat
  BY <1>1, ItemNumbers
<1> QED
  BY <1>1, <1>2 DEF Written

(* The next member of a list. *)
LEMMA NextOf ==
    ASSUME TreeInv, NEW f, FrameOK(f), Partway(f), f.group >= Top, NEW i \in f.rest
    PROVE  f.group \in Nat /\ i \in Children(f.group) /\ i \in Written /\ i \in Nat /\ i > f.group
<1>1. f.group \in Nat /\ i \in Children(f.group)
  BY ItemNumbers DEF FrameOK, Partway
<1> QED
  BY <1>1, MembersWritten

LEMMA ComingIs ==
    ASSUME TreeInv, LayoutInv, ListsInv, Working, Current.rest # {}
    PROVE  /\ FrameOK(Current) /\ Partway(Current)
           /\ Coming \in Current.rest /\ \A r \in Current.rest : Coming =< r
           /\ Coming \in Written /\ Coming \in Nat /\ Coming > Top
           /\ Depth(Coming) = Len(frames) - 1
<1> DEFINE n == Len(frames)
<1>1. /\ n \in Nat /\ n > 0 /\ Current = frames[n] /\ FrameOK(Current)
      /\ Coming \in Current.rest
  BY CurrentIs
<1>2. Partway(Current) /\ Nested(frames, n)
  BY <1>1 DEF ListsInv
<1> HIDE DEF n
<1>3. Current.group >= Top /\ \A c \in Children(Current.group) : Depth(c) = n - 1
  BY <1>1, <1>2 DEF Nested
<1>4. Current.rest \subseteq Nat
  <2>1. DOMAIN items \subseteq Nat
    BY ItemNumbers
  <2> QED
    BY <1>1, <2>1 DEF FrameOK
<1> HIDE DEF Current
<1>5. \A r \in Current.rest : Coming =< r
  BY <1>4, MinOf DEF Coming
<1>6. /\ Current.group \in Nat /\ Coming \in Children(Current.group)
      /\ Coming \in Written /\ Coming \in Nat /\ Coming > Current.group
  BY <1>1, <1>2, <1>3, NextOf
<1>7. Top \in Nat
  BY ItemNumbers
<1> QED
  BY <1>1, <1>2, <1>3, <1>5, <1>6, <1>7 DEF n

(* The group whose members have all been placed. *)
LEMMA LeavingIs ==
    ASSUME TreeInv, LayoutInv, ListsInv, Working, Current.rest = {}, Len(frames) > 1
    PROVE  LET outer == frames[Len(frames) - 1]
               g     == Current.group
           IN  /\ FrameOK(outer) /\ Partway(outer)
               /\ g \in outer.rest /\ \A r \in outer.rest : g =< r
               /\ g \in Written /\ Depth(g) = Len(frames) - 2
               /\ Children(g) \subseteq Clean /\ Children(g) # {}
<1> DEFINE n == Len(frames)
           outer == frames[n - 1]
           g == Current.group
<1>1. n \in Nat /\ n > 1 /\ Current = frames[n]
  BY CurrentIs
<1>2. /\ FrameOK(outer) /\ Partway(outer) /\ Nested(frames, n - 1)
      /\ Partway(Current) /\ Nested(frames, n)
  BY <1>1 DEF ListsInv, LayoutInv
<1>3. /\ outer.group >= Top /\ \A c \in Children(outer.group) : Depth(c) = n - 2
      /\ g \in outer.rest /\ (\A r \in outer.rest : g =< r) /\ Children(g) # {}
  <2> HIDE DEF n, Current
  <2>1. Current = frames[n]
    BY <1>1
  <2> QED
    BY <1>1, <1>2, <2>1 DEF Nested
<1>4. Children(g) \subseteq Clean
  BY <1>2 DEF Partway, Gone
<1> HIDE DEF n, outer, g
<1>5. g \in Children(outer.group) /\ g \in Written
  BY <1>2, <1>3, NextOf
<1> QED
  BY <1>2, <1>3, <1>4, <1>5 DEF n, outer, g

(* What is said of an item does not change any more. *)
LEMMA ItemsStay ==
    ASSUME UNCHANGED <<items, parents>>
    PROVE  /\ Top' = Top /\ Clean' = Clean /\ Written' = Written
           /\ \A i : Children(i)' = Children(i) /\ Depth(i)' = Depth(i) /\ Cause(i)' = Cause(i)
<1>1. \A i : Children(i)' = Children(i)
  BY DEF Children
<1>2. Top' = Top
  BY <1>1 DEF Top
<1>3. Written' = Written
  BY <1>2 DEF Written
<1>4. \A i : Depth(i)' = Depth(i)
  BY <1>2 DEF Depth
<1>5. \A i : Target(i)' = Target(i)
  BY DEF Target, Siblings
<1>6. \A i : Cause(i)' = Cause(i)
  BY <1>1, <1>4, <1>5 DEF Cause
<1>7. Clean' = Clean
  BY <1>1, <1>3, <1>6 DEF Clean, Sound
<1> QED
  BY <1>1, <1>2, <1>3, <1>4, <1>6, <1>7

LEMMA ListsStay ==
    ASSUME UNCHANGED <<items, parents>>
    PROVE  /\ \A f : Partway(f)' <=> Partway(f)
           /\ \A fs, k : Nested(fs, k)' <=> Nested(fs, k)
<1>1. \A f : Partway(f)' <=> Partway(f)
  BY ItemsStay DEF Partway, Gone, Known
<1>2. \A fs, k : Nested(fs, k)' <=> Nested(fs, k)
  BY ItemsStay DEF Nested
<1> QED
  BY <1>1, <1>2

LEMMA InitWork == Init => WorkInv
  BY DEF Init, WorkInv, RefusedForCause

LEMMA EndTreeWork == TreeInv /\ LayoutInv /\ WorkInv /\ EndTree => WorkInv'
<1> SUFFICES ASSUME TreeInv, LayoutInv, WorkInv, EndTree PROVE WorkInv'
  OBVIOUS
<1> DEFINE f == Frame(Top)
<1>1. frames' = <<f>> /\ UNCHANGED <<items, parents>> /\ phase' = "fields"
  BY DEF EndTree
<1>2. f.group = Top /\ f.rest = Children(Top) /\ f.fields = <<>>
  BY DEF Frame
<1> HIDE DEF f
<1>3. Len(frames') = 1 /\ frames'[1] = f
  BY <1>1
<1>4. Partway(f)
  <2>1. Gone(f) = {}
    BY <1>2 DEF Gone
  <2>2. \A name : ~Known(f.fields, name)
    BY <1>2, EmptySequence DEF Known
  <2> QED
    BY <1>2, <2>1, <2>2 DEF Partway
<1>5. Nested(frames', 1)
  <2>1. Top \in Nat /\ 1 - 1 = 0
    BY ItemNumbers
  <2>2. \A c \in Children(Top) : Depth(c) = 0
    <3> TAKE c \in Children(Top)
    <3>1. c \in DOMAIN items /\ parents[c] = Top
      BY DEF Children
    <3> QED
      BY <3>1, DepthIs
  <2> QED
    BY <1>2, <1>3, <2>1, <2>2 DEF Nested
<1>6. Len(frames') =< MaxDepth + 1
  BY <1>3, DepthAssumption
<1>7. ASSUME NEW k \in 1 .. Len(frames') PROVE Partway(frames'[k]) /\ Nested(frames', k)
  <2>1. k = 1
    BY <1>3
  <2> QED
    BY <1>3, <1>4, <1>5, <2>1
<1>8. ListsInv'
  BY <1>1, <1>6, <1>7, ListsStay DEF ListsInv
<1> QED
  BY <1>1, <1>8 DEF WorkInv, RefusedForCause

LEMMA PlaceItemWork == TreeInv /\ LayoutInv /\ WorkInv /\ PlaceItem => WorkInv'
<1> SUFFICES ASSUME TreeInv, LayoutInv, WorkInv, PlaceItem PROVE WorkInv'
  OBVIOUS
<1> DEFINE n == Len(frames)
           kind == KindOf(items[Coming])
           width == WidthOf(items[Coming])
           g == Placed(Current, Coming, kind, width)
<1>0. ListsInv /\ Working /\ Current.rest # {}
  BY DEF WorkInv, PlaceItem, Working
<1>1. /\ FrameOK(Current) /\ Partway(Current)
      /\ Coming \in Current.rest /\ \A r \in Current.rest : Coming =< r
      /\ Coming \in Written /\ Coming \in Nat /\ Depth(Coming) = n - 1
  BY <1>0, ComingIs
<1>2. n \in Nat /\ n > 0 /\ Current = frames[n] /\ n =< MaxDepth + 1
  BY <1>0, CurrentIs DEF ListsInv
<1>3. Coming \in Clean
  <2>1. Children(Coming) = {} /\ Readable(items[Coming]) /\ TargetKnown(Current, Coming)
    BY DEF PlaceItem
  <2>2. items[Coming].redefines # NoName => Target(Coming) # {}
    BY <1>1, <2>1, TargetIs
  <2>3. ~(Depth(Coming) > MaxDepth)
    BY <1>1, <1>2, DepthAssumption
  <2>4. ~Cause(Coming)
    BY <2>1, <2>2, <2>3 DEF Cause
  <2> QED
    BY <1>1, <2>1, <2>4, CleanGrows
<1>4. frames' = [frames EXCEPT ![n] = g] /\ UNCHANGED <<items, parents, phase>>
  BY <1>2, Zenon DEF PlaceItem
<1> HIDE DEF kind, width
<1>5. Partway(g)
  BY <1>1, <1>3, PlacedPartway
<1>6. g.group = Current.group
  BY <1>1, PlacedNames
<1> HIDE DEF g, n, Current
<1>7. /\ Len(frames') = n
      /\ \A k \in 1 .. n : frames'[k] = IF k = n THEN g ELSE frames[k]
  <2>1. IsSequence(frames) /\ n \in 1 .. Len(frames) /\ Len(frames) = n
    BY <1>2 DEF LayoutInv, n
  <2>2. ChangedAt(frames', frames, n, g)
    BY <1>4 DEF ChangedAt
  <2>3. /\ Len(frames') = Len(frames)
        /\ \A k \in 1 .. Len(frames) : frames'[k] = IF k = n THEN g ELSE frames[k]
    BY <2>1, <2>2, Changed
  <2> QED
    BY <2>1, <2>3, Zenon
<1>8. \A k \in 1 .. n : Partway(frames[k]) /\ Nested(frames, k)
  BY <1>0 DEF ListsInv, n
<1>9. ASSUME NEW k \in 1 .. n PROVE Partway(frames'[k]) /\ Nested(frames', k)
  <2>1. frames'[k].group = frames[k].group
    BY <1>2, <1>6, <1>7
  <2>2. k # 1 => frames'[k - 1] = frames[k - 1]
    BY <1>2, <1>7
  <2>3. Nested(frames', k)
    BY <1>8, <2>1, <2>2, NestedSame
  <2>4. Partway(frames'[k])
    BY <1>5, <1>7, <1>8
  <2> QED
    BY <2>3, <2>4
<1>10. ListsInv'
  BY <1>2, <1>4, <1>7, <1>9, ListsStay DEF ListsInv
<1> QED
  BY <1>4, <1>10 DEF WorkInv, RefusedForCause, PlaceItem, Working

LEMMA EnterGroupWork == TreeInv /\ LayoutInv /\ WorkInv /\ EnterGroup => WorkInv'
<1> SUFFICES ASSUME TreeInv, LayoutInv, WorkInv, EnterGroup PROVE WorkInv'
  OBVIOUS
<1> DEFINE n == Len(frames)
           f == Frame(Coming)
<1>0. ListsInv /\ Working /\ Current.rest # {} /\ Children(Coming) # {} /\ n =< MaxDepth
  <2>1. ListsInv /\ Working /\ Current.rest # {} /\ Children(Coming) # {} /\ ~(n > MaxDepth)
    BY DEF WorkInv, EnterGroup, Working, TooDeep
  <2>2. n \in Nat /\ MaxDepth \in Nat
    BY <2>1, CurrentIs, DepthAssumption
  <2> QED
    BY <2>1, <2>2
<1>1. /\ Coming \in Current.rest /\ \A r \in Current.rest : Coming =< r
      /\ Coming \in Written /\ Coming \in Nat /\ Coming > Top /\ Depth(Coming) = n - 1
  BY <1>0, ComingIs
<1>2. n \in Nat /\ n > 0 /\ Current = frames[n]
  BY <1>0, CurrentIs
<1>3. frames' = Append(frames, f) /\ UNCHANGED <<items, parents, phase>>
  BY DEF EnterGroup
<1>4. f.group = Coming /\ f.rest = Children(Coming) /\ f.fields = <<>>
  BY DEF Frame
<1> HIDE DEF f
<1>5. Partway(f)
  <2>1. Gone(f) = {}
    BY <1>4 DEF Gone
  <2>2. \A name : ~Known(f.fields, name)
    BY <1>4, EmptySequence DEF Known
  <2> QED
    BY <1>4, <2>1, <2>2 DEF Partway
<1> HIDE DEF Coming
<1>6. /\ Len(frames') = n + 1
      /\ \A k \in 1 .. n : frames'[k] = frames[k]
      /\ frames'[n + 1] = f
  <2>1. IsSequence(frames)
    BY DEF LayoutInv
  <2> QED
    BY <1>3, <2>1, Longer
<1>7. \A k \in 1 .. n : Partway(frames[k]) /\ Nested(frames, k)
  BY <1>0 DEF ListsInv
<1>8. Nested(frames', n + 1)
  <2>1. \A c \in Children(Coming) : Depth(c) = n
    <3> TAKE c \in Children(Coming)
    <3>1. c \in DOMAIN items /\ parents[c] = Coming
      BY DEF Children
    <3>2. Coming \notin {0, Top}
      BY <1>1, ItemNumbers
    <3>3. Depth(c) = 1 + Depth(Coming)
      BY <3>1, <3>2, DepthIs
    <3> QED
      BY <1>1, <1>2, <3>3
  <2>2. Coming >= Top
    BY <1>1, ItemNumbers
  <2>3. frames'[n] = Current
    BY <1>2, <1>6
  <2>4. (n + 1) - 1 = n /\ n + 1 # 1
    BY <1>2
  <2> HIDE DEF n, Current
  <2> QED
    BY <1>0, <1>1, <1>4, <1>6, <2>1, <2>2, <2>3, <2>4 DEF Nested
<1> HIDE DEF n
<1>9. ASSUME NEW k \in 1 .. n + 1 PROVE Partway(frames'[k]) /\ Nested(frames', k)
  <2>1. CASE k = n + 1
    BY <1>5, <1>6, <1>8, <2>1
  <2>2. CASE k \in 1 .. n
    <3>1. frames'[k] = frames[k] /\ (k # 1 => frames'[k - 1] = frames[k - 1])
      BY <1>2, <1>6, <2>2
    <3>2. Nested(frames', k)
      BY <1>7, <2>2, <3>1, NestedSame
    <3> QED
      BY <1>7, <2>2, <3>1, <3>2
  <2> QED
    BY <1>2, <2>1, <2>2
<1>10. n + 1 =< MaxDepth + 1
  BY <1>0, <1>2, DepthAssumption
<1>11. ListsInv'
  BY <1>3, <1>6, <1>9, <1>10, ListsStay DEF ListsInv
<1> QED
  BY <1>3, <1>11 DEF WorkInv, RefusedForCause, EnterGroup, Working

LEMMA LeaveGroupWork == TreeInv /\ LayoutInv /\ WorkInv /\ LeaveGroup => WorkInv'
<1> SUFFICES ASSUME TreeInv, LayoutInv, WorkInv, LeaveGroup PROVE WorkInv'
  OBVIOUS
<1> DEFINE n == Len(frames)
           outer == frames[n - 1]
           i == Current.group
           kind == [k |-> "group", fields |-> Folded(Current.fields)]
           width == Current.end
           g == Placed(outer, i, kind, width)
           first == SubSeq(frames, 1, n - 2)
<1>0. ListsInv /\ Working /\ Current.rest = {} /\ n > 1
  BY DEF WorkInv, LeaveGroup, Working
<1>1. /\ FrameOK(outer) /\ Partway(outer)
      /\ i \in outer.rest /\ \A r \in outer.rest : i =< r
      /\ i \in Written /\ Depth(i) = n - 2
      /\ Children(i) \subseteq Clean /\ Children(i) # {}
  BY <1>0, LeavingIs
<1>2. n \in Nat /\ n =< MaxDepth + 1
  BY <1>0, CurrentIs DEF ListsInv
<1>3. TargetKnown(outer, i) /\ frames' = Append(first, g) /\ UNCHANGED <<items, parents, phase>>
  BY DEF LeaveGroup
<1> HIDE DEF i, kind, width, outer, n
<1>4. i \in Clean
  <2>1. items[i].redefines # NoName => Target(i) # {}
    BY <1>1, <1>3, TargetIs
  <2>2. ~(Depth(i) > MaxDepth)
    BY <1>1, <1>2, DepthAssumption
  <2>3. ~Cause(i)
    BY <1>1, <2>1, <2>2 DEF Cause
  <2> QED
    BY <1>1, <2>3, CleanGrows
<1>5. Partway(g)
  BY <1>1, <1>4, PlacedPartway
<1>6. g.group = outer.group
  BY <1>1, PlacedNames
<1> HIDE DEF g
<1>7. IsSequence(frames) /\ n - 2 \in 0 .. Len(frames)
  BY <1>0, <1>2 DEF LayoutInv, n
<1>8. IsSequence(first) /\ Len(first) = n - 2 /\ \A k \in 1 .. n - 2 : first[k] = frames[k]
  BY <1>7, FirstOf
<1> HIDE DEF first
<1>9. /\ Len(frames') = n - 2 + 1
      /\ \A k \in 1 .. n - 2 : frames'[k] = frames[k]
      /\ frames'[n - 2 + 1] = g
  BY <1>3, <1>8, Longer
<1>10. n - 2 + 1 = n - 1 /\ n - 1 =< MaxDepth + 1
  BY <1>2, DepthAssumption
<1>11. \A k \in 1 .. n : Partway(frames[k]) /\ Nested(frames, k)
  BY <1>0 DEF ListsInv, n
<1>12. ASSUME NEW k \in 1 .. n - 1 PROVE Partway(frames'[k]) /\ Nested(frames', k)
  <2>1. k \in 1 .. n /\ k \in Nat
    BY <1>2
  <2>2. k # 1 => frames'[k - 1] = frames[k - 1]
    BY <1>2, <1>9
  <2>3. CASE k = n - 1
    <3>1. frames'[k] = g /\ frames'[k].group = frames[k].group
      BY <1>6, <1>9, <1>10, <2>3 DEF outer
    <3>2. Nested(frames', k)
      BY <1>11, <2>1, <2>2, <3>1, NestedSame
    <3> QED
      BY <1>5, <3>1, <3>2
  <2>4. CASE k \in 1 .. n - 2
    <3>1. frames'[k] = frames[k]
      BY <1>9, <2>4
    <3>2. Nested(frames', k)
      BY <1>11, <2>1, <2>2, <3>1, NestedSame
    <3> QED
      BY <1>11, <2>1, <3>1, <3>2
  <2> QED
    BY <1>2, <2>3, <2>4
<1>13. ListsInv'
  BY <1>3, <1>9, <1>10, <1>12, ListsStay DEF ListsInv
<1> QED
  BY <1>3, <1>13 DEF WorkInv, RefusedForCause, LeaveGroup, Working

(* When the outermost list is done, every field of the record was gone     *)
(* through: it is a member of a clean one, or of the record itself.         *)
LEMMA FinishWork == TreeInv /\ LayoutInv /\ WorkInv /\ Finish => WorkInv'
<1> SUFFICES ASSUME TreeInv, LayoutInv, WorkInv, Finish PROVE WorkInv'
  OBVIOUS
<1>1. /\ ListsInv /\ Working /\ Current.rest = {} /\ Len(frames) = 1
      /\ phase' = "done" /\ UNCHANGED <<items, parents>>
  BY DEF WorkInv, Finish, Working
<1>2. Current = frames[1] /\ Partway(Current) /\ Nested(frames, 1)
  BY <1>1, CurrentIs DEF ListsInv
<1>3. Current.group = Top
  <2> HIDE DEF Current
  <2>1. Current = frames[1]
    BY <1>2
  <2> QED
    BY <1>2, <2>1 DEF Nested
<1>4. Children(Top) \subseteq Clean
  BY <1>1, <1>2, <1>3 DEF Partway, Gone
<1>5. ASSUME NEW i \in Written PROVE i \in Clean
  <2> DEFINE Good == {n \in Nat : \A j \in Written : j =< n => j \in Clean}
  <2>1. 0 \in Good
    BY ItemNumbers DEF Written
  <2>2. ASSUME NEW n \in Nat, n \in Good PROVE n + 1 \in Good
    <3> SUFFICES ASSUME NEW j \in Written, j =< n + 1 PROVE j \in Clean
      OBVIOUS
    <3>1. /\ j \in DOMAIN items /\ j # Top /\ j \in Nat
          /\ parents[j] \in 0 .. j - 1 /\ j \in Children(parents[j])
      BY ItemNumbers DEF Written, Children
    <3>2. CASE parents[j] = Top
      BY <1>4, <3>1, <3>2
    <3>3. CASE parents[j] = 0 /\ Top # 0
      BY <3>1, <3>3, SingleRoot
    <3>4. CASE parents[j] # Top /\ parents[j] # 0
      <4>1. parents[j] \in Written /\ parents[j] =< n
        BY <3>1, <3>4, ItemNumbers DEF Written
      <4>2. parents[j] \in Clean
        BY <2>2, <4>1
      <4> QED
        BY <3>1, <4>2, CleanIsSound DEF Sound
    <3> QED
      BY <3>2, <3>3, <3>4
  <2>3. Nat \subseteq Good
    <3> HIDE DEF Good
    <3> QED
      BY <2>1, <2>2, SetInduction
  <2>4. i \in Nat
    BY ItemNumbers DEF Written
  <2> QED
    BY <2>3, <2>4
<1>6. \A i \in Written : ~Cause(i)
  BY <1>5, CleanIsSound DEF Sound
<1> QED
  BY <1>1, <1>6, ItemsStay DEF WorkInv, RefusedForCause

LEMMA RefuseWork == TreeInv /\ LayoutInv /\ WorkInv /\ Refuse => WorkInv'
<1> SUFFICES ASSUME TreeInv, LayoutInv, WorkInv, Refuse PROVE WorkInv'
  OBVIOUS
<1> DEFINE n == Len(frames)
<1>1. ListsInv /\ Working /\ phase' = "failed" /\ UNCHANGED <<items, parents>>
  BY DEF WorkInv, Refuse, Working
<1>2. \E i \in Written : Cause(i)
  <2>1. CASE Current.rest # {} /\ Children(Coming) = {}
             /\ (~Readable(items[Coming]) \/ ~TargetKnown(Current, Coming))
    <3>1. /\ Partway(Current) /\ Coming \in Written
          /\ Coming \in Current.rest /\ \A r \in Current.rest : Coming =< r
      BY <1>1, <2>1, ComingIs
    <3>2. ~TargetKnown(Current, Coming) => items[Coming].redefines # NoName /\ Target(Coming) = {}
      BY <3>1, TargetIs
    <3>3. Cause(Coming)
      BY <2>1, <3>2 DEF Cause
    <3> QED
      BY <3>1, <3>3
  <2>2. CASE Current.rest # {} /\ Children(Coming) # {} /\ TooDeep
    <3>1. /\ Coming \in Nat /\ Coming > Top /\ Depth(Coming) = n - 1
          /\ n \in Nat /\ n > MaxDepth
      BY <1>1, <2>2, ComingIs, CurrentIs DEF TooDeep
    <3>2. PICK c : c \in Children(Coming)
      BY <2>2
    <3>3. c \in DOMAIN items /\ parents[c] = Coming /\ Coming \notin {0, Top} /\ Coming >= Top
      BY <3>1, <3>2, ItemNumbers DEF Children
    <3>4. Depth(c) = 1 + Depth(Coming)
      BY <3>3, DepthIs
    <3>5. Depth(c) > MaxDepth
      BY <3>1, <3>4, DepthAssumption
    <3>6. c \in Written
      BY <3>1, <3>2, <3>3, MembersWritten
    <3> QED
      BY <3>5, <3>6 DEF Cause
  <2>3. CASE Current.rest = {} /\ n > 1 /\ ~TargetKnown(frames[n - 1], Current.group)
    <3>1. /\ Partway(frames[n - 1]) /\ Current.group \in frames[n - 1].rest
          /\ \A r \in frames[n - 1].rest : Current.group =< r
          /\ Current.group \in Written
      BY <1>1, <2>3, LeavingIs
    <3>2. items[Current.group].redefines # NoName /\ Target(Current.group) = {}
      BY <2>3, <3>1, TargetIs
    <3> QED
      BY <3>1, <3>2 DEF Cause
  <2> QED
    BY <2>1, <2>2, <2>3 DEF Refuse
<1> QED
  BY <1>1, <1>2, ItemsStay DEF WorkInv, RefusedForCause

LEMMA NextWork == TreeInv /\ LayoutInv /\ WorkInv /\ [Next]_vars => WorkInv'
<1> SUFFICES ASSUME TreeInv, LayoutInv, WorkInv, [Next]_vars PROVE WorkInv'
  OBVIOUS
<1>1. CASE SkipCondition \/ AddItem
  BY <1>1 DEF SkipCondition, AddItem, WorkInv, RefusedForCause
<1>2. CASE UNCHANGED vars
  <2>1. UNCHANGED <<items, parents, phase, frames>>
    BY <1>2 DEF vars
  <2>2. ListsInv => ListsInv'
    BY <2>1, ListsStay DEF ListsInv
  <2>3. RefusedForCause => RefusedForCause'
    BY <2>1, ItemsStay DEF RefusedForCause
  <2> QED
    BY <2>1, <2>2, <2>3 DEF WorkInv
<1> QED
  BY <1>1, <1>2, EndTreeWork, PlaceItemWork, EnterGroupWork, LeaveGroupWork, FinishWork, RefuseWork
     DEF Next

(* For every set of copybooks and every limit on the nesting: a copybook   *)
(* is refused only if some item has no readable picture, redefines what no *)
(* earlier sibling is called, or stands too deep, and is read only if none *)
(* does (layout_nodes and its errors).                                     *)
THEOREM RefusedWithCause == Spec => []RefusedForCause
<1>1. Init => WorkInv
  BY InitWork
<1>2. TreeInv /\ LayoutInv /\ WorkInv /\ [Next]_vars => WorkInv'
  BY NextWork
<1>3. WorkInv => RefusedForCause
  BY DEF WorkInv
<1> QED
  BY <1>1, <1>2, <1>3, Invariance, PTL DEF Spec

-----------------------------------------------------------------------------
(* Where the items of a tree stand *)

(* One turn of the recursions of Starts and Sizes. *)
StartOf(size, start, i) ==
    IF items[i].redefines # NoName /\ Target(i) # {} THEN start[Max(Target(i))]
    ELSE LET end   == Max({0} \cup {EndFrom(j, start[j], size[j]) : j \in InPlace(i)})
             width == WidthOf(items[i])
         IN  IF Synchronized(i) THEN Min({p \in end .. end + width : p % width = 0}) ELSE end

SizeOf(size, i) ==
    IF Children(i) = {} THEN WidthOf(items[i])
    ELSE Max({EndFrom(j, Starts(size)[j], size[j]) : j \in Children(i)})

LEMMA Earlier ==
    ASSUME TreeInv, NEW i \in DOMAIN items
    PROVE  /\ Target(i) \in SUBSET (1 .. i - 1) /\ InPlace(i) \in SUBSET (1 .. i - 1)
           /\ \A j \in Target(i) \cup InPlace(i) : j \in Siblings(i) /\ j \in DOMAIN items /\ j < i
           /\ Target(i) # {} => Max(Target(i)) \in Target(i) /\ \A j \in Target(i) : j =< Max(Target(i))
<1>1. DOMAIN items = 1 .. Len(items) /\ Len(items) \in Nat /\ i \in Nat
  BY ItemNumbers
<1>2. \A j \in Target(i) \cup InPlace(i) : j \in Siblings(i) /\ j \in DOMAIN items /\ j < i
  BY DEF Target, InPlace, Siblings
<1>3. Target(i) \in SUBSET (1 .. i - 1) /\ InPlace(i) \in SUBSET (1 .. i - 1)
  BY <1>1, <1>2
<1>4. Target(i) \in SUBSET (0 .. i)
  BY <1>1, <1>3
<1>5. Target(i) # {} => Max(Target(i)) \in Target(i) /\ \A j \in Target(i) : j =< Max(Target(i))
  BY <1>1, <1>4, MaxOf
<1> QED
  BY <1>2, <1>3, <1>5

LEMMA StartOfSame ==
    ASSUME TreeInv, NEW i \in DOMAIN items, NEW s, NEW t, NEW f, NEW g,
           \A j \in Siblings(i) : j < i => s[j] = t[j] /\ f[j] = g[j]
    PROVE  StartOf(s, f, i) = StartOf(t, g, i)
<1>1. \A j \in Target(i) \cup InPlace(i) : s[j] = t[j] /\ f[j] = g[j]
  BY Earlier
<1>2. Target(i) # {} => f[Max(Target(i))] = g[Max(Target(i))]
  BY <1>1, Earlier
<1>3. {EndFrom(j, f[j], s[j]) : j \in InPlace(i)} = {EndFrom(j, g[j], t[j]) : j \in InPlace(i)}
  BY <1>1
<1> QED
  BY <1>2, <1>3 DEF StartOf

LEMMA StartsAre ==
    ASSUME TreeInv, NEW size
    PROVE  \A i \in DOMAIN items : Starts(size)[i] = StartOf(size, Starts(size), i)
<1> DEFINE D == DOMAIN items
           Turn(h) == [i \in D |-> StartOf(size, h, i)]
           f == CHOOSE h : h = Turn(h)
           Good == {n \in Nat : \E h : \A i \in D : i =< n => h[i] = StartOf(size, h, i)}
<1>1. D = 1 .. Len(items) /\ Len(items) \in Nat
  BY ItemNumbers
<1>2. ASSUME NEW n \in Nat, NEW h, \A i \in D : i =< n => h[i] = StartOf(size, h, i)
      PROVE  \A i \in D : i =< n + 1 => Turn(h)[i] = StartOf(size, Turn(h), i)
  <2> DEFINE k == Turn(h)
  <2> SUFFICES ASSUME NEW i \in D, i =< n + 1 PROVE k[i] = StartOf(size, k, i)
    OBVIOUS
  <2>1. \A j \in D : k[j] = StartOf(size, h, j)
    OBVIOUS
  <2> HIDE DEF k
  <2>2. \A j \in Siblings(i) : j < i => k[j] = h[j]
    BY <1>1, <1>2, <2>1 DEF Siblings
  <2>3. StartOf(size, k, i) = StartOf(size, h, i)
    BY <2>2, StartOfSame
  <2> QED
    BY <2>1, <2>3
<1>3. 0 \in Good
  BY <1>1
<1>4. ASSUME NEW n \in Nat, n \in Good PROVE n + 1 \in Good
  <2>1. PICK h : \A i \in D : i =< n => h[i] = StartOf(size, h, i)
    BY <1>4
  <2>2. \A i \in D : i =< n + 1 => Turn(h)[i] = StartOf(size, Turn(h), i)
    BY <2>1, <1>2
  <2> HIDE DEF Turn
  <2> QED
    BY <2>2
<1>5. Len(items) \in Good
  <2> HIDE DEF Good
  <2> QED
    BY <1>1, <1>3, <1>4, SetInduction
<1>6. PICK h : \A i \in D : i =< Len(items) => h[i] = StartOf(size, h, i)
  BY <1>5
<1>7. \A i \in D : Turn(h)[i] = StartOf(size, Turn(h), i)
  <2>1. \A i \in D : i =< Len(items) + 1 => Turn(h)[i] = StartOf(size, Turn(h), i)
    BY <1>1, <1>2, <1>6
  <2> HIDE DEF Turn
  <2> QED
    BY <1>1, <2>1
<1>8. Turn(h) = Turn(Turn(h))
  BY <1>7
<1>9. f = Turn(f)
  <2> HIDE DEF Turn
  <2> QED
    BY <1>8
<1>10. Starts(size) = f
  BY DEF Starts, StartOf
<1> HIDE DEF f
<1>11. \A i \in D : f[i] = StartOf(size, f, i)
  BY <1>9, Zenon
<1> QED
  BY <1>10, <1>11

(* What stands in a group depends on the sizes of its own members only. *)
LEMMA StartsSame ==
    ASSUME TreeInv, NEW s, NEW t, NEW g, \A j \in Children(g) : s[j] = t[j]
    PROVE  \A j \in Children(g) : Starts(s)[j] = Starts(t)[j]
<1> DEFINE Good == {n \in Nat : \A j \in Children(g) : j =< n => Starts(s)[j] = Starts(t)[j]}
<1>1. Children(g) \subseteq DOMAIN items /\ DOMAIN items = 1 .. Len(items) /\ Len(items) \in Nat
  BY ItemNumbers DEF Children
<1>2. 0 \in Good
  BY <1>1
<1>3. ASSUME NEW n \in Nat, n \in Good PROVE n + 1 \in Good
  <2> SUFFICES ASSUME NEW i \in Children(g), i =< n + 1 PROVE Starts(s)[i] = Starts(t)[i]
    OBVIOUS
  <2>1. \A j \in Siblings(i) : j \in Children(g) /\ j \in Nat
    BY <1>1 DEF Siblings, Children
  <2>2. \A j \in Siblings(i) : j < i => s[j] = t[j] /\ Starts(s)[j] = Starts(t)[j]
    BY <1>1, <1>3, <2>1
  <2>3. StartOf(s, Starts(s), i) = StartOf(t, Starts(t), i)
    BY <1>1, <2>2, StartOfSame
  <2> QED
    BY <1>1, <2>3, StartsAre
<1>4. Nat \subseteq Good
  <2> HIDE DEF Good
  <2> QED
    BY <1>2, <1>3, SetInduction
<1> QED
  BY <1>1, <1>4

LEMMA SizesAre ==
    ASSUME TreeInv
    PROVE  \A i \in DOMAIN items : Sizes[i] = SizeOf(Sizes, i)
<1> DEFINE D == DOMAIN items
           N == Len(items)
           Turn(h) == [i \in D |-> SizeOf(h, i)]
           f == CHOOSE h : h = Turn(h)
           Good == {n \in Nat : \E h : \A i \in D : i > N - n => h[i] = SizeOf(h, i)}
<1>1. D = 1 .. N /\ N \in Nat /\ \A i \in D : \A j \in Children(i) : j \in D /\ j > i
  BY ItemNumbers DEF Children
<1> HIDE DEF N
<1>2. ASSUME NEW n \in Nat, NEW h, \A i \in D : i > N - n => h[i] = SizeOf(h, i)
      PROVE  \A i \in D : i > N - (n + 1) => Turn(h)[i] = SizeOf(Turn(h), i)
  <2> DEFINE k == Turn(h)
  <2> SUFFICES ASSUME NEW i \in D, i > N - (n + 1) PROVE k[i] = SizeOf(k, i)
    OBVIOUS
  <2>1. \A j \in D : k[j] = SizeOf(h, j)
    OBVIOUS
  <2> HIDE DEF k
  <2>2. \A j \in Children(i) : k[j] = h[j]
    <3> TAKE j \in Children(i)
    <3>1. j \in D /\ j > N - n
      BY <1>1
    <3> QED
      BY <1>2, <2>1, <3>1
  <2>3. \A j \in Children(i) : Starts(k)[j] = Starts(h)[j]
    BY <2>2, StartsSame
  <2>4. {EndFrom(j, Starts(k)[j], k[j]) : j \in Children(i)}
           = {EndFrom(j, Starts(h)[j], h[j]) : j \in Children(i)}
    BY <2>2, <2>3
  <2>5. SizeOf(k, i) = SizeOf(h, i)
    BY <2>4 DEF SizeOf
  <2> QED
    BY <2>1, <2>5
<1>3. 0 \in Good
  BY <1>1
<1>4. ASSUME NEW n \in Nat, n \in Good PROVE n + 1 \in Good
  <2>1. PICK h : \A i \in D : i > N - n => h[i] = SizeOf(h, i)
    BY <1>4
  <2>2. \A i \in D : i > N - (n + 1) => Turn(h)[i] = SizeOf(Turn(h), i)
    BY <2>1, <1>2
  <2> HIDE DEF Turn
  <2> QED
    BY <2>2
<1>5. N \in Good
  <2> HIDE DEF Good
  <2> QED
    BY <1>1, <1>3, <1>4, SetInduction
<1>6. PICK h : \A i \in D : i > N - N => h[i] = SizeOf(h, i)
  BY <1>5
<1>7. \A i \in D : Turn(h)[i] = SizeOf(Turn(h), i)
  <2>1. \A i \in D : i > N - (N + 1) => Turn(h)[i] = SizeOf(Turn(h), i)
    BY <1>1, <1>2, <1>6
  <2> HIDE DEF Turn
  <2> QED
    BY <1>1, <2>1
<1>8. Turn(h) = Turn(Turn(h))
  BY <1>7
<1>9. f = Turn(f)
  <2> HIDE DEF Turn
  <2> QED
    BY <1>8
<1>10. Sizes = f
  BY DEF Sizes, SizeOf
<1> HIDE DEF f
<1>11. \A i \in D : f[i] = SizeOf(f, i)
  BY <1>9, Zenon
<1> QED
  BY <1>10, <1>11

(* Numbers of which one is the largest. *)
Bounded(T) == T \subseteq Nat /\ \E b \in Nat : \A k \in T : k =< b

Values(T, S, v) == (\A j \in S : v[j] \in T) /\ \A k \in T : \E j \in S : k = v[j]

(* A number for each of finitely many items. *)
LEMMA ValuesBounded ==
    ASSUME NEW n \in Nat, NEW S \in SUBSET (1 .. n), NEW v, \A j \in S : v[j] \in Nat,
           NEW T, Values(T, S, v)
    PROVE  Bounded(T)
<1> DEFINE Good == {m \in Nat : \E b \in Nat : \A j \in S : j =< m => v[j] =< b}
<1>1. 0 \in Good
  OBVIOUS
<1>2. ASSUME NEW m \in Nat, m \in Good PROVE m + 1 \in Good
  <2>1. PICK b \in Nat : \A j \in S : j =< m => v[j] =< b
    BY <1>2
  <2>2. CASE m + 1 \notin S
    <3>1. \A j \in S : j =< m + 1 => v[j] =< b
      BY <2>1, <2>2
    <3> QED
      BY <3>1
  <2>3. CASE m + 1 \in S
    <3>1. b + v[m + 1] \in Nat
      BY <2>3
    <3>2. \A j \in S : j =< m + 1 => v[j] =< b + v[m + 1]
      BY <2>1, <2>3
    <3> QED
      BY <3>1, <3>2
  <2> QED
    BY <2>2, <2>3
<1>3. n \in Good
  <2> HIDE DEF Good
  <2> QED
    BY <1>1, <1>2, SetInduction
<1>4. PICK b \in Nat : \A j \in S : j =< n => v[j] =< b
  BY <1>3
<1>5. \A k \in T : k \in Nat /\ k =< b
  BY <1>4 DEF Values
<1> QED
  BY <1>5 DEF Bounded

LEMMA MaxBounded ==
    ASSUME NEW T, Bounded(T)
    PROVE  /\ Max({0} \cup T) \in Nat /\ Max({0} \cup T) \in {0} \cup T
           /\ \A k \in T : k \in Nat /\ k =< Max({0} \cup T)
           /\ T # {} => Max(T) = Max({0} \cup T) /\ Max(T) \in T
<1> DEFINE U == {0} \cup T
<1>1. PICK b \in Nat : \A k \in T : k \in Nat /\ k =< b
  BY DEF Bounded
<1>2. U \in SUBSET (0 .. b) /\ U # {} /\ T \in SUBSET Int /\ \A k \in T : k \in U
  BY <1>1
<1>3. U \subseteq Nat
  BY <1>1
<1> HIDE DEF U
<1>4. Max(U) \in U /\ \A k \in U : k =< Max(U)
  BY <1>1, <1>2, MaxOf
<1>5. ASSUME T # {} PROVE Max(U) \in T
  <2>1. PICK k : k \in T
    BY <1>5
  <2>2. k \in Nat /\ k =< Max(U) /\ Max(U) \in Nat
    BY <1>1, <1>2, <1>3, <1>4, <2>1
  <2>3. CASE Max(U) = 0
    <3>1. k = 0
      BY <2>2, <2>3
    <3> QED
      BY <2>1, <2>3, <3>1
  <2>4. CASE Max(U) # 0
    BY <1>4, <2>4 DEF U
  <2> QED
    BY <2>3, <2>4
<1>6. ASSUME T # {} PROVE Max(T) = Max(U)
  <2> DEFINE x == Max(U)
  <2>1. x \in T /\ \A k \in T : k =< x
    BY <1>2, <1>4, <1>5, <1>6
  <2> HIDE DEF x
  <2>2. Max(T) = x
    BY <1>2, <2>1, MaxIs
  <2> QED
    BY <2>2 DEF x
<1>7. Max(U) \in Nat /\ Max(U) \in U /\ \A k \in T : k \in Nat /\ k =< Max(U)
  BY <1>1, <1>2, <1>3, <1>4
<1>8. U = {0} \cup T
  BY DEF U
<1> QED
  BY <1>5, <1>6, <1>7, <1>8

(* One more number. *)
LEMMA MaxGrows ==
    ASSUME NEW T, Bounded(T), NEW i \in Nat
    PROVE  /\ Bounded(T \cup {i})
           /\ Max({0} \cup (T \cup {i})) = Max({Max({0} \cup T), i})
<1> DEFINE m == Max({0} \cup T)
           U == {0} \cup (T \cup {i})
           x == Max({m, i})
<1>1. m \in Nat /\ m \in {0} \cup T /\ \A k \in T : k \in Nat /\ k =< m
  BY MaxBounded
<1>2. m \in U /\ i \in U
  BY <1>1
<1> HIDE DEF m
<1>3. x \in Nat /\ m =< x /\ i =< x /\ x \in {m, i}
  BY <1>1, MaxOfPair
<1> HIDE DEF x
<1>4. \A k \in U : k \in Nat /\ k =< x
  <2> TAKE k \in U
  <2>1. CASE k \in T
    BY <1>1, <1>3, <2>1
  <2>2. CASE k \notin T
    BY <1>3, <2>2
  <2> QED
    BY <2>1, <2>2
<1>5. Bounded(T \cup {i})
  BY <1>3, <1>4 DEF Bounded
<1>6. x \in U /\ U \in SUBSET Int /\ \A k \in U : k =< x
  <2>1. x = m \/ x = i
    BY <1>3
  <2>2. x \in U
    BY <1>2, <2>1
  <2> HIDE DEF U
  <2> QED
    BY <1>4, <2>2
<1> HIDE DEF U
<1>7. Max(U) = x
  BY <1>6, MaxIs
<1>8. Max({0} \cup (T \cup {i})) = Max(U) /\ x = Max({Max({0} \cup T), i})
  BY DEF U, x, m
<1> QED
  BY <1>5, <1>7, <1>8

(* The first multiple of a width behind a place. *)
LEMMA BoundaryIs ==
    ASSUME NEW end \in Nat, NEW width \in {2, 4, 8}
    PROVE  Min({p \in end .. end + width : p % width = 0}) = end + ((width - (end % width)) % width)
<1> DEFINE x == end + ((width - (end % width)) % width)
           T == {p \in end .. end + width : p % width = 0}
<1>1. x \in T /\ \A p \in T : x =< p
  <2>1. CASE width = 2
    BY <2>1
  <2>2. CASE width = 4
    BY <2>2
  <2>3. CASE width = 8
    BY <2>3
  <2> QED
    BY <2>1, <2>2, <2>3
<1>2. T \in SUBSET Nat
  OBVIOUS
<1> HIDE DEF T, x
<1>3. Min(T) \in T /\ \A p \in T : Min(T) =< p
  BY <1>1, <1>2, MinOf
<1>4. Min(T) = x
  <2>1. Min(T) \in Nat /\ x \in Nat /\ Min(T) =< x /\ x =< Min(T)
    BY <1>1, <1>2, <1>3
  <2> QED
    BY <2>1
<1> QED
  BY <1>4 DEF T, x

LEMMA EndFromIs ==
    ASSUME TreeInv, NEW i \in DOMAIN items, NEW start \in Nat, NEW size \in Nat
    PROVE  EndFrom(i, start, size) \in Nat /\ EndFrom(i, start, size) >= start
<1>1. items[i] \in ItemSet
  BY ElementOfSeq, LenProperties DEF TreeInv
<1>2. Times(items[i]) \in Nat
  BY <1>1, ItemType DEF Times
<1>3. size * Times(items[i]) \in Nat
  BY <1>2
<1> HIDE DEF Times
<1> DEFINE more == IF items[i].controller # NoName THEN 0 ELSE size * Times(items[i])
<1>4. more \in Nat
  BY <1>3
<1>5. EndFrom(i, start, size) = start + more
  BY DEF EndFrom
<1> HIDE DEF more
<1> QED
  BY <1>4, <1>5

LEMMA ItemWidth ==
    ASSUME TreeInv, NEW i \in DOMAIN items
    PROVE  /\ WidthOf(items[i]) \in Nat
           /\ KindOf(items[i]).k = "binary" => WidthOf(items[i]) \in {2, 4, 8}
<1>1. items[i] \in ItemSet
  BY ElementOfSeq, LenProperties DEF TreeInv
<1> QED
  BY <1>1, WidthType

(* The end of the siblings before an item that have a place of their own.   *)
EndBefore(start, size, i) == Max({0} \cup {EndFrom(j, start[j], size[j]) : j \in InPlace(i)})

LEMMA StartOfIs ==
    ASSUME TreeInv, NEW i \in DOMAIN items, NEW size, NEW start,
           \A j \in Siblings(i) : j < i => size[j] \in Nat /\ start[j] \in Nat
    PROVE  /\ StartOf(size, start, i) \in Nat
           /\ EndBefore(start, size, i) \in Nat
           /\ items[i].redefines # NoName /\ Target(i) # {}
                 => StartOf(size, start, i) = start[Max(Target(i))]
           /\ items[i].redefines = NoName
                 => StartOf(size, start, i)
                       = Aligned(EndBefore(start, size, i), items[i],
                                 IF Children(i) = {} THEN KindOf(items[i]) ELSE [k |-> "group"],
                                 WidthOf(items[i]))
<1> DEFINE v == [j \in InPlace(i) |-> EndFrom(j, start[j], size[j])]
           end == EndBefore(start, size, i)
           width == WidthOf(items[i])
           kind == IF Children(i) = {} THEN KindOf(items[i]) ELSE [k |-> "group"]
           start0 == IF Synchronized(i) THEN Min({p \in end .. end + width : p % width = 0}) ELSE end
<1>1. i \in Nat /\ i - 1 \in Nat
  BY ItemNumbers
<1>2. /\ InPlace(i) \in SUBSET (1 .. i - 1)
      /\ \A j \in Target(i) \cup InPlace(i) : j \in Siblings(i) /\ j \in DOMAIN items /\ j < i
      /\ Target(i) # {} => Max(Target(i)) \in Target(i)
  BY Earlier
<1>3. \A j \in InPlace(i) : EndFrom(j, start[j], size[j]) \in Nat
  BY <1>2, EndFromIs
<1>4. end \in Nat
  <2> DEFINE T == {EndFrom(j, start[j], size[j]) : j \in InPlace(i)}
  <2>1. \A j \in InPlace(i) : v[j] \in Nat
    BY <1>3
  <2>2. Values(T, InPlace(i), v)
    BY DEF Values
  <2> HIDE DEF v, T
  <2>3. Max({0} \cup T) \in Nat
    BY <1>1, <1>2, <2>1, <2>2, ValuesBounded, MaxBounded
  <2> QED
    BY <2>3 DEF EndBefore, T
<1>5. StartOf(size, start, i) = IF items[i].redefines # NoName /\ Target(i) # {}
                                THEN start[Max(Target(i))] ELSE start0
  BY DEF StartOf, EndBefore
<1>6. width \in Nat /\ (KindOf(items[i]).k = "binary" => width \in {2, 4, 8})
  BY ItemWidth
<1> HIDE DEF end, width
<1>7. Synchronized(i) => kind.k = "binary" /\ width \in {2, 4, 8}
                         /\ start0 = end + ((width - (end % width)) % width)
  BY <1>4, <1>6, BoundaryIs DEF Synchronized
<1>8. ~Synchronized(i) => start0 = end
  OBVIOUS
<1>9. items[i].sync /\ kind.k = "binary" <=> Synchronized(i)
  BY DEF Synchronized
<1> HIDE DEF start0, kind
<1>10. start0 \in Nat
  <2>1. CASE Synchronized(i)
    <3>1. (width - (end % width)) % width \in Nat
      <4>1. CASE width = 2
        BY <1>4, <4>1
      <4>2. CASE width = 4
        BY <1>4, <4>2
      <4>3. CASE width = 8
        BY <1>4, <4>3
      <4> QED
        BY <1>7, <2>1, <4>1, <4>2, <4>3
    <3> DEFINE gap == (width - (end % width)) % width
    <3>2. gap \in Nat /\ start0 = end + gap
      BY <1>7, <2>1, <3>1
    <3> HIDE DEF gap
    <3> QED
      BY <1>4, <3>2
  <2> QED
    BY <1>4, <1>8, <2>1
<1>11. items[i].redefines = NoName => start0 = Aligned(end, items[i], kind, width)
  BY <1>7, <1>8, <1>9 DEF Aligned
<1>12. items[i].redefines # NoName /\ Target(i) # {} => start[Max(Target(i))] \in Nat
  BY <1>2
<1> QED
  BY <1>4, <1>5, <1>10, <1>11, <1>12 DEF end, kind, width

(* Among the members of a group whose sizes are numbers. *)
LEMMA StartType ==
    ASSUME TreeInv, NEW size, NEW g, \A j \in Children(g) : size[j] \in Nat
    PROVE  \A j \in Children(g) : Starts(size)[j] \in Nat
<1> DEFINE Good == {n \in Nat : \A j \in Children(g) : j =< n => Starts(size)[j] \in Nat}
<1>1. Children(g) \subseteq DOMAIN items /\ DOMAIN items = 1 .. Len(items) /\ Len(items) \in Nat
  BY ItemNumbers DEF Children
<1>2. 0 \in Good
  BY <1>1
<1>3. ASSUME NEW n \in Nat, n \in Good PROVE n + 1 \in Good
  <2> SUFFICES ASSUME NEW i \in Children(g), i =< n + 1 PROVE Starts(size)[i] \in Nat
    OBVIOUS
  <2>1. \A j \in Siblings(i) : j \in Children(g) /\ j \in Nat
    BY <1>1 DEF Siblings, Children
  <2>2. \A j \in Siblings(i) : j < i => size[j] \in Nat /\ Starts(size)[j] \in Nat
    BY <1>1, <1>3, <2>1
  <2>3. StartOf(size, Starts(size), i) \in Nat
    BY <1>1, <2>2, StartOfIs
  <2> QED
    BY <1>1, <2>3, StartsAre
<1>4. Nat \subseteq Good
  <2> HIDE DEF Good
  <2> QED
    BY <1>2, <1>3, SetInduction
<1> QED
  BY <1>1, <1>4

LEMMA SizeType ==
    ASSUME TreeInv
    PROVE  \A i \in DOMAIN items : Sizes[i] \in Nat /\ Start(i) \in Nat /\ End(i) \in Nat /\ End(i) >= Start(i)
<1> DEFINE N == Len(items)
           D == DOMAIN items
           Good == {n \in Nat : \A i \in D : i > N - n => Sizes[i] \in Nat}
<1>1. D = 1 .. N /\ N \in Nat /\ \A g : \A j \in Children(g) : j \in D
  BY ItemNumbers DEF Children
<1> HIDE DEF N
<1>2. 0 \in Good
  BY <1>1
<1>3. ASSUME NEW n \in Nat, n \in Good PROVE n + 1 \in Good
  <2> SUFFICES ASSUME NEW i \in D, i > N - (n + 1) PROVE Sizes[i] \in Nat
    OBVIOUS
  <2>1. Sizes[i] = SizeOf(Sizes, i)
    BY SizesAre
  <2>2. CASE Children(i) = {}
    BY <2>1, <2>2, ItemWidth DEF SizeOf
  <2>3. CASE Children(i) # {}
    <3> DEFINE v == [j \in Children(i) |-> EndFrom(j, Starts(Sizes)[j], Sizes[j])]
    <3>1. \A j \in Children(i) : j > i /\ j \in D
      BY ItemNumbers DEF Children
    <3>2. \A j \in Children(i) : Sizes[j] \in Nat
      BY <1>1, <1>3, <3>1
    <3>3. \A j \in Children(i) : Starts(Sizes)[j] \in Nat
      BY <3>2, StartType
    <3>4. \A j \in Children(i) : v[j] \in Nat
      BY <3>1, <3>2, <3>3, EndFromIs
    <3> DEFINE T == {EndFrom(j, Starts(Sizes)[j], Sizes[j]) : j \in Children(i)}
    <3>5. Values(T, Children(i), v) /\ T # {}
      BY <2>3 DEF Values
    <3> HIDE DEF v, T
    <3>6. Children(i) \in SUBSET (1 .. N)
      BY <1>1
    <3>7. Max(T) \in Nat
      BY <1>1, <3>4, <3>5, <3>6, ValuesBounded, MaxBounded
    <3> QED
      BY <2>1, <2>3, <3>7 DEF SizeOf, T
  <2> QED
    BY <2>2, <2>3
<1>4. N \in Good
  <2> HIDE DEF Good
  <2> QED
    BY <1>1, <1>2, <1>3, SetInduction
<1>5. \A i \in D : Sizes[i] \in Nat
  BY <1>1, <1>4
<1>6. ASSUME NEW i \in D PROVE Start(i) \in Nat
  <2>1. i \in Children(parents[i]) /\ \A j \in Children(parents[i]) : Sizes[j] \in Nat
    BY <1>1, <1>5 DEF Children
  <2> QED
    BY <2>1, StartType DEF Start
<1> QED
  BY <1>5, <1>6, EndFromIs DEF End

(* One turn of the recursion of PlacesIn. *)
ItemPlaces(in, i) ==
    {<<items[i].name, Start(i), IF Children(i) = {} THEN Sizes[i] ELSE 0>>} \cup Moved(in[i], Start(i))

Within(in, g) == UNION {ItemPlaces(in, i) : i \in Children(g)}

LEMMA PlacesInAre ==
    ASSUME TreeInv
    PROVE  \A g \in 0 .. Len(items) : PlacesIn[g] = Within(PlacesIn, g)
<1> DEFINE N == Len(items)
           D == 0 .. N
           Turn(h) == [g \in D |-> Within(h, g)]
           f == CHOOSE h : h = Turn(h)
           Good == {n \in Nat : \E h : \A g \in D : g > N - n => h[g] = Within(h, g)}
<1>1. N \in Nat /\ \A g \in D : \A j \in Children(g) : j \in D /\ j > g
  BY ItemNumbers DEF Children
<1> HIDE DEF N
<1>2. ASSUME NEW n \in Nat, NEW h, \A g \in D : g > N - n => h[g] = Within(h, g)
      PROVE  \A g \in D : g > N - (n + 1) => Turn(h)[g] = Within(Turn(h), g)
  <2> DEFINE k == Turn(h)
  <2> SUFFICES ASSUME NEW g \in D, g > N - (n + 1) PROVE k[g] = Within(k, g)
    OBVIOUS
  <2>1. \A j \in D : k[j] = Within(h, j)
    OBVIOUS
  <2> HIDE DEF k
  <2>2. \A j \in Children(g) : k[j] = h[j]
    <3> TAKE j \in Children(g)
    <3>1. j \in D /\ j > N - n
      BY <1>1
    <3> QED
      BY <1>2, <2>1, <3>1
  <2>3. {ItemPlaces(k, i) : i \in Children(g)} = {ItemPlaces(h, i) : i \in Children(g)}
    BY <2>2 DEF ItemPlaces
  <2>4. Within(k, g) = Within(h, g)
    BY <2>3 DEF Within
  <2> QED
    BY <2>1, <2>4
<1>3. 0 \in Good
  BY <1>1
<1>4. ASSUME NEW n \in Nat, n \in Good PROVE n + 1 \in Good
  <2>1. PICK h : \A g \in D : g > N - n => h[g] = Within(h, g)
    BY <1>4
  <2>2. \A g \in D : g > N - (n + 1) => Turn(h)[g] = Within(Turn(h), g)
    BY <2>1, <1>2
  <2> HIDE DEF Turn
  <2> QED
    BY <2>2
<1>5. N + 1 \in Good
  <2> HIDE DEF Good
  <2> QED
    BY <1>1, <1>3, <1>4, SetInduction
<1>6. PICK h : \A g \in D : g > N - (N + 1) => h[g] = Within(h, g)
  BY <1>5
<1>7. \A g \in D : Turn(h)[g] = Within(Turn(h), g)
  <2>1. \A g \in D : g > N - ((N + 1) + 1) => Turn(h)[g] = Within(Turn(h), g)
    BY <1>1, <1>2, <1>6
  <2> HIDE DEF Turn
  <2> QED
    BY <1>1, <2>1
<1>8. Turn(h) = Turn(Turn(h))
  BY <1>7
<1>9. f = Turn(f)
  <2> HIDE DEF Turn
  <2> QED
    BY <1>8
<1>10. PlacesIn = f
  BY DEF PlacesIn, Within, ItemPlaces, N
<1> HIDE DEF f
<1>11. \A g \in D : f[g] = Within(f, g)
  BY <1>9, Zenon
<1> QED
  BY <1>10, <1>11 DEF N

-----------------------------------------------------------------------------
(* The fields of a layout at every depth *)

Inner(level) == UNION {Standing(p[1].kind.fields, p[2]) : p \in {q \in level : IsGroup(q[1])}}

LevelOf(fields, h, n) == IF n = 0 THEN Standing(fields, 0) ELSE Inner(h[n - 1])

LEMMA LevelsAre ==
    ASSUME NEW fields
    PROVE  /\ Levels(fields)[0] = Standing(fields, 0)
           /\ \A n \in Nat : Levels(fields)[n + 1] = Inner(Levels(fields)[n])
<1> DEFINE Solves(h, n) == \A m \in 0 .. n : h[m] = LevelOf(fields, h, m)
           Turn(h) == [n \in Nat |-> LevelOf(fields, h, n)]
           f == CHOOSE h : h = Turn(h)
           Good == {n \in Nat : \E h : Solves(h, n)}
           One == {n \in Nat : \A h, k : Solves(h, n) /\ Solves(k, n) => h[n] = k[n]}
           g == [n \in Nat |-> (CHOOSE h : Solves(h, n))[n]]
<1>1. 0 \in Good
  <2>1. Solves([n \in {0} |-> Standing(fields, 0)], 0)
    BY DEF LevelOf
  <2> QED
    BY <2>1
<1>2. ASSUME NEW n \in Nat, n \in Good PROVE n + 1 \in Good
  <2>1. PICK h : Solves(h, n)
    BY <1>2
  <2> DEFINE k == [m \in 0 .. n + 1 |-> LevelOf(fields, h, m)]
  <2>2. \A m \in 0 .. n + 1 : k[m] = LevelOf(fields, h, m)
    OBVIOUS
  <2> HIDE DEF k
  <2>3. ASSUME NEW m \in 0 .. n + 1 PROVE k[m] = LevelOf(fields, k, m)
    <3>1. CASE m = 0
      BY <2>2, <3>1 DEF LevelOf
    <3>2. CASE m # 0
      <4>1. m - 1 \in 0 .. n /\ m - 1 \in 0 .. n + 1
        BY <3>2
      <4>2. k[m - 1] = h[m - 1]
        BY <2>1, <2>2, <4>1
      <4> QED
        BY <2>2, <3>2, <4>2 DEF LevelOf
    <3> QED
      BY <3>1, <3>2
  <2> QED
    BY <2>3
<1>3. \A n \in Nat : \E h : Solves(h, n)
  <2>1. Nat \subseteq Good
    <3> HIDE DEF Good
    <3> QED
      BY <1>1, <1>2, SetInduction
  <2> QED
    BY <2>1
<1>4. \A n \in Nat : \A h : Solves(h, n + 1) => Solves(h, n)
  OBVIOUS
<1>5. 0 \in One
  <2> SUFFICES ASSUME NEW h, NEW k, Solves(h, 0), Solves(k, 0) PROVE h[0] = k[0]
    OBVIOUS
  <2>1. 0 \in 0 .. 0
    OBVIOUS
  <2>2. h[0] = LevelOf(fields, h, 0) /\ k[0] = LevelOf(fields, k, 0)
    BY <2>1
  <2> QED
    BY <2>2 DEF LevelOf
<1>6. ASSUME NEW n \in Nat, n \in One PROVE n + 1 \in One
  <2> SUFFICES ASSUME NEW h, NEW k, Solves(h, n + 1), Solves(k, n + 1) PROVE h[n + 1] = k[n + 1]
    OBVIOUS
  <2>1. h[n] = k[n]
    BY <1>4, <1>6
  <2>2. n + 1 \in 0 .. n + 1 /\ n + 1 # 0 /\ (n + 1) - 1 = n
    OBVIOUS
  <2> QED
    BY <2>1, <2>2 DEF LevelOf
<1>7. \A n \in Nat : \A h, k : Solves(h, n) /\ Solves(k, n) => h[n] = k[n]
  <2>1. Nat \subseteq One
    <3> HIDE DEF One
    <3> QED
      BY <1>5, <1>6, SetInduction
  <2> QED
    BY <2>1
<1>8. ASSUME NEW n \in Nat PROVE g[n] = LevelOf(fields, g, n)
  <2> DEFINE h == CHOOSE x : Solves(x, n)
  <2>1. Solves(h, n)
    <3> HIDE DEF Solves
    <3> QED
      BY <1>3
  <2>2. g[n] = h[n]
    OBVIOUS
  <2> HIDE DEF h
  <2>3. h[n] = LevelOf(fields, h, n)
    BY <2>1
  <2>4. CASE n = 0
    BY <2>2, <2>3, <2>4 DEF LevelOf
  <2>5. CASE n # 0
    <3> DEFINE m == n - 1
               k == CHOOSE x : Solves(x, m)
    <3>1. m \in Nat /\ n = m + 1
      BY <2>5
    <3> HIDE DEF m
    <3>2. Solves(k, m)
      <4> HIDE DEF Solves
      <4> QED
        BY <1>3, <3>1
    <3>3. g[m] = k[m]
      BY <3>1
    <3> HIDE DEF k, g
    <3>4. Solves(h, m)
      <4> HIDE DEF Solves
      <4> QED
        BY <1>4, <2>1, <3>1
    <3>5. h[m] = k[m]
      <4> HIDE DEF Solves
      <4> QED
        BY <1>7, <3>1, <3>2, <3>4
    <3> QED
      BY <2>2, <2>3, <2>5, <3>1, <3>3, <3>5 DEF LevelOf, m
  <2> QED
    BY <2>4, <2>5
<1>9. g = Turn(g)
  <2> DEFINE k == g
  <2>1. k = [n \in Nat |-> k[n]]
    OBVIOUS
  <2>2. \A n \in Nat : k[n] = LevelOf(fields, k, n)
    BY <1>8
  <2> HIDE DEF k, g
  <2>3. k = Turn(k)
    BY <2>1, <2>2
  <2> QED
    BY <2>3 DEF k
<1> HIDE DEF g
<1>10. f = Turn(f)
  <2> HIDE DEF Turn
  <2> QED
    BY <1>9
<1>11. Levels(fields) = f
  BY DEF Levels, LevelOf, Inner
<1> HIDE DEF f
<1>12. \A n \in Nat : f[n] = LevelOf(fields, f, n)
  BY <1>10, Zenon
<1>13. f[0] = Standing(fields, 0)
  BY <1>12 DEF LevelOf
<1>14. ASSUME NEW n \in Nat PROVE f[n + 1] = Inner(f[n])
  <2>1. n + 1 \in Nat /\ n + 1 # 0 /\ (n + 1) - 1 = n
    OBVIOUS
  <2> QED
    BY <1>12, <2>1 DEF LevelOf
<1> QED
  BY <1>11, <1>13, <1>14

(* A field that stands in another, counted from where that one stands. *)
LEMMA InLevels ==
    ASSUME NEW fields
    PROVE  /\ \A p : p \in Levels(fields)[0] <=>
                        \E m \in DOMAIN fields : p = <<fields[m], 0 + fields[m].offset>>
           /\ \A n \in Nat : \A p :
                 p \in Levels(fields)[n + 1] <=>
                    \E q \in Levels(fields)[n] :
                       /\ IsGroup(q[1])
                       /\ \E m \in DOMAIN q[1].kind.fields :
                             p = <<q[1].kind.fields[m], q[2] + q[1].kind.fields[m].offset>>
<1>1. \A p : p \in Levels(fields)[0] <=>
                \E m \in DOMAIN fields : p = <<fields[m], 0 + fields[m].offset>>
  BY LevelsAre DEF Standing
<1>2. ASSUME NEW n \in Nat, NEW p
      PROVE  p \in Levels(fields)[n + 1] <=>
                \E q \in Levels(fields)[n] :
                   /\ IsGroup(q[1])
                   /\ \E m \in DOMAIN q[1].kind.fields :
                         p = <<q[1].kind.fields[m], q[2] + q[1].kind.fields[m].offset>>
  <2>1. Levels(fields)[n + 1] = Inner(Levels(fields)[n])
    BY LevelsAre
  <2> QED
    BY <2>1 DEF Inner, Standing
<1> QED
  BY <1>1, <1>2

StandsIn(p, q) ==
    /\ IsGroup(q[1])
    /\ \E m \in DOMAIN q[1].kind.fields :
          p = <<q[1].kind.fields[m], q[2] + q[1].kind.fields[m].offset>>

LEMMA OneDeeper ==
    ASSUME NEW fields, NEW n \in Nat, NEW k, k = n + 1, NEW p
    PROVE  p \in Levels(fields)[k] <=> \E q \in Levels(fields)[n] : StandsIn(p, q)
<1>1. p \in Levels(fields)[n + 1] <=> \E q \in Levels(fields)[n] : StandsIn(p, q)
  <2>1. Levels(fields)[n + 1] = Inner(Levels(fields)[n])
    BY LevelsAre
  <2> QED
    BY <2>1 DEF Inner, Standing, StandsIn
<1> QED
  BY <1>1

(* Every field in every group of the layout has a number for its place. *)
Tidy(fields) == \A n \in Nat : \A p \in Levels(fields)[n] : p[1].offset \in Int

Neat(f) == f.offset \in Int /\ (IsGroup(f) => Tidy(f.kind.fields))

LEMMA TidyPlaces ==
    ASSUME NEW fields, Tidy(fields)
    PROVE  \A n \in Nat : \A p \in Levels(fields)[n] : p[2] \in Int /\ p[1].offset \in Int
<1> DEFINE Good == {n \in Nat : \A p \in Levels(fields)[n] : p[2] \in Int}
<1>1. 0 \in Good
  <2> SUFFICES ASSUME NEW p \in Levels(fields)[0] PROVE p[2] \in Int
    OBVIOUS
  <2>1. PICK m \in DOMAIN fields : p = <<fields[m], 0 + fields[m].offset>>
    BY InLevels
  <2>2. fields[m].offset \in Int
    BY <2>1 DEF Tidy
  <2> QED
    BY <2>1, <2>2
<1>2. ASSUME NEW n \in Nat, n \in Good PROVE n + 1 \in Good
  <2> SUFFICES ASSUME NEW p \in Levels(fields)[n + 1] PROVE p[2] \in Int
    OBVIOUS
  <2>1. PICK q \in Levels(fields)[n] :
           \E m \in DOMAIN q[1].kind.fields :
              p = <<q[1].kind.fields[m], q[2] + q[1].kind.fields[m].offset>>
    BY InLevels
  <2>2. PICK m \in DOMAIN q[1].kind.fields :
           p = <<q[1].kind.fields[m], q[2] + q[1].kind.fields[m].offset>>
    BY <2>1
  <2>3. p[1].offset \in Int
    BY DEF Tidy
  <2>4. q[1].kind.fields[m].offset \in Int /\ q[2] \in Int
    BY <1>2, <2>2, <2>3
  <2> QED
    BY <2>2, <2>4
<1>3. Nat \subseteq Good
  <2> HIDE DEF Good
  <2> QED
    BY <1>1, <1>2, SetInduction
<1> QED
  BY <1>3 DEF Tidy

(* A field in a group of a list, as it is seen from the list.              *)
Seen(p, by) == <<p[1], p[2] + by>>

(* What stands one level deeper in a list stands in one of its groups, and *)
(* what stands there is counted from it.                                   *)
LEMMA LevelsSplit ==
    ASSUME NEW fields, \A m \in DOMAIN fields : Neat(fields[m])
    PROVE  \A n \in Nat : \A p :
              p \in Levels(fields)[n + 1] <=>
                 \E m \in DOMAIN fields :
                    /\ IsGroup(fields[m])
                    /\ \E q \in Levels(fields[m].kind.fields)[n] : p = Seen(q, fields[m].offset)
<1> DEFINE In(n, p) == \E m \in DOMAIN fields :
                          /\ IsGroup(fields[m])
                          /\ \E q \in Levels(fields[m].kind.fields)[n] : p = Seen(q, fields[m].offset)
           Good == {n \in Nat : \A p : p \in Levels(fields)[n + 1] <=> In(n, p)}
<1>0. \A m \in DOMAIN fields : fields[m].offset \in Int /\ (IsGroup(fields[m]) => Tidy(fields[m].kind.fields))
  BY DEF Neat
<1>1. 0 \in Good
  <2> SUFFICES ASSUME NEW p PROVE p \in Levels(fields)[0 + 1] <=> In(0, p)
    OBVIOUS
  <2>1. p \in Levels(fields)[0 + 1] <=>
           \E r \in Levels(fields)[0] :
              /\ IsGroup(r[1])
              /\ \E k \in DOMAIN r[1].kind.fields :
                    p = <<r[1].kind.fields[k], r[2] + r[1].kind.fields[k].offset>>
    BY InLevels
  <2>2. ASSUME NEW m \in DOMAIN fields, IsGroup(fields[m]), NEW k \in DOMAIN fields[m].kind.fields
        PROVE  LET g == fields[m].kind.fields
               IN  <<g[k], (0 + fields[m].offset) + g[k].offset>> = Seen(<<g[k], 0 + g[k].offset>>, fields[m].offset)
    <3> DEFINE g == fields[m].kind.fields
               q == <<g[k], 0 + g[k].offset>>
    <3>1. q \in Levels(g)[0]
      BY InLevels
    <3>2. g[k].offset \in Int
      BY <1>0, <2>2, <3>1, TidyPlaces
    <3> HIDE DEF g
    <3>3. (0 + fields[m].offset) + g[k].offset = (0 + g[k].offset) + fields[m].offset
      BY <1>0, <3>2
    <3> QED
      BY <3>3 DEF Seen, g
  <2>3. ASSUME p \in Levels(fields)[0 + 1] PROVE In(0, p)
    <3>1. PICK r \in Levels(fields)[0] :
              /\ IsGroup(r[1])
              /\ \E k \in DOMAIN r[1].kind.fields :
                    p = <<r[1].kind.fields[k], r[2] + r[1].kind.fields[k].offset>>
      BY <2>1, <2>3
    <3>2. PICK m \in DOMAIN fields : r = <<fields[m], 0 + fields[m].offset>>
      BY InLevels
    <3>3. PICK k \in DOMAIN fields[m].kind.fields :
             p = <<fields[m].kind.fields[k], (0 + fields[m].offset) + fields[m].kind.fields[k].offset>>
      BY <3>1, <3>2
    <3> DEFINE g == fields[m].kind.fields
               q == <<g[k], 0 + g[k].offset>>
    <3>4. IsGroup(fields[m]) /\ p = Seen(q, fields[m].offset)
      BY <2>2, <3>1, <3>2, <3>3
    <3>5. q \in Levels(g)[0]
      BY InLevels
    <3> QED
      BY <3>4, <3>5
  <2>4. ASSUME In(0, p) PROVE p \in Levels(fields)[0 + 1]
    <3>1. PICK m \in DOMAIN fields :
              /\ IsGroup(fields[m])
              /\ \E q \in Levels(fields[m].kind.fields)[0] : p = Seen(q, fields[m].offset)
      BY <2>4
    <3> DEFINE g == fields[m].kind.fields
               r == <<fields[m], 0 + fields[m].offset>>
    <3>2. PICK q \in Levels(g)[0] : p = Seen(q, fields[m].offset)
      BY <3>1
    <3>3. PICK k \in DOMAIN g : q = <<g[k], 0 + g[k].offset>>
      BY InLevels
    <3>4. p = Seen(<<g[k], 0 + g[k].offset>>, fields[m].offset)
      BY <3>2, <3>3
    <3>5. p = <<g[k], (0 + fields[m].offset) + g[k].offset>>
      BY <2>2, <3>1, <3>4
    <3>6. r \in Levels(fields)[0]
      BY InLevels
    <3> QED
      BY <2>1, <3>1, <3>5, <3>6
  <2> QED
    BY <2>3, <2>4
<1>2. ASSUME NEW n \in Nat, n \in Good PROVE n + 1 \in Good
  <2> SUFFICES ASSUME NEW p PROVE p \in Levels(fields)[(n + 1) + 1] <=> In(n + 1, p)
    OBVIOUS
  <2>0. \A r : r \in Levels(fields)[n + 1] <=> In(n, r)
    BY <1>2
  <2>1. p \in Levels(fields)[(n + 1) + 1] <=>
           \E r \in Levels(fields)[n + 1] :
              /\ IsGroup(r[1])
              /\ \E k \in DOMAIN r[1].kind.fields :
                    p = <<r[1].kind.fields[k], r[2] + r[1].kind.fields[k].offset>>
    BY InLevels
  <2>2. ASSUME NEW m \in DOMAIN fields, IsGroup(fields[m]),
               NEW q \in Levels(fields[m].kind.fields)[n], IsGroup(q[1]), NEW k \in DOMAIN q[1].kind.fields
        PROVE  LET g == q[1].kind.fields
                   u == <<g[k], q[2] + g[k].offset>>
               IN  /\ u \in Levels(fields[m].kind.fields)[n + 1]
                   /\ <<g[k], (q[2] + fields[m].offset) + g[k].offset>> = Seen(u, fields[m].offset)
    <3> DEFINE g == q[1].kind.fields
               u == <<g[k], q[2] + g[k].offset>>
    <3>1. u \in Levels(fields[m].kind.fields)[n + 1]
      BY <2>2, InLevels
    <3>2. Tidy(fields[m].kind.fields) /\ fields[m].offset \in Int
      BY <1>0, <2>2
    <3>3. g[k].offset \in Int /\ q[2] \in Int
      BY <3>1, <3>2, TidyPlaces
    <3> HIDE DEF g
    <3>4. (q[2] + fields[m].offset) + g[k].offset = (q[2] + g[k].offset) + fields[m].offset
      BY <3>2, <3>3
    <3> QED
      BY <3>1, <3>4 DEF Seen, g
  <2>3. ASSUME p \in Levels(fields)[(n + 1) + 1] PROVE In(n + 1, p)
    <3>1. PICK r \in Levels(fields)[n + 1] :
              /\ IsGroup(r[1])
              /\ \E k \in DOMAIN r[1].kind.fields :
                    p = <<r[1].kind.fields[k], r[2] + r[1].kind.fields[k].offset>>
      BY <2>1, <2>3
    <3>2. PICK m \in DOMAIN fields :
              /\ IsGroup(fields[m])
              /\ \E q \in Levels(fields[m].kind.fields)[n] : r = Seen(q, fields[m].offset)
      BY <2>0, <3>1
    <3>3. PICK q \in Levels(fields[m].kind.fields)[n] : r = Seen(q, fields[m].offset)
      BY <3>2
    <3>4. r[1] = q[1] /\ r[2] = q[2] + fields[m].offset
      BY <3>3 DEF Seen
    <3> DEFINE g == q[1].kind.fields
    <3>5. PICK k \in DOMAIN g : p = <<g[k], (q[2] + fields[m].offset) + g[k].offset>>
      BY <3>1, <3>4
    <3> QED
      BY <2>2, <3>1, <3>2, <3>4, <3>5
  <2>4. ASSUME In(n + 1, p) PROVE p \in Levels(fields)[(n + 1) + 1]
    <3>1. PICK m \in DOMAIN fields :
              /\ IsGroup(fields[m])
              /\ \E u \in Levels(fields[m].kind.fields)[n + 1] : p = Seen(u, fields[m].offset)
      BY <2>4
    <3>2. PICK u \in Levels(fields[m].kind.fields)[n + 1] : p = Seen(u, fields[m].offset)
      BY <3>1
    <3>3. PICK q \in Levels(fields[m].kind.fields)[n] :
             /\ IsGroup(q[1])
             /\ \E k \in DOMAIN q[1].kind.fields :
                   u = <<q[1].kind.fields[k], q[2] + q[1].kind.fields[k].offset>>
      <4> DEFINE h == fields[m].kind.fields
                 k == n + 1
      <4>1. u \in Levels(h)[k] /\ k = n + 1
        OBVIOUS
      <4> HIDE DEF h, k
      <4>2. \E q \in Levels(h)[n] : StandsIn(u, q)
        BY <4>1, OneDeeper
      <4> QED
        BY <4>2 DEF h, StandsIn
    <3> DEFINE g == q[1].kind.fields
               r == Seen(q, fields[m].offset)
    <3>4. PICK k \in DOMAIN g : u = <<g[k], q[2] + g[k].offset>>
      BY <3>3
    <3>5. p = <<g[k], (q[2] + fields[m].offset) + g[k].offset>>
      BY <2>2, <3>1, <3>2, <3>3, <3>4
    <3>6. r \in Levels(fields)[n + 1]
      BY <2>0, <3>1
    <3>7. r[1] = q[1] /\ r[2] = q[2] + fields[m].offset
      BY DEF Seen
    <3> HIDE DEF r
    <3> QED
      BY <2>1, <3>3, <3>5, <3>6, <3>7
  <2> QED
    BY <2>3, <2>4
<1>3. Nat \subseteq Good
  <2> HIDE DEF Good
  <2> QED
    BY <1>1, <1>2, SetInduction
<1> QED
  BY <1>3

LEMMA InGroups ==
    ASSUME NEW fields, \A m \in DOMAIN fields : Neat(fields[m]),
           NEW n \in Nat, NEW k, k = n + 1, NEW p \in Levels(fields)[k]
    PROVE  \E m \in DOMAIN fields :
              /\ IsGroup(fields[m])
              /\ \E q \in Levels(fields[m].kind.fields)[n] : p = Seen(q, fields[m].offset)
<1>1. p \in Levels(fields)[n + 1]
  OBVIOUS
<1> QED
  BY <1>1, LevelsSplit

(* A list whose groups are in order is so as a whole, and the other way     *)
(* round.                                                                  *)
LEMMA NeatIsTidy ==
    ASSUME NEW fields, \A m \in DOMAIN fields : Neat(fields[m])
    PROVE  Tidy(fields)
<1> SUFFICES ASSUME NEW n \in Nat, NEW p \in Levels(fields)[n] PROVE p[1].offset \in Int
  BY DEF Tidy
<1>1. CASE n = 0
  <2>1. PICK m \in DOMAIN fields : p = <<fields[m], 0 + fields[m].offset>>
    BY <1>1, InLevels
  <2> QED
    BY <2>1 DEF Neat
<1>2. CASE n # 0
  <2> DEFINE k == n - 1
  <2>1. k \in Nat /\ n = k + 1
    BY <1>2
  <2> HIDE DEF k
  <2>2. PICK m \in DOMAIN fields :
           /\ IsGroup(fields[m])
           /\ \E q \in Levels(fields[m].kind.fields)[k] : p = Seen(q, fields[m].offset)
    BY <2>1, LevelsSplit
  <2>3. PICK q \in Levels(fields[m].kind.fields)[k] : p = Seen(q, fields[m].offset)
    BY <2>2
  <2>4. q[1].offset \in Int
    BY <2>1, <2>2 DEF Neat, Tidy
  <2> QED
    BY <2>3, <2>4 DEF Seen
<1> QED
  BY <1>1, <1>2

LEMMA TidyIsNeat ==
    ASSUME NEW fields, Tidy(fields), NEW m \in DOMAIN fields
    PROVE  Neat(fields[m])
<1> DEFINE f == fields[m]
           g == f.kind.fields
           Good == {n \in Nat : \A q \in Levels(g)[n] : \E p \in Levels(fields)[n + 1] : p[1] = q[1]}
<1>1. <<f, 0 + f.offset>> \in Levels(fields)[0]
  BY InLevels
<1>2. f.offset \in Int
  BY <1>1, TidyPlaces
<1>3. ASSUME IsGroup(f) PROVE 0 \in Good
  <2> SUFFICES ASSUME NEW q \in Levels(g)[0] PROVE \E p \in Levels(fields)[0 + 1] : p[1] = q[1]
    OBVIOUS
  <2>1. PICK k \in DOMAIN g : q = <<g[k], 0 + g[k].offset>>
    BY InLevels
  <2> DEFINE r == <<f, 0 + f.offset>>
             p == <<g[k], (0 + f.offset) + g[k].offset>>
  <2>2. p = <<r[1].kind.fields[k], r[2] + r[1].kind.fields[k].offset>> /\ IsGroup(r[1]) /\ k \in DOMAIN r[1].kind.fields
    BY <1>3
  <2>3. r \in Levels(fields)[0] /\ p[1] = q[1]
    BY <1>1, <2>1
  <2> HIDE DEF r, p
  <2>4. p \in Levels(fields)[0 + 1]
    BY <2>2, <2>3, InLevels
  <2> QED
    BY <2>3, <2>4
<1>4. ASSUME NEW n \in Nat, n \in Good PROVE n + 1 \in Good
  <2> HIDE DEF f, g
  <2> SUFFICES ASSUME NEW u \in Levels(g)[n + 1] PROVE \E p \in Levels(fields)[(n + 1) + 1] : p[1] = u[1]
    OBVIOUS
  <2>1. PICK q \in Levels(g)[n] :
           /\ IsGroup(q[1])
           /\ \E k \in DOMAIN q[1].kind.fields :
                 u = <<q[1].kind.fields[k], q[2] + q[1].kind.fields[k].offset>>
    BY InLevels
  <2>2. PICK r \in Levels(fields)[n + 1] : r[1] = q[1]
    BY <1>4
  <2>3. PICK k \in DOMAIN q[1].kind.fields : u[1] = q[1].kind.fields[k]
    BY <2>1
  <2> DEFINE p == <<r[1].kind.fields[k], r[2] + r[1].kind.fields[k].offset>>
  <2>4. p[1] = u[1] /\ IsGroup(r[1]) /\ k \in DOMAIN r[1].kind.fields
    BY <2>1, <2>2, <2>3
  <2>5. p = <<r[1].kind.fields[k], r[2] + r[1].kind.fields[k].offset>>
    OBVIOUS
  <2> HIDE DEF p
  <2>6. p \in Levels(fields)[(n + 1) + 1]
    BY <2>4, <2>5, InLevels
  <2> QED
    BY <2>4, <2>6
<1>5. ASSUME IsGroup(f), NEW n \in Nat, NEW q \in Levels(g)[n] PROVE q[1].offset \in Int
  <2>1. Nat \subseteq Good
    <3> HIDE DEF Good
    <3> QED
      BY <1>3, <1>4, <1>5, SetInduction
  <2>2. PICK p \in Levels(fields)[n + 1] : p[1] = q[1]
    BY <2>1
  <2> QED
    BY <2>2, TidyPlaces
<1> HIDE DEF f
<1>6. IsGroup(f) => Tidy(f.kind.fields)
  BY <1>5 DEF Tidy
<1>7. Neat(f)
  BY <1>2, <1>6 DEF Neat
<1> QED
  BY <1>7 DEF f

-----------------------------------------------------------------------------
(* How deep a layout is *)

(* Nothing stands that many groups deep. *)
Ends(fields, n) == Levels(fields)[n] = {}
FieldEnds(f, n) == IsGroup(f) => Ends(f.kind.fields, n)

LEMMA EndsDeeper ==
    ASSUME NEW fields, NEW n \in Nat, Ends(fields, n)
    PROVE  \A m \in Nat : m >= n => Ends(fields, m)
<1> DEFINE Good == {k \in Nat : Ends(fields, n + k)}
<1>1. 0 \in Good
  OBVIOUS
<1>2. ASSUME NEW k \in Nat, k \in Good PROVE k + 1 \in Good
  <2>1. n + k \in Nat /\ n + (k + 1) = (n + k) + 1
    OBVIOUS
  <2>2. Levels(fields)[n + k] = {}
    BY <1>2 DEF Ends
  <2>3. Levels(fields)[(n + k) + 1] = {}
    <3> DEFINE j == n + k
    <3>1. j \in Nat /\ Levels(fields)[j] = {}
      BY <2>1, <2>2
    <3> HIDE DEF j
    <3>2. Levels(fields)[j + 1] = {}
      BY <3>1, InLevels
    <3> QED
      BY <3>2 DEF j
  <2> QED
    BY <2>1, <2>3 DEF Ends
<1>3. Nat \subseteq Good
  <2> HIDE DEF Good
  <2> QED
    BY <1>1, <1>2, SetInduction
<1> SUFFICES ASSUME NEW m \in Nat, m >= n PROVE Ends(fields, m)
  OBVIOUS
<1>4. m - n \in Nat /\ n + (m - n) = m
  OBVIOUS
<1> QED
  BY <1>3, <1>4

LEMMA EndsByFields ==
    ASSUME NEW fields, \A m \in DOMAIN fields : Neat(fields[m]), NEW n \in Nat
    PROVE  Ends(fields, n + 1) <=> \A m \in DOMAIN fields : FieldEnds(fields[m], n)
<1>1. ASSUME NEW m \in DOMAIN fields, Ends(fields, n + 1) PROVE FieldEnds(fields[m], n)
  <2> SUFFICES ASSUME IsGroup(fields[m]), NEW q \in Levels(fields[m].kind.fields)[n] PROVE FALSE
    BY DEF FieldEnds, Ends
  <2>1. Seen(q, fields[m].offset) \in Levels(fields)[n + 1]
    BY LevelsSplit
  <2> QED
    BY <1>1, <2>1 DEF Ends
<1>2. ASSUME \A m \in DOMAIN fields : FieldEnds(fields[m], n) PROVE Ends(fields, n + 1)
  <2> SUFFICES ASSUME NEW p \in Levels(fields)[n + 1] PROVE FALSE
    BY DEF Ends
  <2>1. PICK m \in DOMAIN fields :
           IsGroup(fields[m]) /\ \E q \in Levels(fields[m].kind.fields)[n] : p = Seen(q, fields[m].offset)
    <3> DEFINE k == n + 1
    <3>1. p \in Levels(fields)[k] /\ k = n + 1
      OBVIOUS
    <3> HIDE DEF k
    <3> QED
      BY <3>1, InGroups
  <2>2. Levels(fields[m].kind.fields)[n] = {}
    BY <1>2, <2>1 DEF FieldEnds, Ends
  <2> QED
    BY <2>1, <2>2
<1> QED
  BY <1>1, <1>2

-----------------------------------------------------------------------------
(* The places of a layout *)

WidthIn(f) == IF IsGroup(f) THEN 0 ELSE f.width
Mark(p) == <<p[1].name, p[2], WidthIn(p[1])>>

IsPlace(x, fields) == \E n \in Nat : \E p \in Levels(fields)[n] : x = Mark(p)

MovedOne(y, by) == <<y[1], y[2] + by, y[3]>>

(* A field's own place and those of what stands in it.                     *)
IsPart(x, f) ==
    \/ x = <<f.name, f.offset, WidthIn(f)>>
    \/ IsGroup(f) /\ \E y : IsPlace(y, f.kind.fields) /\ x = MovedOne(y, f.offset)

LEMMA PlacesAreParts ==
    ASSUME NEW fields, \A m \in DOMAIN fields : Neat(fields[m])
    PROVE  \A x : IsPlace(x, fields) <=> \E m \in DOMAIN fields : IsPart(x, fields[m])
<1> SUFFICES ASSUME NEW x PROVE IsPlace(x, fields) <=> \E m \in DOMAIN fields : IsPart(x, fields[m])
  OBVIOUS
<1>0. \A q, by : Mark(Seen(q, by)) = MovedOne(Mark(q), by)
  BY DEF Mark, Seen, MovedOne
<1>1. ASSUME NEW m \in DOMAIN fields PROVE Mark(<<fields[m], 0 + fields[m].offset>>) = <<fields[m].name, fields[m].offset, WidthIn(fields[m])>>
  <2>1. 0 + fields[m].offset = fields[m].offset
    BY DEF Neat
  <2> QED
    BY <2>1 DEF Mark
<1>2. ASSUME NEW n \in Nat, NEW p \in Levels(fields)[n], x = Mark(p)
      PROVE  \E m \in DOMAIN fields : IsPart(x, fields[m])
  <2>1. CASE n = 0
    <3>1. PICK m \in DOMAIN fields : p = <<fields[m], 0 + fields[m].offset>>
      BY <2>1, InLevels
    <3> QED
      BY <1>1, <1>2, <3>1 DEF IsPart
  <2>2. CASE n # 0
    <3> DEFINE k == n - 1
    <3>1. k \in Nat /\ n = k + 1
      BY <2>2
    <3> HIDE DEF k
    <3>2. PICK m \in DOMAIN fields :
             /\ IsGroup(fields[m])
             /\ \E q \in Levels(fields[m].kind.fields)[k] : p = Seen(q, fields[m].offset)
      BY <3>1, LevelsSplit
    <3>3. PICK q \in Levels(fields[m].kind.fields)[k] : p = Seen(q, fields[m].offset)
      BY <3>2
    <3>4. x = MovedOne(Mark(q), fields[m].offset)
      BY <1>0, <1>2, <3>3
    <3>5. IsPlace(Mark(q), fields[m].kind.fields)
      BY <3>1 DEF IsPlace
    <3> QED
      BY <3>2, <3>4, <3>5 DEF IsPart
  <2> QED
    BY <2>1, <2>2
<1>3. ASSUME NEW m \in DOMAIN fields, IsPart(x, fields[m]) PROVE IsPlace(x, fields)
  <2>1. CASE x = <<fields[m].name, fields[m].offset, WidthIn(fields[m])>>
    <3>1. <<fields[m], 0 + fields[m].offset>> \in Levels(fields)[0]
      BY InLevels
    <3> QED
      BY <1>1, <2>1, <3>1 DEF IsPlace
  <2>2. CASE IsGroup(fields[m]) /\ \E y : IsPlace(y, fields[m].kind.fields) /\ x = MovedOne(y, fields[m].offset)
    <3>1. PICK y : IsPlace(y, fields[m].kind.fields) /\ x = MovedOne(y, fields[m].offset)
      BY <2>2
    <3>2. PICK n \in Nat : \E q \in Levels(fields[m].kind.fields)[n] : y = Mark(q)
      BY <3>1 DEF IsPlace
    <3>3. PICK q \in Levels(fields[m].kind.fields)[n] : y = Mark(q)
      BY <3>2
    <3>4. Seen(q, fields[m].offset) \in Levels(fields)[n + 1]
      BY <2>2, LevelsSplit
    <3>5. x = Mark(Seen(q, fields[m].offset)) /\ n + 1 \in Nat
      BY <1>0, <3>1, <3>3
    <3> QED
      BY <3>4, <3>5 DEF IsPlace
  <2> QED
    BY <1>3, <2>1, <2>2 DEF IsPart
<1> QED
  BY <1>2, <1>3 DEF IsPlace

(* Places are numbers. *)
LEMMA PlaceIs ==
    ASSUME NEW fields, Tidy(fields), NEW x, IsPlace(x, fields)
    PROVE  x = <<x[1], x[2], x[3]>> /\ x[2] \in Int
  BY TidyPlaces DEF IsPlace, Mark

-----------------------------------------------------------------------------
(* What folding makes of a list *)

Among(g, s) == \E m \in DOMAIN s : s[m] = g

(* Putting numbers in order leaves none out. *)
LEMMA InOrderOnto ==
    ASSUME NEW n \in Nat, NEW S \in SUBSET (1 .. n)
    PROVE  \A x \in S : \E k \in DOMAIN InOrder(S) : InOrder(S)[k] = x
<1> DEFINE c == Cardinality(S)
           s == InOrder(S)
<1>1. c \in Nat /\ s \in [1 .. c -> S] /\ Increasing(s)
  BY InOrderOf
<1>2. IsFiniteSet(S)
  <2>1. IsFiniteSet(1 .. n)
    BY FS_Interval
  <2> QED
    BY <2>1, FS_Subset
<1>3. Cardinality(1 .. c) = c
  BY <1>1, FS_Interval
<1> HIDE DEF c, s
<1>4. ASSUME NEW i \in 1 .. c, NEW j \in 1 .. c, s[i] = s[j] PROVE i = j
  <2>0. s[i] \in S /\ s[j] \in S
    BY <1>1
  <2>1. s[i] \in Nat /\ s[j] \in Nat /\ i \in Nat /\ j \in Nat
    <3>1. c \in Nat /\ S \in SUBSET (1 .. n)
      BY <1>1
    <3>2. i \in Nat /\ j \in Nat
      BY <3>1
    <3>3. s[i] \in 1 .. n /\ s[j] \in 1 .. n
      BY <2>0, <3>1
    <3> QED
      BY <3>2, <3>3
  <2>2. ~(s[i] < s[j]) /\ ~(s[j] < s[i])
    BY <1>4, <2>1
  <2>3. ~(i < j) /\ ~(j < i)
    BY <1>1, <2>2 DEF Increasing
  <2> QED
    BY <2>1, <2>3
<1>5. s \in Injection(1 .. c, S)
  BY <1>1, <1>4 DEF Injection, IsInjective
<1>6. s \in Surjection(1 .. c, S)
  <2>1. Cardinality(1 .. c) = Cardinality(S)
    BY <1>3 DEF c
  <2> QED
    BY <1>2, <1>5, <2>1, FS_Injection
<1>7. \A x \in S : \E k \in 1 .. c : s[k] = x
  BY <1>6 DEF Surjection
<1> QED
  BY <1>1, <1>7 DEF s

LEMMA Joined ==
    ASSUME NEW s, NEW t, IsSequence(s), IsSequence(t)
    PROVE  IsSequence(s \o t) /\ \A g : Among(g, s \o t) <=> Among(g, s) \/ Among(g, t)
<1> DEFINE S == Range(s) \cup Range(t)
           u == s \o t
           n == Len(s)
           m == Len(t)
<1>1. s \in Seq(S) /\ t \in Seq(S)
  BY SeqOfMore DEF IsSequence
<1>2. n \in Nat /\ m \in Nat /\ DOMAIN s = 1 .. n /\ DOMAIN t = 1 .. m
  BY SequenceIs
<1> HIDE DEF S
<1>3. /\ u \in Seq(S) /\ Len(u) = n + m
      /\ \A i \in 1 .. n + m : u[i] = IF i <= n THEN s[i] ELSE t[i - n]
  BY <1>1, ConcatProperties
<1> HIDE DEF u, n, m
<1>4. IsSequence(u) /\ DOMAIN u = 1 .. n + m
  BY <1>3, SeqOfRange, LenProperties DEF IsSequence
<1>5. ASSUME NEW g, Among(g, u) PROVE Among(g, s) \/ Among(g, t)
  <2>1. PICK i \in 1 .. n + m : u[i] = g
    BY <1>4, <1>5 DEF Among
  <2>2. CASE i <= n
    <3>1. i \in 1 .. n /\ s[i] = g
      BY <1>2, <1>3, <2>1, <2>2
    <3> QED
      BY <1>2, <3>1 DEF Among
  <2>3. CASE ~(i <= n)
    <3>1. i - n \in 1 .. m /\ t[i - n] = g
      BY <1>2, <1>3, <2>1, <2>3
    <3> QED
      BY <1>2, <3>1 DEF Among
  <2> QED
    BY <2>2, <2>3
<1>6. ASSUME NEW g, Among(g, s) PROVE Among(g, u)
  <2>1. PICK i \in 1 .. n : s[i] = g
    BY <1>2, <1>6 DEF Among
  <2>2. i \in 1 .. n + m /\ i <= n
    BY <1>2
  <2>3. u[i] = g
    BY <1>3, <2>1, <2>2
  <2> QED
    BY <1>4, <2>2, <2>3 DEF Among
<1>7. ASSUME NEW g, Among(g, t) PROVE Among(g, u)
  <2>1. PICK i \in 1 .. m : t[i] = g
    BY <1>2, <1>7 DEF Among
  <2> DEFINE k == i + n
  <2>2. k \in 1 .. n + m /\ ~(k <= n) /\ k - n = i
    BY <1>2
  <2> HIDE DEF k
  <2>3. u[k] = g
    BY <1>3, <2>1, <2>2
  <2> QED
    BY <1>4, <2>2, <2>3 DEF Among
<1> QED
  BY <1>4, <1>5, <1>6, <1>7 DEF u

(* The fields that stay in a list, and what becomes of each.               *)
Kept(fields) == {i \in DOMAIN fields : fields[i].redefines = NoName \/ BaseOf(fields, i) = 0}

FoldedOne(fields, i) == IF Redefiners(fields, i) = {} THEN fields[i] ELSE Union(fields, i)

LEMMA FoldedAre ==
    ASSUME NEW fields, IsSequence(fields)
    PROVE  /\ IsSequence(Folded(fields))
           /\ \A g : Among(g, Folded(fields)) <=> \E i \in Kept(fields) : g = FoldedOne(fields, i)
<1> DEFINE n == Len(fields)
           S == Kept(fields)
           kept == InOrder(S)
           c == Cardinality(S)
           h == Folded(fields)
<1>1. n \in Nat /\ DOMAIN fields = 1 .. n
  BY SequenceIs
<1> HIDE DEF n
<1>2. S \in SUBSET (1 .. n)
  BY <1>1 DEF Kept
<1>3. h = [m \in DOMAIN kept |-> FoldedOne(fields, kept[m])]
  BY DEF Folded, Kept, FoldedOne
<1> HIDE DEF S
<1>4. c \in Nat /\ kept \in [1 .. c -> S]
  BY <1>1, <1>2, InOrderOf
<1>5. \A x \in S : \E k \in DOMAIN kept : kept[k] = x
  BY <1>1, <1>2, InOrderOnto
<1> HIDE DEF kept, c, h
<1>6. DOMAIN h = 1 .. c /\ \A m \in 1 .. c : h[m] = FoldedOne(fields, kept[m]) /\ kept[m] \in S
  BY <1>3, <1>4
<1>7. IsSequence(h)
  <2> DEFINE R == Range(h)
  <2>1. \A m \in 1 .. c : h[m] \in R
    BY <1>6 DEF Range
  <2>2. h = [m \in 1 .. c |-> h[m]]
    BY <1>3, <1>6
  <2> HIDE DEF R
  <2>3. h \in [1 .. c -> R]
    BY <2>1, <2>2
  <2>4. h \in Seq(R)
    BY <1>4, <2>3, SeqDef
  <2> QED
    BY <2>4 DEF IsSequence, R
<1>8. \A g : Among(g, h) <=> \E i \in S : g = FoldedOne(fields, i)
  <2> TAKE g
  <2>1. Among(g, h) <=> \E m \in 1 .. c : FoldedOne(fields, kept[m]) = g
    BY <1>6 DEF Among
  <2>2. ASSUME NEW i \in S, g = FoldedOne(fields, i) PROVE \E m \in 1 .. c : FoldedOne(fields, kept[m]) = g
    BY <1>4, <1>5, <2>2
  <2> QED
    BY <1>6, <2>1, <2>2
<1> QED
  BY <1>7, <1>8 DEF h, S

(* Every field stays, or goes to one that stays. *)
LEMMA BaseIs ==
    ASSUME NEW fields, IsSequence(fields), NEW j \in DOMAIN fields, j \notin Kept(fields)
    PROVE  /\ fields[j].redefines # NoName
           /\ BaseOf(fields, j) \in Kept(fields) /\ BaseOf(fields, j) < j
           /\ fields[BaseOf(fields, j)].name = fields[j].redefines
           /\ j \in Redefiners(fields, BaseOf(fields, j))
<1> DEFINE n == Len(fields)
           T == {i \in 1 .. j - 1 : /\ fields[i].redefines = NoName
                                    /\ fields[i].name = fields[j].redefines}
           U == {0} \cup T
           b == BaseOf(fields, j)
<1>1. n \in Nat /\ DOMAIN fields = 1 .. n
  BY SequenceIs
<1> HIDE DEF n
<1>2. j \in Nat /\ j - 1 \in Nat
  BY <1>1
<1>3. fields[j].redefines # NoName /\ b # 0
  BY DEF Kept
<1>4. b = Max(U)
  BY DEF BaseOf
<1>5. U \in SUBSET (0 .. j - 1) /\ U # {}
  BY <1>2
<1> HIDE DEF U
<1>6. Max(U) \in U
  BY <1>2, <1>5, MaxOf
<1>7. b \in T
  BY <1>3, <1>4, <1>6 DEF U
<1>8. b \in DOMAIN fields /\ b < j /\ fields[b].redefines = NoName /\ fields[b].name = fields[j].redefines
  BY <1>1, <1>7
<1> HIDE DEF b
<1>9. b \in Kept(fields)
  BY <1>8 DEF Kept
<1>10. j \in Redefiners(fields, b)
  BY <1>3 DEF Redefiners, b
<1> QED
  BY <1>3, <1>8, <1>9, <1>10 DEF b

GroupOK(f) == Neat(f) /\ (IsGroup(f) => IsSequence(f.kind.fields))

Well(fields) ==
    /\ IsSequence(fields)
    /\ \A m \in DOMAIN fields : FieldOK(fields[m]) /\ GroupOK(fields[m])

LEMMA RebasedIs ==
    ASSUME NEW f, FieldOK(f), NEW by
    PROVE  LET g == Rebased(f, by)
           IN  /\ g.name = f.name /\ g.width = f.width /\ g.kind = f.kind /\ g.occurs = f.occurs
               /\ g.controller = f.controller /\ g.offset = f.offset - by
  BY DEF Rebased, FieldOK

(* A field and what stands in it, seen from where its list begins. *)
PartMoved(x, f, by) == \E y : IsPart(y, f) /\ x = MovedOne(y, by)

LEMMA RebasedParts ==
    ASSUME NEW f, FieldOK(f), Neat(f), NEW by \in Int
    PROVE  /\ Neat(Rebased(f, by))
           /\ \A x : PartMoved(x, Rebased(f, by), by) <=> IsPart(x, f)
<1> DEFINE g == Rebased(f, by)
<1>1. /\ g.name = f.name /\ g.width = f.width /\ g.kind = f.kind /\ g.offset = f.offset - by
      /\ f.offset \in Int
  BY RebasedIs DEF FieldOK
<1> HIDE DEF g
<1>2. (IsGroup(g) <=> IsGroup(f)) /\ WidthIn(g) = WidthIn(f) /\ g.offset \in Int /\ g.offset + by = f.offset
  BY <1>1 DEF IsGroup, WidthIn
<1>3. Neat(g)
  BY <1>1, <1>2 DEF Neat
<1>4. MovedOne(<<g.name, g.offset, WidthIn(g)>>, by) = <<f.name, f.offset, WidthIn(f)>>
  BY <1>1, <1>2 DEF MovedOne
<1>5. ASSUME IsGroup(f), NEW y, IsPlace(y, f.kind.fields)
      PROVE  MovedOne(MovedOne(y, g.offset), by) = MovedOne(y, f.offset)
  <2>1. y[2] \in Int
    BY <1>5, PlaceIs DEF Neat
  <2>2. (y[2] + g.offset) + by = y[2] + f.offset
    BY <1>1, <1>2, <2>1
  <2> QED
    BY <2>2 DEF MovedOne
<1>6. ASSUME NEW x, PartMoved(x, g, by) PROVE IsPart(x, f)
  <2>1. PICK y : IsPart(y, g) /\ x = MovedOne(y, by)
    BY <1>6 DEF PartMoved
  <2>2. CASE y = <<g.name, g.offset, WidthIn(g)>>
    BY <1>4, <2>1, <2>2 DEF IsPart
  <2>3. CASE IsGroup(g) /\ \E z : IsPlace(z, g.kind.fields) /\ y = MovedOne(z, g.offset)
    <3>1. PICK z : IsPlace(z, f.kind.fields) /\ y = MovedOne(z, g.offset)
      BY <1>1, <2>3
    <3>2. IsGroup(f)
      BY <1>2, <2>3
    <3>3. x = MovedOne(z, f.offset)
      BY <1>5, <2>1, <3>1, <3>2
    <3> QED
      BY <3>1, <3>2, <3>3 DEF IsPart
  <2> QED
    BY <2>1, <2>2, <2>3 DEF IsPart
<1>7. ASSUME NEW x, IsPart(x, f) PROVE PartMoved(x, g, by)
  <2>1. CASE x = <<f.name, f.offset, WidthIn(f)>>
    <3> DEFINE y == <<g.name, g.offset, WidthIn(g)>>
    <3>1. IsPart(y, g)
      BY DEF IsPart
    <3>2. x = MovedOne(y, by)
      BY <1>4, <2>1
    <3> HIDE DEF y
    <3> QED
      BY <3>1, <3>2 DEF PartMoved
  <2>2. CASE IsGroup(f) /\ \E z : IsPlace(z, f.kind.fields) /\ x = MovedOne(z, f.offset)
    <3>1. PICK z : IsPlace(z, f.kind.fields) /\ x = MovedOne(z, f.offset)
      BY <2>2
    <3> DEFINE y == MovedOne(z, g.offset)
    <3>2. IsPart(y, g)
      BY <1>1, <1>2, <2>2, <3>1 DEF IsPart
    <3>3. x = MovedOne(y, by)
      BY <1>5, <2>2, <3>1
    <3> HIDE DEF y
    <3> QED
      BY <3>2, <3>3 DEF PartMoved
  <2> QED
    BY <1>7, <2>1, <2>2 DEF IsPart
<1> QED
  BY <1>3, <1>6, <1>7 DEF g

-----------------------------------------------------------------------------
(* The members of the group made of a redefined field *)

Own(base) == IF IsUnion(base) THEN base.kind.fields ELSE <<Rebased(base, base.offset)>>

Others(fields, i) ==
    LET others == InOrder(Redefiners(fields, i))
    IN  [n \in DOMAIN others |-> Rebased(fields[others[n]], fields[i].offset)]

Members(fields, i) == Own(fields[i]) \o Others(fields, i)

LEMMA UnionIs ==
    ASSUME NEW fields, NEW i \in DOMAIN fields, FieldOK(fields[i])
    PROVE  LET u    == Union(fields, i)
               base == fields[i]
           IN  /\ u.name = base.name /\ u.offset = base.offset /\ u.redefines = base.redefines
               /\ IsGroup(u) /\ u.kind.fields = Members(fields, i)
               /\ u.width = Max({TotalWidth(Members(fields, i)[m]) : m \in DOMAIN Members(fields, i)})
               /\ u.occurs = Once /\ u.controller = NoName
<1> DEFINE base == fields[i]
           ms == Members(fields, i)
           w == Max({TotalWidth(ms[m]) : m \in DOMAIN ms})
           u == Union(fields, i)
<1>1. u = [base EXCEPT !.width = w, !.kind = [k |-> "group", fields |-> ms],
                       !.occurs = Once, !.controller = NoName]
  BY DEF Union, Members, Own, Others
<1> HIDE DEF ms, w, u
<1>2. /\ u.name = base.name /\ u.offset = base.offset /\ u.redefines = base.redefines
      /\ u.kind = [k |-> "group", fields |-> ms] /\ u.width = w
      /\ u.occurs = Once /\ u.controller = NoName
  BY <1>1 DEF FieldOK
<1>3. IsGroup(u) /\ u.kind.fields = ms
  BY <1>2 DEF IsGroup
<1> QED
  BY <1>2, <1>3 DEF ms, w, u

LEMMA MembersAre ==
    ASSUME NEW fields, Well(fields), NEW i \in DOMAIN fields
    PROVE  /\ IsSequence(Own(fields[i])) /\ IsSequence(Members(fields, i))
           /\ \A g : Among(g, Members(fields, i)) <=>
                        \/ Among(g, Own(fields[i]))
                        \/ \E j \in Redefiners(fields, i) : g = Rebased(fields[j], fields[i].offset)
<1> DEFINE n == Len(fields)
           S == Redefiners(fields, i)
           o == InOrder(S)
           c == Cardinality(S)
           by == fields[i].offset
           h == Others(fields, i)
           own == Own(fields[i])
<1>1. n \in Nat /\ DOMAIN fields = 1 .. n
  BY SequenceIs DEF Well
<1> HIDE DEF n
<1>2. S \in SUBSET (1 .. n)
  BY <1>1 DEF Redefiners
<1>3. h = [m \in DOMAIN o |-> Rebased(fields[o[m]], by)]
  BY DEF Others
<1> HIDE DEF S
<1>4. c \in Nat /\ o \in [1 .. c -> S]
  BY <1>1, <1>2, InOrderOf
<1>5. \A x \in S : \E k \in DOMAIN o : o[k] = x
  BY <1>1, <1>2, InOrderOnto
<1> HIDE DEF o, c, h, by
<1>6. DOMAIN h = 1 .. c /\ \A m \in 1 .. c : h[m] = Rebased(fields[o[m]], by) /\ o[m] \in S
  BY <1>3, <1>4
<1>7. IsSequence(h)
  <2> DEFINE R == Range(h)
  <2>1. \A m \in 1 .. c : h[m] \in R
    BY <1>6 DEF Range
  <2>2. h = [m \in 1 .. c |-> h[m]]
    BY <1>3, <1>6
  <2> HIDE DEF R
  <2>3. h \in [1 .. c -> R]
    BY <2>1, <2>2
  <2>4. h \in Seq(R)
    BY <1>4, <2>3, SeqDef
  <2> QED
    BY <2>4 DEF IsSequence, R
<1>8. \A g : Among(g, h) <=> \E j \in S : g = Rebased(fields[j], by)
  <2> TAKE g
  <2>1. Among(g, h) <=> \E m \in 1 .. c : Rebased(fields[o[m]], by) = g
    BY <1>6 DEF Among
  <2>2. ASSUME NEW j \in S, g = Rebased(fields[j], by) PROVE \E m \in 1 .. c : Rebased(fields[o[m]], by) = g
    BY <1>4, <1>5, <2>2
  <2> QED
    BY <1>6, <2>1, <2>2
<1>9. IsSequence(own)
  <2>1. CASE IsUnion(fields[i])
    BY <2>1 DEF Own, Well, GroupOK, IsUnion, IsGroup
  <2>2. CASE ~IsUnion(fields[i])
    <3> DEFINE x == Rebased(fields[i], fields[i].offset)
    <3>1. own = Append(<<>>, x)
      BY <2>2 DEF Own
    <3> HIDE DEF x, own
    <3> QED
      BY <3>1, EmptySequence, Longer
  <2> QED
    BY <2>1, <2>2
<1> HIDE DEF own
<1>10. IsSequence(own \o h) /\ \A g : Among(g, own \o h) <=> Among(g, own) \/ Among(g, h)
  BY <1>7, <1>9, Joined
<1>11. Members(fields, i) = own \o h
  BY DEF Members, own, h
<1> QED
  BY <1>8, <1>9, <1>10, <1>11 DEF S, by, own

LEMMA OwnIs ==
    ASSUME NEW base, FieldOK(base)
    PROVE  /\ IsUnion(base) => IsGroup(base) /\ Own(base) = base.kind.fields
           /\ ~IsUnion(base) => \A g : Among(g, Own(base)) <=> g = Rebased(base, base.offset)
<1>1. ASSUME ~IsUnion(base), NEW g PROVE Among(g, Own(base)) <=> g = Rebased(base, base.offset)
  <2> DEFINE x == Rebased(base, base.offset)
  <2>1. Own(base) = <<x>>
    BY <1>1 DEF Own
  <2> HIDE DEF x
  <2>2. DOMAIN <<x>> = {1} /\ <<x>>[1] = x
    OBVIOUS
  <2>3. Among(g, <<x>>) <=> g = x
    BY <2>2 DEF Among
  <2> QED
    BY <2>1, <2>3 DEF x
<1> QED
  BY <1>1 DEF IsUnion, IsGroup, Own

LEMMA PartsOfAll ==
    ASSUME NEW fields, \A g : Among(g, fields) => Neat(g)
    PROVE  \A x : IsPlace(x, fields) <=> \E g : Among(g, fields) /\ IsPart(x, g)
<1>1. \A m \in DOMAIN fields : Neat(fields[m])
  BY DEF Among
<1>2. \A x : IsPlace(x, fields) <=> \E m \in DOMAIN fields : IsPart(x, fields[m])
  BY <1>1, PlacesAreParts
<1> QED
  BY <1>2 DEF Among

LEMMA WellNumbers ==
    ASSUME NEW fields, Well(fields), NEW i \in DOMAIN fields
    PROVE  FieldOK(fields[i]) /\ GroupOK(fields[i]) /\ Neat(fields[i]) /\ fields[i].offset \in Int
  BY DEF Well, GroupOK, FieldOK

LEMMA MembersNeat ==
    ASSUME NEW fields, Well(fields), NEW i \in DOMAIN fields
    PROVE  \A g : Among(g, Members(fields, i)) => Neat(g)
<1> DEFINE base == fields[i]
<1>1. FieldOK(base) /\ Neat(base) /\ base.offset \in Int
  BY WellNumbers
<1>2. ASSUME NEW g, Among(g, Own(base)) PROVE Neat(g)
  <2>1. CASE IsUnion(base)
    <3>1. Tidy(base.kind.fields) /\ Among(g, base.kind.fields)
      BY <1>1, <1>2, <2>1, OwnIs DEF Neat
    <3> QED
      BY <3>1, TidyIsNeat DEF Among
  <2>2. CASE ~IsUnion(base)
    BY <1>1, <1>2, <2>2, OwnIs, RebasedParts
  <2> QED
    BY <2>1, <2>2
<1>3. ASSUME NEW j \in Redefiners(fields, i) PROVE Neat(Rebased(fields[j], base.offset))
  <2>1. j \in DOMAIN fields
    BY DEF Redefiners
  <2> QED
    BY <1>1, <2>1, WellNumbers, RebasedParts
<1> QED
  BY <1>2, <1>3, MembersAre

(* The group made of a redefined field holds what that field and those that *)
(* redefine it hold, and nothing else but its own name.                    *)
LEMMA UnionParts ==
    ASSUME NEW fields, Well(fields), NEW i \in DOMAIN fields
    PROVE  /\ GroupOK(Union(fields, i))
           /\ \A x : IsPart(x, Union(fields, i)) <=>
                        \/ x = <<fields[i].name, fields[i].offset, 0>>
                        \/ IsPart(x, fields[i])
                        \/ \E j \in Redefiners(fields, i) : IsPart(x, fields[j])
<1> DEFINE base == fields[i]
           by == base.offset
           ms == Members(fields, i)
           u == Union(fields, i)
           own == Own(base)
           mark == <<base.name, by, 0>>
<1>1. FieldOK(base) /\ GroupOK(base) /\ Neat(base) /\ by \in Int
  BY WellNumbers
<1>2. u.name = base.name /\ u.offset = by /\ IsGroup(u) /\ u.kind.fields = ms
  BY <1>1, UnionIs
<1>3. IsSequence(ms) /\ \A g : Among(g, ms) => Neat(g)
  BY MembersAre, MembersNeat
<1>4. GroupOK(u)
  <2>1. Tidy(ms)
    <3>1. \A m \in DOMAIN ms : Among(ms[m], ms)
      BY DEF Among
    <3> HIDE DEF ms
    <3> QED
      BY <1>3, <3>1, NeatIsTidy
  <2> HIDE DEF u, ms, base
  <2> QED
    BY <1>1, <1>2, <1>3, <2>1 DEF GroupOK, Neat
<1>5. ASSUME NEW x
      PROVE  (\E y : IsPlace(y, ms) /\ x = MovedOne(y, by)) <=> \E g : Among(g, ms) /\ PartMoved(x, g, by)
  <2> HIDE DEF ms, by
  <2>1. \A y : IsPlace(y, ms) <=> \E g : Among(g, ms) /\ IsPart(y, g)
    BY <1>3, PartsOfAll
  <2> QED
    BY <2>1 DEF PartMoved
<1>6. \A j \in Redefiners(fields, i) : \A x : PartMoved(x, Rebased(fields[j], by), by) <=> IsPart(x, fields[j])
  <2> TAKE j \in Redefiners(fields, i)
  <2>1. j \in DOMAIN fields
    BY DEF Redefiners
  <2>2. FieldOK(fields[j]) /\ Neat(fields[j])
    BY <2>1, WellNumbers
  <2> HIDE DEF by
  <2> QED
    BY <1>1, <2>2, RebasedParts
<1>7. ASSUME NEW x
      PROVE  x = mark \/ (\E g : Among(g, own) /\ PartMoved(x, g, by)) <=> x = mark \/ IsPart(x, base)
  <2>1. CASE IsUnion(base)
    <3> DEFINE fs == base.kind.fields
    <3>1. own = fs /\ IsGroup(base)
      BY <1>1, <2>1, OwnIs
    <3>2. \A g : Among(g, fs) => Neat(g)
      BY <1>1, <3>1, TidyIsNeat DEF Among, Neat
    <3>3. IsPart(x, base) <=> x = mark \/ \E y : IsPlace(y, fs) /\ x = MovedOne(y, by)
      BY <3>1 DEF IsPart, WidthIn
    <3> HIDE DEF fs, own, by, mark
    <3>4. \A y : IsPlace(y, fs) <=> \E g : Among(g, fs) /\ IsPart(y, g)
      BY <3>2, PartsOfAll
    <3>5. (\E y : IsPlace(y, fs) /\ x = MovedOne(y, by)) <=> \E g : Among(g, fs) /\ PartMoved(x, g, by)
      BY <3>4 DEF PartMoved
    <3> QED
      BY <3>1, <3>3, <3>5
  <2>2. CASE ~IsUnion(base)
    <3>1. \A g : Among(g, own) <=> g = Rebased(base, by)
      BY <1>1, <2>2, OwnIs
    <3>2. PartMoved(x, Rebased(base, by), by) <=> IsPart(x, base)
      BY <1>1, RebasedParts
    <3> HIDE DEF own, by, mark, base
    <3> QED
      BY <3>1, <3>2
  <2> QED
    BY <2>1, <2>2
<1>8. ASSUME NEW x
      PROVE  IsPart(x, u) <=> x = mark \/ \E g : Among(g, ms) /\ PartMoved(x, g, by)
  <2>1. IsPart(x, u) <=> x = mark \/ \E y : IsPlace(y, ms) /\ x = MovedOne(y, by)
    <3> HIDE DEF u, ms, by, base
    <3> QED
      BY <1>2 DEF IsPart, WidthIn
  <2> HIDE DEF u, ms, mark, by
  <2> QED
    BY <1>5, <2>1
<1>9. \A g : Among(g, ms) <=> Among(g, own) \/ \E j \in Redefiners(fields, i) : g = Rebased(fields[j], by)
  BY MembersAre
<1>10. ASSUME NEW x
       PROVE  IsPart(x, u) <=> x = mark \/ IsPart(x, base) \/ \E j \in Redefiners(fields, i) : IsPart(x, fields[j])
  <2> HIDE DEF u, ms, mark, by, own, base
  <2>1. (\E g : Among(g, ms) /\ PartMoved(x, g, by)) <=>
           \/ \E g : Among(g, own) /\ PartMoved(x, g, by)
           \/ \E j \in Redefiners(fields, i) : PartMoved(x, Rebased(fields[j], by), by)
    BY <1>9
  <2>2. (\E j \in Redefiners(fields, i) : PartMoved(x, Rebased(fields[j], by), by))
           <=> \E j \in Redefiners(fields, i) : IsPart(x, fields[j])
    BY <1>6
  <2> QED
    BY <1>7, <1>8, <2>1, <2>2
<1> QED
  BY <1>4, <1>10

(* Folding a list loses no place and adds none that holds bytes. *)
LEMMA FoldedPlaces ==
    ASSUME NEW fields, Well(fields)
    PROVE  /\ IsSequence(Folded(fields)) /\ Tidy(Folded(fields))
           /\ \A x : IsPlace(x, fields) => IsPlace(x, Folded(fields))
           /\ \A x : IsPlace(x, Folded(fields)) /\ x[3] > 0 => IsPlace(x, fields)
<1> DEFINE h == Folded(fields)
           K == Kept(fields)
<1>1. IsSequence(fields) /\ IsSequence(h)
      /\ \A g : Among(g, h) <=> \E i \in K : g = FoldedOne(fields, i)
  BY FoldedAre DEF Well
<1>2. K \subseteq DOMAIN fields
  BY DEF Kept
<1>3. ASSUME NEW i \in K PROVE Neat(FoldedOne(fields, i))
  BY <1>2, UnionParts, WellNumbers DEF FoldedOne, GroupOK
<1> HIDE DEF h
<1>4. \A g : Among(g, h) => Neat(g)
  BY <1>1, <1>3
<1>5. Tidy(h)
  <2>1. \A m \in DOMAIN h : Among(h[m], h)
    BY DEF Among
  <2> QED
    BY <1>4, <2>1, NeatIsTidy
<1>6. \A x : IsPlace(x, h) <=> \E g : Among(g, h) /\ IsPart(x, g)
  BY <1>4, PartsOfAll
<1>7. \A x : IsPlace(x, fields) <=> \E j \in DOMAIN fields : IsPart(x, fields[j])
  <2>1. \A m \in DOMAIN fields : Neat(fields[m])
    BY WellNumbers
  <2> QED
    BY <2>1, PlacesAreParts
<1>8. ASSUME NEW x, NEW j \in DOMAIN fields, IsPart(x, fields[j]) PROVE \E i \in K : IsPart(x, FoldedOne(fields, i))
  <2>1. CASE j \in K
    BY <1>8, <1>2, <2>1, UnionParts DEF FoldedOne
  <2>2. CASE j \notin K
    <3> DEFINE b == BaseOf(fields, j)
    <3>1. b \in K /\ j \in Redefiners(fields, b)
      BY <1>1, <2>2, BaseIs
    <3> HIDE DEF b
    <3>2. IsPart(x, Union(fields, b)) /\ FoldedOne(fields, b) = Union(fields, b)
      BY <1>8, <1>2, <3>1, UnionParts DEF FoldedOne
    <3> QED
      BY <3>1, <3>2
  <2> QED
    BY <2>1, <2>2
<1>9. ASSUME NEW x, x[3] > 0, NEW i \in K, IsPart(x, FoldedOne(fields, i)) PROVE \E j \in DOMAIN fields : IsPart(x, fields[j])
  <2>1. CASE Redefiners(fields, i) = {}
    BY <1>2, <1>9, <2>1 DEF FoldedOne
  <2>2. CASE Redefiners(fields, i) # {}
    <3>1. \/ x = <<fields[i].name, fields[i].offset, 0>>
          \/ IsPart(x, fields[i])
          \/ \E j \in Redefiners(fields, i) : IsPart(x, fields[j])
      BY <1>2, <1>9, <2>2, UnionParts DEF FoldedOne
    <3>2. x # <<fields[i].name, fields[i].offset, 0>>
      <4> SUFFICES ASSUME x = <<fields[i].name, fields[i].offset, 0>> PROVE FALSE
        OBVIOUS
      <4>1. x[3] = 0
        OBVIOUS
      <4> QED
        BY <1>9, <4>1
    <3> QED
      BY <1>2, <3>1, <3>2 DEF Redefiners
  <2> QED
    BY <2>1, <2>2
<1>10. \A x : IsPlace(x, fields) => IsPlace(x, h)
  BY <1>1, <1>6, <1>7, <1>8
<1>11. \A x : IsPlace(x, h) /\ x[3] > 0 => IsPlace(x, fields)
  BY <1>1, <1>6, <1>7, <1>9
<1> QED
  BY <1>1, <1>5, <1>10, <1>11 DEF h

(* Folding nests what it folds one group deeper. *)
LEMMA FoldedEnds ==
    ASSUME NEW fields, Well(fields), NEW c \in Nat, \A j \in DOMAIN fields : FieldEnds(fields[j], c)
    PROVE  Ends(Folded(fields), c + 2)
<1> DEFINE h == Folded(fields)
<1>1. IsSequence(fields) /\ IsSequence(h) /\ Tidy(h)
      /\ \A g : Among(g, h) <=> \E i \in Kept(fields) : g = FoldedOne(fields, i)
  BY FoldedAre, FoldedPlaces DEF Well
<1>2. ASSUME NEW j \in DOMAIN fields PROVE FieldEnds(fields[j], c + 1)
  <2>1. ASSUME IsGroup(fields[j]) PROVE Ends(fields[j].kind.fields, c + 1)
    <3> DEFINE fs == fields[j].kind.fields
    <3>1. Ends(fs, c)
      BY <2>1 DEF FieldEnds
    <3> HIDE DEF fs
    <3>2. Ends(fs, c + 1)
      BY <3>1, EndsDeeper
    <3> QED
      BY <3>2 DEF fs
  <2> QED
    BY <2>1 DEF FieldEnds
<1>3. ASSUME NEW i \in DOMAIN fields PROVE FieldEnds(Union(fields, i), c + 1)
  <2> DEFINE ms == Members(fields, i)
             base == fields[i]
  <2>1. FieldOK(base) /\ Neat(base) /\ FieldEnds(base, c) /\ FieldEnds(base, c + 1)
    BY <1>2, WellNumbers
  <2>2. ASSUME NEW g, Among(g, Own(base)) PROVE FieldEnds(g, c)
    <3>1. CASE IsUnion(base)
      <4> DEFINE fs == base.kind.fields
      <4>1. Among(g, fs) /\ Tidy(fs) /\ Ends(fs, c + 1)
        BY <2>1, <2>2, <3>1, OwnIs DEF Neat, FieldEnds
      <4> HIDE DEF fs
      <4>2. \A m \in DOMAIN fs : Neat(fs[m])
        BY <4>1, TidyIsNeat
      <4>3. \A m \in DOMAIN fs : FieldEnds(fs[m], c)
        BY <4>1, <4>2, EndsByFields
      <4> QED
        BY <4>1, <4>3 DEF Among
    <3>2. CASE ~IsUnion(base)
      <4>1. g = Rebased(base, base.offset)
        BY <2>1, <2>2, <3>2, OwnIs
      <4>2. g.kind = base.kind
        BY <2>1, <4>1, RebasedIs
      <4> QED
        BY <2>1, <4>2 DEF FieldEnds, IsGroup
    <3> QED
      BY <3>1, <3>2
  <2>3. ASSUME NEW j \in Redefiners(fields, i) PROVE FieldEnds(Rebased(fields[j], base.offset), c)
    <3>1. j \in DOMAIN fields
      BY DEF Redefiners
    <3>2. FieldOK(fields[j])
      BY <3>1, WellNumbers
    <3>3. Rebased(fields[j], base.offset).kind = fields[j].kind
      BY <3>2, RebasedIs
    <3> QED
      BY <3>1, <3>3 DEF FieldEnds, IsGroup
  <2>4. \A g : Among(g, ms) => Neat(g) /\ FieldEnds(g, c)
    BY <2>2, <2>3, MembersAre, MembersNeat
  <2> HIDE DEF ms
  <2>6. Ends(ms, c + 1)
    <3>1. \A m \in DOMAIN ms : Neat(ms[m]) /\ FieldEnds(ms[m], c)
      BY <2>4 DEF Among
    <3> QED
      BY <3>1, EndsByFields
  <2>7. Union(fields, i).kind.fields = ms
    BY <2>1, UnionIs DEF ms
  <2> QED
    BY <2>6, <2>7 DEF FieldEnds
<1>4. ASSUME NEW i \in Kept(fields) PROVE FieldEnds(FoldedOne(fields, i), c + 1)
  BY <1>2, <1>3 DEF FoldedOne, Kept
<1> HIDE DEF h
<1>5. \A m \in DOMAIN h : Neat(h[m]) /\ FieldEnds(h[m], c + 1)
  BY <1>1, <1>4, TidyIsNeat DEF Among
<1> DEFINE k == c + 1
<1>6. k \in Nat /\ \A m \in DOMAIN h : Neat(h[m]) /\ FieldEnds(h[m], k)
  BY <1>5
<1> HIDE DEF k
<1>7. Ends(h, k + 1)
  BY <1>6, EndsByFields
<1>8. k + 1 = c + 2
  BY DEF k
<1> QED
  BY <1>7, <1>8 DEF h

LEMMA FoldedNames ==
    ASSUME NEW fields, Well(fields), NEW m \in DOMAIN Folded(fields)
    PROVE  \E j \in DOMAIN fields : Folded(fields)[m].name = fields[j].name
<1> DEFINE g == Folded(fields)[m]
<1>1. Among(g, Folded(fields))
  BY DEF Among
<1> HIDE DEF g
<1>2. PICK i \in Kept(fields) : g = FoldedOne(fields, i)
  BY <1>1, FoldedAre DEF Well
<1>3. i \in DOMAIN fields /\ FieldOK(fields[i])
  BY WellNumbers DEF Kept
<1>4. g.name = fields[i].name
  BY <1>2, <1>3, UnionIs DEF FoldedOne
<1> QED
  BY <1>3, <1>4 DEF g

-----------------------------------------------------------------------------
(* The length of a record *)

LEMMA SameMax ==
    ASSUME NEW A, NEW B, Bounded(A), Bounded(B),
           \A a \in A : \E b \in B : a =< b,
           \A b \in B : \E a \in A : b =< a
    PROVE  Max({0} \cup A) = Max({0} \cup B)
<1> DEFINE m == Max({0} \cup A)
           n == Max({0} \cup B)
<1>1. m \in Nat /\ m \in {0} \cup A /\ \A k \in A : k \in Nat /\ k =< m
  BY MaxBounded
<1>2. n \in Nat /\ n \in {0} \cup B /\ \A k \in B : k \in Nat /\ k =< n
  BY MaxBounded
<1> HIDE DEF m, n
<1>3. m =< n
  <2>1. CASE m = 0
    BY <1>2, <2>1
  <2>2. CASE m # 0
    <3>1. PICK b \in B : m =< b
      BY <1>1, <2>2
    <3> QED
      BY <1>1, <1>2, <3>1
  <2> QED
    BY <2>1, <2>2
<1>4. n =< m
  <2>1. CASE n = 0
    BY <1>1, <2>1
  <2>2. CASE n # 0
    <3>1. PICK a \in A : n =< a
      BY <1>2, <2>2
    <3> QED
      BY <1>1, <1>2, <3>1
  <2> QED
    BY <2>1, <2>2
<1>5. m = n
  BY <1>1, <1>2, <1>3, <1>4
<1> QED
  BY <1>5 DEF m, n

EndOf(f) == f.offset + Reserved(f)
EndsOf(fields) == {EndOf(fields[m]) : m \in DOMAIN fields}

(* A field that redefines another stands where that does, each holds a     *)
(* place, and the other is not taken for a group made here before.         *)
Plain(fields, j) ==
    LET b == BaseOf(fields, j)
    IN  /\ fields[j].offset = fields[b].offset
        /\ fields[j].controller = NoName /\ fields[b].controller = NoName
        /\ ~IsUnion(fields[b])

LEMMA EndsBounded ==
    ASSUME NEW fields, IsSequence(fields), \A m \in DOMAIN fields : EndOf(fields[m]) \in Nat
    PROVE  Bounded(EndsOf(fields))
<1> DEFINE n == Len(fields)
           v == [m \in DOMAIN fields |-> EndOf(fields[m])]
           T == EndsOf(fields)
<1>1. n \in Nat /\ DOMAIN fields = 1 .. n
  BY SequenceIs
<1>2. DOMAIN fields \in SUBSET (1 .. n) /\ \A m \in DOMAIN fields : v[m] \in Nat
  BY <1>1
<1>3. Values(T, DOMAIN fields, v)
  BY DEF Values, EndsOf
<1> HIDE DEF v, T, n
<1>4. Bounded(T)
  BY <1>1, <1>2, <1>3, ValuesBounded
<1> QED
  BY <1>4 DEF T

(* The group made of a redefined field ends where the longest of those do. *)
LEMMA UnionEnd ==
    ASSUME NEW fields, Well(fields), NEW i \in DOMAIN fields, Redefiners(fields, i) # {},
           \A j \in Redefiners(fields, i) : Plain(fields, j)
    PROVE  LET S == {i} \cup Redefiners(fields, i)
               u == Union(fields, i)
           IN  /\ EndOf(u) \in Nat
               /\ \E j \in S : EndOf(u) = EndOf(fields[j])
               /\ \A j \in S : EndOf(fields[j]) =< EndOf(u)
<1> DEFINE base == fields[i]
           S == {i} \cup Redefiners(fields, i)
           u == Union(fields, i)
           ms == Members(fields, i)
           n == Len(ms)
           T == {TotalWidth(ms[m]) : m \in DOMAIN ms}
           v == [m \in DOMAIN ms |-> TotalWidth(ms[m])]
           w == Max(T)
<1>1. \A j \in Redefiners(fields, i) : j \in DOMAIN fields /\ BaseOf(fields, j) = i
  BY DEF Redefiners
<1>2. \A j \in S : /\ FieldOK(fields[j]) /\ fields[j].offset = base.offset
                   /\ fields[j].controller = NoName
  BY <1>1, WellNumbers DEF Plain
<1>3. ~IsUnion(base)
  BY <1>1 DEF Plain
<1>4. \A j \in S : TotalWidth(fields[j]) \in Nat /\ EndOf(fields[j]) = base.offset + TotalWidth(fields[j])
  BY <1>2, FieldSize DEF EndOf
<1>5. base.offset \in Nat
  BY <1>2 DEF FieldOK
<1>6. \A g : Among(g, ms) <=> \E j \in S : g = Rebased(fields[j], base.offset)
  <2>1. \A g : Among(g, Own(base)) <=> g = Rebased(fields[i], base.offset)
    BY <1>2, <1>3, OwnIs
  <2> QED
    BY <2>1, MembersAre
<1>7. \A j \in S : TotalWidth(Rebased(fields[j], base.offset)) = TotalWidth(fields[j])
  <2> TAKE j \in S
  <2> DEFINE g == Rebased(fields[j], base.offset)
  <2>1. g.width = fields[j].width /\ g.occurs = fields[j].occurs
    BY <1>2, RebasedIs
  <2> HIDE DEF g
  <2> QED
    BY <2>1 DEF TotalWidth, Times, g
<1>8. IsSequence(ms) /\ n \in Nat /\ DOMAIN ms = 1 .. n
  BY MembersAre, SequenceIs
<1>9. /\ u.offset = base.offset /\ u.width = w /\ u.occurs = Once /\ u.controller = NoName
  BY <1>2, UnionIs
<1> HIDE DEF ms, n, u, S, base
<1>10. \A t : t \in T <=> \E j \in S : t = TotalWidth(fields[j])
  <2>1. \A t : t \in T <=> \E g : Among(g, ms) /\ t = TotalWidth(g)
    BY DEF Among
  <2> HIDE DEF T
  <2> QED
    BY <1>6, <1>7, <2>1
<1>11. Bounded(T)
  <2>1. \A m \in DOMAIN ms : v[m] \in Nat
    <3> TAKE m \in DOMAIN ms
    <3>1. v[m] = TotalWidth(ms[m]) /\ v[m] \in T
      OBVIOUS
    <3> HIDE DEF v, T
    <3> QED
      BY <1>4, <1>10, <3>1
  <2>2. Values(T, DOMAIN ms, v)
    BY DEF Values
  <2>3. DOMAIN ms \in SUBSET (1 .. n)
    BY <1>8
  <2> HIDE DEF T, v
  <2> QED
    BY <1>8, <2>1, <2>2, <2>3, ValuesBounded
<1>12. T # {}
  <2>1. i \in S
    BY DEF S
  <2> HIDE DEF T
  <2> QED
    BY <1>10, <2>1
<1> HIDE DEF T
<1>13. w \in T /\ w \in Nat /\ \A t \in T : t \in Nat /\ t =< w
  BY <1>11, <1>12, MaxBounded
<1> HIDE DEF w
<1>14. TotalWidth(u) = w
  <2>1. Times(u) = 1
    BY <1>9 DEF Times
  <2> QED
    BY <1>9, <1>13, <2>1 DEF TotalWidth
<1>15. EndOf(u) = base.offset + w
  BY <1>9, <1>14 DEF EndOf, Reserved
<1>16. EndOf(u) \in Nat
  BY <1>5, <1>13, <1>15
<1>17. \E j \in S : EndOf(u) = EndOf(fields[j])
  <2>1. PICK j \in S : w = TotalWidth(fields[j])
    BY <1>10, <1>13
  <2> QED
    BY <1>4, <1>15, <2>1
<1>18. ASSUME NEW j \in S PROVE EndOf(fields[j]) =< EndOf(u)
  <2>1. TotalWidth(fields[j]) \in Nat /\ TotalWidth(fields[j]) =< w
    BY <1>4, <1>10, <1>13
  <2>2. EndOf(fields[j]) = base.offset + TotalWidth(fields[j])
    BY <1>4
  <2> QED
    BY <1>5, <1>13, <1>15, <2>1, <2>2
<1> QED
  BY <1>16, <1>17, <1>18 DEF u, S

LEMMA FoldedLength ==
    ASSUME NEW fields, Well(fields), \A j \in DOMAIN fields : j \notin Kept(fields) => Plain(fields, j)
    PROVE  Max({0} \cup EndsOf(Folded(fields))) = Max({0} \cup EndsOf(fields))
<1> DEFINE h == Folded(fields)
           A == EndsOf(h)
           B == EndsOf(fields)
<1>1. IsSequence(fields) /\ IsSequence(h)
      /\ \A g : Among(g, h) <=> \E i \in Kept(fields) : g = FoldedOne(fields, i)
  BY FoldedAre DEF Well
<1>2. \A j \in DOMAIN fields : EndOf(fields[j]) \in Nat
  <2> TAKE j \in DOMAIN fields
  <2>1. FieldOK(fields[j])
    BY WellNumbers
  <2>2. fields[j].offset \in Nat /\ Reserved(fields[j]) \in Nat
    BY <2>1, FieldSize DEF FieldOK
  <2> QED
    BY <2>2 DEF EndOf
<1>3. ASSUME NEW i \in Kept(fields)
      PROVE  LET S == {i} \cup Redefiners(fields, i)
                 x == FoldedOne(fields, i)
             IN  /\ EndOf(x) \in Nat
                 /\ \E j \in S : j \in DOMAIN fields /\ EndOf(x) = EndOf(fields[j])
                 /\ \A j \in S : EndOf(fields[j]) =< EndOf(x)
  <2>1. i \in DOMAIN fields /\ i # 0
    <3>1. DOMAIN fields = 1 .. Len(fields) /\ Len(fields) \in Nat
      BY <1>1, SequenceIs
    <3> QED
      BY <3>1 DEF Kept
  <2>2. CASE Redefiners(fields, i) = {}
    <3>1. FoldedOne(fields, i) = fields[i] /\ EndOf(fields[i]) \in Nat
      BY <1>2, <2>1, <2>2 DEF FoldedOne
    <3>2. EndOf(fields[i]) =< EndOf(fields[i])
      BY <3>1
    <3> QED
      BY <2>1, <2>2, <3>1, <3>2
  <2>3. CASE Redefiners(fields, i) # {}
    <3>1. \A j \in Redefiners(fields, i) : j \in DOMAIN fields /\ j \notin Kept(fields)
      BY <2>1 DEF Redefiners, Kept
    <3>2. \A j \in Redefiners(fields, i) : Plain(fields, j)
      BY <3>1
    <3>3. FoldedOne(fields, i) = Union(fields, i)
      BY <2>3 DEF FoldedOne
    <3> QED
      BY <2>1, <2>3, <3>1, <3>2, <3>3, UnionEnd
  <2> QED
    BY <2>2, <2>3
<1> HIDE DEF h
<1>4. \A m \in DOMAIN h : \E i \in Kept(fields) : h[m] = FoldedOne(fields, i)
  BY <1>1 DEF Among
<1>5. \A i \in Kept(fields) : \E m \in DOMAIN h : h[m] = FoldedOne(fields, i)
  BY <1>1 DEF Among
<1>6. Bounded(A) /\ Bounded(B)
  BY <1>1, <1>2, <1>3, <1>4, EndsBounded
<1>7. ASSUME NEW a \in A PROVE \E b \in B : a =< b
  <2>1. PICK m \in DOMAIN h : a = EndOf(h[m])
    BY DEF EndsOf
  <2>2. PICK i \in Kept(fields) : h[m] = FoldedOne(fields, i)
    BY <1>4
  <2>3. PICK j \in DOMAIN fields : a = EndOf(fields[j])
    BY <1>3, <2>1, <2>2
  <2>4. a \in B /\ a \in Nat
    BY <1>2, <2>3 DEF EndsOf
  <2>5. a =< a
    BY <2>4
  <2> QED
    BY <2>4, <2>5
<1>8. ASSUME NEW b \in B PROVE \E a \in A : b =< a
  <2>1. PICK j \in DOMAIN fields : b = EndOf(fields[j])
    BY DEF EndsOf
  <2>2. PICK i \in Kept(fields) : j \in {i} \cup Redefiners(fields, i)
    <3>1. CASE j \in Kept(fields)
      BY <3>1
    <3>2. CASE j \notin Kept(fields)
      BY <1>1, <3>2, BaseIs
    <3> QED
      BY <3>1, <3>2
  <2>3. b =< EndOf(FoldedOne(fields, i))
    BY <1>3, <2>1, <2>2
  <2>4. EndOf(FoldedOne(fields, i)) \in A
    BY <1>5 DEF EndsOf
  <2> QED
    BY <2>3, <2>4
<1> HIDE DEF A, B
<1>9. Max({0} \cup A) = Max({0} \cup B)
  BY <1>6, <1>7, <1>8, SameMax
<1> QED
  BY <1>9 DEF A, B, h

-----------------------------------------------------------------------------
(* A list and the items it was made of *)

(* The fields of a group hold the places of the items in it. *)
Holds(fields, g) ==
    /\ \A x \in PlacesIn[g] : IsPlace(x, fields)
    /\ \A x : IsPlace(x, fields) /\ x[3] > 0 => x \in PlacesIn[g]
    /\ \A m \in DOMAIN fields : \E j \in Children(g) : fields[m].name = items[j].name

Fits(kind, i, c) ==
    IF Children(i) = {} THEN kind.k # "group"
    ELSE /\ kind.k = "group"
         /\ IsSequence(kind.fields) /\ Tidy(kind.fields) /\ Ends(kind.fields, c)
         /\ Holds(kind.fields, i)

Stands(x, i, c) ==
    /\ x.name = items[i].name /\ x.occurs = items[i].occurs
    /\ x.controller = items[i].controller /\ x.redefines = items[i].redefines
    /\ x.width = Sizes[i] /\ x.offset = Start(i)
    /\ Fits(x.kind, i, c)

(* The a-th field is that of the item w[a].                                *)
Matched(f, w, c) ==
    /\ \A a \in DOMAIN f.fields : w[a] \in Gone(f) /\ Stands(f.fields[a], w[a], c)
    /\ \A a, b \in DOMAIN f.fields : a < b => w[a] < w[b]
    /\ \A j \in Gone(f) : \E a \in DOMAIN f.fields : w[a] = j

EndOfAll(S) == Max({0} \cup {End(j) : j \in S})
OwnGone(f)  == {j \in Gone(f) : items[j].redefines = NoName}

Filled(f, c) ==
    /\ \E w : Matched(f, w, c)
    /\ f.cursor = EndOfAll(OwnGone(f)) /\ f.end = EndOfAll(Gone(f))

LEMMA GoneAre ==
    ASSUME TreeInv, NEW f, Partway(f), NEW i \in f.rest, \A r \in f.rest : i =< r
    PROVE  /\ i \in DOMAIN items /\ i \in Children(f.group)
           /\ Gone(f) \subseteq DOMAIN items /\ OwnGone(f) \subseteq DOMAIN items
           /\ Target(i) = {j \in Gone(f) : items[j].name = items[i].redefines}
           /\ InPlace(i) = OwnGone(f)
           /\ \A j \in Gone(f) : j < i
<1>1. /\ i \in DOMAIN items /\ parents[i] = f.group /\ i \in Children(f.group)
      /\ \A j : j \in Children(f.group) <=> j \in DOMAIN items /\ parents[j] = f.group
  BY DEF Partway, Children
<1>2. DOMAIN items \subseteq Nat
  BY ItemNumbers
<1>3. \A j : j \in Gone(f) <=> j \in DOMAIN items /\ parents[j] = f.group /\ j < i
  <2> SUFFICES ASSUME NEW j \in Children(f.group) PROVE j \in Gone(f) <=> j < i
    BY <1>1 DEF Gone
  <2>1. j \in Nat /\ i \in Nat
    BY <1>1, <1>2
  <2>2. j \in f.rest => i =< j
    OBVIOUS
  <2>3. j \notin f.rest => j < i
    BY DEF Partway, Gone
  <2> QED
    BY <2>1, <2>2, <2>3 DEF Gone
<1>4. Target(i) = {j \in Gone(f) : items[j].name = items[i].redefines}
  BY <1>1, <1>3 DEF Target, Siblings
<1>5. InPlace(i) = OwnGone(f)
  BY <1>1, <1>3 DEF InPlace, Siblings, OwnGone
<1> QED
  BY <1>1, <1>3, <1>4, <1>5 DEF OwnGone

LEMMA EndsMore ==
    ASSUME TreeInv, NEW S \in SUBSET DOMAIN items, NEW i \in DOMAIN items
    PROVE  /\ EndOfAll(S) \in Nat
           /\ EndOfAll(S \cup {i}) = Max({EndOfAll(S), End(i)})
           /\ S # {} => EndOfAll(S) = Max({End(j) : j \in S})
<1> DEFINE T == {End(j) : j \in S}
           v == [j \in S |-> End(j)]
           n == Len(items)
<1>1. n \in Nat /\ S \in SUBSET (1 .. n)
  BY ItemNumbers
<1>2. End(i) \in Nat /\ \A j \in S : v[j] \in Nat
  BY SizeType
<1>3. Values(T, S, v)
  BY DEF Values
<1>4. EndOfAll(S) = Max({0} \cup T)
  BY DEF EndOfAll
<1>5. {End(j) : j \in S \cup {i}} = T \cup {End(i)}
  OBVIOUS
<1>6. EndOfAll(S \cup {i}) = Max({0} \cup (T \cup {End(i)}))
  BY <1>5 DEF EndOfAll
<1>7. S # {} => T # {}
  OBVIOUS
<1> HIDE DEF T, v, n
<1>8. Bounded(T)
  BY <1>1, <1>2, <1>3, ValuesBounded
<1>9. Max({0} \cup T) \in Nat /\ (S # {} => Max(T) = Max({0} \cup T))
  BY <1>7, <1>8, MaxBounded
<1>10. Max({0} \cup (T \cup {End(i)})) = Max({Max({0} \cup T), End(i)})
  BY <1>2, <1>8, MaxGrows
<1> QED
  BY <1>4, <1>6, <1>9, <1>10 DEF T

(* Where an item starts that redefines nothing. *)
LEMMA StartInPlace ==
    ASSUME TreeInv, NEW i \in DOMAIN items, items[i].redefines = NoName,
           NEW kind, NEW c, Fits(kind, i, c), Children(i) = {} => kind = KindOf(items[i])
    PROVE  Start(i) = Aligned(EndOfAll(InPlace(i)), items[i], kind, Sizes[i])
<1> DEFINE size == Sizes
           start == Starts(Sizes)
           kind0 == IF Children(i) = {} THEN KindOf(items[i]) ELSE [k |-> "group"]
           e == EndOfAll(InPlace(i))
<1>1. \A j \in DOMAIN items : size[j] \in Nat /\ start[j] \in Nat
  BY SizeType DEF Start
<1>2. EndBefore(start, size, i) = e
  BY DEF EndBefore, EndOfAll, End, Start
<1>3. Start(i) = StartOf(size, start, i)
  BY StartsAre DEF Start
<1> HIDE DEF size, start, e
<1>4. StartOf(size, start, i) = Aligned(EndBefore(start, size, i), items[i], kind0, WidthOf(items[i]))
  BY <1>1, StartOfIs DEF Siblings
<1>5. Aligned(e, items[i], kind0, WidthOf(items[i])) = Aligned(e, items[i], kind, Sizes[i])
  <2>1. CASE Children(i) = {}
    <3>1. Sizes[i] = WidthOf(items[i])
      BY <2>1, SizesAre DEF SizeOf
    <3> QED
      BY <2>1, <3>1
  <2>2. CASE Children(i) # {}
    <3>1. kind0.k = "group" /\ kind.k = "group"
      BY <2>2 DEF Fits
    <3> HIDE DEF kind0
    <3> QED
      BY <3>1 DEF Aligned
  <2> QED
    BY <2>1, <2>2
<1> QED
  BY <1>2, <1>3, <1>4, <1>5 DEF e

(* Where one does that redefines an earlier sibling: where that one does,  *)
(* which is the last field of the name it gives.                           *)
LEMMA StartOfTarget ==
    ASSUME TreeInv, NEW i \in DOMAIN items, items[i].redefines # NoName, Target(i) # {}
    PROVE  Start(i) = Start(Max(Target(i)))
<1> DEFINE size == Sizes
           start == Starts(Sizes)
<1>1. \A j \in DOMAIN items : size[j] \in Nat /\ start[j] \in Nat
  BY SizeType DEF Start
<1>2. Start(i) = StartOf(size, start, i) /\ Start(Max(Target(i))) = start[Max(Target(i))]
  BY StartsAre DEF Start
<1> HIDE DEF size, start
<1>3. StartOf(size, start, i) = start[Max(Target(i))]
  BY <1>1, StartOfIs DEF Siblings
<1> QED
  BY <1>2, <1>3

LEMMA StartRedefined ==
    ASSUME TreeInv, NEW f, FrameOK(f), Partway(f), NEW i \in f.rest, \A r \in f.rest : i =< r,
           NEW w, NEW c, Matched(f, w, c), items[i].redefines # NoName, Target(i) # {}
    PROVE  Start(i) = OffsetOf(f.fields, items[i].redefines)
<1> DEFINE r == items[i].redefines
           n == Len(f.fields)
           A == {a \in DOMAIN f.fields : f.fields[a].name = r}
           T == Target(i)
           m == Max(A)
<1>1. i \in DOMAIN items /\ Gone(f) \subseteq DOMAIN items /\ T = {j \in Gone(f) : items[j].name = r}
  BY GoneAre
<1>2. n \in Nat /\ DOMAIN f.fields = 1 .. n
  BY SequenceIs DEF FrameOK, FieldsOK
<1>3. \A a \in DOMAIN f.fields : w[a] \in Gone(f) /\ f.fields[a].name = items[w[a]].name
                                 /\ f.fields[a].offset = Start(w[a])
  BY DEF Matched, Stands
<1>4. \A j \in T : \E a \in A : w[a] = j
  BY <1>1, <1>3 DEF Matched
<1>5. OffsetOf(f.fields, r) = f.fields[m].offset
  BY DEF OffsetOf
<1>6. A \in SUBSET (0 .. n) /\ A # {}
  BY <1>2, <1>4
<1>7. \A a \in A : a \in DOMAIN f.fields /\ w[a] \in T
  BY <1>1, <1>3
<1> HIDE DEF A, n, T
<1>8. m \in A /\ \A a \in A : a =< m
  BY <1>2, <1>6, MaxOf
<1> HIDE DEF m
<1>9. w[m] \in T /\ \A j \in T : j =< w[m]
  <2>1. w[m] \in T /\ w[m] \in Nat
    BY <1>1, <1>7, <1>8, ItemNumbers
  <2>2. ASSUME NEW j \in T PROVE j =< w[m]
    <3>1. PICK a \in A : w[a] = j
      BY <1>4
    <3>2. a =< m /\ a \in DOMAIN f.fields /\ m \in DOMAIN f.fields /\ a \in Nat /\ m \in Nat
      BY <1>2, <1>7, <1>8
    <3>3. CASE a = m
      BY <2>1, <3>1, <3>3
    <3>4. CASE a < m
      <4>1. w[a] < w[m]
        BY <3>2, <3>4 DEF Matched
      <4>2. w[a] \in Nat
        BY <1>1, <1>7, ItemNumbers
      <4> QED
        BY <2>1, <3>1, <4>1, <4>2
    <3> QED
      BY <3>2, <3>3, <3>4
  <2> QED
    BY <2>1, <2>2
<1>10. T \in SUBSET Int
  BY <1>1, ItemNumbers
<1> DEFINE x == w[m]
<1>11. x \in T /\ \A j \in T : j =< x
  BY <1>9
<1> HIDE DEF x
<1>12. Max(T) = x
  BY <1>10, <1>11, MaxIs
<1>13. Start(i) = Start(Max(T))
  BY <1>1, StartOfTarget DEF T
<1> QED
  BY <1>3, <1>5, <1>7, <1>8, <1>12, <1>13 DEF x

NewField(f, i, kind, width) ==
    [name |-> items[i].name, width |-> width, kind |-> kind, occurs |-> items[i].occurs,
     controller |-> items[i].controller, redefines |-> items[i].redefines,
     offset |-> IF items[i].redefines = NoName THEN Aligned(f.cursor, items[i], kind, width)
                ELSE OffsetOf(f.fields, items[i].redefines)]

(* The list after it: where it stands and where it ends.                   *)
PlacedAs(g, f, i, x) ==
    /\ g.group = f.group /\ g.rest = f.rest \ {i}
    /\ g.fields = Append(f.fields, x)
    /\ g.cursor = IF items[i].redefines = NoName THEN EndOf(x) ELSE f.cursor
    /\ g.end = Max({f.end, EndOf(x)})

LEMMA PlacedIs ==
    ASSUME NEW f, FrameOK(f), NEW i, NEW kind, NEW width
    PROVE  PlacedAs(Placed(f, i, kind, width), f, i, NewField(f, i, kind, width))
<1> DEFINE g == Placed(f, i, kind, width)
           x == NewField(f, i, kind, width)
           cursor == Aligned(f.cursor, items[i], kind, width)
           fields == Append(f.fields, x)
           newCursor == IF items[i].redefines = NoName THEN EndOf(x) ELSE cursor
           newEnd == Max({f.end, EndOf(x)})
<1>1. g = [f EXCEPT !.rest = @ \ {i}, !.fields = fields, !.cursor = newCursor, !.end = newEnd]
  BY DEF Placed, NewField, EndOf
<1> HIDE DEF g, fields, newCursor, newEnd
<1>2. /\ g.group = f.group /\ g.rest = f.rest \ {i} /\ g.fields = fields
      /\ g.cursor = newCursor /\ g.end = newEnd
  BY <1>1 DEF FrameOK
<1>3. items[i].redefines # NoName => cursor = f.cursor
  BY DEF Aligned
<1> QED
  BY <1>2, <1>3 DEF PlacedAs, g, fields, newCursor, newEnd

(* The new field has the place of its item. *)
LEMMA NewFieldStands ==
    ASSUME TreeInv, NEW f, FrameOK(f), Partway(f), NEW i \in f.rest, \A r \in f.rest : i =< r,
           NEW c, Filled(f, c), TargetKnown(f, i),
           NEW kind, Fits(kind, i, c), Children(i) = {} => kind = KindOf(items[i])
    PROVE  LET x == NewField(f, i, kind, Sizes[i])
           IN  Stands(x, i, c) /\ EndOf(x) = End(i)
<1> DEFINE x == NewField(f, i, kind, Sizes[i])
<1>1. i \in DOMAIN items /\ InPlace(i) = OwnGone(f)
  BY GoneAre
<1>2. /\ x.name = items[i].name /\ x.occurs = items[i].occurs
      /\ x.controller = items[i].controller /\ x.redefines = items[i].redefines
      /\ x.width = Sizes[i] /\ x.kind = kind
      /\ x.offset = IF items[i].redefines = NoName THEN Aligned(f.cursor, items[i], kind, Sizes[i])
                    ELSE OffsetOf(f.fields, items[i].redefines)
  BY DEF NewField
<1> HIDE DEF x
<1>3. x.offset = Start(i)
  <2>1. CASE items[i].redefines = NoName
    <3>1. Start(i) = Aligned(EndOfAll(InPlace(i)), items[i], kind, Sizes[i])
      BY <1>1, <2>1, StartInPlace
    <3>2. f.cursor = EndOfAll(InPlace(i))
      BY <1>1 DEF Filled
    <3> QED
      BY <1>2, <2>1, <3>1, <3>2
  <2>2. CASE items[i].redefines # NoName
    <3>1. Target(i) # {}
      BY <2>2, TargetIs
    <3>2. PICK w : Matched(f, w, c)
      BY DEF Filled
    <3>3. Start(i) = OffsetOf(f.fields, items[i].redefines)
      BY <2>2, <3>1, <3>2, StartRedefined
    <3> QED
      BY <1>2, <2>2, <3>3
  <2> QED
    BY <2>1, <2>2
<1>4. Stands(x, i, c)
  BY <1>2, <1>3 DEF Stands
<1>5. EndOf(x) = End(i)
  <2>1. Times(x) = Times(items[i])
    BY <1>2 DEF Times
  <2>2. Reserved(x) = IF items[i].controller # NoName THEN 0 ELSE Sizes[i] * Times(items[i])
    BY <1>2, <2>1 DEF Reserved, TotalWidth
  <2> QED
    BY <1>3, <2>2 DEF EndOf, End, EndFrom
<1> QED
  BY <1>4, <1>5 DEF x

(* One more item in its place. *)
LEMMA FilledPlaced ==
    ASSUME TreeInv, NEW f, FrameOK(f), Partway(f), NEW i \in f.rest, \A r \in f.rest : i =< r,
           NEW c, Filled(f, c), TargetKnown(f, i),
           NEW kind, Fits(kind, i, c), Children(i) = {} => kind = KindOf(items[i])
    PROVE  Filled(Placed(f, i, kind, Sizes[i]), c)
<1> DEFINE g == Placed(f, i, kind, Sizes[i])
           x == NewField(f, i, kind, Sizes[i])
           n == Len(f.fields)
<1>1. Stands(x, i, c) /\ EndOf(x) = End(i)
  BY NewFieldStands
<1>2. /\ g.group = f.group /\ g.rest = f.rest \ {i}
      /\ g.fields = Append(f.fields, x)
      /\ g.cursor = IF items[i].redefines = NoName THEN EndOf(x)
                    ELSE f.cursor
      /\ g.end = Max({f.end, EndOf(x)})
  <2>1. PlacedAs(g, f, i, x)
    BY PlacedIs
  <2> HIDE DEF g, x
  <2> QED
    BY <2>1 DEF PlacedAs
<1>3. /\ i \in DOMAIN items /\ i \in Children(f.group)
      /\ Gone(f) \subseteq DOMAIN items /\ OwnGone(f) \subseteq DOMAIN items
      /\ InPlace(i) = OwnGone(f) /\ \A j \in Gone(f) : j < i
  BY GoneAre
<1>4. IsSequence(f.fields) /\ n \in Nat /\ DOMAIN f.fields = 1 .. n
  BY SequenceIs DEF FrameOK, FieldsOK
<1>5. f.cursor = EndOfAll(OwnGone(f)) /\ f.end = EndOfAll(Gone(f)) /\ f.cursor \in Nat /\ f.end \in Nat
  BY DEF Filled, FrameOK
<1>6. PICK w : Matched(f, w, c)
  BY DEF Filled
<1> HIDE DEF g, x, n
<1>7. DOMAIN g.fields = 1 .. n + 1 /\ (\A a \in 1 .. n : g.fields[a] = f.fields[a]) /\ g.fields[n + 1] = x
  BY <1>2, <1>4, Longer DEF n
<1>8. Gone(g) = Gone(f) \cup {i}
  BY <1>2, <1>3 DEF Gone
<1>9. OwnGone(g) = IF items[i].redefines = NoName THEN OwnGone(f) \cup {i} ELSE OwnGone(f)
  BY <1>8 DEF OwnGone
<1> DEFINE v == [a \in 1 .. n + 1 |-> IF a = n + 1 THEN i ELSE w[a]]
<1>10. Matched(g, v, c)
  <2>1. v[n + 1] = i /\ \A a \in 1 .. n : v[a] = w[a]
    BY <1>4
  <2> HIDE DEF v
  <2>2. \A a \in 1 .. n : w[a] \in Gone(f) /\ Stands(f.fields[a], w[a], c)
    BY <1>4, <1>6 DEF Matched
  <2>3. ASSUME NEW a \in 1 .. n + 1 PROVE v[a] \in Gone(g) /\ Stands(g.fields[a], v[a], c)
    <3>1. CASE a = n + 1
      BY <1>1, <1>7, <1>8, <2>1, <3>1
    <3>2. CASE a \in 1 .. n
      BY <1>7, <1>8, <2>1, <2>2, <3>2
    <3> QED
      BY <1>4, <3>1, <3>2
  <2>4. ASSUME NEW a \in 1 .. n + 1, NEW b \in 1 .. n + 1, a < b PROVE v[a] < v[b]
    <3>1. a \in 1 .. n
      BY <1>4, <2>4
    <3>2. CASE b = n + 1
      <4>1. w[a] < i
        BY <1>3, <2>2, <3>1
      <4> QED
        BY <2>1, <3>1, <3>2, <4>1
    <3>3. CASE b \in 1 .. n
      <4>1. w[a] < w[b]
        BY <1>4, <1>6, <2>4, <3>1, <3>3 DEF Matched
      <4> QED
        BY <2>1, <3>1, <3>3, <4>1
    <3> QED
      BY <1>4, <3>2, <3>3
  <2>5. ASSUME NEW j \in Gone(g) PROVE \E a \in 1 .. n + 1 : v[a] = j
    <3>1. CASE j = i
      <4>1. n + 1 \in 1 .. n + 1
        BY <1>4
      <4> QED
        BY <2>1, <3>1, <4>1
    <3>2. CASE j \in Gone(f)
      <4>1. PICK a \in 1 .. n : w[a] = j
        BY <1>4, <1>6, <3>2 DEF Matched
      <4>2. a \in 1 .. n + 1
        BY <1>4
      <4> QED
        BY <2>1, <4>1, <4>2
    <3> QED
      BY <1>8, <3>1, <3>2
  <2> QED
    BY <1>7, <2>3, <2>4, <2>5 DEF Matched
<1> HIDE DEF v
<1>11. g.end = EndOfAll(Gone(g))
  BY <1>1, <1>2, <1>3, <1>5, <1>8, EndsMore
<1>12. g.cursor = EndOfAll(OwnGone(g))
  <2>1. CASE items[i].redefines = NoName
    <3> DEFINE e == End(i)
               m == EndOfAll(OwnGone(f))
    <3>1. EndOfAll(OwnGone(g)) = Max({m, e}) /\ m \in Nat
      BY <1>3, <1>9, <2>1, EndsMore
    <3>2. m =< Start(i)
      <4> DEFINE width == Sizes[i]
      <4>1. Start(i) = Aligned(m, items[i], kind, width)
        BY <1>3, <2>1, StartInPlace
      <4>2. kind.k = "binary" => width \in {2, 4, 8}
        <5>1. CASE Children(i) = {}
          <6>1. width = WidthOf(items[i]) /\ kind = KindOf(items[i])
            BY <1>3, <5>1, SizesAre DEF SizeOf
          <6> QED
            BY <1>3, <6>1, ItemWidth
        <5>2. CASE Children(i) # {}
          BY <5>2 DEF Fits
        <5> QED
          BY <5>1, <5>2
      <4>3. width \in Nat
        BY <1>3, SizeType
      <4> HIDE DEF width, m
      <4>4. Aligned(m, items[i], kind, width) >= m /\ Aligned(m, items[i], kind, width) \in Nat
        BY <3>1, <4>2, <4>3, AlignedOn
      <4> QED
        BY <3>1, <4>1, <4>4
    <3>3. Start(i) \in Nat /\ e \in Nat /\ e >= Start(i)
      BY <1>3, SizeType
    <3> HIDE DEF e, m
    <3>4. Max({m, e}) = e
      <4>1. m =< e
        BY <3>1, <3>2, <3>3
      <4> QED
        BY <3>1, <3>3, <4>1, MaxIs
    <3>5. g.cursor = e
      BY <1>1, <1>2, <2>1 DEF e
    <3> QED
      BY <3>1, <3>4, <3>5
  <2>2. CASE items[i].redefines # NoName
    <3>1. g.cursor = f.cursor
      BY <1>2, <2>2
    <3> QED
      BY <1>5, <1>9, <2>2, <3>1
  <2> QED
    BY <2>1, <2>2
<1> QED
  BY <1>10, <1>11, <1>12 DEF Filled, g

LEMMA ListWell ==
    ASSUME NEW f, FrameOK(f), NEW w, NEW c, Matched(f, w, c)
    PROVE  /\ Well(f.fields)
           /\ \A a \in DOMAIN f.fields : FieldEnds(f.fields[a], c)
<1>1. IsSequence(f.fields) /\ \A a \in DOMAIN f.fields : FieldOK(f.fields[a])
  BY DEF FrameOK, FieldsOK
<1>2. ASSUME NEW a \in DOMAIN f.fields PROVE GroupOK(f.fields[a]) /\ FieldEnds(f.fields[a], c)
  <2> DEFINE x == f.fields[a]
             i == w[a]
  <2>1. x.offset \in Int
    BY <1>1 DEF FieldOK
  <2>2. Fits(x.kind, i, c)
    BY DEF Matched, Stands
  <2> HIDE DEF x, i
  <2>3. IsGroup(x) => IsSequence(x.kind.fields) /\ Tidy(x.kind.fields) /\ Ends(x.kind.fields, c)
    BY <2>2 DEF Fits, IsGroup
  <2>4. GroupOK(x) /\ FieldEnds(x, c)
    BY <2>1, <2>3 DEF GroupOK, Neat, FieldEnds
  <2> QED
    BY <2>4 DEF x
<1> QED
  BY <1>1, <1>2 DEF Well

(* An item's own place and the places in it are those of its field. *)
LEMMA ItemParts ==
    ASSUME TreeInv, NEW i \in DOMAIN items, NEW x, NEW c, Stands(x, i, c)
    PROVE  /\ \A p \in ItemPlaces(PlacesIn, i) : IsPart(p, x)
           /\ \A p : IsPart(p, x) /\ p[3] > 0 => p \in ItemPlaces(PlacesIn, i)
<1> DEFINE s == Start(i)
           own == <<items[i].name, s, IF Children(i) = {} THEN Sizes[i] ELSE 0>>
<1>1. x.name = items[i].name /\ x.width = Sizes[i] /\ x.offset = s /\ Fits(x.kind, i, c)
  BY DEF Stands
<1>2. IsGroup(x) <=> Children(i) # {}
  BY <1>1 DEF Fits, IsGroup
<1>3. own = <<x.name, x.offset, WidthIn(x)>>
  BY <1>1, <1>2 DEF WidthIn
<1>4. ASSUME Children(i) = {} PROVE PlacesIn[i] = {}
  <2>1. i \in 0 .. Len(items)
    BY ItemNumbers
  <2>2. PlacesIn[i] = Within(PlacesIn, i)
    BY <2>1, PlacesInAre
  <2>3. Within(PlacesIn, i) = {}
    BY <1>4 DEF Within
  <2> QED
    BY <2>2, <2>3
<1>5. Children(i) # {} => Holds(x.kind.fields, i)
  BY <1>1 DEF Fits
<1> HIDE DEF own, s
<1>6. \A p : p \in ItemPlaces(PlacesIn, i) <=> p = own \/ \E y \in PlacesIn[i] : p = MovedOne(y, s)
  BY DEF ItemPlaces, Moved, MovedOne, own, s
<1>7. ASSUME NEW p \in ItemPlaces(PlacesIn, i) PROVE IsPart(p, x)
  <2>1. CASE p = own
    BY <1>3, <2>1 DEF IsPart
  <2>2. CASE \E y \in PlacesIn[i] : p = MovedOne(y, s)
    <3>1. PICK y \in PlacesIn[i] : p = MovedOne(y, s)
      BY <2>2
    <3>2. Children(i) # {} /\ IsGroup(x)
      BY <1>2, <1>4
    <3>3. IsPlace(y, x.kind.fields)
      BY <1>5, <3>2 DEF Holds
    <3> QED
      BY <1>1, <3>1, <3>2, <3>3 DEF IsPart
  <2> QED
    BY <1>6, <2>1, <2>2
<1>8. ASSUME NEW p, IsPart(p, x), p[3] > 0 PROVE p \in ItemPlaces(PlacesIn, i)
  <2>1. CASE p = <<x.name, x.offset, WidthIn(x)>>
    BY <1>3, <1>6, <2>1
  <2>2. CASE IsGroup(x) /\ \E y : IsPlace(y, x.kind.fields) /\ p = MovedOne(y, x.offset)
    <3>1. PICK y : IsPlace(y, x.kind.fields) /\ p = MovedOne(y, s)
      BY <1>1, <2>2
    <3>2. y[3] > 0
      BY <1>8, <3>1 DEF MovedOne
    <3>3. y \in PlacesIn[i]
      BY <1>2, <1>5, <2>2, <3>1, <3>2 DEF Holds
    <3> QED
      BY <1>6, <3>1, <3>3
  <2> QED
    BY <1>8, <2>1, <2>2 DEF IsPart
<1> QED
  BY <1>7, <1>8

(* A list that is done holds the places of its items. *)
LEMMA ListHolds ==
    ASSUME TreeInv, NEW f, FrameOK(f), NEW w, NEW c, Matched(f, w, c), f.rest = {}
    PROVE  Holds(f.fields, f.group)
<1> DEFINE g == f.group
           fs == f.fields
<1>1. Gone(f) = Children(g) /\ g \in 0 .. Len(items)
  BY ItemNumbers DEF Gone, FrameOK
<1>2. Children(g) \subseteq DOMAIN items
  BY DEF Children
<1>3. /\ \A a \in DOMAIN fs : w[a] \in Children(g) /\ Stands(fs[a], w[a], c)
      /\ \A j \in Children(g) : \E a \in DOMAIN fs : w[a] = j
  BY <1>1 DEF Matched
<1>4. \A m \in DOMAIN fs : Neat(fs[m])
  BY ListWell, WellNumbers
<1> HIDE DEF g, fs
<1>5. \A x : IsPlace(x, fs) <=> \E m \in DOMAIN fs : IsPart(x, fs[m])
  BY <1>4, PlacesAreParts
<1>6. \A x : x \in PlacesIn[g] <=> \E j \in Children(g) : x \in ItemPlaces(PlacesIn, j)
  <2>1. PlacesIn[g] = Within(PlacesIn, g)
    BY <1>1, PlacesInAre
  <2> QED
    BY <2>1 DEF Within
<1>7. ASSUME NEW x \in PlacesIn[g] PROVE IsPlace(x, fs)
  <2>1. PICK j \in Children(g) : x \in ItemPlaces(PlacesIn, j)
    BY <1>6
  <2>2. PICK a \in DOMAIN fs : w[a] = j
    BY <1>3
  <2>3. Stands(fs[a], j, c)
    BY <1>3, <2>2
  <2>4. IsPart(x, fs[a])
    BY <1>2, <2>1, <2>3, ItemParts
  <2> QED
    BY <1>5, <2>4
<1>8. ASSUME NEW x, IsPlace(x, fs), x[3] > 0 PROVE x \in PlacesIn[g]
  <2>1. PICK a \in DOMAIN fs : IsPart(x, fs[a])
    BY <1>5, <1>8
  <2>2. w[a] \in Children(g) /\ Stands(fs[a], w[a], c)
    BY <1>3
  <2>3. x \in ItemPlaces(PlacesIn, w[a])
    BY <1>2, <1>8, <2>1, <2>2, ItemParts
  <2> QED
    BY <1>6, <2>2, <2>3
<1>9. \A m \in DOMAIN fs : \E j \in Children(g) : fs[m].name = items[j].name
  BY <1>3 DEF Stands
<1> QED
  BY <1>7, <1>8, <1>9 DEF Holds, g, fs

LEMMA FoldedHolds ==
    ASSUME NEW fields, Well(fields), NEW g, Holds(fields, g)
    PROVE  Holds(Folded(fields), g)
<1>1. \A x \in PlacesIn[g] : IsPlace(x, Folded(fields))
  BY FoldedPlaces DEF Holds
<1>2. \A x : IsPlace(x, Folded(fields)) /\ x[3] > 0 => x \in PlacesIn[g]
  BY FoldedPlaces DEF Holds
<1>3. \A m \in DOMAIN Folded(fields) : \E j \in Children(g) : Folded(fields)[m].name = items[j].name
  <2> TAKE m \in DOMAIN Folded(fields)
  <2>1. PICK k \in DOMAIN fields : Folded(fields)[m].name = fields[k].name
    BY FoldedNames
  <2> QED
    BY <2>1 DEF Holds
<1> QED
  BY <1>1, <1>2, <1>3 DEF Holds

(* A group whose list is done can be placed in the list outside. *)
LEMMA GroupFits ==
    ASSUME TreeInv, NEW f, FrameOK(f), NEW c \in Nat, Filled(f, c), f.rest = {}, Children(f.group) # {},
           f.group \in DOMAIN items
    PROVE  /\ Fits([k |-> "group", fields |-> Folded(f.fields)], f.group, c + 2)
           /\ f.end = Sizes[f.group]
<1> DEFINE g == f.group
           fs == f.fields
           h == Folded(fs)
           kind == [k |-> "group", fields |-> h]
<1>1. PICK w : Matched(f, w, c)
  BY DEF Filled
<1>2. Well(fs) /\ (\A a \in DOMAIN fs : FieldEnds(fs[a], c)) /\ Holds(fs, g)
  BY <1>1, ListWell, ListHolds
<1>3. IsSequence(h) /\ Tidy(h) /\ Holds(h, g) /\ Ends(h, c + 2)
  BY <1>2, FoldedPlaces, FoldedHolds, FoldedEnds
<1>4. kind.k = "group" /\ kind.fields = h
  OBVIOUS
<1> HIDE DEF kind, h
<1>5. Fits(kind, g, c + 2)
  BY <1>3, <1>4 DEF Fits
<1>6. Gone(f) = Children(g)
  BY DEF Gone
<1>7. f.end = Max({End(j) : j \in Children(g)})
  <2>1. Children(g) \in SUBSET DOMAIN items
    BY DEF Children
  <2> HIDE DEF g
  <2>2. f.end = EndOfAll(Children(g))
    BY <1>6 DEF Filled
  <2> QED
    BY <2>1, <2>2, EndsMore DEF g
<1>8. Sizes[g] = SizeOf(Sizes, g)
  BY SizesAre
<1>9. SizeOf(Sizes, g) = Max({End(j) : j \in Children(g)})
  BY DEF SizeOf, End, Start
<1> QED
  BY <1>5, <1>7, <1>8, <1>9 DEF kind, h

-----------------------------------------------------------------------------
(* The record *)

TargetsTold == \A i \in Children(Top) : items[i].redefines # NoName => RedefinesOne(i)

(* What the layout of a text is to be: the places of its items, no deeper   *)
(* than twice as deep as they are nested, and as long as they need.        *)
Right(fields) ==
    /\ Holds(fields, Top)
    /\ Ends(fields, MaxLevel + 1)
    /\ TargetsTold => Max({0} \cup EndsOf(fields)) = EndOfAll(Children(Top))

LEMMA LevelsRight ==
    ASSUME NEW fields, Ends(fields, MaxLevel + 1), NEW x
    PROVE  IsPlace(x, fields) <=> \E n \in 0 .. MaxLevel : \E p \in Levels(fields)[n] : x = Mark(p)
<1>1. MaxLevel \in Nat /\ MaxLevel + 1 \in Nat
  BY DepthAssumption DEF MaxLevel
<1>2. ASSUME NEW n \in Nat, NEW p \in Levels(fields)[n] PROVE n \in 0 .. MaxLevel
  <2>1. n >= MaxLevel + 1 => Ends(fields, n)
    BY <1>1, EndsDeeper
  <2>2. ~Ends(fields, n)
    BY DEF Ends
  <2> QED
    BY <1>1, <2>1, <2>2
<1> QED
  BY <1>1, <1>2 DEF IsPlace

LEMMA RightIs == phase = "done" /\ Right(layout) => PlacesRight
<1> SUFFICES ASSUME Right(layout) PROVE PlacesRight
  BY DEF PlacesRight
<1>1. \A x : x \in LayoutPlaces <=> IsPlace(x, layout)
  <2> TAKE x
  <2>1. x \in LayoutPlaces <=> \E p \in UNION {Levels(layout)[n] : n \in 0 .. MaxLevel} : x = Mark(p)
    BY DEF LayoutPlaces, Mark, WidthIn
  <2>2. IsPlace(x, layout) <=> \E n \in 0 .. MaxLevel : \E p \in Levels(layout)[n] : x = Mark(p)
    BY LevelsRight DEF Right
  <2> QED
    BY <2>1, <2>2
<1>2. PlacesIn[Top] \subseteq LayoutPlaces /\ {p \in LayoutPlaces : p[3] > 0} \subseteq PlacesIn[Top]
  BY <1>1 DEF Right, Holds
<1>3. Levels(layout)[MaxLevel + 1] = {}
  BY DEF Right, Ends
<1>4. RecordLen = Max({0} \cup EndsOf(layout))
  BY DEF RecordLen, EndsOf, EndOf
<1>5. TargetsTold => RecordLen = Max({0} \cup {End(i) : i \in Children(Top)})
  BY <1>4 DEF Right, EndOfAll
<1> QED
  BY <1>2, <1>3, <1>5 DEF PlacesRight, TargetsTold

(* A field that redefines one field of the list stands where that does.     *)
LEMMA RedefinersPlain ==
    ASSUME TreeInv, NEW f, FrameOK(f), NEW w, NEW c, Matched(f, w, c), f.group = Top, TargetsTold,
           NEW j \in DOMAIN f.fields, j \notin Kept(f.fields)
    PROVE  Plain(f.fields, j)
<1> DEFINE b == BaseOf(f.fields, j)
           i == w[j]
           t == w[b]
<1>1. /\ Well(f.fields) /\ IsSequence(f.fields)
  BY ListWell DEF Well
<1>2. /\ f.fields[j].redefines # NoName /\ b \in DOMAIN f.fields /\ b < j
      /\ f.fields[b].name = f.fields[j].redefines
  BY <1>1, BaseIs DEF Kept
<1>3. /\ i \in Gone(f) /\ Stands(f.fields[j], i, c)
      /\ t \in Gone(f) /\ Stands(f.fields[b], t, c) /\ t < i
  BY <1>2 DEF Matched
<1> HIDE DEF b, i, t
<1>4. /\ i \in Children(Top) /\ t \in Children(Top)
      /\ i \in DOMAIN items /\ t \in DOMAIN items /\ parents[i] = Top /\ parents[t] = Top
  BY <1>3 DEF Gone, Children
<1>5. items[i].redefines # NoName /\ items[t].name = items[i].redefines
  BY <1>2, <1>3 DEF Stands
<1>6. t \in Target(i)
  BY <1>3, <1>4, <1>5 DEF Target, Siblings
<1>7. RedefinesOne(i)
  BY <1>4, <1>5 DEF TargetsTold
<1>8. /\ items[i].controller = NoName /\ items[t].controller = NoName
      /\ Target(i) = {t} /\ \A k \in Children(t) : items[k].name # items[t].name
  BY <1>6, <1>7 DEF RedefinesOne
<1>9. Max(Target(i)) = t
  <2>1. t \in Nat
    BY <1>4, ItemNumbers
  <2>2. Target(i) \in SUBSET Int /\ t \in Target(i) /\ \A k \in Target(i) : k =< t
    BY <1>8, <2>1
  <2> QED
    BY <2>2, MaxIs
<1>10. Start(i) = Start(t)
  BY <1>4, <1>5, <1>6, <1>9, StartOfTarget
<1>11. /\ f.fields[j].offset = f.fields[b].offset
       /\ f.fields[j].controller = NoName /\ f.fields[b].controller = NoName
  BY <1>3, <1>8, <1>10 DEF Stands
<1>12. ~IsUnion(f.fields[b])
  <2>1. f.fields[b].name = items[t].name /\ Fits(f.fields[b].kind, t, c)
    BY <1>3 DEF Stands
  <2>2. CASE Children(t) = {}
    BY <2>1, <2>2 DEF Fits, IsUnion
  <2>3. CASE Children(t) # {}
    <3>1. Holds(f.fields[b].kind.fields, t)
      BY <2>1, <2>3 DEF Fits
    <3>2. ~Known(f.fields[b].kind.fields, items[t].name)
      BY <1>8, <3>1 DEF Holds, Known
    <3> QED
      BY <2>1, <3>2 DEF IsUnion
  <2> QED
    BY <2>2, <2>3
<1> QED
  BY <1>11, <1>12 DEF Plain, b

(* The ends of the fields are those of their items. *)
LEMMA EndsMatched ==
    ASSUME TreeInv, NEW f, FrameOK(f), NEW w, NEW c, Matched(f, w, c)
    PROVE  Max({0} \cup EndsOf(f.fields)) = EndOfAll(Gone(f))
<1>1. ASSUME NEW a \in DOMAIN f.fields PROVE w[a] \in Gone(f) /\ EndOf(f.fields[a]) = End(w[a])
  <2> DEFINE x == f.fields[a]
             i == w[a]
  <2>1. i \in Gone(f) /\ Stands(x, i, c)
    BY DEF Matched
  <2> HIDE DEF x, i
  <2>2. EndOf(x) = End(i)
    BY <2>1 DEF Stands, EndOf, End, EndFrom, Reserved, TotalWidth, Times
  <2> QED
    BY <2>1, <2>2 DEF x, i
<1>2. ASSUME NEW j \in Gone(f) PROVE \E a \in DOMAIN f.fields : w[a] = j
  BY DEF Matched
<1>3. EndsOf(f.fields) = {End(j) : j \in Gone(f)}
  <2>1. \A e \in EndsOf(f.fields) : e \in {End(j) : j \in Gone(f)}
    BY <1>1 DEF EndsOf
  <2>2. \A e \in {End(j) : j \in Gone(f)} : e \in EndsOf(f.fields)
    BY <1>1, <1>2 DEF EndsOf
  <2> QED
    BY <2>1, <2>2
<1> QED
  BY <1>3 DEF EndOfAll

(* When the outermost list is done, its fields folded are the layout.       *)
LEMMA RecordRight ==
    ASSUME TreeInv, NEW f, FrameOK(f), Filled(f, 2 * MaxDepth), f.rest = {}, f.group = Top
    PROVE  Right(Folded(f.fields))
<1> DEFINE c == 2 * MaxDepth
<1>1. PICK w : Matched(f, w, c)
  BY DEF Filled
<1>2. c \in Nat /\ c + 2 = MaxLevel + 1
  BY DepthAssumption DEF MaxLevel
<1> HIDE DEF c
<1>3. Well(f.fields) /\ \A a \in DOMAIN f.fields : FieldEnds(f.fields[a], c)
  BY <1>1, ListWell
<1>4. Ends(Folded(f.fields), MaxLevel + 1)
  <2>1. Ends(Folded(f.fields), c + 2)
    BY <1>2, <1>3, FoldedEnds
  <2> QED
    BY <1>2, <2>1
<1>5. Holds(Folded(f.fields), Top)
  BY <1>1, <1>3, ListHolds, FoldedHolds
<1>6. ASSUME TargetsTold PROVE Max({0} \cup EndsOf(Folded(f.fields))) = EndOfAll(Children(Top))
  <2>1. \A j \in DOMAIN f.fields : j \notin Kept(f.fields) => Plain(f.fields, j)
    BY <1>1, <1>6, RedefinersPlain
  <2>2. Max({0} \cup EndsOf(Folded(f.fields))) = Max({0} \cup EndsOf(f.fields))
    BY <1>3, <2>1, FoldedLength
  <2>3. Gone(f) = Children(Top)
    BY DEF Gone
  <2> QED
    BY <1>1, <2>2, <2>3, EndsMatched
<1> QED
  BY <1>4, <1>5, <1>6 DEF Right

StartFrom(start, i, end) ==
    IF items[i].redefines # NoName /\ Target(i) # {} THEN start[Max(Target(i))]
    ELSE LET width == WidthOf(items[i])
         IN  IF Synchronized(i) THEN Min({p \in end .. end + width : p % width = 0}) ELSE end

(* What the tree says of its items does not change any more. *)
LEMMA TreeStays ==
    ASSUME UNCHANGED <<items, parents>>
    PROVE  /\ Sizes' = Sizes /\ PlacesIn' = PlacesIn
           /\ \A i : Start(i)' = Start(i) /\ End(i)' = End(i)
           /\ \A i : RedefinesOne(i)' <=> RedefinesOne(i)
<1>1. \A i : Children(i)' = Children(i)
  BY ItemsStay
<1>2. /\ \A i : Target(i)' = Target(i)
      /\ \A i : InPlace(i)' = InPlace(i)
  BY DEF Target, InPlace, Siblings
<1>3. \A i : Synchronized(i)' <=> Synchronized(i)
  BY <1>1 DEF Synchronized
<1>4. \A i, start, size : EndFrom(i, start, size)' = EndFrom(i, start, size)
  BY DEF EndFrom
<1>5. \A size : Starts(size)' = Starts(size)
  <2>1. \A size, s, i : EndBefore(s, size, i)' = EndBefore(s, size, i)
    BY <1>2, <1>4, Zenon DEF EndBefore
  <2>2. \A e, size, s, i : e = EndBefore(s, size, i) => StartOf(size, s, i) = StartFrom(s, i, e)
    BY Zenon DEF StartOf, EndBefore, StartFrom
  <2>3. \A e, size, s, i : e = EndBefore(s, size, i)' => StartOf(size, s, i)' = StartFrom(s, i, e)'
    BY Zenon DEF StartOf, EndBefore, StartFrom, EndFrom, InPlace, Siblings
  <2>4. \A e, size, s, i : StartFrom(s, i, e)' = StartFrom(s, i, e)
    BY <1>2, <1>3, Zenon DEF StartFrom
  <2>5. \A size, s, i : StartOf(size, s, i)' = StartOf(size, s, i)
    BY <2>1, <2>2, <2>3, <2>4
  <2>6. \A size : Starts(size) = CHOOSE s : s = [i \in DOMAIN items |-> StartOf(size, s, i)]
    BY Zenon DEF Starts, StartOf
  <2>7. \A size : Starts(size)' = CHOOSE s : s = [i \in DOMAIN items' |-> StartOf(size, s, i)']
    BY Zenon DEF Starts, StartOf
  <2>8. DOMAIN items' = DOMAIN items
    OBVIOUS
  <2> QED
    BY <2>5, <2>6, <2>7, <2>8, Zenon
<1>6. Sizes' = Sizes
  <2>1. \A s, i : SizeOf(s, i)' = SizeOf(s, i)
    BY <1>1, <1>4, <1>5, Zenon DEF SizeOf
  <2>2. Sizes = CHOOSE s : s = [i \in DOMAIN items |-> SizeOf(s, i)]
    BY Zenon DEF Sizes, SizeOf
  <2>3. Sizes' = CHOOSE s : s = [i \in DOMAIN items' |-> SizeOf(s, i)']
    BY Zenon DEF Sizes, SizeOf
  <2>4. DOMAIN items' = DOMAIN items
    OBVIOUS
  <2> QED
    BY <2>1, <2>2, <2>3, <2>4, Zenon
<1>7. \A i : Start(i)' = Start(i)
  BY <1>5, <1>6 DEF Start
<1>8. \A i : End(i)' = End(i)
  BY <1>4, <1>6, <1>7 DEF End
<1>9. PlacesIn' = PlacesIn
  <2>1. \A in, i : ItemPlaces(in, i)' = ItemPlaces(in, i)
    BY <1>1, <1>6, <1>7 DEF ItemPlaces, Moved
  <2>2. \A in, g : Within(in, g)' = Within(in, g)
    BY <1>1, <2>1, Zenon DEF Within
  <2>3. PlacesIn = CHOOSE in : in = [g \in 0 .. Len(items) |-> Within(in, g)]
    BY Zenon DEF PlacesIn, Within, ItemPlaces
  <2>4. PlacesIn' = CHOOSE in : in = [g \in 0 .. Len(items') |-> Within(in, g)']
    BY Zenon DEF PlacesIn, Within, ItemPlaces
  <2>5. 0 .. Len(items') = 0 .. Len(items)
    OBVIOUS
  <2> QED
    BY <2>2, <2>3, <2>4, <2>5, Zenon
<1>10. \A i : RedefinesOne(i)' <=> RedefinesOne(i)
  BY <1>1, <1>2 DEF RedefinesOne
<1> QED
  BY <1>6, <1>7, <1>8, <1>9, <1>10

LEMMA FilledStays ==
    ASSUME UNCHANGED <<items, parents>>
    PROVE  /\ \A f, c : Filled(f, c)' <=> Filled(f, c)
           /\ \A fields : Right(fields)' <=> Right(fields)
<1>1. \A fields, g : Holds(fields, g)' <=> Holds(fields, g)
  BY TreeStays, ItemsStay DEF Holds
<1>2. \A kind, i, c : Fits(kind, i, c)' <=> Fits(kind, i, c)
  BY <1>1, ItemsStay DEF Fits
<1>3. \A x, i, c : Stands(x, i, c)' <=> Stands(x, i, c)
  BY <1>2, TreeStays DEF Stands
<1>4. \A f : Gone(f)' = Gone(f) /\ OwnGone(f)' = OwnGone(f)
  BY ItemsStay DEF Gone, OwnGone
<1>5. \A f, w, c : Matched(f, w, c)' <=> Matched(f, w, c)
  BY <1>3, <1>4 DEF Matched
<1>6. \A S : EndOfAll(S)' = EndOfAll(S)
  BY TreeStays DEF EndOfAll
<1>7. \A f, c : Filled(f, c)' <=> Filled(f, c)
  BY <1>4, <1>5, <1>6 DEF Filled
<1>8. \A fields : Right(fields)' <=> Right(fields)
  <2>1. Top' = Top /\ Children(Top)' = Children(Top)
    BY ItemsStay DEF Children
  <2>2. TargetsTold' <=> TargetsTold
    BY <2>1, TreeStays DEF TargetsTold
  <2>3. EndOfAll(Children(Top))' = EndOfAll(Children(Top))
    BY <2>1, <1>6
  <2> QED
    BY <1>1, <2>1, <2>2, <2>3 DEF Right
<1> QED
  BY <1>7, <1>8

-----------------------------------------------------------------------------
(* Every step keeps the lists so filled *)

(* How deep the fields of the k-th list may be nested themselves. *)
Room(k) == 2 * (MaxDepth + 1 - k)

PlaceInv ==
    /\ phase = "fields" => \A k \in 1 .. Len(frames) : Filled(frames[k], Room(k))
    /\ phase = "done" => Right(layout)

(* A list that is begun. *)
LEMMA FilledEmpty ==
    ASSUME NEW group, NEW c
    PROVE  Filled(Frame(group), c)
<1> DEFINE f == Frame(group)
<1>1. f.group = group /\ f.rest = Children(group) /\ f.fields = <<>> /\ f.cursor = 0 /\ f.end = 0
  BY DEF Frame
<1> HIDE DEF f
<1>2. Gone(f) = {} /\ OwnGone(f) = {}
  BY <1>1 DEF Gone, OwnGone
<1>3. Matched(f, <<>>, c)
  <2>1. DOMAIN f.fields = {}
    BY <1>1, EmptySequence
  <2> QED
    BY <1>2, <2>1 DEF Matched
<1>4. EndOfAll({}) = 0
  <2>1. {0} \cup {End(j) : j \in {}} = {0}
    OBVIOUS
  <2>2. Max({0}) = 0
    <3>1. {0} \in SUBSET Int /\ \A k \in {0} : k =< 0
      OBVIOUS
    <3> QED
      BY <3>1, MaxIs
  <2> QED
    BY <2>1, <2>2 DEF EndOfAll
<1> QED
  BY <1>1, <1>2, <1>3, <1>4 DEF Filled, f

(* An item that is no group fits where it stands. *)
LEMMA ItemFits ==
    ASSUME NEW i, Children(i) = {}, NEW c
    PROVE  Fits(KindOf(items[i]), i, c)
<1>1. KindOf(items[i]).k # "group"
  BY DEF KindOf, Decimal
<1> QED
  BY <1>1 DEF Fits

LEMMA InitPlaces == Init => PlaceInv
  BY DEF Init, PlaceInv

LEMMA EndTreePlaces == EndTree => PlaceInv'
<1> SUFFICES ASSUME EndTree PROVE PlaceInv'
  OBVIOUS
<1> DEFINE f == Frame(Top)
<1>1. frames' = <<f>> /\ UNCHANGED <<items, parents>> /\ phase' = "fields"
  BY DEF EndTree
<1>2. Filled(f, Room(1))
  BY FilledEmpty
<1> HIDE DEF f
<1>3. Len(frames') = 1 /\ frames'[1] = f
  BY <1>1
<1>4. \A k \in 1 .. Len(frames') : Filled(frames'[k], Room(k))
  <2>1. \A k \in 1 .. Len(frames') : k = 1
    BY <1>3
  <2> QED
    BY <1>2, <1>3, <2>1
<1> QED
  BY <1>1, <1>4, FilledStays DEF PlaceInv, Room

LEMMA PlaceItemPlaces == TreeInv /\ LayoutInv /\ WorkInv /\ PlaceInv /\ PlaceItem => PlaceInv'
<1> SUFFICES ASSUME TreeInv, LayoutInv, WorkInv, PlaceInv, PlaceItem PROVE PlaceInv'
  OBVIOUS
<1> DEFINE n == Len(frames)
           i == Coming
           kind == KindOf(items[i])
           width == WidthOf(items[i])
           g == Placed(Current, i, kind, width)
<1>0. ListsInv /\ Working /\ Current.rest # {}
  BY DEF WorkInv, PlaceItem, Working
<1>1. /\ FrameOK(Current) /\ Partway(Current)
      /\ i \in Current.rest /\ \A r \in Current.rest : i =< r
      /\ i \in DOMAIN items
  BY <1>0, ComingIs DEF Written
<1>2. n \in Nat /\ n > 0 /\ Current = frames[n]
  BY <1>0, CurrentIs
<1>3. \A k \in 1 .. n : Filled(frames[k], Room(k))
  BY <1>0 DEF PlaceInv, Working
<1>4. /\ Children(i) = {} /\ TargetKnown(Current, i) /\ Working
      /\ frames' = [frames EXCEPT ![n] = g] /\ UNCHANGED <<items, parents, phase>>
  BY <1>2, Zenon DEF PlaceItem
<1> HIDE DEF kind, i, n, Current
<1>5. Fits(kind, i, Room(n))
  BY <1>4, ItemFits DEF kind
<1>6. width = Sizes[i]
  BY <1>1, <1>4, SizesAre DEF SizeOf
<1>7. Filled(Current, Room(n))
  BY <1>2, <1>3
<1>8. Filled(Placed(Current, i, kind, Sizes[i]), Room(n))
  BY <1>1, <1>4, <1>5, <1>7, FilledPlaced DEF kind
<1>9. Filled(g, Room(n))
  BY <1>6, <1>8
<1> HIDE DEF g
<1>10. /\ Len(frames') = n
       /\ \A k \in 1 .. n : frames'[k] = IF k = n THEN g ELSE frames[k]
  <2>1. IsSequence(frames) /\ n \in 1 .. Len(frames) /\ Len(frames) = n
    BY <1>2 DEF LayoutInv, n
  <2>2. ChangedAt(frames', frames, n, g)
    BY <1>4 DEF ChangedAt
  <2>3. /\ Len(frames') = Len(frames)
        /\ \A k \in 1 .. Len(frames) : frames'[k] = IF k = n THEN g ELSE frames[k]
    BY <2>1, <2>2, Changed
  <2> QED
    BY <2>1, <2>3, Zenon
<1>11. \A k \in 1 .. n : Filled(frames'[k], Room(k))
  BY <1>3, <1>9, <1>10
<1> QED
  BY <1>4, <1>10, <1>11, FilledStays DEF PlaceInv, Room, Working

LEMMA EnterGroupPlaces == TreeInv /\ LayoutInv /\ PlaceInv /\ EnterGroup => PlaceInv'
<1> SUFFICES ASSUME TreeInv, LayoutInv, PlaceInv, EnterGroup PROVE PlaceInv'
  OBVIOUS
<1> DEFINE n == Len(frames)
           f == Frame(Coming)
<1>1. Working /\ frames' = Append(frames, f) /\ UNCHANGED <<items, parents, phase>>
  BY DEF EnterGroup
<1>2. n \in Nat /\ IsSequence(frames)
  BY <1>1, CurrentIs DEF LayoutInv
<1>3. Filled(f, Room(n + 1))
  BY FilledEmpty
<1>4. \A k \in 1 .. n : Filled(frames[k], Room(k))
  BY <1>1 DEF PlaceInv, Working
<1> HIDE DEF f
<1>5. /\ Len(frames') = n + 1
      /\ \A k \in 1 .. n : frames'[k] = frames[k]
      /\ frames'[n + 1] = f
  BY <1>1, <1>2, Longer
<1> HIDE DEF n
<1>6. ASSUME NEW k \in 1 .. n + 1 PROVE Filled(frames'[k], Room(k))
  <2>1. CASE k = n + 1
    BY <1>3, <1>5, <2>1
  <2>2. CASE k \in 1 .. n
    BY <1>4, <1>5, <2>2
  <2> QED
    BY <1>2, <2>1, <2>2
<1> QED
  BY <1>1, <1>5, <1>6, FilledStays DEF PlaceInv, Room, Working

LEMMA LeaveGroupPlaces == TreeInv /\ LayoutInv /\ WorkInv /\ PlaceInv /\ LeaveGroup => PlaceInv'
<1> SUFFICES ASSUME TreeInv, LayoutInv, WorkInv, PlaceInv, LeaveGroup PROVE PlaceInv'
  OBVIOUS
<1> DEFINE n == Len(frames)
           outer == frames[n - 1]
           i == Current.group
           kind == [k |-> "group", fields |-> Folded(Current.fields)]
           width == Current.end
           g == Placed(outer, i, kind, width)
           first == SubSeq(frames, 1, n - 2)
<1>0. ListsInv /\ Working /\ Current.rest = {} /\ n > 1
  BY DEF WorkInv, LeaveGroup, Working
<1>1. /\ FrameOK(outer) /\ Partway(outer)
      /\ i \in outer.rest /\ \A r \in outer.rest : i =< r
      /\ i \in DOMAIN items /\ Children(i) # {}
  BY <1>0, LeavingIs DEF Written
<1>2. n \in Nat /\ n =< MaxDepth + 1 /\ Current = frames[n] /\ FrameOK(Current)
  BY <1>0, CurrentIs DEF ListsInv
<1>3. TargetKnown(outer, i) /\ frames' = Append(first, g) /\ UNCHANGED <<items, parents, phase>>
  BY DEF LeaveGroup
<1>4. \A k \in 1 .. n : Filled(frames[k], Room(k))
  BY <1>0 DEF PlaceInv, Working
<1>5. Room(n) \in Nat /\ Room(n) + 2 = Room(n - 1)
  BY <1>0, <1>2, DepthAssumption DEF Room
<1> HIDE DEF n, Current
<1>6. Filled(Current, Room(n)) /\ Filled(outer, Room(n - 1))
  BY <1>0, <1>2, <1>4
<1>7. Fits(kind, i, Room(n) + 2) /\ width = Sizes[i]
  BY <1>0, <1>1, <1>2, <1>5, <1>6, GroupFits
<1> HIDE DEF i, kind, width, outer
<1>8. Fits(kind, i, Room(n - 1))
  BY <1>5, <1>7
<1>9. Filled(Placed(outer, i, kind, Sizes[i]), Room(n - 1))
  BY <1>1, <1>3, <1>6, <1>8, FilledPlaced
<1>10. Filled(g, Room(n - 1))
  BY <1>7, <1>9
<1> HIDE DEF g
<1>11. IsSequence(frames) /\ n - 2 \in 0 .. Len(frames)
  BY <1>0, <1>2 DEF LayoutInv, n
<1>12. IsSequence(first) /\ Len(first) = n - 2 /\ \A k \in 1 .. n - 2 : first[k] = frames[k]
  BY <1>11, FirstOf
<1> HIDE DEF first
<1>13. /\ Len(frames') = n - 2 + 1
       /\ \A k \in 1 .. n - 2 : frames'[k] = frames[k]
       /\ frames'[n - 2 + 1] = g
  BY <1>3, <1>12, Longer
<1>14. n - 2 + 1 = n - 1
  BY <1>2
<1>15. ASSUME NEW k \in 1 .. n - 1 PROVE Filled(frames'[k], Room(k))
  <2>1. CASE k = n - 1
    BY <1>10, <1>13, <1>14, <2>1
  <2>2. CASE k \in 1 .. n - 2
    <3>1. k \in 1 .. n
      BY <1>2, <2>2
    <3> QED
      BY <1>4, <1>13, <2>2, <3>1
  <2> QED
    BY <1>2, <2>1, <2>2
<1> QED
  BY <1>0, <1>3, <1>13, <1>14, <1>15, FilledStays DEF PlaceInv, Room, Working

LEMMA FinishPlaces == TreeInv /\ LayoutInv /\ WorkInv /\ PlaceInv /\ Finish => PlaceInv'
<1> SUFFICES ASSUME TreeInv, LayoutInv, WorkInv, PlaceInv, Finish PROVE PlaceInv'
  OBVIOUS
<1>1. /\ ListsInv /\ Working /\ Current.rest = {} /\ Len(frames) = 1
      /\ phase' = "done" /\ UNCHANGED <<items, parents>>
      /\ layout' = Folded(Current.fields)
  BY DEF WorkInv, Finish, Working
<1>2. Current = frames[1] /\ FrameOK(Current) /\ Nested(frames, 1)
  BY <1>1, CurrentIs DEF ListsInv
<1>3. Filled(frames[1], Room(1)) /\ Room(1) = 2 * MaxDepth
  BY <1>1, DepthAssumption DEF PlaceInv, Room, Working
<1> HIDE DEF Current
<1>4. Current.group = Top
  BY <1>2 DEF Nested
<1>5. Right(Folded(Current.fields))
  BY <1>1, <1>2, <1>3, <1>4, RecordRight
<1>6. Right(layout)'
  BY <1>1, <1>5, FilledStays
<1> QED
  BY <1>1, <1>6 DEF PlaceInv

LEMMA NextPlaces == TreeInv /\ LayoutInv /\ WorkInv /\ PlaceInv /\ [Next]_vars => PlaceInv'
<1> SUFFICES ASSUME TreeInv, LayoutInv, WorkInv, PlaceInv, [Next]_vars PROVE PlaceInv'
  OBVIOUS
<1>1. CASE SkipCondition \/ AddItem
  BY <1>1 DEF SkipCondition, AddItem, PlaceInv
<1>2. CASE Refuse
  BY <1>2 DEF Refuse, PlaceInv
<1>3. CASE UNCHANGED vars
  <2>1. UNCHANGED <<items, parents, phase, frames, layout>>
    BY <1>3 DEF vars
  <2>2. Right(layout) => Right(layout)'
    BY <2>1, FilledStays
  <2>3. (\A k \in 1 .. Len(frames) : Filled(frames[k], Room(k)))
           => (\A k \in 1 .. Len(frames) : Filled(frames[k], Room(k)))'
    BY <2>1, FilledStays DEF Room
  <2> QED
    BY <2>1, <2>2, <2>3 DEF PlaceInv
<1> QED
  BY <1>1, <1>2, <1>3, EndTreePlaces, PlaceItemPlaces, EnterGroupPlaces, LeaveGroupPlaces, FinishPlaces
     DEF Next

(* For every set of copybooks and every limit on the nesting: in a layout  *)
(* that is done each item of the text has the name, the first byte and the *)
(* width that the tree alone gives it (a synchronized item's boundary is   *)
(* counted from its first sibling), whatever was folded into groups on the *)
(* way; nothing else holds bytes, no field is nested deeper than twice     *)
(* what the text's may be, and the record is as long as its items need,    *)
(* where it can be told what they redefine (layout_nodes, fold_redefines). *)
THEOREM PlacesAreRight == Spec => []PlacesRight
<1>1. Init => WorkInv /\ PlaceInv
  BY InitWork, InitPlaces
<1>2. TreeInv /\ LayoutInv /\ WorkInv /\ PlaceInv /\ [Next]_vars => WorkInv' /\ PlaceInv'
  BY NextWork, NextPlaces
<1>3. PlaceInv => PlacesRight
  <2>1. PlaceInv /\ phase = "done" => PlacesRight
    BY RightIs DEF PlaceInv
  <2>2. phase # "done" => PlacesRight
    BY DEF PlacesRight
  <2> QED
    BY <2>1, <2>2
<1> QED
  BY <1>1, <1>2, <1>3, Invariance, PTL DEF Spec

=============================================================================
