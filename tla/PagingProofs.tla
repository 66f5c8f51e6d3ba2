---------------------------- MODULE PagingProofs ----------------------------
(***************************************************************************)
(* Proofs about Paging, for any rows and limits: a list read by offset is  *)
(* complete when there is no next cursor, and gives no row twice.  Of a    *)
(* list served by page number the same is true as long as its pages have   *)
(* one size: then every cursor is a multiple of it.  That the cursor       *)
(* advances is proved of all.                                              *)
(***************************************************************************)
EXTENDS Paging, SequenceTheorems, TLAPS

\* Every limit passed to a list that is read by page number makes the same page.
OneSize == \A l, m \in PagesLimits : Clamp(l) = Clamp(m)

\* The page begins where the cursor says: always when reading by offset, and by page
\* number as long as all pages have one size.
InStep == style # "pages" \/ OneSize

UsedLimits == IF style = "pages" THEN PagesLimits ELSE Limits

\* By page number, the cursor is where a page begins.
Aligned == style = "pages" /\ cursor # None =>
             \A l \in PagesLimits : (cursor \div Clamp(l)) * Clamp(l) = cursor

\* Rows stay unless one is taken away.
StillThere == ~removed => start \subseteq RowsOf(list)

Distinct == \A j, k \in 1 .. Len(list) : list[j] = list[k] => j = k

\* Everything before the cursor that was there from the start has been given, and
\* nothing beyond it.
ReadBefore ==
  ~removed => \A k \in 1 .. Len(list) :
    list[k] \in start /\ (cursor = None \/ k <= cursor) => list[k] \in seen
UnreadBeyond ==
  ~added => \A k \in 1 .. Len(list) : list[k] \in seen /\ cursor # None => k <= cursor

IInv == /\ TypeOK /\ Distinct /\ StillThere
        /\ InStep => Aligned /\ ReadBefore /\ UnreadBeyond /\ NoRepeats /\ cursor # 0

LEMMA ClampPositive == ASSUME NEW l \in Limits PROVE Clamp(l) \in Nat \ {0}
BY LimitsAssumption DEF Clamp

\* Where a page of `size` rows begins, the next one begins `size` rows on.
LEMMA NextPageBegins ==
  ASSUME NEW from \in Nat, NEW size \in Nat \ {0}, (from \div size) * size = from
  PROVE  ((from + size) \div size) * size = from + size
<1> DEFINE q == from \div size
           x == (from + size) \div size
<1>1. \A a \in Nat : a \div size \in Nat /\ (a \div size) * size <= a /\ a < (a \div size) * size + size
  OBVIOUS
<1>2. q \in Nat /\ q * size = from
  BY <1>1
<1>3. x \in Nat /\ x * size <= from + size /\ from + size < x * size + size
  BY <1>1
<1> HIDE DEF q, x
<1>4. ASSUME NEW a \in Nat, NEW b \in Nat, a < b PROVE a * size + size <= b * size
  <2>1. PICK d \in Nat : b = a + d + 1
    BY <1>4, b - a - 1 \in Nat, a + (b - a - 1) + 1 = b
  <2>2. b * size = a * size + d * size + size /\ d * size \in Nat
    BY <2>1
  <2>3. QED
    BY <2>2
<1>5. (q + 1) * size = from + size
  BY <1>2
<1>6. ~(x < q + 1)
  BY <1>2, <1>3, <1>4, <1>5
<1>7. ~(q + 1 < x)
  BY <1>2, <1>3, <1>4, <1>5
<1>8. x = q + 1
  BY <1>2, <1>3, <1>6, <1>7
<1>9. QED
  BY <1>5, <1>8 DEF x

LEMMA SliceRows ==
  ASSUME TypeOK, NEW from \in Nat, NEW size \in Nat \ {0}
  PROVE  /\ Slice(from, size) \in Seq(Rows)
         /\ Len(Slice(from, size)) = IF from + size <= Len(list) THEN size
                                     ELSE IF from <= Len(list) THEN Len(list) - from ELSE 0
         /\ \A r : r \in RowsOf(Slice(from, size)) <=>
              \E k \in 1 .. Len(list) : from < k /\ k <= from + size /\ r = list[k]
         /\ RowsOf(Slice(from, size)) \subseteq Rows
<1> DEFINE to == Least(from + size, Len(list))
           s == Slice(from, size)
<1>1. Len(list) \in Nat /\ \A k \in 1 .. Len(list) : list[k] \in Rows
  BY LenProperties, ElementOfSeq DEF TypeOK
<1>2. to \in Nat /\ to <= Len(list) /\ to <= from + size
      /\ (from + size <= Len(list) => to = from + size) /\ (from + size > Len(list) => to = Len(list))
  BY <1>1 DEF Least
<1>3. s = SubSeq(list, from + 1, to)
  BY DEF Slice
<1> HIDE DEF to, s
<1>4. /\ s \in Seq(Rows)
      /\ Len(s) = IF from + 1 <= to THEN to - from ELSE 0
      /\ \A i \in 1 .. to - from : s[i] = list[from + i]
  <2>1. \A i \in from + 1 .. to : list[i] \in Rows
    BY <1>1, <1>2
  <2>2. /\ SubSeq(list, from + 1, to) \in Seq(Rows)
        /\ Len(SubSeq(list, from + 1, to)) = IF from + 1 <= to THEN to - (from + 1) + 1 ELSE 0
        /\ \A i \in 1 .. to - (from + 1) + 1 :
             SubSeq(list, from + 1, to)[i] = list[(from + 1) + i - 1]
    BY <1>2, <2>1, SubSeqProperties
  <2>3. to - (from + 1) + 1 = to - from /\ \A i \in 1 .. to - from : (from + 1) + i - 1 = from + i
    BY <1>2
  <2>4. QED
    BY <1>3, <2>2, <2>3
<1>5. Len(s) = IF from + size <= Len(list) THEN size
               ELSE IF from <= Len(list) THEN Len(list) - from ELSE 0
  BY <1>1, <1>2, <1>4
<1>6. ASSUME NEW r, r \in RowsOf(s)
      PROVE  \E k \in 1 .. Len(list) : from < k /\ k <= from + size /\ r = list[k]
  <2>1. PICK i \in 1 .. Len(s) : r = s[i]
    BY <1>6 DEF RowsOf
  <2>2. i \in 1 .. to - from /\ from + i \in 1 .. Len(list) /\ from < from + i /\ from + i <= from + size
    BY <1>1, <1>2, <1>4, <2>1
  <2>3. QED
    BY <1>4, <2>1, <2>2
<1>7. ASSUME NEW k \in 1 .. Len(list), from < k, k <= from + size
      PROVE  list[k] \in RowsOf(s)
  <2>1. k - from \in 1 .. to - from /\ from + (k - from) = k /\ k - from \in 1 .. Len(s)
    BY <1>1, <1>2, <1>4, <1>7
  <2>2. s[k - from] = list[k]
    BY <1>4, <2>1
  <2>3. QED
    BY <2>1, <2>2 DEF RowsOf
<1>8. RowsOf(s) \subseteq Rows
  BY <1>1, <1>6
<1>9. QED
  BY <1>4, <1>5, <1>6, <1>7, <1>8 DEF s

LEMMA OffsetCursor ==
  ASSUME TypeOK, NEW from \in Nat, NEW size \in Nat \ {0},
         style = "pages" => (from \div size) * size = from
  PROVE  /\ PageRows(from, size) = Slice(from, size)
         /\ NextCursor(from, size) = IF from + size < Len(list) THEN from + size ELSE None
<1>1. Len(list) \in Nat
  BY LenProperties DEF TypeOK
<1>2. PageRows(from, size) = Slice(from, size)
  BY DEF PageRows
<1>3. CASE style = "extra"
  BY <1>2, <1>3 DEF NextCursor
<1>4. CASE style # "extra"
  <2>1. NextCursor(from, size) = IF from + Len(Slice(from, size)) < Len(list)
                                 THEN from + Len(Slice(from, size)) ELSE None
    BY <1>2, <1>4 DEF NextCursor
  <2>2. Len(Slice(from, size)) = IF from + size <= Len(list) THEN size
                               ELSE IF from <= Len(list) THEN Len(list) - from ELSE 0
    BY SliceRows
  <2>3. CASE from + size < Len(list)
    <3>1. Len(Slice(from, size)) = size
      BY <1>1, <2>2, <2>3
    <3>2. QED
      BY <1>2, <2>1, <2>3, <3>1
  <2>4. CASE ~(from + size < Len(list))
    <3>1. from + Len(Slice(from, size)) >= Len(list)
      BY <1>1, <2>2, <2>4
    <3>2. ~(from + Len(Slice(from, size)) < Len(list))
      BY <1>1, <1>2, <3>1, <2>2
    <3>3. QED
      BY <1>2, <2>1, <2>4, <3>2
  <2>5. QED
    BY <1>2, <2>3, <2>4
<1>5. QED
  BY <1>3, <1>4

-----------------------------------------------------------------------------
LEMMA InitIInv == Init => IInv
<1> SUFFICES ASSUME Init PROVE IInv
  OBVIOUS
<1>1. list \in Seq(Rows) /\ Len(list) = 0
  BY EmptySeq DEF Init
<1>2. TypeOK
  BY <1>1 DEF Init, TypeOK
<1>3. Distinct /\ StillThere /\ Aligned /\ ReadBefore /\ UnreadBeyond /\ NoRepeats
  BY <1>1 DEF Init, Distinct, StillThere, Aligned, ReadBefore, UnreadBeyond, NoRepeats
<1>4. cursor # 0
  BY LimitsAssumption DEF Init
<1>5. QED
  BY <1>2, <1>3, <1>4 DEF IInv

\* What a page changes and, where it begins at the cursor, that it is what lies
\* between two cursors.
LEMMA PageStep ==
  ASSUME TypeOK, NEW from \in Nat, NEW l \in Limits, Read(from, l)
  PROVE  /\ cursor' \in Nat \cup {None} /\ seen' \subseteq Rows /\ repeated' \in BOOLEAN
         /\ (style = "pages" => (from \div Clamp(l)) * Clamp(l) = from) => \E to \in Nat :
              /\ from < to /\ to = from + Clamp(l)
              /\ cursor' = IF to < Len(list) THEN to ELSE None
              /\ \A r : r \in RowsOf(PageRows(from, Clamp(l))) <=>
                   \E k \in 1 .. Len(list) : from < k /\ k <= to /\ r = list[k]
<1> DEFINE size == Clamp(l)
<1>1. size \in Nat \ {0}
  BY ClampPositive
<1> HIDE DEF size
<1>2. Len(list) \in Nat
  BY LenProperties DEF TypeOK
<1>3. from \div size \in Nat
  BY <1>1
<1>4. (from \div size) * size \in Nat
  BY <1>1, <1>3
<1>5. \E o \in Nat : PageRows(from, size) = Slice(o, size)
  BY <1>4 DEF PageRows
<1>6. RowsOf(PageRows(from, size)) \subseteq Rows /\ Len(PageRows(from, size)) \in Nat
  <2>1. PICK o \in Nat : PageRows(from, size) = Slice(o, size)
    BY <1>5
  <2>2. Slice(o, size) \in Seq(Rows)
    BY <1>1, SliceRows
  <2>3. RowsOf(Slice(o, size)) \subseteq Rows
    BY <1>1, SliceRows
  <2>4. QED
    BY <2>1, <2>2, <2>3, LenProperties
<1>7. cursor' \in Nat \cup {None}
  BY <1>1, <1>6 DEF Read, NextCursor, size
<1>8. seen' \subseteq Rows
  BY <1>6 DEF Read, TypeOK, size
<1>9. repeated' \in BOOLEAN
  BY Zenon DEF Read, TypeOK
<1>10. ASSUME style = "pages" => (from \div size) * size = from
       PROVE  /\ from < from + size /\ from + size \in Nat
              /\ cursor' = IF from + size < Len(list) THEN from + size ELSE None
              /\ \A r : r \in RowsOf(PageRows(from, size)) <=>
                   \E k \in 1 .. Len(list) : from < k /\ k <= from + size /\ r = list[k]
  <2>1. cursor' = NextCursor(from, size)
    BY DEF Read, size
  <2>2. PageRows(from, size) = Slice(from, size)
    BY <1>1, <1>10, OffsetCursor
  <2>3. cursor' = IF from + size < Len(list) THEN from + size ELSE None
    BY <1>1, <1>10, <2>1, OffsetCursor
  <2>4. \A r : r \in RowsOf(Slice(from, size)) <=>
          \E k \in 1 .. Len(list) : from < k /\ k <= from + size /\ r = list[k]
    BY <1>1, SliceRows
  <2>5. QED
    BY <1>1, <2>2, <2>3, <2>4
<1>11. QED
  BY <1>7, <1>8, <1>9, <1>10 DEF size

LEMMA AddStep ==
  ASSUME IInv, NEW r \in Rows, AddRow(r)
  PROVE  IInv'
<1>1. /\ list' \in Seq(Rows) /\ Len(list) \in Nat /\ Len(list') = Len(list) + 1
      /\ \A k \in 1 .. Len(list') : list'[k] = IF k = 1 THEN r ELSE list[k - 1]
  <2>1. list \in Seq(Rows) /\ <<r>> \in Seq(Rows) /\ Len(<<r>>) = 1 /\ <<r>>[1] = r
    BY DEF IInv, TypeOK
  <2>2. list' = <<r>> \o list
    BY DEF AddRow
  <2>3. Len(list) \in Nat
    BY <2>1, LenProperties
  <2>4. /\ <<r>> \o list \in Seq(Rows) /\ Len(<<r>> \o list) = Len(<<r>>) + Len(list)
        /\ \A i \in 1 .. Len(<<r>>) + Len(list) :
             (<<r>> \o list)[i] = IF i <= Len(<<r>>) THEN <<r>>[i] ELSE list[i - Len(<<r>>)]
    BY <2>1, ConcatProperties
  <2>5. QED
    BY <2>1, <2>2, <2>3, <2>4
<1>2. \A k \in 1 .. Len(list) : list[k] # r
  BY DEF AddRow, RowsOf
<1>3. /\ UNCHANGED <<style, cursor, start, seen, repeated, removed>> /\ added' = TRUE
      /\ r \notin start
  BY DEF AddRow
<1>4. TypeOK'
  BY <1>1, <1>3 DEF IInv, TypeOK
<1>5. Distinct'
  <2> SUFFICES ASSUME NEW j \in 1 .. Len(list'), NEW k \in 1 .. Len(list'), list'[j] = list'[k]
               PROVE  j = k
    BY DEF Distinct
  <2>1. \A i \in 1 .. Len(list') : i = 1 \/ i - 1 \in 1 .. Len(list)
    BY <1>1
  <2>2. CASE j = 1
    BY <1>1, <1>2, <2>1, <2>2
  <2>3. CASE k = 1
    BY <1>1, <1>2, <2>1, <2>3
  <2>4. CASE j # 1 /\ k # 1
    <3>1. j - 1 \in 1 .. Len(list) /\ k - 1 \in 1 .. Len(list) /\ list[j - 1] = list[k - 1]
      BY <1>1, <2>1, <2>4
    <3>2. j - 1 = k - 1
      BY <3>1 DEF IInv, Distinct
    <3>3. QED
      BY <3>2
  <2>5. QED
    BY <2>2, <2>3, <2>4
<1>6. ASSUME InStep PROVE ReadBefore'
  <2> SUFFICES ASSUME ~removed, NEW k \in 1 .. Len(list'), list'[k] \in start,
                      cursor = None \/ k <= cursor
               PROVE  list'[k] \in seen
    BY <1>3 DEF ReadBefore
  <2>1. k # 1 /\ k - 1 \in 1 .. Len(list) /\ list'[k] = list[k - 1]
    BY <1>1, <1>3
  <2>2. cursor = None \/ k - 1 <= cursor
    BY <2>1 DEF IInv, TypeOK
  <2>3. QED
    BY <1>6, <2>1, <2>2 DEF IInv, ReadBefore
<1>7. UnreadBeyond' /\ NoRepeats' /\ (Aligned => Aligned')
  BY <1>3 DEF UnreadBeyond, NoRepeats, Aligned
<1>8. StillThere'
  <2>1. ASSUME NEW k \in 1 .. Len(list) PROVE k + 1 \in 1 .. Len(list') /\ list'[k + 1] = list[k]
    BY <1>1
  <2>2. RowsOf(list) \subseteq RowsOf(list')
    BY <2>1 DEF RowsOf
  <2>3. QED
    BY <1>3, <2>2 DEF IInv, StillThere
<1>9. QED
  BY <1>3, <1>4, <1>5, <1>6, <1>7, <1>8 DEF IInv, InStep

LEMMA RemoveStep ==
  ASSUME IInv, NEW k \in 1 .. Len(list), RemoveRow(k)
  PROVE  IInv'
<1>1. Len(list) \in Nat /\ \A i \in 1 .. Len(list) : list[i] \in Rows
  BY LenProperties, ElementOfSeq DEF IInv, TypeOK
<1>2. /\ list' \in Seq(Rows) /\ Len(list') = Len(list) - 1
      /\ \A i \in 1 .. Len(list') : list'[i] = IF i < k THEN list[i] ELSE list[i + 1]
  <2> DEFINE a == SubSeq(list, 1, k - 1)
             b == SubSeq(list, k + 1, Len(list))
  <2>1. a \in Seq(Rows) /\ Len(a) = k - 1 /\ \A i \in 1 .. k - 1 : a[i] = list[i]
    <3>1. \A i \in 1 .. k - 1 : list[i] \in Rows
      BY <1>1
    <3>2. /\ a \in Seq(Rows) /\ Len(a) = (IF 1 <= k - 1 THEN (k - 1) - 1 + 1 ELSE 0)
          /\ \A i \in 1 .. (k - 1) - 1 + 1 : a[i] = list[1 + i - 1]
      BY <1>1, <3>1, SubSeqProperties
    <3>3. QED
      BY <1>1, <3>2
  <2>2. b \in Seq(Rows) /\ Len(b) = Len(list) - k /\ \A i \in 1 .. Len(list) - k : b[i] = list[k + i]
    <3>1. \A i \in k + 1 .. Len(list) : list[i] \in Rows
      BY <1>1
    <3>2. /\ b \in Seq(Rows)
          /\ Len(b) = (IF k + 1 <= Len(list) THEN Len(list) - (k + 1) + 1 ELSE 0)
          /\ \A i \in 1 .. Len(list) - (k + 1) + 1 : b[i] = list[(k + 1) + i - 1]
      BY <1>1, <3>1, SubSeqProperties
    <3>3. QED
      BY <1>1, <3>2
  <2>3. list' = a \o b
    BY DEF RemoveRow
  <2> HIDE DEF a, b
  <2>4. /\ a \o b \in Seq(Rows) /\ Len(a \o b) = Len(a) + Len(b)
        /\ \A i \in 1 .. Len(a) + Len(b) : (a \o b)[i] = IF i <= Len(a) THEN a[i] ELSE b[i - Len(a)]
    BY <2>1, <2>2, ConcatProperties
  <2>5. ASSUME NEW i \in 1 .. Len(list')
        PROVE  list'[i] = IF i < k THEN list[i] ELSE list[i + 1]
    <3>1. CASE i < k
      BY <1>1, <2>1, <2>2, <2>3, <2>4, <3>1
    <3>2. CASE ~(i < k)
      <4>1. i - (k - 1) \in 1 .. Len(list) - k /\ k + (i - (k - 1)) = i + 1
        BY <1>1, <2>1, <2>2, <2>3, <2>4, <3>2
      <4>2. list'[i] = b[i - (k - 1)]
        BY <1>1, <2>1, <2>2, <2>3, <2>4, <3>2
      <4>3. QED
        BY <2>2, <3>2, <4>1, <4>2
    <3>3. QED
      BY <3>1, <3>2
  <2>6. QED
    BY <1>1, <2>1, <2>2, <2>3, <2>4, <2>5
<1>3. UNCHANGED <<style, cursor, start, seen, repeated, added>> /\ removed' = TRUE
  BY DEF RemoveRow
<1>4. TypeOK'
  BY <1>2, <1>3 DEF IInv, TypeOK
<1>5. \A i \in 1 .. Len(list') : \E j \in 1 .. Len(list) :
        list'[i] = list[j] /\ i <= j /\ j = IF i < k THEN i ELSE i + 1
  BY <1>1, <1>2
<1>6. Distinct'
  BY <1>5 DEF IInv, Distinct
<1>7. ASSUME InStep PROVE UnreadBeyond'
  <2> SUFFICES ASSUME ~added, NEW i \in 1 .. Len(list'), list'[i] \in seen, cursor # None
               PROVE  i <= cursor
    BY <1>3 DEF UnreadBeyond
  <2>1. PICK j \in 1 .. Len(list) : list'[i] = list[j] /\ i <= j
    BY <1>5
  <2>2. j <= cursor
    BY <1>7, <2>1 DEF IInv, UnreadBeyond
  <2>3. QED
    BY <1>1, <1>2, <2>1, <2>2 DEF IInv, TypeOK
<1>8. ReadBefore' /\ StillThere' /\ (InStep => NoRepeats' /\ Aligned')
  BY <1>3 DEF IInv, ReadBefore, NoRepeats, StillThere, Aligned
<1>9. QED
  BY <1>3, <1>4, <1>6, <1>7, <1>8 DEF IInv, InStep

\* From the first row a page begins, whatever its size.
LEMMA FirstStep ==
  ASSUME IInv, NEW l \in UsedLimits, FirstPage(l)
  PROVE  IInv'
<1>0. l \in Limits /\ (style = "pages" => l \in PagesLimits)
      /\ Clamp(l) \in Nat \ {0} /\ (0 \div Clamp(l)) * Clamp(l) = 0
  <2>1. l \in Limits /\ (style = "pages" => l \in PagesLimits)
    BY LimitsAssumption DEF UsedLimits
  <2>2. \A a \in Nat \ {0} : (0 \div a) * a = 0
    OBVIOUS
  <2>3. QED
    BY <2>1, <2>2, ClampPositive
<1>1. Read(0, l) /\ start' = RowsOf(list) /\ added' = FALSE /\ removed' = FALSE
      /\ UNCHANGED <<style, list>> /\ repeated' = FALSE
      /\ seen' = RowsOf(PageRows(0, Clamp(l)))
  BY DEF FirstPage, Read
<1>2. RowsOf(list) \subseteq Rows
  BY ElementOfSeq DEF IInv, TypeOK, RowsOf
<1>3. cursor' \in Nat \cup {None} /\ seen' \subseteq Rows
  BY <1>0, <1>1, PageStep DEF IInv
<1>4. TypeOK'
  BY <1>1, <1>2, <1>3 DEF IInv, TypeOK
<1>5. ASSUME InStep PROVE Aligned' /\ ReadBefore' /\ UnreadBeyond' /\ cursor' # 0
  <2>1. PICK to \in Nat :
          /\ to = Clamp(l) /\ to # 0
          /\ cursor' = IF to < Len(list) THEN to ELSE None
          /\ \A r : r \in seen' <=> \E k \in 1 .. Len(list) : 0 < k /\ k <= to /\ r = list[k]
    <3>1. PICK to \in Nat :
            /\ 0 < to /\ to = 0 + Clamp(l)
            /\ cursor' = IF to < Len(list) THEN to ELSE None
            /\ \A r : r \in RowsOf(PageRows(0, Clamp(l))) <=>
                 \E k \in 1 .. Len(list) : 0 < k /\ k <= to /\ r = list[k]
      <4>1. TypeOK /\ 0 \in Nat /\ l \in Limits /\ Read(0, l)
        BY <1>0, <1>1 DEF IInv
      <4>2. style = "pages" => (0 \div Clamp(l)) * Clamp(l) = 0
        BY <1>0
      <4>3. QED
        BY <4>1, <4>2, PageStep
    <3>2. to = Clamp(l) /\ to # 0
      BY <1>0, <3>1
    <3>3. QED
      BY <1>1, <3>1, <3>2
  <2>2. Len(list) \in Nat
    BY LenProperties DEF IInv, TypeOK
  <2>0. cursor' # 0 /\ Aligned'
    <3>1. cursor' # 0
      BY <2>1, LimitsAssumption
    <3>2. ASSUME style' = "pages", cursor' # None, NEW m \in PagesLimits
          PROVE  (cursor' \div Clamp(m)) * Clamp(m) = cursor'
      <4>1. Clamp(m) = Clamp(l) /\ cursor' = 0 + Clamp(l)
        BY <1>0, <1>1, <1>5, <2>1, <3>2 DEF InStep, OneSize
      <4>2. QED
        BY <1>0, <4>1, NextPageBegins
    <3>3. QED
      BY <3>1, <3>2 DEF Aligned
  <2>3. ASSUME NEW k \in 1 .. Len(list), cursor' = None \/ k <= cursor'
        PROVE  list[k] \in seen'
    <3>1. k <= to
      BY <2>1, <2>2, <2>3, LimitsAssumption
    <3>2. QED
      BY <2>1, <3>1
  <2>4. ASSUME NEW k \in 1 .. Len(list), list[k] \in seen', cursor' # None
        PROVE  k <= cursor'
    <3>1. PICK j \in 1 .. Len(list) : j <= to /\ list[k] = list[j]
      BY <2>1, <2>4
    <3>2. j = k
      BY <3>1 DEF IInv, Distinct
    <3>3. QED
      BY <2>1, <2>4, <3>1, <3>2
  <2>5. QED
    BY <1>1, <2>0, <2>3, <2>4 DEF ReadBefore, UnreadBeyond
<1>6. QED
  BY <1>1, <1>4, <1>5 DEF IInv, InStep, Distinct, NoRepeats, StillThere

LEMMA NextStep ==
  ASSUME IInv, NEW l \in UsedLimits, NextPage(l)
  PROVE  IInv'
<1>0. l \in Limits /\ (style = "pages" => l \in PagesLimits) /\ Clamp(l) \in Nat \ {0}
  BY LimitsAssumption, ClampPositive DEF UsedLimits
<1>1. cursor # None /\ cursor \in Nat /\ Read(cursor, l) /\ UNCHANGED <<start, added, removed, style, list>>
  BY DEF NextPage, Read, IInv, TypeOK
<1>2. cursor' \in Nat \cup {None} /\ seen' \subseteq Rows /\ repeated' \in BOOLEAN
  BY <1>0, <1>1, PageStep DEF IInv
<1>3. TypeOK'
  BY <1>1, <1>2 DEF IInv, TypeOK
<1>4. ASSUME InStep
      PROVE  Aligned' /\ ReadBefore' /\ UnreadBeyond' /\ NoRepeats' /\ cursor' # 0
  <2>0. cursor # 0 /\ (style = "pages" => (cursor \div Clamp(l)) * Clamp(l) = cursor)
    BY <1>0, <1>1, <1>4 DEF IInv, Aligned
  <2> DEFINE page == RowsOf(PageRows(cursor, Clamp(l)))
  <2>1. PICK to \in Nat :
          /\ cursor < to /\ to = cursor + Clamp(l)
          /\ cursor' = IF to < Len(list) THEN to ELSE None
          /\ \A r : r \in page <=> \E k \in 1 .. Len(list) : cursor < k /\ k <= to /\ r = list[k]
    BY <1>0, <1>1, <2>0, PageStep DEF IInv
  <2>2. seen' = seen \cup page /\ repeated' = (repeated \/ seen \cap page # {})
    BY <1>1, <2>0 DEF Read
  <2> HIDE DEF page
  <2>3. Len(list) \in Nat
    BY LenProperties DEF IInv, TypeOK
  <2>4. ReadBefore'
    <3> SUFFICES ASSUME ~removed, NEW k \in 1 .. Len(list), list[k] \in start,
                        cursor' = None \/ k <= cursor'
                 PROVE  list[k] \in seen'
      BY <1>1 DEF ReadBefore
    <3>1. CASE k <= cursor
      BY <1>4, <2>2, <3>1 DEF IInv, ReadBefore
    <3>2. CASE ~(k <= cursor)
      <4>1. k <= to
        BY <2>1, <2>3, LimitsAssumption
      <4>2. list[k] \in page
        BY <1>1, <2>1, <3>2, <4>1
      <4>3. QED
        BY <2>2, <4>2
    <3>3. QED
      BY <3>1, <3>2
  <2>5. ASSUME ~added, NEW k \in 1 .. Len(list), list[k] \in page
        PROVE  cursor < k /\ k <= to /\ list[k] \notin seen
    <3>1. PICK j \in 1 .. Len(list) : cursor < j /\ j <= to /\ list[k] = list[j]
      BY <2>1, <2>5
    <3>2. j = k
      BY <3>1 DEF IInv, Distinct
    <3>3. QED
      BY <1>1, <1>4, <2>5, <3>1, <3>2 DEF IInv, UnreadBeyond
  <2>6. UnreadBeyond'
    <3> SUFFICES ASSUME ~added, NEW k \in 1 .. Len(list), list[k] \in seen', cursor' # None
                 PROVE  k <= cursor'
      BY <1>1 DEF UnreadBeyond
    <3>1. cursor' = to
      BY <2>1
    <3>2. CASE list[k] \in seen
      <4>1. k <= cursor
        BY <1>1, <1>4, <3>2 DEF IInv, UnreadBeyond
      <4>2. QED
        BY <1>1, <2>1, <3>1, <4>1
    <3>3. CASE list[k] \in page
      BY <2>5, <3>1, <3>3
    <3>4. QED
      BY <2>2, <3>2, <3>3
  <2>7. NoRepeats'
    <3>1. ASSUME ~added PROVE seen \cap page = {}
      <4>1. \A r \in page : \E k \in 1 .. Len(list) : r = list[k]
        BY <2>1
      <4>2. QED
        BY <2>5, <3>1, <4>1
    <3>2. repeated => added
      BY <1>4 DEF IInv, NoRepeats
    <3>3. QED
      BY <1>1, <2>2, <3>1, <3>2 DEF NoRepeats
  <2>8. cursor' # 0
    <3>1. to # 0 /\ None # 0
      BY <1>1, <2>1, LimitsAssumption
    <3>2. QED
      BY <2>1, <3>1
  <2>9. Aligned'
    <3> SUFFICES ASSUME style' = "pages", cursor' # None, NEW m \in PagesLimits
                 PROVE  (cursor' \div Clamp(m)) * Clamp(m) = cursor'
      BY DEF Aligned
    <3>1. Clamp(m) = Clamp(l) /\ cursor' = cursor + Clamp(l)
      BY <1>0, <1>1, <1>4, <2>1 DEF InStep, OneSize
    <3>2. (cursor \div Clamp(l)) * Clamp(l) = cursor
      BY <1>1, <2>0
    <3>3. QED
      BY <1>0, <1>1, <3>1, <3>2, NextPageBegins
  <2>10. QED
    BY <2>4, <2>6, <2>7, <2>8, <2>9
<1>5. StillThere'
  BY <1>1 DEF IInv, StillThere
<1>6. QED
  BY <1>1, <1>3, <1>4, <1>5 DEF IInv, InStep, Distinct

-----------------------------------------------------------------------------
THEOREM Invariance == Spec => []IInv
<1>1. IInv /\ [Next]_vars => IInv'
  <2> SUFFICES ASSUME IInv, [Next]_vars PROVE IInv'
    OBVIOUS
  <2>1. CASE UNCHANGED vars
    BY <2>1 DEF vars, IInv, TypeOK, InStep, Distinct, StillThere, Aligned,
                 ReadBefore, UnreadBeyond, NoRepeats
  <2>2. CASE Next
    BY <2>2, FirstStep, NextStep, AddStep, RemoveStep DEF Next, UsedLimits
  <2>3. QED
    BY <2>1, <2>2
<1>2. QED
  BY <1>1, InitIInv, PTL DEF Spec

\* Every variable keeps its type.
THEOREM TypeCorrect == Spec => []TypeOK
<1>1. IInv => TypeOK
  BY DEF IInv
<1>2. QED
  BY <1>1, Invariance, PTL

\* A list that is read by offset, or by page number with one page size, is complete
\* once there is no next cursor, for any limits passed on the way and any rows added
\* in front.
THEOREM CompleteInStep == Spec => [](InStep => Complete)
<1>1. ASSUME IInv, InStep, cursor = None, ~removed PROVE start \cap RowsOf(list) \subseteq seen
  BY <1>1 DEF IInv, ReadBefore, RowsOf
<1>2. IInv => (InStep => Complete)
  BY <1>1 DEF Complete
<1>3. QED
  BY <1>2, Invariance, PTL

\* And it gives no row twice unless rows were added.
THEOREM NoRepeatsInStep == Spec => [](InStep => NoRepeats)
<1>1. IInv => (InStep => NoRepeats)
  BY DEF IInv
<1>2. QED
  BY <1>1, Invariance, PTL

\* With one page size for what is read by page number, both hold of every list.
THEOREM OneSizeIsEnough ==
  ASSUME OneSize
  PROVE  Spec => [](Complete /\ NoRepeats)
<1>1. InStep
  BY OneSize DEF InStep
<1>2. Spec => [](InStep => Complete) /\ [](InStep => NoRepeats)
  BY CompleteInStep, NoRepeatsInStep
<1>3. QED
  BY <1>1, <1>2, PTL

\* What was there when reading began has all been given once there is no next cursor,
\* if nothing was taken away meanwhile.  It is only lists served by page number, with
\* limits that differ, of which this fails although nothing changes.
THEOREM UnchangedInStep == Spec => [](InStep => CompleteIfUnchanged)
<1>1. IInv => (InStep => CompleteIfUnchanged)
  BY DEF IInv, ReadBefore, StillThere, RowsOf, CompleteIfUnchanged
<1>2. QED
  BY <1>1, Invariance, PTL

\* Every page that has a successor moves the cursor on, however the list is read and
\* whatever limits are passed: a page is empty only beyond the end of the list.
LEMMA CursorAdvances ==
  ASSUME TypeOK, NEW l \in Limits, NextPage(l)
  PROVE  cursor' = None \/ cursor' > cursor
<1> DEFINE size == Clamp(l)
           base == (cursor \div size) * size
<1>1. size \in Nat \ {0} /\ cursor \in Nat /\ Len(list) \in Nat
  BY ClampPositive, LenProperties DEF NextPage, TypeOK
<1>2. cursor' = NextCursor(cursor, size)
  BY DEF NextPage, Read
<1> HIDE DEF size
<1>3. base \in Nat /\ base <= cursor
  <2>1. \A a \in Nat, b \in Nat \ {0} : (a \div b) * b <= a
    OBVIOUS
  <2>2. cursor \div size \in Nat
    BY <1>1
  <2>3. (cursor \div size) * size \in Nat
    BY <1>1, <2>2
  <2>4. QED
    BY <1>1, <2>1, <2>3
<1> HIDE DEF base
<1>4. ASSUME NEW from \in Nat, from <= cursor,
             cursor + Len(Slice(from, size)) < Len(list)
      PROVE  cursor + Len(Slice(from, size)) > cursor
  <2>1. Len(Slice(from, size)) = IF from + size <= Len(list) THEN size
                                 ELSE IF from <= Len(list) THEN Len(list) - from ELSE 0
    BY <1>1, SliceRows
  <2>2. QED
    BY <1>1, <1>4, <2>1
<1>5. PageRows(cursor, size) = Slice(base, size) \/ PageRows(cursor, size) = Slice(cursor, size)
  BY DEF PageRows, base
<1>6. CASE style = "extra"
  BY <1>1, <1>2, <1>6 DEF NextCursor
<1>7. CASE style # "extra"
  <2>1. cursor' = IF cursor + Len(PageRows(cursor, size)) < Len(list)
                  THEN cursor + Len(PageRows(cursor, size)) ELSE None
    BY <1>2, <1>7 DEF NextCursor
  <2>2. QED
    BY <1>1, <1>3, <1>4, <1>5, <2>1
<1>8. QED
  BY <1>6, <1>7

\* So reading a list comes to its end unless rows keep being added.
THEOREM ReadingAdvances == Spec => Advances
<1>1. TypeOK /\ [Next]_vars =>
        [\A limit \in Limits : NextPage(limit) => cursor' = None \/ cursor' > cursor]_vars
  BY CursorAdvances
<1>2. QED
  BY <1>1, TypeCorrect, PTL DEF Spec, Advances
=============================================================================
