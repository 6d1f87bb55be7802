------------------------- MODULE RoomSummaryProofs -------------------------
(***************************************************************************)
(* Proofs about RoomSummary, for any sizes of blocks and batches and any   *)
(* bounds.  What is said of the table is said of any table, so that it can *)
(* be used of the one before a step and of the one after.                  *)
(***************************************************************************)
EXTENDS RoomSummary, FiniteSetTheorems, TLAPS

-----------------------------------------------------------------------------
(* The largest and the smallest of a finite set. *)

\* A finite set has an element with the largest key: the sets of the elements
\* above each of its elements have a minimal one, and that one is empty.
LEMMA LargestExists ==
    ASSUME NEW S, IsFiniteSet(S), S # {}, NEW key \in [S -> Nat]
    PROVE  \E x \in S : \A y \in S : key[y] <= key[x]
<1> DEFINE Above(x) == {y \in S : key[x] < key[y]}
           all == {Above(x) : x \in S}
<1>1. IsWellFoundedOn(StrictSubsetOrdering(S), SUBSET S)
  BY FS_StrictSubsetOrderingWellFounded, FS_FiniteSubsetsOfFinite
<1>2. all \subseteq SUBSET S /\ all # {}
  <2>1. PICK s : s \in S
    OBVIOUS
  <2>2. Above(s) \in all
    BY <2>1
  <2> QED
    BY <2>2
<1>3. PICK U \in all : \A V \in all : <<V, U>> \notin StrictSubsetOrdering(S)
  <2> HIDE DEF all
  <2> QED
    BY <1>1, <1>2, WFMin
<1>4. PICK x \in S : U = Above(x)
  BY <1>3
<1>5. ASSUME NEW y \in S, key[x] < key[y] PROVE FALSE
  <2>1. Above(y) \in all /\ Above(y) \subseteq S /\ Above(x) \subseteq S
    BY <1>5
  <2>2. Above(y) \subseteq Above(x)
    BY <1>5
  <2>3. y \in Above(x) /\ y \notin Above(y)
    BY <1>5
  <2>4. <<Above(y), Above(x)>> \in StrictSubsetOrdering(S)
    <3> HIDE DEF Above
    <3> QED
      BY <2>1, <2>2, <2>3 DEF StrictSubsetOrdering
  <2> QED
    BY <1>3, <1>4, <2>1, <2>4
<1> QED
  BY <1>5

\* Likewise one with the smallest key.
LEMMA SmallestExists ==
    ASSUME NEW S, IsFiniteSet(S), S # {}, NEW key \in [S -> Nat]
    PROVE  \E x \in S : \A y \in S : key[x] <= key[y]
<1>1. PICK m \in S : \A y \in S : key[y] <= key[m]
  BY LargestExists
<1> DEFINE less == [y \in S |-> key[m] - key[y]]
<1>2. less \in [S -> Nat]
  BY <1>1
<1>3. PICK x \in S : \A y \in S : less[y] <= less[x]
  <2> HIDE DEF less
  <2> QED
    BY <1>2, LargestExists
<1>4. \A y \in S : key[x] <= key[y]
  BY <1>1, <1>3
<1> QED
  BY <1>4

-----------------------------------------------------------------------------
(* Multiples of the block: where cursors are. *)

Multiple(c) == \E k \in Nat : c = k * Block

LEMMA Multiples ==
    /\ Multiple(0)
    /\ \A c \in Nat : Multiple(c) => Multiple(c + Block)
    /\ \A c, d \in Nat : Multiple(c) /\ Multiple(d) /\ c < d => c + Block <= d
<1> Block \in Nat \ {0}
  BY SummaryAssumption
<1>1. Multiple(0)
  <2>1. 0 = 0 * Block
    OBVIOUS
  <2> QED
    BY <2>1 DEF Multiple
<1>2. ASSUME NEW c \in Nat, Multiple(c) PROVE Multiple(c + Block)
  <2>1. PICK k \in Nat : c = k * Block
    BY <1>2 DEF Multiple
  <2>2. c + Block = (k + 1) * Block /\ k + 1 \in Nat
    BY <2>1
  <2> QED
    BY <2>2 DEF Multiple
<1>3. ASSUME NEW c \in Nat, NEW d \in Nat, Multiple(c), Multiple(d), c < d
      PROVE  c + Block <= d
  <2>1. PICK k \in Nat : c = k * Block
    BY <1>3 DEF Multiple
  <2>2. PICK l \in Nat : d = l * Block
    BY <1>3 DEF Multiple
  <2>3. CASE l <= k
    <3>1. PICK i \in Nat : k = l + i
      BY <2>3, k - l \in Nat, k = l + (k - l)
    <3>2. c = l * Block + i * Block /\ i * Block \in Nat /\ l * Block \in Nat
      BY <2>1, <3>1
    <3> QED
      BY <1>3, <2>2, <3>2
  <2>4. CASE k + 1 <= l
    <3>1. PICK i \in Nat : l = k + 1 + i
      BY <2>4, l - (k + 1) \in Nat, l = k + 1 + (l - (k + 1))
    <3>2. d = k * Block + Block + i * Block /\ i * Block \in Nat /\ k * Block \in Nat
      BY <2>2, <3>1
    <3> QED
      BY <2>1, <3>2
  <2> QED
    BY <2>3, <2>4
<1> QED
  BY <1>1, <1>2, <1>3

-----------------------------------------------------------------------------
(* Tables.                                                                     *)

\* A block lies on a multiple of Block.
OnGrid(r) ==
    /\ r.level = 1
    /\ \E c \in Nat : Multiple(c) /\ r.start = c + 1 /\ r.end = c + Block

\* Rows have numbers of their own, blocks places of their own on the grid, and
\* what is marked was consolidated by the row that the mark names.
Taken(table) ==
    \A r \in L1(table) : r.rolled # 0 =>
        \E q \in L2(table) :
            q.id = r.rolled /\ r.id \in q.of /\ q.start <= r.start /\ r.end <= q.end
Table(table) ==
    /\ table \subseteq Row
    /\ IsFiniteSet(table)
    /\ \A r, q \in table : r.id = q.id => r = q
    /\ \A r \in L1(table) : OnGrid(r)
    /\ \A r, q \in L1(table) : r.start = q.start => r = q
    /\ Taken(table)

\* A batch that waits for its rollup: of blocks whose rows, if they still are in
\* the table, are where they were, and whose numbers are not given again.
GoodBatch(batch, table) ==
    /\ batch \subseteq Row
    /\ IsFiniteSet(batch)
    /\ batch # {}
    /\ \A b \in batch :
          /\ OnGrid(b)
          /\ \A q \in table : q.id = b.id => q.level = 1 /\ q.start = b.start /\ q.end = b.end
          /\ \E q \in table : b.id <= q.id

LEMMA RowFields ==
    ASSUME NEW r \in Row
    PROVE  /\ r.id \in Nat \ {0} /\ r.level \in {1, 2} /\ r.start \in Nat /\ r.end \in Nat
           /\ r.lines \in SUBSET (1..MaxLines) /\ r.of \in SUBSET Nat /\ r.rolled \in Nat
  BY DEF Row

\* The cursor is the end of the last block, or 0.
LEMMA LastLineIsLast ==
    ASSUME NEW table, table \subseteq Row, IsFiniteSet(table)
    PROVE  /\ LastLine(table) \in Nat
           /\ \A r \in L1(table) : r.end <= LastLine(table)
           /\ LastLine(table) = 0 \/ \E r \in L1(table) : LastLine(table) = r.end
<1> DEFINE ends == {0} \cup {r.end : r \in L1(table)}
           best(e) == e \in ends /\ \A f \in ends : f <= e
<1>1. /\ \A r \in L1(table) : r.end \in Nat
      /\ ends \subseteq Nat
  BY RowFields DEF L1
<1>2. \E e \in ends : best(e)
  <2>1. CASE L1(table) = {}
    <3>1. ends = {0}
      BY <2>1
    <3> QED
      BY <3>1
  <2>2. CASE L1(table) # {}
    <3> DEFINE key == [r \in L1(table) |-> r.end]
    <3>1. IsFiniteSet(L1(table)) /\ key \in [L1(table) -> Nat]
      BY <1>1, FS_Subset DEF L1
    <3>2. PICK r \in L1(table) : \A q \in L1(table) : key[q] <= key[r]
      <4> HIDE DEF key
      <4> QED
        BY <2>2, <3>1, LargestExists
    <3>3. \A q \in L1(table) : q.end <= r.end
      BY <3>2
    <3>4. best(r.end)
      BY <1>1, <3>3
    <3> QED
      BY <3>4
  <2> QED
    BY <2>1, <2>2
<1>3. LastLine(table) \in ends /\ \A f \in ends : f <= LastLine(table)
  <2>1. LastLine(table) = CHOOSE e \in ends : \A f \in ends : f <= e
    BY DEF LastLine
  <2> HIDE DEF ends
  <2> QED
    BY <1>2, <2>1
<1> QED
  BY <1>1, <1>3

\* The number of a new row is that of no other.
LEMMA NextIdIsNew ==
    ASSUME NEW table, table \subseteq Row, IsFiniteSet(table)
    PROVE  /\ NextId(table) \in Nat \ {0}
           /\ \A r \in table : r.id < NextId(table)
<1> DEFINE ids == {0} \cup {r.id : r \in table}
           top == CHOOSE i \in ids : \A j \in ids : j <= i
<1>1. /\ \A r \in table : r.id \in Nat
      /\ ids \subseteq Nat
  BY RowFields
<1>2. \E i \in ids : \A j \in ids : j <= i
  <2>1. CASE table = {}
    <3>1. ids = {0}
      BY <2>1
    <3> QED
      BY <3>1
  <2>2. CASE table # {}
    <3> DEFINE key == [r \in table |-> r.id]
    <3>1. key \in [table -> Nat]
      BY <1>1
    <3>2. PICK r \in table : \A q \in table : key[q] <= key[r]
      <4> HIDE DEF key
      <4> QED
        BY <2>2, <3>1, LargestExists
    <3>3. \A q \in table : q.id <= r.id
      BY <3>2
    <3>4. r.id \in ids /\ \A j \in ids : j <= r.id
      BY <1>1, <3>3
    <3> QED
      BY <3>4
  <2> QED
    BY <2>1, <2>2
<1>3. top \in ids /\ \A j \in ids : j <= top
  <2> HIDE DEF ids
  <2> QED
    BY <1>2
<1>4. NextId(table) = 1 + top
  BY DEF NextId
<1>5. top \in Nat
  BY <1>1, <1>3
<1>6. \A r \in table : r.id <= top
  BY <1>3
<1> QED
  <2> HIDE DEF top
  <2> QED
    BY <1>1, <1>4, <1>5, <1>6

\* The cursor is on the grid.
LEMMA LastLineOnGrid ==
    ASSUME NEW table, Table(table)
    PROVE  LastLine(table) \in Nat /\ Multiple(LastLine(table))
<1> Block \in Nat \ {0}
  BY SummaryAssumption
<1>1. /\ LastLine(table) \in Nat
      /\ LastLine(table) = 0 \/ \E r \in L1(table) : LastLine(table) = r.end
  BY LastLineIsLast DEF Table
<1>2. \A r \in L1(table) : Multiple(r.end)
  BY Multiples DEF Table, OnGrid
<1> QED
  BY <1>1, <1>2, Multiples

\* What is due for a rollup is a batch.
LEMMA FirstUnrolledIsBatch ==
    ASSUME NEW table, Table(table), RollupDue(table)
    PROVE  GoodBatch(FirstUnrolled(table), table)
<1> DEFINE open == Unrolled(table)
           batch == FirstUnrolled(table)
           key == [r \in open |-> r.start]
<1>1. /\ batch \subseteq open /\ open \subseteq L1(table) /\ open \subseteq table
      /\ IsFiniteSet(open) /\ IsFiniteSet(batch)
  <2>1. batch \subseteq open /\ open \subseteq L1(table) /\ open \subseteq table
    BY DEF FirstUnrolled, Unrolled, L1
  <2>2. IsFiniteSet(open)
    BY <2>1, FS_Subset DEF Table
  <2> QED
    BY <2>1, <2>2, FS_Subset
<1>2. open # {}
  <2>1. Cardinality(open) >= Batch /\ Batch \in Nat \ {0}
    BY SummaryAssumption DEF RollupDue
  <2>2. Cardinality({}) = 0
    BY FS_EmptySet
  <2> HIDE DEF open
  <2> QED
    BY <2>1, <2>2
<1>3. key \in [open -> Nat]
  BY <1>1, RowFields DEF Table
<1>4. PICK first \in open : \A q \in open : key[first] <= key[q]
  <2> HIDE DEF open, key
  <2> QED
    BY <1>1, <1>2, <1>3, SmallestExists
<1>5. {q \in open : q.start < first.start} = {}
  <2>1. \A q \in open : first.start <= q.start
    BY <1>4
  <2>2. \A q \in open : q.start \in Nat
    BY <1>1, RowFields DEF Table
  <2> QED
    BY <2>1, <2>2
<1>6. first \in batch
  <2>1. Cardinality({q \in open : q.start < first.start}) = 0
    BY <1>5, FS_EmptySet
  <2> QED
    BY <2>1, SummaryAssumption DEF FirstUnrolled
<1>7. \A b \in batch : b \in table /\ b \in L1(table) /\ b \in Row
  BY <1>1 DEF Table
<1>8. ASSUME NEW b \in batch
      PROVE  /\ OnGrid(b)
             /\ \A q \in table : q.id = b.id => q.level = 1 /\ q.start = b.start /\ q.end = b.end
             /\ \E q \in table : b.id <= q.id
  <2>1. OnGrid(b)
    BY <1>7 DEF Table
  <2>2. \A q \in table : q.id = b.id => q = b
    BY <1>7 DEF Table
  <2>3. b.level = 1 /\ b.id <= b.id
    BY <1>7, RowFields DEF L1
  <2> QED
    BY <1>7, <2>1, <2>2, <2>3
<1>9. batch \subseteq Row /\ batch # {}
  BY <1>6, <1>7
<1> QED
  BY <1>1, <1>8, <1>9 DEF GoodBatch

-----------------------------------------------------------------------------
(* What the two writes do to a table.                                          *)

\* A table that replaces another: it is one, batches stay good, the cursor does
\* not go back, and what was shown is shown.
Follows(new, table) ==
    /\ Table(new)
    /\ \A batch : GoodBatch(batch, table) => GoodBatch(batch, new)
    /\ LastLine(table) <= LastLine(new)
    /\ ShownLines(table) \subseteq ShownLines(new)

\* A table with the same blocks at least, and every block shown that was.
LEMMA FollowsWhen ==
    ASSUME NEW table, Table(table), NEW new, Table(new),
           \A r \in L1(table) : \E q \in L1(new) : q.start = r.start /\ q.end = r.end,
           \A r \in Shown(table) :
               \E q \in Shown(new) : q.start <= r.start /\ r.end <= q.end
    PROVE  /\ LastLine(table) <= LastLine(new)
           /\ ShownLines(table) \subseteq ShownLines(new)
<1>1. /\ LastLine(table) \in Nat /\ LastLine(new) \in Nat
      /\ \A q \in L1(new) : q.end <= LastLine(new)
      /\ LastLine(table) = 0 \/ \E r \in L1(table) : LastLine(table) = r.end
  BY LastLineIsLast DEF Table
<1>2. LastLine(table) <= LastLine(new)
  <2>1. CASE LastLine(table) = 0
    BY <1>1, <2>1
  <2>2. CASE \E r \in L1(table) : LastLine(table) = r.end
    BY <1>1, <2>2
  <2> QED
    BY <1>1, <2>1, <2>2
<1>3. ASSUME NEW i \in ShownLines(table) PROVE i \in ShownLines(new)
  <2>1. PICK r \in Shown(table) : i \in r.start..r.end
    BY DEF ShownLines
  <2>2. PICK q \in Shown(new) : q.start <= r.start /\ r.end <= q.end
    OBVIOUS
  <2>3. r \in Row /\ q \in Row
    BY DEF Table, Shown, Unrolled, L1, L2
  <2>4. i \in q.start..q.end
    BY <2>1, <2>2, <2>3, RowFields
  <2> QED
    BY <2>4 DEF ShownLines
<1> QED
  BY <1>2, <1>3

\* A promise that waits with a block: where it is and what it is about.
Holds(r) ==
    /\ r.cursor \in Nat /\ Multiple(r.cursor)
    /\ r.slice \in SUBSET (1..MaxLines)

\* The insertion of a block.
LEMMA UpsertFollows ==
    ASSUME NEW table, Table(table), NEW r, Holds(r)
    PROVE  Follows(Upsert(BlockRow(r, table), table), table)
<1> DEFINE row == BlockRow(r, table)
           new == Upsert(row, table)
<1> Block \in Nat \ {0}
  BY SummaryAssumption
<1>1. /\ NextId(table) \in Nat \ {0}
      /\ \A q \in table : q.id < NextId(table)
  BY NextIdIsNew DEF Table
<1>2. /\ row.id = NextId(table) /\ row.level = 1 /\ row.start = r.cursor + 1
      /\ row.end = r.cursor + Block /\ row.rolled = 0
      /\ row \in Row
  BY <1>1 DEF BlockRow, Row, Holds
<1>3. OnGrid(row)
  BY <1>2 DEF OnGrid, Holds
<1>4. \A q : q \in new <=> q = row \/ (q \in table /\ (q.level # 1 \/ q.start # row.start))
  BY <1>2 DEF Upsert
<1> HIDE DEF row, new
<1>5. new \subseteq Row
  BY <1>2, <1>4 DEF Table
<1>6. IsFiniteSet(new)
  <2>1. new \subseteq table \cup {row}
    BY <1>4
  <2>2. IsFiniteSet(table \cup {row})
    BY FS_AddElement DEF Table
  <2> QED
    BY <2>1, <2>2, FS_Subset
<1>7. ASSUME NEW p \in new, NEW q \in new, p.id = q.id PROVE p = q
  <2>1. p \in table /\ q \in table => p = q
    BY <1>7 DEF Table
  <2>2. \A o \in table : o.id # row.id
    BY <1>1, <1>2, RowFields DEF Table
  <2> QED
    BY <1>4, <1>7, <2>1, <2>2
<1>8. L1(new) = {q \in L1(table) : q.start # row.start} \cup {row}
  BY <1>2, <1>4 DEF L1
<1>9. L2(new) = L2(table)
  BY <1>2, <1>4 DEF L1, L2
<1>10. \A q \in L1(new) : OnGrid(q)
  BY <1>3, <1>8 DEF Table
<1>11. \A p, q \in L1(new) : p.start = q.start => p = q
  BY <1>8 DEF Table
<1>12. Taken(new)
  BY <1>2, <1>8, <1>9 DEF Table, Taken
<1>13. Table(new)
  BY <1>5, <1>6, <1>7, <1>10, <1>11, <1>12 DEF Table
<1>14. ASSUME NEW batch, GoodBatch(batch, table) PROVE GoodBatch(batch, new)
  <2> SUFFICES ASSUME NEW b \in batch
               PROVE  /\ \A q \in new : q.id = b.id =>
                             q.level = 1 /\ q.start = b.start /\ q.end = b.end
                      /\ \E q \in new : b.id <= q.id
    BY <1>14 DEF GoodBatch
  <2>1. b \in Row
    BY <1>14 DEF GoodBatch
  <2>2. PICK o \in table : b.id <= o.id
    BY <1>14 DEF GoodBatch
  <2>3. b.id < row.id
    <3>1. o.id \in Nat /\ b.id \in Nat /\ row.id \in Nat /\ o.id < row.id
      BY <1>1, <1>2, <2>1, RowFields DEF Table
    <3> QED
      BY <2>2, <3>1
  <2>4. \A q \in table : q.id = b.id => q.level = 1 /\ q.start = b.start /\ q.end = b.end
    BY <1>14 DEF GoodBatch
  <2>5. row.id # b.id /\ b.id <= row.id
    BY <1>1, <1>2, <2>1, <2>3, RowFields
  <2>6. row \in new
    BY <1>4
  <2> QED
    BY <1>4, <2>4, <2>5, <2>6
<1>15. \A p \in L1(table) : p.start = row.start => p.end = row.end
  <2> SUFFICES ASSUME NEW p \in L1(table), p.start = row.start PROVE p.end = row.end
    OBVIOUS
  <2>1. PICK c \in Nat : p.start = c + 1 /\ p.end = c + Block
    BY DEF Table, OnGrid
  <2> QED
    BY <1>2, <2>1 DEF Holds
<1>16. \A p \in L1(table) : \E q \in L1(new) : q.start = p.start /\ q.end = p.end
  BY <1>8, <1>15
<1>17. ASSUME NEW p \in Shown(table)
       PROVE  \E q \in Shown(new) : q.start <= p.start /\ p.end <= q.end
  <2>1. p \in Row /\ p.start <= p.start /\ p.end <= p.end
    BY RowFields DEF Table, Shown, Unrolled, L1, L2
  <2>2. CASE p \in L2(table)
    BY <1>9, <2>1, <2>2 DEF Shown
  <2>3. CASE p \in Unrolled(table) /\ p.start # row.start
    <3>1. p \in Unrolled(new)
      BY <1>8, <2>3 DEF Unrolled
    <3> QED
      BY <2>1, <3>1 DEF Shown
  <2>4. CASE p \in Unrolled(table) /\ p.start = row.start
    <3>1. row \in Unrolled(new)
      BY <1>2, <1>8 DEF Unrolled
    <3>2. p.end = row.end
      BY <1>15, <2>4 DEF Unrolled
    <3> QED
      BY <2>1, <2>4, <3>1, <3>2 DEF Shown
  <2> QED
    BY <2>2, <2>3, <2>4 DEF Shown
<1>18. LastLine(table) <= LastLine(new) /\ ShownLines(table) \subseteq ShownLines(new)
  BY <1>13, <1>16, <1>17, FollowsWhen
<1> QED
  BY <1>13, <1>14, <1>18 DEF Follows, new, row

\* A rollup's row covers its batch and names it.
LEMMA RollupCovers ==
    ASSUME NEW table, Table(table), NEW batch, GoodBatch(batch, table)
    PROVE  LET row == RollupRow(batch, table)
           IN  /\ row \in Row /\ row.id = NextId(table) /\ row.level = 2 /\ row.rolled = 0
               /\ row.of = {b.id : b \in batch}
               /\ \A b \in batch : row.start <= b.start /\ b.end <= row.end
<1> DEFINE first == CHOOSE b \in batch : \A q \in batch : b.start <= q.start
           last == CHOOSE b \in batch : \A q \in batch : q.start <= b.start
           key == [b \in batch |-> b.start]
           row == RollupRow(batch, table)
<1> Block \in Nat \ {0}
  BY SummaryAssumption
<1>1. /\ batch \subseteq Row /\ IsFiniteSet(batch) /\ batch # {}
      /\ \A b \in batch : OnGrid(b)
  BY DEF GoodBatch
<1>2. \A b \in batch : b.start \in Nat /\ b.end \in Nat
  BY <1>1, RowFields
<1>3. key \in [batch -> Nat]
  BY <1>2
<1>4. first \in batch /\ \A q \in batch : first.start <= q.start
  <2>1. \E b \in batch : \A q \in batch : key[b] <= key[q]
    <3> HIDE DEF key
    <3> QED
      BY <1>1, <1>3, SmallestExists
  <2>2. \E b \in batch : \A q \in batch : b.start <= q.start
    BY <2>1
  <2> QED
    BY <2>2
<1>5. last \in batch /\ \A q \in batch : q.start <= last.start
  <2>1. \E b \in batch : \A q \in batch : key[q] <= key[b]
    <3> HIDE DEF key
    <3> QED
      BY <1>1, <1>3, LargestExists
  <2>2. \E b \in batch : \A q \in batch : q.start <= b.start
    BY <2>1
  <2> QED
    BY <2>2
<1>6. /\ row.start = first.start /\ row.end = last.end /\ row.id = NextId(table)
      /\ row.level = 2 /\ row.rolled = 0 /\ row.of = {b.id : b \in batch}
      /\ row.lines = UNION {b.lines : b \in batch}
      /\ row = [id |-> NextId(table), level |-> 2, start |-> first.start, end |-> last.end,
                lines |-> UNION {b.lines : b \in batch}, of |-> {b.id : b \in batch},
                rolled |-> 0]
  BY DEF RollupRow
<1> HIDE DEF first, last
<1>7. row \in Row
  <2>1. NextId(table) \in Nat \ {0}
    BY NextIdIsNew DEF Table
  <2>2. UNION {b.lines : b \in batch} \in SUBSET (1..MaxLines)
    BY <1>1, RowFields
  <2>3. {b.id : b \in batch} \in SUBSET Nat
    BY <1>1, RowFields
  <2>4. first.start \in Nat /\ last.end \in Nat
    BY <1>2, <1>4, <1>5
  <2> QED
    BY <1>6, <2>1, <2>2, <2>3, <2>4 DEF Row
<1>8. ASSUME NEW b \in batch PROVE b.end <= last.end
  <2>1. PICK c \in Nat : b.start = c + 1 /\ b.end = c + Block
    BY <1>1 DEF OnGrid
  <2>2. PICK d \in Nat : last.start = d + 1 /\ last.end = d + Block
    BY <1>1, <1>5 DEF OnGrid
  <2>3. b.start <= last.start
    BY <1>5
  <2> QED
    BY <2>1, <2>2, <2>3
<1>9. \A b \in batch : row.start <= b.start /\ b.end <= row.end
  BY <1>4, <1>6, <1>8
<1> QED
  BY <1>6, <1>7, <1>9

\* The transaction of a rollup.
LEMMA ConsolidateFollows ==
    ASSUME NEW table, Table(table), NEW batch, GoodBatch(batch, table)
    PROVE  Follows(Consolidate(RollupRow(batch, table), table), table)
<1> DEFINE row == RollupRow(batch, table)
           new == Consolidate(row, table)
           mark(q) == IF q.id \in row.of THEN [q EXCEPT !.rolled = row.id] ELSE q
<1>1. /\ row \in Row /\ row.id = NextId(table) /\ row.level = 2 /\ row.rolled = 0
      /\ row.of = {b.id : b \in batch}
      /\ \A b \in batch : row.start <= b.start /\ b.end <= row.end
  BY RollupCovers
<1>2. /\ NextId(table) \in Nat \ {0}
      /\ \A q \in table : q.id < NextId(table)
  BY NextIdIsNew DEF Table
<1>3. \A p : p \in new <=> p = row \/ \E q \in table : p = mark(q)
  BY DEF Consolidate
<1> HIDE DEF row, new
<1>4. ASSUME NEW q \in table
      PROVE  /\ mark(q) \in Row
             /\ mark(q).id = q.id /\ mark(q).level = q.level /\ mark(q).start = q.start
             /\ mark(q).end = q.end /\ mark(q).of = q.of
             /\ q.id \in row.of => mark(q).rolled = row.id
             /\ q.id \notin row.of => mark(q) = q
  <2>1. q \in Row
    BY DEF Table
  <2> QED
    BY <1>1, <2>1 DEF Row
<1> HIDE DEF mark
<1>5. \A q \in table : q.id # row.id
  BY <1>1, <1>2, RowFields DEF Table
<1>6. new \subseteq Row
  BY <1>1, <1>3, <1>4
<1>7. IsFiniteSet(new)
  <2> DEFINE marked == {mark(q) : q \in table}
             f == [q \in table |-> mark(q)]
  <2>1. f \in Surjection(table, marked)
    BY DEF Surjection
  <2>2. IsFiniteSet(marked)
    <3> HIDE DEF f, marked
    <3> QED
      BY <2>1, FS_Surjection DEF Table
  <2>3. new = marked \cup {row}
    BY <1>3
  <2> QED
    BY <2>2, <2>3, FS_AddElement
<1>8. ASSUME NEW p \in new, NEW q \in new, p.id = q.id PROVE p = q
  <2>1. CASE p = row \/ q = row
    BY <1>3, <1>4, <1>5, <1>8, <2>1
  <2>2. CASE p # row /\ q # row
    <3>1. PICK o \in table : p = mark(o)
      BY <1>3, <2>2
    <3>2. PICK t \in table : q = mark(t)
      BY <1>3, <2>2
    <3>3. o.id = t.id
      BY <1>4, <1>8, <3>1, <3>2
    <3> QED
      BY <3>1, <3>2, <3>3 DEF Table
  <2> QED
    BY <2>1, <2>2
<1>9. \A p : p \in L1(new) <=> \E q \in L1(table) : p = mark(q)
  BY <1>1, <1>3, <1>4 DEF L1
<1>10. \A q \in L2(table) : q.id \notin row.of
  <2> SUFFICES ASSUME NEW q \in L2(table), NEW b \in batch, q.id = b.id PROVE FALSE
    BY <1>1
  <2> QED
    BY DEF GoodBatch, L2
<1>11. L2(new) = L2(table) \cup {row}
  BY <1>1, <1>3, <1>4, <1>10 DEF L2
<1>12. ASSUME NEW p \in L1(new) PROVE OnGrid(p)
  <2>1. PICK q \in L1(table) : p = mark(q)
    BY <1>9
  <2>2. OnGrid(q) /\ q \in table
    BY DEF Table, L1
  <2> QED
    BY <1>4, <2>1, <2>2 DEF OnGrid
<1>13. ASSUME NEW p \in L1(new), NEW q \in L1(new), p.start = q.start PROVE p = q
  <2>1. PICK o \in L1(table) : p = mark(o)
    BY <1>9
  <2>2. PICK t \in L1(table) : q = mark(t)
    BY <1>9
  <2>3. o \in table /\ t \in table
    BY DEF L1
  <2>4. o.start = t.start
    BY <1>4, <1>13, <2>1, <2>2, <2>3
  <2> QED
    BY <2>1, <2>2, <2>4 DEF Table
<1>14. ASSUME NEW q \in L1(table), q.id \in row.of
       PROVE  row.start <= q.start /\ q.end <= row.end
  <2>1. PICK b \in batch : q.id = b.id
    BY <1>1, <1>14
  <2>2. q \in table
    BY DEF L1
  <2>3. q.start = b.start /\ q.end = b.end
    BY <2>1, <2>2 DEF GoodBatch
  <2> QED
    BY <1>1, <2>3
<1>15. Taken(new)
  <2> SUFFICES ASSUME NEW p \in L1(new), p.rolled # 0
               PROVE  \E q \in L2(new) : /\ q.id = p.rolled /\ p.id \in q.of
                                         /\ q.start <= p.start /\ p.end <= q.end
    BY DEF Taken
  <2>1. PICK o \in L1(table) : p = mark(o)
    BY <1>9
  <2>2. o \in table
    BY DEF L1
  <2>3. CASE o.id \in row.of
    <3>1. p.rolled = row.id /\ p.id = o.id /\ p.start = o.start /\ p.end = o.end
      BY <1>4, <2>1, <2>2, <2>3
    <3> QED
      BY <1>11, <1>14, <2>3, <3>1
  <2>4. CASE o.id \notin row.of
    <3>1. p = o
      BY <1>4, <2>1, <2>2, <2>4
    <3> QED
      BY <1>11, <3>1 DEF Table, Taken
  <2> QED
    BY <2>3, <2>4
<1>16. Table(new)
  BY <1>6, <1>7, <1>8, <1>12, <1>13, <1>15 DEF Table
<1>17. ASSUME NEW other, GoodBatch(other, table) PROVE GoodBatch(other, new)
  <2> SUFFICES ASSUME NEW b \in other
               PROVE  /\ \A q \in new : q.id = b.id =>
                             q.level = 1 /\ q.start = b.start /\ q.end = b.end
                      /\ \E q \in new : b.id <= q.id
    BY <1>17 DEF GoodBatch
  <2>1. b \in Row
    BY <1>17 DEF GoodBatch
  <2>2. PICK o \in table : b.id <= o.id
    BY <1>17 DEF GoodBatch
  <2>3. b.id < row.id
    <3>1. o.id \in Nat /\ b.id \in Nat /\ row.id \in Nat /\ o.id < row.id
      BY <1>1, <1>2, <2>1, RowFields DEF Table
    <3> QED
      BY <2>2, <3>1
  <2>4. \A q \in table : q.id = b.id => q.level = 1 /\ q.start = b.start /\ q.end = b.end
    BY <1>17 DEF GoodBatch
  <2>5. row.id # b.id
    BY <1>1, <1>2, <2>1, <2>3, RowFields
  <2>6. mark(o) \in new /\ b.id <= mark(o).id
    BY <1>3, <1>4, <2>2
  <2> QED
    BY <1>3, <1>4, <2>4, <2>5, <2>6
<1>18. ASSUME NEW q \in L1(table)
       PROVE  \E p \in L1(new) : p.start = q.start /\ p.end = q.end
  <2>1. q \in table
    BY DEF L1
  <2> QED
    BY <1>4, <1>9, <2>1
<1>19. ASSUME NEW p \in Shown(table)
       PROVE  \E q \in Shown(new) : q.start <= p.start /\ p.end <= q.end
  <2>1. p \in table /\ p.start <= p.start /\ p.end <= p.end
    BY RowFields DEF Table, Shown, Unrolled, L1, L2
  <2>2. CASE p \in L2(table)
    BY <1>11, <2>1, <2>2 DEF Shown
  <2>3. CASE p \in Unrolled(table) /\ p.id \in row.of
    <3>1. p \in L1(table)
      BY <2>3 DEF Unrolled
    <3> QED
      BY <1>11, <1>14, <2>3, <3>1 DEF Shown
  <2>4. CASE p \in Unrolled(table) /\ p.id \notin row.of
    <3>1. mark(p) = p
      BY <1>4, <2>1, <2>4
    <3>2. p \in Unrolled(new)
      BY <1>9, <2>4, <3>1 DEF Unrolled
    <3> QED
      BY <2>1, <3>2 DEF Shown
  <2> QED
    BY <2>2, <2>3, <2>4 DEF Shown
<1>20. LastLine(table) <= LastLine(new) /\ ShownLines(table) \subseteq ShownLines(new)
  BY <1>16, <1>18, <1>19, FollowsWhen
<1> QED
  BY <1>16, <1>17, <1>20 DEF Follows, new, row

-----------------------------------------------------------------------------
(* Promises.                                                                   *)

Promise == [at : {"idle", "block", "rollup"}, cursor : Nat, total : Nat,
            slice : SUBSET (1..MaxLines), batch : SUBSET Row]

\* A promise is where it may be, and its batch can be consolidated.
Good(p, table) ==
    /\ p \in Promise
    /\ Multiple(p.cursor)
    /\ p.at = "rollup" => GoodBatch(p.batch, table)

SInv ==
    /\ SummaryTypeOK
    /\ Table(rows)
    /\ \A d \in Drivers : Good(run[d], rows)

LEMMA IdleIsGood == \A table : Good(Idle, table) /\ Idle.at = "idle"
  BY Multiples DEF Good, Idle, Promise

\* What a promise finds when it goes on.
Finds(now, table, lines) ==
    /\ now.table = table
    /\ now.lines = lines

LEMMA RollingIsGood ==
    ASSUME NEW table, Table(table), RollupDue(table),
           NEW c \in Nat, Multiple(c), NEW total \in Nat
    PROVE  Good(Rolling(c, total, table), table) /\ Rolling(c, total, table).at = "rollup"
<1>1. GoodBatch(FirstUnrolled(table), table)
  BY FirstUnrolledIsBatch
<1>2. FirstUnrolled(table) \in SUBSET Row
  BY <1>1 DEF GoodBatch
<1> QED
  BY <1>1, <1>2 DEF Good, Rolling, Promise

\* A promise that begins is good, and calls the model only below the threshold.
LEMMA BeginIsGood ==
    ASSUME SummaryTypeOK, NEW table, Table(table),
           NEW c \in Nat, Multiple(c), NEW total \in Nat,
           NEW now, NEW lines \in Nat, Finds(now, table, lines), base + lines <= MaxLines
    PROVE  /\ Good(Begin(c, total, now), table)
           /\ Begin(c, total, now).at = "block" => now.fails < Threshold
<1> DEFINE p == Begin(c, total, now)
<1>1. CASE p = Idle
  BY <1>1, IdleIsGood
<1>2. CASE p = Blocked(c, total, now) /\ now.fails < Threshold
  <2>1. Slice(c, now.lines) \in SUBSET (1..MaxLines)
    <3>1. base \in Nat /\ MaxLines \in Nat /\ Block \in Nat
      BY SummaryAssumption DEF SummaryTypeOK
    <3> QED
      BY <3>1 DEF Slice, Finds
  <2>2. Blocked(c, total, now) = [at |-> "block", cursor |-> c, total |-> total,
                                  slice |-> Slice(c, now.lines), batch |-> {}]
    BY DEF Blocked
  <2>3. Good(Blocked(c, total, now), table)
    BY <2>1, <2>2 DEF Good, Promise
  <2> QED
    BY <1>2, <2>3
<1>3. CASE p = Rolling(c, total, table) /\ RollupDue(table)
  BY <1>3, RollingIsGood
<1> QED
  BY <1>1, <1>2, <1>3 DEF Begin, Finds

\* A promise that has done a block goes on well.
LEMMA AfterBlockIsGood ==
    ASSUME SummaryTypeOK, NEW table, Table(table),
           NEW c \in Nat, Multiple(c), NEW total \in Nat,
           NEW now, NEW lines \in Nat, Finds(now, table, lines), base + lines <= MaxLines
    PROVE  /\ Good(AfterBlock(c, total, now), table)
           /\ AfterBlock(c, total, now).at = "block" => now.fails < Threshold
<1>1. CASE RollupDue(table)
  BY <1>1, RollingIsGood DEF AfterBlock, Finds
<1>2. CASE ~RollupDue(table)
  <2>1. c + Block \in Nat /\ Multiple(c + Block)
    BY Multiples, SummaryAssumption
  <2>2. AfterBlock(c, total, now) = Begin(c + Block, total, now)
    BY <1>2 DEF AfterBlock, Finds
  <2> QED
    BY <2>1, <2>2, BeginIsGood
<1> QED
  BY <1>1, <1>2

\* The calls of the model that are under way.
Calls(d) == IF run[d].at = "block" THEN 1 ELSE 0
FInv == failures + Calls("tick") + Calls("fill") <= Threshold + 1

\* A step of promise d: it goes on with p, or does not move at all.
Moves(d, p) ==
    /\ run' = [run EXCEPT ![d] = p]
    /\ Good(p, rows')
    /\ p.at = "block" => failures' < Threshold
    /\ failures' \in Nat
    /\ failures' <= failures + Calls(d)

LEMMA MovesKeepPromises ==
    ASSUME SInv, Follows(rows', rows), NEW d \in Drivers, NEW p, Moves(d, p)
    PROVE  /\ \A e \in Drivers : Good(run'[e], rows')
           /\ run' \in [Drivers -> Promise]
           /\ FInv => FInv'
<1>1. run \in [Drivers -> Promise] /\ p \in Promise
  BY DEF SInv, SummaryTypeOK, Moves, Good, Promise
<1>2. \A e \in Drivers : run'[e] = IF e = d THEN p ELSE run[e]
  BY <1>1 DEF Moves
<1>3. \A e \in Drivers : Good(run[e], rows')
  BY DEF SInv, Good, Follows
<1>4. \A e \in Drivers : Good(run'[e], rows')
  BY <1>2, <1>3 DEF Moves
<1>5. run' \in [Drivers -> Promise]
  BY <1>1 DEF Moves
<1>6. FInv => FInv'
  <2>1. failures \in Nat /\ failures' \in Nat /\ Threshold \in Nat
    BY SummaryAssumption DEF SInv, SummaryTypeOK, Moves
  <2>2. CASE p.at = "block"
    <3>1. PICK n \in Nat : failures' = n /\ n < Threshold
      BY <2>1, <2>2 DEF Moves
    <3>2. n + 1 <= Threshold
      BY <2>1, <3>1
    <3>3. Calls("tick")' \in {0, 1} /\ Calls("fill")' \in {0, 1}
      BY DEF Calls
    <3> QED
      BY <2>1, <3>1, <3>2, <3>3 DEF FInv
  <2>3. CASE p.at # "block"
    <3>1. Calls(d)' = 0 /\ \A e \in Drivers \ {d} : Calls(e)' = Calls(e)
      BY <1>2, <2>3 DEF Calls
    <3>2. failures' <= failures + Calls(d)
      BY DEF Moves
    <3>3. \A e \in Drivers : Calls(e) \in {0, 1}
      BY DEF Calls
    <3>4. CASE d = "tick"
      BY <2>1, <3>1, <3>2, <3>3, <3>4 DEF FInv, Drivers
    <3>5. CASE d = "fill"
      BY <2>1, <3>1, <3>2, <3>3, <3>5 DEF FInv, Drivers
    <3> QED
      BY <3>4, <3>5 DEF Drivers
  <2> QED
    BY <2>2, <2>3
<1> QED
  BY <1>4, <1>5, <1>6

-----------------------------------------------------------------------------
(* Steps. *)

\* What every step does.
Proper ==
    /\ SummaryTypeOK'
    /\ Follows(rows', rows)
    /\ \A d \in Drivers : Good(run'[d], rows')
    /\ FInv => FInv'

LEMMA SameTableFollows == SInv => Follows(rows, rows)
  <1> SUFFICES ASSUME SInv PROVE Follows(rows, rows)
    OBVIOUS
  <1>1. LastLine(rows) \in Nat
    BY LastLineIsLast DEF SInv, Table
  <1> QED
    BY <1>1 DEF SInv, Follows

\* A hook or a handler that triggers a promise.
LEMMA TriggerMoves ==
    ASSUME SInv, NEW d \in Drivers, NEW on, NEW lines \in Nat, base + lines <= MaxLines,
           Trigger(d, on, lines), UNCHANGED <<rows, failures>>
    PROVE  /\ \A e \in Drivers : Good(run'[e], rows')
           /\ run' \in [Drivers -> Promise]
           /\ FInv => FInv'
<1> DEFINE c == LastLine(rows)
           total == IF d = "tick" THEN c + Block ELSE lines
           now == [fails |-> failures, table |-> rows, lines |-> lines]
<1>1. CASE run' = run
  <2>1. Calls("tick")' = Calls("tick") /\ Calls("fill")' = Calls("fill")
    BY <1>1 DEF Calls
  <2> QED
    BY <1>1, <2>1 DEF SInv, SummaryTypeOK, Promise, FInv
<1>2. CASE run' = [run EXCEPT ![d] = Begin(c, total, now)]
  <2>1. c \in Nat /\ Multiple(c)
    BY LastLineOnGrid DEF SInv
  <2>2. total \in Nat
    BY <2>1, SummaryAssumption
  <2>3. Finds(now, rows, lines) /\ now.fails = failures
    BY DEF Finds
  <2> HIDE DEF c, total, now
  <2>4. /\ Good(Begin(c, total, now), rows)
        /\ Begin(c, total, now).at = "block" => failures < Threshold
    BY <2>1, <2>2, <2>3, BeginIsGood DEF SInv
  <2>5. failures \in Nat /\ failures <= failures + Calls(d)
    BY DEF SInv, SummaryTypeOK, Calls
  <2>6. Moves(d, Begin(c, total, now))
    BY <1>2, <2>4, <2>5 DEF Moves
  <2>7. Follows(rows', rows)
    BY SameTableFollows
  <2> QED
    BY <2>6, <2>7, MovesKeepPromises
<1> QED
  BY <1>1, <1>2 DEF Trigger

LEMMA AppendProper == ASSUME SInv, Append PROVE Proper
<1>1. /\ written \in 0..MaxLines /\ base \in 0..written /\ MaxLines \in Nat
      /\ written' = written + 1 /\ written < MaxLines
      /\ base' = IF Active + 1 >= RotateAt THEN written + 1 ELSE base
      /\ Trigger("tick", enabled, written' - base')
      /\ UNCHANGED <<enabled, rows, failures, clears, crashes>>
  BY SummaryAssumption DEF SInv, SummaryTypeOK, Append
<1>2. /\ written' \in 0..MaxLines /\ base' \in 0..written'
      /\ written' - base' \in Nat /\ base + (written' - base') <= MaxLines
  BY <1>1
<1>3. /\ \A e \in Drivers : Good(run'[e], rows')
      /\ run' \in [Drivers -> Promise]
      /\ FInv => FInv'
  BY <1>1, <1>2, TriggerMoves DEF Drivers
<1>4. SummaryTypeOK'
  BY <1>1, <1>2, <1>3 DEF SInv, SummaryTypeOK, Promise
<1>5. Follows(rows', rows)
  BY <1>1, SameTableFollows
<1> QED
  BY <1>3, <1>4, <1>5 DEF Proper

LEMMA FillProper ==
    ASSUME SInv, NEW on \in BOOLEAN, Trigger("fill", on, Active), enabled' \in BOOLEAN,
           UNCHANGED <<fileVars, rows, failures, crashes>>
    PROVE  Proper
<1>1. /\ written \in 0..MaxLines /\ base \in 0..written /\ MaxLines \in Nat
  BY SummaryAssumption DEF SInv, SummaryTypeOK
<1>2. Active \in Nat /\ base + Active <= MaxLines
  BY <1>1 DEF Active
<1>3. /\ \A e \in Drivers : Good(run'[e], rows')
      /\ run' \in [Drivers -> Promise]
      /\ FInv => FInv'
  BY <1>2, TriggerMoves DEF Drivers
<1>4. SummaryTypeOK'
  BY <1>3 DEF SInv, SummaryTypeOK, Promise, fileVars
<1>5. Follows(rows', rows)
  BY SameTableFollows
<1> QED
  BY <1>3, <1>4, <1>5 DEF Proper

LEMMA ClearProper == ASSUME SInv, Clear PROVE Proper
<1>1. /\ written \in 0..MaxLines /\ clears \in 0..MaxClears /\ MaxClears \in Nat
      /\ base' = written /\ clears' = clears + 1 /\ clears < MaxClears
      /\ UNCHANGED <<enabled, written, rows, failures, run, crashes>>
  BY SummaryAssumption DEF SInv, SummaryTypeOK, Clear
<1>2. base' \in 0..written' /\ clears' \in 0..MaxClears
  BY <1>1, SummaryAssumption
<1>3. SummaryTypeOK'
  BY <1>1, <1>2 DEF SInv, SummaryTypeOK
<1>4. Follows(rows', rows)
  BY <1>1, SameTableFollows
<1>5. FInv => FInv'
  BY <1>1 DEF FInv, Calls
<1> QED
  BY <1>1, <1>3, <1>4, <1>5 DEF Proper, SInv

LEMMA CrashProper == ASSUME SInv, Crash PROVE Proper
<1>1. /\ crashes \in 0..MaxCrashes /\ MaxCrashes \in Nat
      /\ crashes' = crashes + 1 /\ crashes < MaxCrashes
      /\ run' = [d \in Drivers |-> Idle] /\ failures' = 0
      /\ UNCHANGED <<enabled, fileVars, rows>>
  BY SummaryAssumption DEF SInv, SummaryTypeOK, Crash
<1>2. crashes' \in 0..MaxCrashes
  BY <1>1
<1>3. \A d \in Drivers : Good(run'[d], rows') /\ Calls(d)' = 0
  BY <1>1, IdleIsGood DEF Calls
<1>4. SummaryTypeOK'
  BY <1>1, <1>2, <1>3 DEF SInv, SummaryTypeOK, fileVars, Good, Promise
<1>5. Follows(rows', rows)
  BY <1>1, SameTableFollows
<1>6. FInv'
  BY <1>1, <1>3, SummaryAssumption DEF FInv, Drivers
<1> QED
  BY <1>3, <1>4, <1>5, <1>6 DEF Proper

\* The answer to a call about a block, whatever it is, and to one about a rollup.
LEMMA BlockAnsweredProper ==
    ASSUME SInv, NEW d \in Drivers, BlockAnswered(d)
    PROVE  Proper
<1> DEFINE r == run[d]
           now == Now(failures', rows')
           p == AfterBlock(r.cursor, r.total, now)
<1>1. /\ r.at = "block"
      /\ run' = [run EXCEPT ![d] = p]
      /\ UNCHANGED <<enabled, fileVars, crashes>>
      /\ \/ failures' = failures + 1 /\ rows' = rows
         \/ failures' = failures /\ rows' = rows
         \/ failures' = 0 /\ rows' = Upsert(BlockRow(r, rows), rows)
  BY DEF BlockAnswered
<1>2. /\ r \in Promise /\ Good(r, rows)
      /\ failures \in Nat /\ Calls(d) = 1
  BY <1>1 DEF SInv, SummaryTypeOK, Calls, Promise
<1>3. /\ Holds(r) /\ r.cursor \in Nat /\ Multiple(r.cursor) /\ r.total \in Nat
  BY <1>2 DEF Holds, Good, Promise
<1>4. failures' \in Nat /\ failures' <= failures + Calls(d)
  BY <1>1, <1>2
<1> HIDE DEF r
<1>5. Follows(rows', rows)
  BY <1>1, <1>3, SameTableFollows, UpsertFollows DEF SInv
<1>6. Active \in Nat /\ base + Active <= MaxLines
  BY SummaryAssumption DEF SInv, SummaryTypeOK, Active
<1>7. Finds(now, rows', Active) /\ now.fails = failures'
  BY DEF Now, Finds
<1> HIDE DEF now
<1>8. Good(p, rows') /\ (p.at = "block" => failures' < Threshold)
  BY <1>3, <1>5, <1>6, <1>7, AfterBlockIsGood DEF SInv, Follows
<1>9. Moves(d, p)
  BY <1>1, <1>4, <1>8 DEF Moves
<1>10. /\ \A e \in Drivers : Good(run'[e], rows')
       /\ run' \in [Drivers -> Promise]
       /\ FInv => FInv'
  BY <1>5, <1>9, MovesKeepPromises
<1>11. SummaryTypeOK'
  BY <1>1, <1>4, <1>5, <1>10 DEF SInv, SummaryTypeOK, Promise, fileVars, Follows, Table
<1> QED
  BY <1>5, <1>10, <1>11 DEF Proper

LEMMA RollupAnsweredProper ==
    ASSUME SInv, NEW d \in Drivers, RollupAnswered(d)
    PROVE  Proper
<1> DEFINE r == run[d]
           now == Now(failures, rows')
           p == Begin(r.cursor + Block, r.total, now)
<1>1. /\ r.at = "rollup"
      /\ run' = [run EXCEPT ![d] = p] \/ run' = [run EXCEPT ![d] = Idle]
      /\ UNCHANGED <<enabled, fileVars, failures, crashes>>
      /\ \/ rows' = rows
         \/ rows' = Consolidate(RollupRow(r.batch, rows), rows)
  BY DEF RollupAnswered
<1>2. /\ r \in Promise /\ Good(r, rows)
      /\ failures \in Nat /\ Calls(d) \in Nat
  BY <1>1 DEF SInv, SummaryTypeOK, Calls, Promise
<1>3. /\ GoodBatch(r.batch, rows) /\ r.total \in Nat
      /\ r.cursor + Block \in Nat /\ Multiple(r.cursor + Block)
  BY <1>1, <1>2, Multiples, SummaryAssumption DEF Good, Promise
<1>4. failures' \in Nat /\ failures' <= failures + Calls(d)
  BY <1>1, <1>2
<1> HIDE DEF r
<1>5. Follows(rows', rows)
  BY <1>1, <1>3, SameTableFollows, ConsolidateFollows DEF SInv
<1>6. Active \in Nat /\ base + Active <= MaxLines
  BY SummaryAssumption DEF SInv, SummaryTypeOK, Active
<1>7. Finds(now, rows', Active) /\ now.fails = failures
  BY DEF Now, Finds
<1> HIDE DEF now
<1>8. Good(p, rows') /\ (p.at = "block" => failures' < Threshold)
  BY <1>1, <1>3, <1>5, <1>6, <1>7, BeginIsGood DEF SInv, Follows
<1> HIDE DEF p
<1>9. PICK q \in {p, Idle} : run' = [run EXCEPT ![d] = q]
  BY <1>1
<1>10. Moves(d, q)
  BY <1>4, <1>8, <1>9, IdleIsGood DEF Moves
<1>11. /\ \A e \in Drivers : Good(run'[e], rows')
       /\ run' \in [Drivers -> Promise]
       /\ FInv => FInv'
  BY <1>5, <1>10, MovesKeepPromises
<1>12. SummaryTypeOK'
  BY <1>1, <1>4, <1>5, <1>11 DEF SInv, SummaryTypeOK, Promise, fileVars, Follows, Table
<1> QED
  BY <1>5, <1>11, <1>12 DEF Proper

LEMMA StepsAreProper == SInv /\ [Next]_vars => Proper
<1> SUFFICES ASSUME SInv, [Next]_vars PROVE Proper
  OBVIOUS
<1>1. CASE Append
  BY <1>1, AppendProper
<1>2. CASE AgentConnects
  <2>1. /\ Trigger("fill", enabled, Active) /\ enabled \in BOOLEAN /\ enabled' \in BOOLEAN
        /\ UNCHANGED <<fileVars, rows, failures, crashes>>
    BY <1>2 DEF AgentConnects, SInv, SummaryTypeOK
  <2> QED
    BY <2>1, FillProper
<1>3. ASSUME NEW on \in BOOLEAN, PutSettings(on) PROVE Proper
  BY <1>3, FillProper DEF PutSettings
<1>4. CASE Clear
  BY <1>4, ClearProper
<1>5. ASSUME NEW d \in Drivers, BlockAnswered(d) PROVE Proper
  BY <1>5, BlockAnsweredProper
<1>6. ASSUME NEW d \in Drivers, RollupAnswered(d) PROVE Proper
  BY <1>6, RollupAnsweredProper
<1>7. CASE Crash
  BY <1>7, CrashProper
<1>8. CASE UNCHANGED vars
  <2>1. /\ UNCHANGED <<enabled, written, base, clears, rows, failures, run, crashes>>
        /\ Calls("tick")' = Calls("tick") /\ Calls("fill")' = Calls("fill")
    BY <1>8 DEF vars, fileVars, Calls
  <2> QED
    BY <2>1, SameTableFollows DEF Proper, SInv, SummaryTypeOK, FInv
<1> QED
  BY <1>1, <1>2, <1>3, <1>4, <1>5, <1>6, <1>7, <1>8 DEF Next

-----------------------------------------------------------------------------
(* The theorems. *)

LEMMA SInvInit == SummaryInit => SInv /\ FInv
<1> SUFFICES ASSUME SummaryInit PROVE SInv /\ FInv
  OBVIOUS
<1>1. /\ enabled \in BOOLEAN /\ written = 0 /\ base = 0 /\ rows = {} /\ failures = 0
      /\ run = [d \in Drivers |-> Idle] /\ clears = 0 /\ crashes = 0
  BY DEF SummaryInit
<1>2. \A d \in Drivers : Good(run[d], rows) /\ Calls(d) = 0 /\ run[d] \in Promise
  BY <1>1, IdleIsGood DEF Calls, Good
<1>3. Table(rows)
  BY <1>1, FS_EmptySet DEF Table, Taken, L1
<1>4. SummaryTypeOK
  BY <1>1, <1>2, SummaryAssumption DEF SummaryTypeOK, Promise
<1>5. FInv
  BY <1>1, <1>2, SummaryAssumption DEF FInv, Drivers
<1> QED
  BY <1>2, <1>3, <1>4, <1>5 DEF SInv

LEMMA SInvStep == SInv /\ FInv /\ [Next]_vars => SInv' /\ FInv'
<1> SUFFICES ASSUME SInv, FInv, [Next]_vars PROVE SInv' /\ FInv'
  OBVIOUS
<1>1. Proper
  BY StepsAreProper
<1> QED
  BY <1>1 DEF Proper, Follows, SInv

\* The invariant of the proofs.
THEOREM SummaryInvariant == Spec => [](SInv /\ FInv)
  BY SInvInit, SInvStep, PTL DEF Spec

\* The summariser keeps its table, its promises and its counters what they are.
THEOREM SummaryTypeCorrect == Spec => []SummaryTypeOK
  BY SummaryInvariant, PTL DEF SInv

\* Blocks tile, however many promises stored them and whatever was rotated or
\* cleared (room-summariser.ts lastSummarisedLine, generateL1): all of them lie on
\* multiples of the block.
THEOREM BlocksAlwaysTile == Spec => []BlocksTile
<1>1. SInv => BlocksTile
  <2> SUFFICES ASSUME SInv, NEW r \in L1(rows), NEW q \in L1(rows)
               PROVE  /\ r.end - r.start + 1 = Block
                      /\ r # q => r.end < q.start \/ q.end < r.start
    BY DEF BlocksTile
  <2>1. PICK c \in Nat : Multiple(c) /\ r.start = c + 1 /\ r.end = c + Block
    BY DEF SInv, Table, OnGrid
  <2>2. PICK e \in Nat : Multiple(e) /\ q.start = e + 1 /\ q.end = e + Block
    BY DEF SInv, Table, OnGrid
  <2>3. Block \in Nat
    BY SummaryAssumption
  <2>4. c = e => r = q
    BY <2>1, <2>2 DEF SInv, Table
  <2>5. (c < e => c + Block <= e) /\ (e < c => e + Block <= c)
    BY <2>1, <2>2, Multiples
  <2> QED
    BY <2>1, <2>2, <2>3, <2>4, <2>5
<1> QED
  BY <1>1, SummaryInvariant, PTL

\* A block marked as rolled up is one its rollup was made from
\* (room-summariser.ts maybeRollup marks by rowid after the model answered).
THEOREM RollupsAreHonest == Spec => []RolledIntoItsRollup
<1>1. SInv => RolledIntoItsRollup
  BY DEF SInv, Table, Taken, RolledIntoItsRollup
<1> QED
  BY <1>1, SummaryInvariant, PTL

\* A room whose model keeps failing is given up, with both promises counted.
THEOREM RoomIsGivenUp == Spec => []GivesUp
<1>1. SInv /\ FInv => GivesUp
  <2> SUFFICES ASSUME SInv, FInv PROVE GivesUp
    OBVIOUS
  <2>1. failures \in Nat /\ Threshold \in Nat
    BY SummaryAssumption DEF SInv, SummaryTypeOK
  <2>2. Calls("tick") \in {0, 1} /\ Calls("fill") \in {0, 1}
    BY DEF Calls
  <2> QED
    BY <2>1, <2>2 DEF FInv, GivesUp
<1> QED
  BY <1>1, SummaryInvariant, PTL

\* What the briefing covered once it covers after every step, whether blocks are
\* stored twice, rolled up, or rolled up by two promises at once.
THEOREM ShownStaysShown == Spec => StaysShown
<1>1. SInv /\ [Next]_vars => ShownLines(rows) \subseteq ShownLines(rows')
  BY StepsAreProper DEF Proper, Follows
<1> QED
  BY <1>1, SummaryInvariant, PTL DEF Spec, StaysShown

\* The cursor of the room never goes back.
THEOREM CursorAlwaysAdvances == Spec => CursorOnlyAdvances
<1>1. SInv /\ [Next]_vars => LastLine(rows) <= LastLine(rows')
  BY StepsAreProper DEF Proper, Follows
<1> QED
  BY <1>1, SummaryInvariant, PTL DEF Spec, CursorOnlyAdvances
=============================================================================
