------------------------------ MODULE PageProofs ------------------------------
(***************************************************************************)
(* Proofs about what the page shows, for any entities, casts, limits and   *)
(* bounds.  First what the folds of the model compute, by induction over   *)
(* the length of a sequence; then the message list; then what the hub      *)
(* keeps and what the connection holds; last that the page has, or is      *)
(* about to get, whatever the ledger and the chat log say.                 *)
(***************************************************************************)
EXTENDS DeliveryProofs, WellFoundedInduction

-----------------------------------------------------------------------------
(* Induction, and folds. *)

\* Induction up to n, over a set.
LEMMA UpTo ==
    ASSUME NEW n \in Nat, NEW T, 0 \in T, \A i \in 0 .. n - 1 : i \in T => i + 1 \in T
    PROVE  \A i \in 0 .. n : i \in T
<1> DEFINE S == {i \in 0 .. n : i \notin T}
<1> SUFFICES ASSUME S # {} PROVE FALSE
  OBVIOUS
<1>1. IsWellFoundedOn({ss \in Nat \X Nat : ss[1] < ss[2]}, Nat)
  BY NatLessThanWellFounded DEF OpToRel
<1>2. PICK x \in S : \A y \in S : ~ (<<y, x>> \in {ss \in Nat \X Nat : ss[1] < ss[2]})
  <2>1. S \subseteq Nat
    OBVIOUS
  <2> HIDE DEF S
  <2> QED
    BY <1>1, <2>1, WFMin
<1>3. ASSUME NEW y \in S PROVE ~(y < x)
  <2>1. <<y, x>> \notin {ss \in Nat \X Nat : ss[1] < ss[2]}
    BY <1>2
  <2>2. <<y, x>> \in Nat \X Nat
    OBVIOUS
  <2> QED
    BY <2>1, <2>2
<1>4. x # 0 /\ x - 1 \in 0 .. n - 1 /\ x - 1 \notin S
  BY <1>3
<1> QED
  BY <1>4

LEMMA LastIndex ==
    ASSUME NEW n \in Nat, NEW S \in SUBSET (1 .. n + 1), n + 1 \in S
    PROVE  Max(S) = n + 1
<1>1. \A x \in S : x \in 1 .. n + 1
  OBVIOUS
<1>2. \A y \in S : n + 1 >= y
  BY <1>1
<1>3. \A x \in S : (\A y \in S : x >= y) => x = n + 1
  BY <1>1, <1>2
<1>4. \E x \in S : \A y \in S : x >= y
  BY <1>2
<1> QED
  BY <1>3, <1>4 DEF Max

LEMMA MaxIn ==
    ASSUME NEW n \in Nat, NEW S \in SUBSET (1 .. n), S # {}
    PROVE  Max(S) \in S
<1> DEFINE T == {i \in 0 .. n : \A S0 \in SUBSET (1 .. i) : S0 # {} => Max(S0) \in S0}
<1>1. 0 \in T
  <2>1. \A S0 \in SUBSET (1 .. 0) : S0 # {} => Max(S0) \in S0
    <3>1. \A S0 \in SUBSET (1 .. 0) : S0 = {}
      OBVIOUS
    <3> QED
      BY <3>1
  <2>2. 0 \in 0 .. n
    OBVIOUS
  <2> QED
    BY <2>1, <2>2
<1>2. ASSUME NEW i \in 0 .. n - 1, i \in T PROVE i + 1 \in T
  <2> SUFFICES ASSUME NEW S0 \in SUBSET (1 .. i + 1), S0 # {} PROVE Max(S0) \in S0
    OBVIOUS
  <2>1. CASE i + 1 \in S0
    BY <2>1, LastIndex
  <2>2. CASE i + 1 \notin S0
    <3>1. S0 \in SUBSET (1 .. i)
      BY <2>2
    <3> QED
      BY <3>1, <1>2
  <2> QED
    BY <2>1, <2>2
<1> HIDE DEF T
<1>3. n \in T
  BY <1>1, <1>2, UpTo
<1> QED
  BY <1>3 DEF T

\* g folds op over the parts of s: that of a set of indices is that of all but
\* its last index, and then of this one.
FoldsParts(g, n, s, op, base) ==
    \A S \in SUBSET (1 .. n) :
        g[S] = IF S = {} THEN base ELSE op[<<g[S \ {Max(S)}], s[Max(S)]>>]

LEMMA FoldExists ==
    ASSUME NEW A, NEW B, NEW n \in Nat, NEW s \in [1 .. n -> B], NEW op \in [A \X B -> A],
           NEW base \in A
    PROVE  \E g \in [SUBSET (1 .. n) -> A] : FoldsParts(g, n, s, op, base)
<1> DEFINE T == {i \in 0 .. n : \E g \in [SUBSET (1 .. i) -> A] : FoldsParts(g, i, s, op, base)}
<1>1. 0 \in T
  <2> DEFINE g == [S \in SUBSET (1 .. 0) |-> base]
  <2>1. SUBSET (1 .. 0) = {{}}
    OBVIOUS
  <2>2. g \in [SUBSET (1 .. 0) -> A] /\ FoldsParts(g, 0, s, op, base)
    BY <2>1 DEF FoldsParts
  <2> HIDE DEF g
  <2>3. \E g2 \in [SUBSET (1 .. 0) -> A] : FoldsParts(g2, 0, s, op, base)
    BY <2>2
  <2>4. 0 \in 0 .. n
    OBVIOUS
  <2> QED
    BY <2>3, <2>4
<1>2. ASSUME NEW i \in 0 .. n - 1, i \in T PROVE i + 1 \in T
  <2>1. PICK g \in [SUBSET (1 .. i) -> A] : FoldsParts(g, i, s, op, base)
    BY <1>2
  <2> DEFINE h == [S \in SUBSET (1 .. i + 1) |->
                     IF i + 1 \in S THEN op[<<g[S \ {i + 1}], s[i + 1]>>] ELSE g[S]]
  <2>2. \A S \in SUBSET (1 .. i + 1) : i + 1 \in S => S \ {i + 1} \in SUBSET (1 .. i)
    OBVIOUS
  <2>3. \A S \in SUBSET (1 .. i + 1) : i + 1 \notin S => S \in SUBSET (1 .. i)
    OBVIOUS
  <2>4. h \in [SUBSET (1 .. i + 1) -> A]
    <3>1. s[i + 1] \in B
      OBVIOUS
    <3> QED
      BY <2>2, <2>3, <3>1
  <2>5. ASSUME NEW S \in SUBSET (1 .. i + 1)
        PROVE  h[S] = IF S = {} THEN base ELSE op[<<h[S \ {Max(S)}], s[Max(S)]>>]
    <3>1. CASE i + 1 \in S
      <4>1. Max(S) = i + 1
        BY <3>1, LastIndex
      <4>2. h[S \ {i + 1}] = g[S \ {i + 1}]
        OBVIOUS
      <4> QED
        BY <3>1, <4>1, <4>2
    <3>2. CASE i + 1 \notin S
      <4>1. S \in SUBSET (1 .. i) /\ h[S] = g[S]
        BY <2>3, <3>2
      <4>2. h[S \ {Max(S)}] = g[S \ {Max(S)}]
        BY <3>2
      <4> HIDE DEF h
      <4>3. g[S] = IF S = {} THEN base ELSE op[<<g[S \ {Max(S)}], s[Max(S)]>>]
        BY <2>1, <4>1 DEF FoldsParts
      <4> QED
        BY <4>1, <4>2, <4>3
    <3> QED
      BY <3>1, <3>2
  <2> HIDE DEF h
  <2>6. FoldsParts(h, i + 1, s, op, base)
    BY <2>5 DEF FoldsParts
  <2>7. \E g2 \in [SUBSET (1 .. i + 1) -> A] : FoldsParts(g2, i + 1, s, op, base)
    BY <2>4, <2>6
  <2>8. i + 1 \in 0 .. n
    OBVIOUS
  <2> QED
    BY <2>7, <2>8
<1> HIDE DEF T
<1>3. \A i \in 0 .. n : i \in T
  BY <1>1, <1>2, UpTo
<1>4. n \in T
  BY <1>3
<1> QED
  BY <1>4, Zenon DEF T

\* The function a fold is defined by exists, and what it needs is in its sets.
FoldsInto(g, s, op, base, A, B) ==
    \A S \in SUBSET (DOMAIN s) :
        IF S = {} THEN g[S] = base
        ELSE /\ Max(S) \in DOMAIN s /\ s[Max(S)] \in B /\ g[S \ {Max(S)}] \in A
             /\ g[S] = op[<<g[S \ {Max(S)}], s[Max(S)]>>]

LEMMA FoldedParts ==
    ASSUME NEW A, NEW B, NEW s \in Seq(B), NEW op \in [A \X B -> A], NEW base \in A
    PROVE  \E g \in [SUBSET (DOMAIN s) -> A] : FoldsInto(g, s, op, base, A, B)
<1> DEFINE n == Len(s)
<1>1. n \in Nat /\ DOMAIN s = 1 .. n /\ s \in [1 .. n -> B]
  OBVIOUS
<1> HIDE DEF n
<1>2. PICK g \in [SUBSET (1 .. n) -> A] : FoldsParts(g, n, s, op, base)
  BY <1>1, FoldExists
<1>3. ASSUME NEW S \in SUBSET (1 .. n)
      PROVE  IF S = {} THEN g[S] = base
             ELSE /\ Max(S) \in 1 .. n /\ s[Max(S)] \in B /\ g[S \ {Max(S)}] \in A
                  /\ g[S] = op[<<g[S \ {Max(S)}], s[Max(S)]>>]
  <2>1. g[S] = IF S = {} THEN base ELSE op[<<g[S \ {Max(S)}], s[Max(S)]>>]
    BY <1>2 DEF FoldsParts
  <2>2. S # {} => Max(S) \in S
    BY <1>1, MaxIn
  <2> QED
    BY <1>1, <2>1, <2>2
<1>4. FoldsInto(g, s, op, base, A, B)
  BY <1>1, <1>3 DEF FoldsInto
<1> QED
  BY <1>1, <1>2, <1>4

LEMMA PrefixIndices ==
    ASSUME NEW n \in Nat, NEW i \in 1 .. n
    PROVE  /\ 1 .. i \in SUBSET (1 .. n) /\ 1 .. i # {}
           /\ Max(1 .. i) = i /\ (1 .. i) \ {i} = 1 .. i - 1
<1>1. i \in 1 .. i
  OBVIOUS
<1>2. \A j \in 1 .. i : j \in 1 .. n
  OBVIOUS
<1>3. Max(1 .. i) = i
  <2>1. i - 1 \in Nat /\ (i - 1) + 1 = i
    OBVIOUS
  <2>2. 1 .. i \in SUBSET (1 .. (i - 1) + 1) /\ (i - 1) + 1 \in 1 .. i
    BY <2>1, <1>1
  <2> QED
    BY <2>1, <2>2, LastIndex
<1>4. (1 .. i) \ {i} = 1 .. i - 1
  OBVIOUS
<1> QED
  BY <1>1, <1>2, <1>3, <1>4

-----------------------------------------------------------------------------
(* Parts of sequences. *)

\* u is what s ends with.
Ends(u, s) ==
    \E k \in 0 .. Len(s) : /\ Len(u) = Len(s) - k
                           /\ \A i \in 1 .. Len(u) : u[i] = s[i + k]

LEMMA EndsItself == ASSUME NEW S, NEW s \in Seq(S) PROVE Ends(s, s)
<1>1. 0 \in 0 .. Len(s) /\ Len(s) = Len(s) - 0 /\ \A i \in 1 .. Len(s) : s[i] = s[i + 0]
  OBVIOUS
<1> QED
  BY <1>1 DEF Ends

LEMMA NothingEnds == ASSUME NEW S, NEW s \in Seq(S) PROVE Ends(<<>>, s)
<1>1. Len(s) \in 0 .. Len(s) /\ Len(<<>>) = Len(s) - Len(s)
  OBVIOUS
<1>2. \A i \in 1 .. Len(<<>>) : <<>>[i] = s[i + Len(s)]
  OBVIOUS
<1> QED
  BY <1>1, <1>2 DEF Ends

LEMMA EndsEnds ==
    ASSUME NEW S, NEW s \in Seq(S), NEW t \in Seq(S), NEW u \in Seq(S), Ends(u, t), Ends(t, s)
    PROVE  Ends(u, s)
<1>1. PICK k \in 0 .. Len(t) : Len(u) = Len(t) - k /\ \A i \in 1 .. Len(u) : u[i] = t[i + k]
  BY DEF Ends
<1>2. PICK m \in 0 .. Len(s) : Len(t) = Len(s) - m /\ \A i \in 1 .. Len(t) : t[i] = s[i + m]
  BY DEF Ends
<1>3. k + m \in 0 .. Len(s) /\ Len(u) = Len(s) - (k + m)
  BY <1>1, <1>2
<1>4. \A i \in 1 .. Len(u) : i + k \in 1 .. Len(t) /\ i + (k + m) = (i + k) + m
  BY <1>1, <1>2
<1>5. \A i \in 1 .. Len(u) : u[i] = s[i + (k + m)]
  BY <1>1, <1>2, <1>4
<1> QED
  BY <1>3, <1>5 DEF Ends

LEMMA Appended ==
    ASSUME NEW S, NEW s \in Seq(S), NEW t \in Seq(S)
    PROVE  /\ s \o t \in Seq(S) /\ Len(s \o t) = Len(s) + Len(t)
           /\ \A i \in 1 .. Len(s) : (s \o t)[i] = s[i]
           /\ \A i \in 1 .. Len(t) : (s \o t)[Len(s) + i] = t[i]
           /\ \A i \in 1 .. Len(s \o t) : i \in 1 .. Len(s) \/ i - Len(s) \in 1 .. Len(t)
  OBVIOUS

LEMMA EndsLonger ==
    ASSUME NEW S, NEW s \in Seq(S), NEW u \in Seq(S), NEW e \in S, Ends(u, s)
    PROVE  Ends(Append(u, e), Append(s, e))
<1>1. PICK k \in 0 .. Len(s) : Len(u) = Len(s) - k /\ \A i \in 1 .. Len(u) : u[i] = s[i + k]
  BY DEF Ends
<1>2. k \in 0 .. Len(Append(s, e)) /\ Len(Append(u, e)) = Len(Append(s, e)) - k
  BY <1>1
<1>3. ASSUME NEW i \in 1 .. Len(Append(u, e))
      PROVE  Append(u, e)[i] = Append(s, e)[i + k]
  <2>1. CASE i \in 1 .. Len(u)
    <3>1. i + k \in 1 .. Len(s)
      BY <1>1, <2>1
    <3> QED
      BY <1>1, <2>1, <3>1
  <2>2. CASE i = Len(u) + 1
    <3>1. i + k = Len(s) + 1
      BY <1>1, <2>2
    <3> QED
      BY <2>2, <3>1
  <2>3. Len(Append(u, e)) = Len(u) + 1 /\ Len(u) \in Nat
    OBVIOUS
  <2>4. i \in 1 .. Len(u) \/ i = Len(u) + 1
    BY <2>3
  <2> QED
    BY <2>1, <2>2, <2>4
<1> QED
  BY <1>2, <1>3 DEF Ends

LEMMA LastOfEnds ==
    ASSUME NEW S, NEW s \in Seq(S), NEW n \in Nat
    PROVE  /\ LastOf(s, n) \in Seq(S) /\ Ends(LastOf(s, n), s)
           /\ Len(LastOf(s, n)) = IF Len(s) <= n THEN Len(s) ELSE n
<1>1. CASE Len(s) <= n
  BY <1>1, EndsItself DEF LastOf
<1>2. CASE ~(Len(s) <= n)
  <2> DEFINE u == SubSeq(s, Len(s) - n + 1, Len(s))
             k == Len(s) - n
  <2>1. LastOf(s, n) = u
    BY <1>2 DEF LastOf
  <2>2. k \in 0 .. Len(s) /\ u \in Seq(S) /\ Len(u) = n /\ Len(u) = Len(s) - k
    BY <1>2
  <2>3. \A i \in 1 .. Len(u) : u[i] = s[i + k]
    BY <1>2, <2>2
  <2> HIDE DEF u, k
  <2> QED
    BY <1>2, <2>1, <2>2, <2>3 DEF Ends
<1> QED
  BY <1>1, <1>2

\* What a sequence ends with is of it.
LEMMA EndsWithin ==
    ASSUME NEW S, NEW s \in Seq(S), NEW u \in Seq(S), Ends(u, s)
    PROVE  /\ Len(u) <= Len(s)
           /\ \A i \in 1 .. Len(u) : i + (Len(s) - Len(u)) \in 1 .. Len(s) /\ u[i] = s[i + (Len(s) - Len(u))]
<1>1. PICK k \in 0 .. Len(s) : Len(u) = Len(s) - k /\ \A i \in 1 .. Len(u) : u[i] = s[i + k]
  BY DEF Ends
<1>2. k = Len(s) - Len(u)
  BY <1>1
<1> QED
  BY <1>1, <1>2

-----------------------------------------------------------------------------
(* The folds of the model. *)

LEMMA AppendLineTyped ==
    ASSUME NEW S, NEW lines \in Seq(S), NEW e \in S
    PROVE  AppendLine(lines, e) \in Seq(S) /\ Ends(AppendLine(lines, e), Append(lines, e))
<1>1. Append(lines, e) \in Seq(S) /\ <<>> \in Seq(S)
  OBVIOUS
<1> QED
  BY <1>1, EndsItself, NothingEnds DEF AppendLine

\* appendEntry, line by line: of the transcript and the new lines, an end is
\* left (transcript.ts appendEntry).
LEMMA TranscriptEnds ==
    ASSUME NEW S, NEW lines \in Seq(S), NEW s \in Seq(S)
    PROVE  /\ FoldLeft(AppendLine, lines, s) \in Seq(S)
           /\ Ends(FoldLeft(AppendLine, lines, s), lines \o s)
<1> DEFINE n == Len(s)
           op == [ab \in Seq(S) \X S |-> AppendLine(ab[1], ab[2])]
           P(g) == g = [I \in SUBSET (DOMAIN s) |->
                          IF I = {} THEN lines ELSE AppendLine(g[I \ {Max(I)}], s[Max(I)])]
           it == CHOOSE g : P(g)
<1>1. n \in Nat /\ DOMAIN s = 1 .. n /\ \A i \in 1 .. n : s[i] \in S
  OBVIOUS
<1> HIDE DEF n
<1>2. op \in [Seq(S) \X S -> Seq(S)] /\ \A a \in Seq(S), b \in S : op[<<a, b>>] = AppendLine(a, b)
  BY AppendLineTyped
<1> HIDE DEF op, P, it
<1>3. \E g : P(g)
  <2>1. PICK g \in [SUBSET (DOMAIN s) -> Seq(S)] : FoldsInto(g, s, op, lines, Seq(S), S)
    BY <1>2, FoldedParts
  <2>2. ASSUME NEW I \in SUBSET (DOMAIN s)
        PROVE  g[I] = IF I = {} THEN lines ELSE AppendLine(g[I \ {Max(I)}], s[Max(I)])
    BY <1>2, <2>1 DEF FoldsInto
  <2>3. P(g)
    BY <2>1, <2>2 DEF P
  <2> QED
    BY <2>3
<1>4. P(it)
  BY <1>3 DEF it
<1>5. FoldLeft(AppendLine, lines, s) = it[1 .. n]
  <2>1. FoldLeft(AppendLine, lines, s) = it[DOMAIN s]
    BY DEF FoldLeft, MapThenFoldSet, P, it
  <2> QED
    BY <1>1, <2>1
<1>6. it[1 .. 0] = lines
  <2>1. 1 .. 0 = {} /\ {} \in SUBSET (DOMAIN s)
    OBVIOUS
  <2> QED
    BY <1>4, <2>1 DEF P
<1>7. ASSUME NEW i \in 1 .. n PROVE it[1 .. i] = AppendLine(it[1 .. i - 1], s[i])
  <2>1. 1 .. i \in SUBSET (DOMAIN s) /\ 1 .. i # {} /\ Max(1 .. i) = i /\ (1 .. i) \ {i} = 1 .. i - 1
    BY <1>1, PrefixIndices
  <2> QED
    BY <1>4, <2>1 DEF P
<1> DEFINE Good(i) == it[1 .. i] \in Seq(S) /\ Ends(it[1 .. i], lines \o SubSeq(s, 1, i))
           T == {i \in 0 .. n : Good(i)}
<1>8. 0 \in T
  <2>1. lines \o SubSeq(s, 1, 0) = lines
    OBVIOUS
  <2>2. Good(0)
    BY <1>6, <2>1, EndsItself
  <2> HIDE DEF Good
  <2>3. 0 \in 0 .. n
    BY <1>1
  <2> QED
    BY <2>2, <2>3
<1>9. ASSUME NEW i \in 0 .. n - 1, i \in T PROVE i + 1 \in T
  <2> DEFINE u == it[1 .. i]
             t == lines \o SubSeq(s, 1, i)
             e == s[i + 1]
  <2>1. u \in Seq(S) /\ Ends(u, t)
    BY <1>9
  <2>2. it[1 .. i + 1] = AppendLine(u, e) /\ e \in S
    <3>1. i + 1 \in 1 .. n /\ (i + 1) - 1 = i
      BY <1>1
    <3> QED
      BY <1>1, <1>7, <3>1
  <2>3. t \in Seq(S) /\ lines \o SubSeq(s, 1, i + 1) = Append(t, e)
    <3>1. SubSeq(s, 1, i) \in Seq(S) /\ SubSeq(s, 1, i + 1) = Append(SubSeq(s, 1, i), e)
      BY <1>1 DEF n
    <3>2. lines \o Append(SubSeq(s, 1, i), e) = Append(lines \o SubSeq(s, 1, i), e)
      BY <2>2, <3>1
    <3> QED
      BY <3>1, <3>2
  <2>4. i + 1 \in 0 .. n
    BY <1>1
  <2> HIDE DEF u, t, e
  <2>5. Append(u, e) \in Seq(S) /\ Append(t, e) \in Seq(S)
    BY <2>1, <2>2, <2>3
  <2>6. Ends(AppendLine(u, e), Append(u, e)) /\ AppendLine(u, e) \in Seq(S)
    BY <2>1, <2>2, AppendLineTyped
  <2>7. Ends(Append(u, e), Append(t, e))
    BY <2>1, <2>2, <2>3, EndsLonger
  <2>8. Ends(AppendLine(u, e), Append(t, e))
    BY <2>5, <2>6, <2>7, EndsEnds
  <2>9. Good(i + 1)
    BY <2>2, <2>3, <2>6, <2>8
  <2> HIDE DEF Good
  <2> QED
    BY <2>4, <2>9
<1> HIDE DEF T
<1>10. \A i \in 0 .. n : i \in T
  BY <1>1, <1>8, <1>9, UpTo
<1>11. n \in T
  BY <1>1, <1>10
<1>12. Good(n) /\ SubSeq(s, 1, n) = s
  <2>1. SubSeq(s, 1, n) = s
    BY DEF n
  <2> HIDE DEF Good
  <2> QED
    BY <1>11, <2>1 DEF T
<1> QED
  BY <1>5, <1>12

-----------------------------------------------------------------------------
(* What the hub keeps for the page. *)

Subjects == Ids \cup Messages
Lines == [type : {"entry"}, subject : Subjects, version : {1, 2}]
LogEntries == [type : {"entry"}, id : Nat \ {0}, subject : Subjects, version : {1, 2}]
Ambient == [type : {"session"}, life : Nat] \cup [type : {"roster"}, known : BOOLEAN]
             \cup [type : {"presence"}, online : BOOLEAN]
PageFrames == LogEntries \cup Ambient

IsEntry(f) == f.type = "entry"

\* An entry that bears a version of a card.
Bears(f, c, version) == IsEntry(f) /\ f.subject = c /\ f.version = version

\* What is recorded of a card is a version it has had.
Truthful(s, versions) ==
    \A i \in 1 .. Len(s), c \in Ids, version \in {1, 2} :
        Bears(s[i], c, version) => version <= versions[c]

\* A card that was resolved for all to see is not recorded as pending last.
FollowedUp(s, versions, silent) ==
    \A i \in 1 .. Len(s), c \in Ids :
        Bears(s[i], c, 1) /\ versions[c] = 2 /\ c \notin silent =>
            \E j \in i + 1 .. Len(s) : Bears(s[j], c, 2)

\* The log ends with the last id that was given, without a gap; what was kept
\* is true, and follows up.
LogInv ==
    /\ HubTyped /\ life <= MaxLives
    /\ seq \in Nat /\ chatLog \in Seq(LogEntries) /\ Len(chatLog) <= seq
    /\ \A i \in 1 .. Len(chatLog) : chatLog[i].id = seq - Len(chatLog) + i
    /\ transcript \in Seq(Lines) /\ (optedIn \/ transcript = <<>>)
    /\ Truthful(chatLog, ledger) /\ FollowedUp(chatLog, ledger, unsent)
    /\ Truthful(transcript, ledger) /\ FollowedUp(transcript, ledger, unsent)

LEMMA TruthfulEnds ==
    ASSUME NEW S, NEW s \in Seq(S), NEW u \in Seq(S), Ends(u, s), NEW versions,
           Truthful(s, versions)
    PROVE  Truthful(u, versions)
<1>1. \A i \in 1 .. Len(u) : i + (Len(s) - Len(u)) \in 1 .. Len(s) /\ u[i] = s[i + (Len(s) - Len(u))]
  BY EndsWithin
<1> QED
  BY <1>1 DEF Truthful

LEMMA FollowedUpEnds ==
    ASSUME NEW S, NEW s \in Seq(S), NEW u \in Seq(S), Ends(u, s), NEW versions, NEW silent,
           FollowedUp(s, versions, silent)
    PROVE  FollowedUp(u, versions, silent)
<1> DEFINE k == Len(s) - Len(u)
<1>1. k \in Nat /\ Len(u) \in Nat /\ Len(s) \in Nat /\ Len(u) = Len(s) - k
  BY EndsWithin
<1>2. \A i \in 1 .. Len(u) : i + k \in 1 .. Len(s) /\ u[i] = s[i + k]
  BY EndsWithin
<1> HIDE DEF k
<1> SUFFICES ASSUME NEW i \in 1 .. Len(u), NEW c \in Ids, Bears(u[i], c, 1), versions[c] = 2,
                    c \notin silent
             PROVE  \E j \in i + 1 .. Len(u) : Bears(u[j], c, 2)
  BY DEF FollowedUp
<1>3. PICK m \in (i + k) + 1 .. Len(s) : Bears(s[m], c, 2)
  BY <1>2 DEF FollowedUp
<1>4. m - k \in i + 1 .. Len(u) /\ m - k \in 1 .. Len(u) /\ (m - k) + k = m
  BY <1>1
<1> QED
  BY <1>2, <1>3, <1>4

\* One sequence and then another: each card either stays as it is, or what
\* follows bears its new version.
Told(t, c, versions) == \E j \in 1 .. Len(t) : Bears(t[j], c, versions[c])

LEMMA TruthfulAppended ==
    ASSUME NEW S, NEW s \in Seq(S), NEW t \in Seq(S), NEW before \in [Ids -> 0 .. 2],
           NEW after \in [Ids -> 0 .. 2], \A c \in Ids : before[c] <= after[c],
           Truthful(s, before), Truthful(t, after)
    PROVE  Truthful(s \o t, after)
<1> SUFFICES ASSUME NEW i \in 1 .. Len(s \o t), NEW c \in Ids, NEW version \in {1, 2},
                    Bears((s \o t)[i], c, version)
             PROVE  version <= after[c]
  BY DEF Truthful
<1>1. CASE i \in 1 .. Len(s)
  <2>1. Bears(s[i], c, version)
    BY <1>1, Appended
  <2>2. version <= before[c]
    BY <1>1, <2>1 DEF Truthful
  <2> QED
    BY <2>2
<1>2. CASE i - Len(s) \in 1 .. Len(t)
  <2>1. (s \o t)[i] = t[i - Len(s)]
    BY <1>2
  <2> QED
    BY <1>2, <2>1 DEF Truthful
<1> QED
  BY <1>1, <1>2, Appended

LEMMA FollowedUpAppended ==
    ASSUME NEW S, NEW s \in Seq(S), NEW t \in Seq(S), NEW before, NEW after, NEW silent, NEW quiet,
           FollowedUp(s, before, silent), FollowedUp(t, after, quiet),
           \A c \in Ids : (after[c] = before[c] /\ (c \in silent => c \in quiet)) \/ Told(t, c, after)
    PROVE  FollowedUp(s \o t, after, quiet)
<1>0. Len(s) \in Nat /\ Len(t) \in Nat /\ Len(s \o t) = Len(s) + Len(t)
  OBVIOUS
<1>t. \A j \in 1 .. Len(t) : (s \o t)[Len(s) + j] = t[j]
  OBVIOUS
<1>s. \A j \in 1 .. Len(s) : (s \o t)[j] = s[j]
  OBVIOUS
<1> SUFFICES ASSUME NEW i \in 1 .. Len(s \o t), NEW c \in Ids, Bears((s \o t)[i], c, 1),
                    after[c] = 2, c \notin quiet
             PROVE  \E j \in i + 1 .. Len(s \o t) : Bears((s \o t)[j], c, 2)
  BY DEF FollowedUp
<1>1. CASE i \in 1 .. Len(s) /\ Told(t, c, after)
  <2>1. PICK j \in 1 .. Len(t) : Bears(t[j], c, 2)
    BY <1>1 DEF Told
  <2>2. Len(s) + j \in i + 1 .. Len(s \o t)
    BY <1>0, <1>1
  <2> QED
    BY <1>t, <2>1, <2>2
<1>2. CASE i \in 1 .. Len(s) /\ ~Told(t, c, after)
  <2>1. before[c] = 2 /\ c \notin silent /\ Bears(s[i], c, 1)
    BY <1>2, <1>s
  <2>2. PICK j \in i + 1 .. Len(s) : Bears(s[j], c, 2)
    BY <1>2, <2>1 DEF FollowedUp
  <2>3. j \in i + 1 .. Len(s \o t) /\ j \in 1 .. Len(s)
    BY <1>0, <1>2
  <2> QED
    BY <1>s, <2>2, <2>3
<1>3. CASE i - Len(s) \in 1 .. Len(t)
  <2> DEFINE k == i - Len(s)
  <2>1. k \in 1 .. Len(t) /\ i = Len(s) + k
    BY <1>0, <1>3
  <2> HIDE DEF k
  <2>2. Bears(t[k], c, 1)
    BY <1>t, <2>1
  <2>3. PICK j \in k + 1 .. Len(t) : Bears(t[j], c, 2)
    BY <2>1, <2>2 DEF FollowedUp
  <2>4. Len(s) + j \in i + 1 .. Len(s \o t) /\ j \in 1 .. Len(t)
    BY <1>0, <2>1
  <2> QED
    BY <1>t, <2>3, <2>4
<1>4. i \in 1 .. Len(s) \/ i - Len(s) \in 1 .. Len(t)
  BY <1>0
<1> QED
  BY <1>1, <1>2, <1>3, <1>4

\* handleStream, entry by entry: the end of the log after an id (streams.ts).
LEMMA LogAfterEnds ==
    ASSUME LogInv, NEW id \in Nat
    PROVE  /\ LogAfter(id) \in Seq(LogEntries) /\ Ends(LogAfter(id), chatLog)
           /\ \A i \in 1 .. Len(LogAfter(id)) : LogAfter(id)[i].id > id
           /\ \A k \in 1 .. Len(chatLog) :
                 chatLog[k].id > id => \E i \in 1 .. Len(LogAfter(id)) : LogAfter(id)[i] = chatLog[k]
<1> DEFINE n == Len(chatLog)
           S == LogEntries
           Next1(es, e) == IF e.id > id THEN Append(es, e) ELSE es
           op == [ab \in Seq(S) \X S |-> Next1(ab[1], ab[2])]
           P(g) == g = [I \in SUBSET (DOMAIN chatLog) |->
                          IF I = {} THEN <<>> ELSE Next1(g[I \ {Max(I)}], chatLog[Max(I)])]
           it == CHOOSE g : P(g)
           m == IF id <= seq - n THEN 0 ELSE id - (seq - n)
<1>1. /\ n \in Nat /\ DOMAIN chatLog = 1 .. n /\ chatLog \in Seq(S)
      /\ \A i \in 1 .. n : chatLog[i] \in S
  BY DEF LogInv
<1>m. m \in Nat /\ \A i \in 1 .. n : chatLog[i].id > id <=> i > m
  BY <1>1 DEF LogInv
<1> HIDE DEF n, S, m
<1>2. op \in [Seq(S) \X S -> Seq(S)] /\ \A a \in Seq(S), b \in S : op[<<a, b>>] = Next1(a, b)
  OBVIOUS
<1>e. <<>> \in Seq(S)
  OBVIOUS
<1>l. LogAfter(id) = FoldLeft(Next1, <<>>, chatLog)
  BY DEF LogAfter
<1> HIDE DEF op, P, it, Next1
<1>3. \E g : P(g)
  <2>1. PICK g \in [SUBSET (DOMAIN chatLog) -> Seq(S)] : FoldsInto(g, chatLog, op, <<>>, Seq(S), S)
    BY <1>1, <1>2, <1>e, FoldedParts
  <2>2. ASSUME NEW I \in SUBSET (DOMAIN chatLog)
        PROVE  g[I] = IF I = {} THEN <<>> ELSE Next1(g[I \ {Max(I)}], chatLog[Max(I)])
    BY <1>2, <2>1 DEF FoldsInto
  <2>3. P(g)
    BY <2>1, <2>2 DEF P
  <2> QED
    BY <2>3
<1>4. P(it)
  BY <1>3 DEF it
<1>5. LogAfter(id) = it[1 .. n]
  <2>1. LogAfter(id) = it[DOMAIN chatLog]
    BY <1>l DEF FoldLeft, MapThenFoldSet, P, it
  <2> QED
    BY <1>1, <2>1
<1>6. it[1 .. 0] = <<>>
  <2>1. 1 .. 0 = {} /\ {} \in SUBSET (DOMAIN chatLog)
    OBVIOUS
  <2> QED
    BY <1>4, <2>1 DEF P
<1>7. ASSUME NEW i \in 1 .. n PROVE it[1 .. i] = Next1(it[1 .. i - 1], chatLog[i])
  <2>1. 1 .. i \in SUBSET (DOMAIN chatLog) /\ 1 .. i # {} /\ Max(1 .. i) = i /\ (1 .. i) \ {i} = 1 .. i - 1
    BY <1>1, PrefixIndices
  <2> QED
    BY <1>4, <2>1 DEF P
<1> DEFINE Good(i) == /\ it[1 .. i] \in Seq(S)
                      /\ Len(it[1 .. i]) = IF i <= m THEN 0 ELSE i - m
                      /\ \A j \in 1 .. Len(it[1 .. i]) : it[1 .. i][j] = chatLog[j + m]
           T == {i \in 0 .. n : Good(i)}
<1>8. 0 \in T
  <2>1. Good(0)
    BY <1>6, <1>m, <1>e
  <2> HIDE DEF Good
  <2>2. 0 \in 0 .. n
    BY <1>1
  <2> QED
    BY <2>1, <2>2
<1>9. ASSUME NEW i \in 0 .. n - 1, i \in T PROVE i + 1 \in T
  <2> DEFINE u == it[1 .. i]
             e == chatLog[i + 1]
  <2>1. /\ u \in Seq(S) /\ Len(u) = IF i <= m THEN 0 ELSE i - m
        /\ \A j \in 1 .. Len(u) : u[j] = chatLog[j + m]
    BY <1>9
  <2>2. it[1 .. i + 1] = Next1(u, e) /\ e \in S /\ (e.id > id <=> i + 1 > m)
    <3>1. i + 1 \in 1 .. n /\ (i + 1) - 1 = i
      BY <1>1
    <3> QED
      BY <1>1, <1>m, <1>7, <3>1
  <2>3. i + 1 \in 0 .. n
    BY <1>1
  <2>4. Good(i + 1)
    <3> HIDE DEF u
    <3>1. CASE i + 1 > m
      <4>1. it[1 .. i + 1] = Append(u, e)
        BY <2>2, <3>1 DEF Next1
      <4>2. Len(u) = i - m
        BY <1>m, <2>1, <3>1
      <4> HIDE DEF e
      <4>3. Append(u, e) \in Seq(S) /\ Len(Append(u, e)) = i - m + 1
        BY <2>1, <2>2, <4>2
      <4>4. ASSUME NEW j \in 1 .. Len(Append(u, e)) PROVE Append(u, e)[j] = chatLog[j + m]
        <5>1. j \in 1 .. Len(u) \/ j = Len(u) + 1
          BY <1>m, <4>2, <4>3
        <5>2. CASE j \in 1 .. Len(u)
          BY <2>1, <5>2
        <5>3. CASE j = Len(u) + 1
          <6>1. j + m = i + 1 /\ Append(u, e)[j] = e
            BY <1>m, <2>1, <2>2, <4>2, <5>3
          <6> QED
            BY <6>1 DEF e
        <5> QED
          BY <5>1, <5>2, <5>3
      <4>5. Len(Append(u, e)) = IF i + 1 <= m THEN 0 ELSE (i + 1) - m
        BY <1>m, <3>1, <4>3
      <4> QED
        BY <4>1, <4>3, <4>4, <4>5
    <3>2. CASE ~(i + 1 > m)
      <4>1. it[1 .. i + 1] = u
        BY <2>2, <3>2 DEF Next1
      <4> QED
        BY <1>m, <2>1, <3>2, <4>1
    <3> QED
      BY <3>1, <3>2
  <2> HIDE DEF Good
  <2> QED
    BY <2>3, <2>4
<1> HIDE DEF T
<1>10. \A i \in 0 .. n : i \in T
  BY <1>1, <1>8, <1>9, UpTo
<1>11. n \in T
  BY <1>1, <1>10
<1>12. Good(n)
  <2> HIDE DEF Good
  <2> QED
    BY <1>11 DEF T
<1> DEFINE r == LogAfter(id)
<1>13. /\ r \in Seq(S) /\ Len(r) = IF n <= m THEN 0 ELSE n - m
       /\ \A j \in 1 .. Len(r) : r[j] = chatLog[j + m]
  BY <1>5, <1>12
<1> HIDE DEF r, Good
<1>14. Ends(r, chatLog)
  <2>1. CASE n <= m
    <3>1. n \in 0 .. n /\ Len(r) = n - n /\ \A j \in 1 .. Len(r) : r[j] = chatLog[j + n]
      BY <1>1, <1>13, <2>1
    <3> QED
      BY <3>1 DEF Ends, n
  <2>2. CASE n > m
    <3>1. m \in 0 .. n /\ Len(r) = n - m
      BY <1>1, <1>m, <1>13, <2>2
    <3> QED
      BY <1>13, <3>1 DEF Ends, n
  <2> QED
    BY <1>1, <1>m, <2>1, <2>2
<1>15. \A j \in 1 .. Len(r) : r[j].id > id
  <2>1. \A j \in 1 .. Len(r) : j + m \in 1 .. n /\ j + m > m
    BY <1>1, <1>m, <1>13
  <2> QED
    BY <1>m, <1>13, <2>1
<1>16. ASSUME NEW k \in 1 .. n, chatLog[k].id > id PROVE \E i \in 1 .. Len(r) : r[i] = chatLog[k]
  <2>1. k > m /\ k - m \in 1 .. Len(r) /\ (k - m) + m = k
    BY <1>1, <1>m, <1>13, <1>16
  <2> QED
    BY <1>13, <2>1
<1> QED
  BY <1>13, <1>14, <1>15, <1>16 DEF r, S, n

-----------------------------------------------------------------------------
(* The message list. *)

PageRows == [subject : Subjects \cup {None}, life : Nat, id : Nat]
Views == [cards : [Ids -> 0 .. 2], list : Seq(PageRows), made : BOOLEAN,
          held : SUBSET PermissionIds, trimmed : SUBSET PageRows]

RowsOf(v) == {v.list[i] : i \in 1 .. Len(v.list)}
CardsOf(v) == {c \in Ids : v.cards[c] > 0}

ChatInOrder(s) ==
    \A i, j \in 1 .. Len(s) :
        i < j /\ s[i].id > 0 /\ s[j].id > 0 =>
            s[i].life < s[j].life \/ (s[i].life = s[j].life /\ s[i].id < s[j].id)

Distinct(s) == \A i, j \in 1 .. Len(s) : s[i] = s[j] => i = j

\* A card is in a map exactly while it is in the list or in the stack.
ViewShape(v) ==
    /\ v \in Views
    /\ CardsOf(v) = {c \in Ids : CardRow(c) \in RowsOf(v)} \cup v.held
    /\ \A c \in v.held : CardRow(c) \notin RowsOf(v)
    /\ Distinct(v.list)
    /\ ChatInOrder(v.list)

\* The cards of the stack are children of the list once they leave it.
ViewInv(v) ==
    /\ ViewShape(v)
    /\ Len(v.list) + Cardinality(v.held) <= DomLimit + Cardinality(PermissionIds)

\* From view v to view w, with rows R that were added and cards C that came
\* with a version: what goes is remembered, and versions never go back.
Later(v, w, R, C, version) ==
    /\ v.trimmed \subseteq w.trimmed
    /\ RowsOf(v) \cup R \subseteq RowsOf(w) \cup w.trimmed
    /\ RowsOf(w) \subseteq RowsOf(v) \cup R \cup {CardRow(c) : c \in C}
    /\ \A c \in Ids : /\ w.cards[c] <= v.cards[c] \/ (c \in C /\ w.cards[c] <= version)
                      /\ \/ CardRow(c) \in w.trimmed
                         \/ w.cards[c] >= v.cards[c] /\ (c \in C => w.cards[c] >= version)

LEMMA RowKinds ==
    /\ \A c \in Ids : CardRow(c) \in PageRows /\ CardRow(c).id = 0 /\ CardRow(c) # NoticeRow
    /\ \A c, d \in Ids : CardRow(c) = CardRow(d) => c = d
    /\ NoticeRow \in PageRows /\ NoticeRow.id = 0
<1>1. \A c \in Ids : CardRow(c) \in PageRows /\ CardRow(c).id = 0 /\ CardRow(c).subject = c
  BY DEF CardRow, PageRows, Subjects
<1>2. NoticeRow \in PageRows /\ NoticeRow.id = 0 /\ NoticeRow.subject = None
  BY DEF NoticeRow, PageRows
<1> QED
  BY <1>1, <1>2, PageAssumption

LEMMA HeldFew ==
    ASSUME NEW held \in SUBSET PermissionIds
    PROVE  /\ IsFiniteSet(held) /\ Cardinality(held) \in Nat /\ Cardinality(PermissionIds) \in Nat
           /\ Cardinality(held) <= Cardinality(PermissionIds)
           /\ \A c \in held : Cardinality(held \ {c}) = Cardinality(held) - 1
<1>1. IsFiniteSet(PermissionIds)
  BY FS_Subset, FanoutAssumption DEF Ids
<1>2. IsFiniteSet(held) /\ Cardinality(held) <= Cardinality(PermissionIds)
  BY <1>1, FS_Subset
<1>3. Cardinality(held) \in Nat /\ Cardinality(PermissionIds) \in Nat
  BY <1>1, <1>2, FS_CardinalityType
<1>4. \A c \in held : Cardinality(held \ {c}) = Cardinality(held) - 1
  BY <1>2, FS_RemoveElement
<1> QED
  BY <1>2, <1>3, <1>4

\* A row at the end, or at the top.
LEMMA RowAppended ==
    ASSUME NEW s \in Seq(PageRows), NEW r \in PageRows, Distinct(s), ChatInOrder(s),
           \A i \in 1 .. Len(s) : s[i] # r,
           \A i \in 1 .. Len(s) : s[i].id > 0 /\ r.id > 0 =>
               s[i].life < r.life \/ (s[i].life = r.life /\ s[i].id < r.id)
    PROVE  /\ Append(s, r) \in Seq(PageRows) /\ Len(Append(s, r)) = Len(s) + 1
           /\ Distinct(Append(s, r)) /\ ChatInOrder(Append(s, r))
           /\ {Append(s, r)[i] : i \in 1 .. Len(Append(s, r))} = {s[i] : i \in 1 .. Len(s)} \cup {r}
<1> DEFINE t == Append(s, r)
<1>1. /\ t \in Seq(PageRows) /\ Len(t) = Len(s) + 1 /\ Len(s) \in Nat
      /\ \A i \in 1 .. Len(s) : t[i] = s[i]
      /\ t[Len(s) + 1] = r
  BY AppendFacts
<1>2. \A i \in 1 .. Len(t) : i \in 1 .. Len(s) \/ i = Len(s) + 1
  BY <1>1
<1>3. \A i \in 1 .. Len(s) : i \in 1 .. Len(t)
  BY <1>1
<1>4. Len(s) + 1 \in 1 .. Len(t)
  BY <1>1
<1> HIDE DEF t
<1>5. Distinct(t)
  BY <1>1, <1>2 DEF Distinct
<1>6. ChatInOrder(t)
  <2> SUFFICES ASSUME NEW i \in 1 .. Len(t), NEW j \in 1 .. Len(t), i < j, t[i].id > 0, t[j].id > 0
               PROVE  t[i].life < t[j].life \/ (t[i].life = t[j].life /\ t[i].id < t[j].id)
    BY DEF ChatInOrder
  <2>1. i \in 1 .. Len(s) /\ t[i] = s[i]
    BY <1>1, <1>2
  <2>2. CASE j \in 1 .. Len(s)
    <3>1. t[j] = s[j]
      BY <1>1, <2>2
    <3> QED
      BY <2>1, <2>2, <3>1 DEF ChatInOrder
  <2>3. CASE j = Len(s) + 1
    BY <1>1, <2>1, <2>3
  <2> QED
    BY <1>2, <2>2, <2>3
<1>7. {t[i] : i \in 1 .. Len(t)} = {s[i] : i \in 1 .. Len(s)} \cup {r}
  <2>1. \A x \in {t[i] : i \in 1 .. Len(t)} : x \in {s[i] : i \in 1 .. Len(s)} \cup {r}
    BY <1>1, <1>2
  <2>2. \A x \in {s[i] : i \in 1 .. Len(s)} : x \in {t[i] : i \in 1 .. Len(t)}
    BY <1>1, <1>3
  <2>3. r \in {t[i] : i \in 1 .. Len(t)}
    BY <1>1, <1>4
  <2>4. \A x \in {s[i] : i \in 1 .. Len(s)} \cup {r} : x \in {t[i] : i \in 1 .. Len(t)}
    BY <2>2, <2>3, Zenon
  <2> HIDE DEF t
  <2> QED
    BY <2>1, <2>4, Zenon
<1> QED
  BY <1>1, <1>5, <1>6, <1>7 DEF t

LEMMA RowOnTop ==
    ASSUME NEW s \in Seq(PageRows), NEW r \in PageRows, Distinct(s), ChatInOrder(s),
           \A i \in 1 .. Len(s) : s[i] # r, r.id = 0
    PROVE  /\ <<r>> \o s \in Seq(PageRows) /\ Distinct(<<r>> \o s) /\ ChatInOrder(<<r>> \o s)
           /\ {(<<r>> \o s)[i] : i \in 1 .. Len(<<r>> \o s)} = {s[i] : i \in 1 .. Len(s)} \cup {r}
<1> DEFINE t == <<r>> \o s
<1>1. /\ t \in Seq(PageRows) /\ Len(t) = Len(s) + 1 /\ Len(s) \in Nat
      /\ \A i \in 1 .. Len(s), j \in 1 .. Len(t) : j = i + 1 => t[j] = s[i]
      /\ t[1] = r
  OBVIOUS
<1> HIDE DEF t
<1>2. \A i \in 1 .. Len(t) : i = 1 \/ (i - 1 \in 1 .. Len(s) /\ t[i] = s[i - 1])
  <2> TAKE i \in 1 .. Len(t)
  <2> DEFINE k == i - 1
  <2>1. i = 1 \/ (k \in 1 .. Len(s) /\ i = k + 1)
    BY <1>1
  <2> HIDE DEF k
  <2>2. i = 1 \/ (k \in 1 .. Len(s) /\ t[i] = s[k])
    BY <1>1, <2>1
  <2> QED
    BY <2>2 DEF k
<1>3. \A i \in 1 .. Len(s) : i + 1 \in 1 .. Len(t)
  BY <1>1
<1>4. 1 \in 1 .. Len(t)
  BY <1>1
<1>5. Distinct(t)
  <2> SUFFICES ASSUME NEW i \in 1 .. Len(t), NEW j \in 1 .. Len(t), t[i] = t[j] PROVE i = j
    BY DEF Distinct
  <2>1. \A m \in 1 .. Len(t) : m # 1 => t[m] # r
    BY <1>2
  <2>2. ASSUME i # 1, j # 1 PROVE i = j
    <3>1. i - 1 \in 1 .. Len(s) /\ j - 1 \in 1 .. Len(s) /\ s[i - 1] = s[j - 1]
      BY <1>2, <2>2
    <3>2. i - 1 = j - 1
      BY <3>1 DEF Distinct
    <3> QED
      BY <3>2
  <2> QED
    BY <1>1, <2>1, <2>2
<1>6. ChatInOrder(t)
  <2> SUFFICES ASSUME NEW i \in 1 .. Len(t), NEW j \in 1 .. Len(t), i < j, t[i].id > 0, t[j].id > 0
               PROVE  t[i].life < t[j].life \/ (t[i].life = t[j].life /\ t[i].id < t[j].id)
    BY DEF ChatInOrder
  <2>1. i # 1 /\ j # 1
    BY <1>1
  <2>2. i - 1 \in 1 .. Len(s) /\ j - 1 \in 1 .. Len(s) /\ i - 1 < j - 1
    BY <1>1, <1>2, <2>1
  <2>3. t[i] = s[i - 1] /\ t[j] = s[j - 1]
    BY <1>2, <2>1
  <2> QED
    BY <2>2, <2>3 DEF ChatInOrder
<1>7. {t[i] : i \in 1 .. Len(t)} = {s[i] : i \in 1 .. Len(s)} \cup {r}
  <2>1. \A x \in {t[i] : i \in 1 .. Len(t)} : x \in {s[i] : i \in 1 .. Len(s)} \cup {r}
    BY <1>1, <1>2
  <2>2. \A i \in 1 .. Len(s) : \E j \in 1 .. Len(t) : t[j] = s[i]
    BY <1>1, <1>3
  <2>3. r \in {t[i] : i \in 1 .. Len(t)}
    BY <1>1, <1>4
  <2>4. \A x \in {s[i] : i \in 1 .. Len(s)} \cup {r} : x \in {t[i] : i \in 1 .. Len(t)}
    <3> HIDE DEF t
    <3>1. ASSUME NEW i \in 1 .. Len(s) PROVE s[i] \in {t[j] : j \in 1 .. Len(t)}
      BY <2>2
    <3> QED
      BY <2>3, <3>1
  <2> HIDE DEF t
  <2> QED
    BY <2>1, <2>4, Zenon
<1> QED
  BY <1>1, <1>5, <1>6, <1>7 DEF t

LEMMA RowsEnd ==
    ASSUME NEW s \in Seq(PageRows), NEW u \in Seq(PageRows), Ends(u, s), Distinct(s), ChatInOrder(s)
    PROVE  /\ Distinct(u) /\ ChatInOrder(u)
           /\ {u[i] : i \in 1 .. Len(u)} \subseteq {s[i] : i \in 1 .. Len(s)}
<1> DEFINE k == Len(s) - Len(u)
<1>1. k \in Nat /\ Len(u) \in Nat
  BY EndsWithin
<1>2. \A i \in 1 .. Len(u) : i + k \in 1 .. Len(s) /\ u[i] = s[i + k]
  BY EndsWithin
<1> HIDE DEF k
<1>3. Distinct(u)
  <2> SUFFICES ASSUME NEW i \in 1 .. Len(u), NEW j \in 1 .. Len(u), u[i] = u[j] PROVE i = j
    BY DEF Distinct
  <2>1. i + k = j + k
    BY <1>2 DEF Distinct
  <2> QED
    BY <1>1, <2>1
<1>4. ChatInOrder(u)
  <2> SUFFICES ASSUME NEW i \in 1 .. Len(u), NEW j \in 1 .. Len(u), i < j, u[i].id > 0, u[j].id > 0
               PROVE  u[i].life < u[j].life \/ (u[i].life = u[j].life /\ u[i].id < u[j].id)
    BY DEF ChatInOrder
  <2> DEFINE a == i + k
             b == j + k
  <2>1. a < b
    BY <1>1
  <2>2. a \in 1 .. Len(s) /\ b \in 1 .. Len(s) /\ u[i] = s[a] /\ u[j] = s[b]
    BY <1>2
  <2> HIDE DEF a, b
  <2> QED
    BY <2>1, <2>2 DEF ChatInOrder
<1> QED
  BY <1>2, <1>3, <1>4

\* trimMessages: what goes is forgotten, and remembered by the history.
LEMMA TrimmedLater ==
    ASSUME NEW v, ViewShape(v)
    PROVE  /\ ViewInv(Trimmed(v)) /\ Later(v, Trimmed(v), {}, {}, 0)
           /\ Trimmed(v).held = v.held
<1> DEFINE n == IF v.made THEN DomLimit - 1 ELSE DomLimit
           kept == LastOf(v.list, n)
           gone == ToSet(v.list) \ ToSet(kept)
           w == Trimmed(v)
<1>1. /\ v \in Views /\ v.list \in Seq(PageRows) /\ v.cards \in [Ids -> 0 .. 2] /\ v.made \in BOOLEAN
      /\ v.held \in SUBSET PermissionIds /\ v.trimmed \in SUBSET PageRows
  BY DEF ViewShape, Views
<1>2. n \in Nat /\ n <= DomLimit /\ DomLimit \in Nat
  BY <1>1, PageAssumption
<1> HIDE DEF n
<1>3. kept \in Seq(PageRows) /\ Ends(kept, v.list) /\ Len(kept) <= n /\ Len(kept) \in Nat
  <2>1. kept \in Seq(PageRows) /\ Ends(kept, v.list)
    BY <1>1, <1>2, LastOfEnds
  <2>2. Len(kept) = IF Len(v.list) <= n THEN Len(v.list) ELSE n
    BY <1>1, <1>2, LastOfEnds
  <2> QED
    BY <1>1, <1>2, <2>1, <2>2
<1>4. ToSet(v.list) = RowsOf(v) /\ ToSet(kept) = {kept[i] : i \in 1 .. Len(kept)}
  BY <1>1, <1>3 DEF ToSet, RowsOf
<1>5. /\ w.list = kept /\ w.trimmed = v.trimmed \cup gone /\ w.made = v.made /\ w.held = v.held
      /\ w.cards = [c \in Ids |-> IF CardRow(c) \in gone THEN 0 ELSE v.cards[c]]
  BY <1>1 DEF Trimmed, n, Views
<1>r. w = [cards |-> w.cards, list |-> w.list, made |-> w.made, held |-> w.held, trimmed |-> w.trimmed]
  <2>1. v = [cards |-> v.cards, list |-> v.list, made |-> v.made, held |-> v.held, trimmed |-> v.trimmed]
    BY <1>1 DEF Views
  <2> HIDE DEF kept, gone
  <2>2. w = [v EXCEPT !.list = kept, !.trimmed = v.trimmed \cup gone,
                      !.cards = [c \in Ids |-> IF CardRow(c) \in gone THEN 0 ELSE v.cards[c]]]
    BY DEF Trimmed, n, kept, gone
  <2> HIDE DEF w
  <2> QED
    BY <1>5, <2>1, <2>2
<1>6. gone \subseteq PageRows
  BY <1>1, <1>4 DEF RowsOf
<1>7. w \in Views
  <2>1. w.cards \in [Ids -> 0 .. 2]
    BY <1>1, <1>5
  <2>2. w.trimmed \in SUBSET PageRows
    BY <1>1, <1>5, <1>6
  <2> HIDE DEF w, kept, gone
  <2> QED
    BY <1>1, <1>3, <1>5, <1>r, <2>1, <2>2 DEF Views
<1>8. RowsOf(w) = ToSet(kept)
  BY <1>4, <1>5 DEF RowsOf
<1>9. Distinct(kept) /\ ChatInOrder(kept) /\ ToSet(kept) \subseteq ToSet(v.list)
  BY <1>1, <1>3, <1>4, RowsEnd DEF ViewShape, RowsOf
<1> HIDE DEF w, kept
<1>10. \A c \in Ids : w.cards[c] = IF CardRow(c) \in gone THEN 0 ELSE v.cards[c]
  BY <1>5
<1>11. \A c \in Ids : v.cards[c] \in 0 .. 2
  BY <1>1
<1>12. \A c \in Ids : w.cards[c] > 0 <=> CardRow(c) \in RowsOf(w) \/ c \in w.held
  <2> TAKE c \in Ids
  <2>1. v.cards[c] > 0 <=> CardRow(c) \in RowsOf(v) \/ c \in v.held
    BY DEF ViewShape, CardsOf
  <2>2. c \in v.held => CardRow(c) \notin RowsOf(v)
    BY DEF ViewShape
  <2> QED
    BY <1>4, <1>5, <1>8, <1>9, <1>10, <2>1, <2>2
<1>13. \A c \in w.held : CardRow(c) \notin RowsOf(w)
  BY <1>4, <1>5, <1>8, <1>9 DEF ViewShape
<1>14. w.held \subseteq Ids
  BY <1>1, <1>5 DEF Ids
<1>15. ViewShape(w)
  <2>1. CardsOf(w) = {c \in Ids : CardRow(c) \in RowsOf(w)} \cup w.held
    BY <1>12, <1>14 DEF CardsOf
  <2> QED
    BY <1>5, <1>7, <1>9, <1>13, <2>1 DEF ViewShape
<1>16. Len(w.list) + Cardinality(w.held) <= DomLimit + Cardinality(PermissionIds)
  <2>1. /\ Cardinality(w.held) \in Nat /\ Cardinality(PermissionIds) \in Nat
        /\ Cardinality(w.held) <= Cardinality(PermissionIds)
    BY <1>1, <1>5, HeldFew
  <2> QED
    BY <1>2, <1>3, <1>5, <2>1
<1>17. Later(v, w, {}, {}, 0)
  <2>1. v.trimmed \subseteq w.trimmed /\ RowsOf(v) \cup {} \subseteq RowsOf(w) \cup w.trimmed
    BY <1>4, <1>5, <1>8
  <2>2. RowsOf(w) \subseteq RowsOf(v) \cup {} \cup {CardRow(c) : c \in {}}
    BY <1>4, <1>8, <1>9
  <2>3. ASSUME NEW c \in Ids
        PROVE  /\ w.cards[c] <= v.cards[c] \/ (c \in {} /\ w.cards[c] <= 0)
               /\ \/ CardRow(c) \in w.trimmed
                  \/ w.cards[c] >= v.cards[c] /\ (c \in {} => w.cards[c] >= 0)
    <3> HIDE DEF gone
    <3>1. CASE CardRow(c) \in gone
      BY <1>5, <1>10, <1>11, <3>1
    <3>2. CASE CardRow(c) \notin gone
      BY <1>10, <1>11, <3>2
    <3> QED
      BY <3>1, <3>2
  <2> QED
    BY <2>1, <2>2, <2>3 DEF Later
<1> QED
  BY <1>5, <1>15, <1>16, <1>17 DEF ViewInv, w

LEMMA LaterLater ==
    ASSUME NEW v \in Views, NEW u \in Views, NEW w \in Views, NEW R, NEW T, NEW C, NEW D,
           NEW version \in Nat, NEW next \in Nat, Later(v, u, R, C, version), Later(u, w, T, D, next),
           D = {} \/ next = version
    PROVE  Later(v, w, R \cup T, C \cup D, version)
<1>1. v.trimmed \subseteq w.trimmed
  BY DEF Later
<1>2. RowsOf(v) \cup (R \cup T) \subseteq RowsOf(w) \cup w.trimmed
  BY DEF Later
<1>3. RowsOf(w) \subseteq RowsOf(v) \cup (R \cup T) \cup {CardRow(c) : c \in C \cup D}
  BY DEF Later
<1>4. ASSUME NEW c \in Ids
      PROVE  /\ w.cards[c] <= v.cards[c] \/ (c \in C \cup D /\ w.cards[c] <= version)
             /\ \/ CardRow(c) \in w.trimmed
                \/ w.cards[c] >= v.cards[c] /\ (c \in C \cup D => w.cards[c] >= version)
  <2>1. v.cards[c] \in 0 .. 2 /\ u.cards[c] \in 0 .. 2 /\ w.cards[c] \in 0 .. 2
    BY DEF Views
  <2>2. /\ u.cards[c] <= v.cards[c] \/ (c \in C /\ u.cards[c] <= version)
        /\ \/ CardRow(c) \in u.trimmed
           \/ u.cards[c] >= v.cards[c] /\ (c \in C => u.cards[c] >= version)
    BY DEF Later
  <2>3. /\ w.cards[c] <= u.cards[c] \/ (c \in D /\ w.cards[c] <= version)
        /\ \/ CardRow(c) \in w.trimmed
           \/ w.cards[c] >= u.cards[c] /\ (c \in D => w.cards[c] >= version)
    BY DEF Later
  <2>4. u.trimmed \subseteq w.trimmed
    BY DEF Later
  <2>5. w.cards[c] <= v.cards[c] \/ (c \in C \cup D /\ w.cards[c] <= version)
    BY <2>1, <2>2, <2>3
  <2>6. \/ CardRow(c) \in w.trimmed
        \/ w.cards[c] >= v.cards[c] /\ (c \in C \cup D => w.cards[c] >= version)
    BY <2>1, <2>2, <2>3, <2>4
  <2> QED
    BY <2>5, <2>6
<1> QED
  BY <1>1, <1>2, <1>3, <1>4 DEF Later

LEMMA LaterItself ==
    ASSUME NEW v \in Views, NEW C, NEW version \in Nat, \A c \in C : c \in Ids => v.cards[c] >= version
    PROVE  Later(v, v, {}, C, version)
<1>1. \A c \in Ids : v.cards[c] \in 0 .. 2
  BY DEF Views
<1> QED
  BY <1>1 DEF Later

\* A card enters the stack, or the list.
LEMMA CardPlaced ==
    ASSUME NEW v, ViewShape(v), NEW c \in Ids, NEW version \in {1, 2}, v.cards[c] = 0,
           NEW w \in Views, w.trimmed = v.trimmed,
           \A d \in Ids : w.cards[d] = IF d = c THEN version ELSE v.cards[d],
           \/ w.list = v.list /\ w.held = v.held \cup {c}
           \/ /\ w.held = v.held /\ Distinct(w.list) /\ ChatInOrder(w.list)
              /\ RowsOf(w) = RowsOf(v) \cup {CardRow(c)}
    PROVE  ViewShape(w) /\ Later(v, w, {}, {c}, version)
<1>1. v \in Views /\ \A d \in Ids : v.cards[d] \in 0 .. 2
  BY DEF ViewShape, Views
<1>3. \A d \in Ids : v.cards[d] > 0 <=> CardRow(d) \in RowsOf(v) \/ d \in v.held
  BY DEF ViewShape, CardsOf
<1>4. CardRow(c) \notin RowsOf(v) /\ c \notin v.held
  BY <1>3
<1>5. w.held \subseteq Ids
  BY DEF Views, Ids
<1>6. Distinct(w.list) /\ ChatInOrder(w.list) /\ \A d \in w.held : CardRow(d) \notin RowsOf(w)
  <2>1. CASE w.list = v.list /\ w.held = v.held \cup {c}
    <3>1. RowsOf(w) = RowsOf(v)
      BY <2>1 DEF RowsOf
    <3> QED
      BY <1>4, <2>1, <3>1 DEF ViewShape
  <2>2. CASE w.held = v.held /\ RowsOf(w) = RowsOf(v) \cup {CardRow(c)}
    <3>1. \A d \in w.held : CardRow(d) # CardRow(c)
      BY <1>4, <1>5, <2>2, RowKinds
    <3>2. \A d \in w.held : CardRow(d) \notin RowsOf(v)
      BY <2>2 DEF ViewShape
    <3>3. Distinct(w.list) /\ ChatInOrder(w.list)
      <4>1. CASE w.list = v.list
        BY <4>1 DEF ViewShape
      <4> QED
        BY <4>1
    <3> QED
      BY <2>2, <3>1, <3>2, <3>3
  <2> QED
    BY <2>1, <2>2
<1>7. \A d \in Ids : w.cards[d] > 0 <=> CardRow(d) \in RowsOf(w) \/ d \in w.held
  <2> TAKE d \in Ids
  <2>1. CASE w.list = v.list /\ w.held = v.held \cup {c}
    <3>1. RowsOf(w) = RowsOf(v)
      BY <2>1 DEF RowsOf
    <3> QED
      BY <1>3, <2>1, <3>1
  <2>2. CASE w.held = v.held /\ RowsOf(w) = RowsOf(v) \cup {CardRow(c)}
    <3>1. CardRow(d) = CardRow(c) => d = c
      BY RowKinds
    <3> QED
      BY <1>3, <2>2, <3>1
  <2> QED
    BY <2>1, <2>2
<1>8. CardsOf(w) = {d \in Ids : CardRow(d) \in RowsOf(w)} \cup w.held
  BY <1>5, <1>7 DEF CardsOf
<1>9. Later(v, w, {}, {c}, version)
  <2>1. RowsOf(v) \subseteq RowsOf(w) /\ RowsOf(w) \subseteq RowsOf(v) \cup {CardRow(c)}
    <3>1. w.list = v.list => RowsOf(w) = RowsOf(v)
      BY DEF RowsOf
    <3> QED
      BY <3>1
  <2>2. \A d \in Ids : /\ w.cards[d] <= v.cards[d] \/ (d \in {c} /\ w.cards[d] <= version)
                       /\ w.cards[d] >= v.cards[d] /\ (d \in {c} => w.cards[d] >= version)
    BY <1>1
  <2> QED
    BY <2>1, <2>2 DEF Later
<1> QED
  BY <1>6, <1>8, <1>9 DEF ViewShape

LEMMA FieldsOf ==
    ASSUME NEW v \in Views
    PROVE  /\ v = [cards |-> v.cards, list |-> v.list, made |-> v.made, held |-> v.held,
                   trimmed |-> v.trimmed]
           /\ v.cards \in [Ids -> 0 .. 2] /\ v.list \in Seq(PageRows) /\ v.made \in BOOLEAN
           /\ v.held \in SUBSET PermissionIds /\ v.trimmed \in SUBSET PageRows
  BY DEF Views

LEMMA CardNotShown ==
    ASSUME NEW v, ViewShape(v), NEW c \in Ids, v.cards[c] = 0 \/ c \in v.held
    PROVE  \A i \in 1 .. Len(v.list) : v.list[i] # CardRow(c)
<1>1. v.cards[c] > 0 <=> CardRow(c) \in RowsOf(v) \/ c \in v.held
  BY DEF ViewShape, CardsOf
<1>2. c \in v.held => CardRow(c) \notin RowsOf(v)
  BY DEF ViewShape
<1>3. v.cards[c] \in 0 .. 2
  BY DEF ViewShape, Views
<1> QED
  BY <1>1, <1>2, <1>3 DEF RowsOf

\* A new card, and what goes for it.
LEMMA WithCardLater ==
    ASSUME NEW v, ViewInv(v), NEW c \in Ids, NEW version \in {1, 2}, v.cards[c] = 0
    PROVE  ViewInv(WithCard(v, c, version)) /\ Later(v, WithCard(v, c, version), {}, {c}, version)
<1> DEFINE cards == [v.cards EXCEPT ![c] = version]
           row == CardRow(c)
           known == [v EXCEPT !.cards[c] = version]
           held == [known EXCEPT !.made = TRUE, !.held = @ \cup {c}]
           onTop == [known EXCEPT !.list = <<row>> \o @]
           atEnd == [known EXCEPT !.list = Append(@, row)]
<1>1. v \in Views /\ ViewShape(v) /\ Distinct(v.list) /\ ChatInOrder(v.list) /\ row \in PageRows /\ row.id = 0
  BY RowKinds DEF ViewInv, ViewShape
<1>2. /\ v = [cards |-> v.cards, list |-> v.list, made |-> v.made, held |-> v.held, trimmed |-> v.trimmed]
      /\ v.cards \in [Ids -> 0 .. 2] /\ v.list \in Seq(PageRows) /\ v.made \in BOOLEAN
      /\ v.held \in SUBSET PermissionIds /\ v.trimmed \in SUBSET PageRows
  BY <1>1, FieldsOf
<1>3. cards \in [Ids -> 0 .. 2]
  BY <1>2
<1>4. \A i \in 1 .. Len(v.list) : v.list[i] # row
  BY <1>1, CardNotShown
<1>k. known = [cards |-> cards, list |-> v.list, made |-> v.made, held |-> v.held, trimmed |-> v.trimmed]
  <2>1. known = [v EXCEPT !.cards = cards]
    BY <1>2
  <2> HIDE DEF known, cards
  <2> QED
    BY <1>2, <2>1
<1>w. WithCard(v, c, version) =
        Trimmed(CASE version = 1 /\ c \in PermissionIds -> held
                  [] version = 1 /\ c \in InterruptIds -> onTop
                  [] OTHER -> atEnd)
  BY Zenon DEF WithCard
<1> DEFINE Good(u) == ViewShape(u) /\ Later(v, u, {}, {c}, version)
<1> HIDE DEF known
<1>5. ASSUME c \in PermissionIds PROVE Good(held)
  <2> HIDE DEF cards
  <2>1. held.list = v.list /\ held.held = v.held \cup {c} /\ held.trimmed = v.trimmed /\ held.cards = cards
    BY <1>k
  <2>2. held \in Views
    BY <1>2, <1>3, <1>5, <1>k DEF Views
  <2> HIDE DEF held, row
  <2>3. \A d \in Ids : held.cards[d] = IF d = c THEN version ELSE v.cards[d]
    BY <1>2, <2>1 DEF cards
  <2> QED
    BY <1>1, <2>1, <2>2, <2>3, CardPlaced
<1>6. Good(onTop)
  <2> DEFINE list == <<row>> \o v.list
  <2> HIDE DEF cards
  <2>1. onTop.list = list /\ onTop.held = v.held /\ onTop.trimmed = v.trimmed /\ onTop.cards = cards
    BY <1>k
  <2>2. /\ list \in Seq(PageRows) /\ Distinct(list) /\ ChatInOrder(list)
        /\ {list[i] : i \in 1 .. Len(list)} = {v.list[i] : i \in 1 .. Len(v.list)} \cup {row}
    <3>1. \A i \in 1 .. Len(v.list) : ~(v.list[i].id > 0 /\ row.id > 0)
      BY <1>1
    <3> HIDE DEF row
    <3> QED
      BY <1>1, <1>2, <1>4, <3>1, RowOnTop
  <2>3. onTop \in Views
    <3> HIDE DEF list
    <3>1. onTop = [known EXCEPT !.list = list]
      BY <1>k DEF list
    <3> HIDE DEF onTop
    <3> QED
      BY <1>2, <1>3, <1>k, <2>2, <3>1 DEF Views
  <2> HIDE DEF onTop, list
  <2>4. RowsOf(onTop) = RowsOf(v) \cup {CardRow(c)}
    BY <2>1, <2>2 DEF RowsOf
  <2>5. \A d \in Ids : onTop.cards[d] = IF d = c THEN version ELSE v.cards[d]
    BY <1>2, <2>1 DEF cards
  <2>6. Distinct(onTop.list) /\ ChatInOrder(onTop.list)
    BY <2>1, <2>2
  <2> HIDE DEF row
  <2> QED
    BY <1>1, <2>1, <2>3, <2>4, <2>5, <2>6, CardPlaced
<1>7. Good(atEnd)
  <2> DEFINE list == Append(v.list, row)
  <2> HIDE DEF cards
  <2>1. atEnd.list = list /\ atEnd.held = v.held /\ atEnd.trimmed = v.trimmed /\ atEnd.cards = cards
    BY <1>k
  <2>2. /\ list \in Seq(PageRows) /\ Distinct(list) /\ ChatInOrder(list)
        /\ {list[i] : i \in 1 .. Len(list)} = {v.list[i] : i \in 1 .. Len(v.list)} \cup {row}
    <3>1. \A i \in 1 .. Len(v.list) : ~(v.list[i].id > 0 /\ row.id > 0)
      BY <1>1
    <3> HIDE DEF row
    <3> QED
      BY <1>1, <1>2, <1>4, <3>1, RowAppended
  <2>3. atEnd \in Views
    <3> HIDE DEF list
    <3>1. atEnd = [known EXCEPT !.list = list]
      BY <1>k DEF list
    <3> HIDE DEF atEnd
    <3> QED
      BY <1>2, <1>3, <1>k, <2>2, <3>1 DEF Views
  <2> HIDE DEF atEnd, list
  <2>4. RowsOf(atEnd) = RowsOf(v) \cup {CardRow(c)}
    BY <2>1, <2>2 DEF RowsOf
  <2>5. \A d \in Ids : atEnd.cards[d] = IF d = c THEN version ELSE v.cards[d]
    BY <1>2, <2>1 DEF cards
  <2>6. Distinct(atEnd.list) /\ ChatInOrder(atEnd.list)
    BY <2>1, <2>2
  <2> HIDE DEF row
  <2> QED
    BY <1>1, <2>1, <2>3, <2>4, <2>5, <2>6, CardPlaced
<1>8. \E u : Good(u) /\ WithCard(v, c, version) = Trimmed(u)
  <2>1. CASE version = 1 /\ c \in PermissionIds
    <3>1. WithCard(v, c, version) = Trimmed(held)
      BY <1>w, <2>1, FanoutAssumption
    <3> HIDE DEF Good, held
    <3> QED
      BY <1>5, <2>1, <3>1
  <2>2. CASE ~(version = 1 /\ c \in PermissionIds) /\ version = 1 /\ c \in InterruptIds
    <3>1. WithCard(v, c, version) = Trimmed(onTop)
      BY <1>w, <2>2
    <3> HIDE DEF Good, onTop
    <3> QED
      BY <1>6, <2>2, <3>1
  <2>3. CASE ~(version = 1 /\ c \in PermissionIds) /\ ~(version = 1 /\ c \in InterruptIds)
    <3>1. WithCard(v, c, version) = Trimmed(atEnd)
      BY <1>w, <2>3
    <3> HIDE DEF Good, atEnd
    <3> QED
      BY <1>7, <2>3, <3>1
  <2> QED
    BY <2>1, <2>2, <2>3
<1>9. PICK u : Good(u) /\ WithCard(v, c, version) = Trimmed(u)
  <2> HIDE DEF Good
  <2> QED
    BY <1>8
<1> DEFINE w == Trimmed(u)
<1>10. ViewInv(w) /\ Later(u, w, {}, {}, 0)
  BY <1>9, TrimmedLater
<1>11. u \in Views /\ w \in Views
  BY <1>9, <1>10 DEF ViewInv, ViewShape
<1> HIDE DEF w
<1>12. Later(v, w, {} \cup {}, {c} \cup {}, version)
  BY <1>1, <1>9, <1>10, <1>11, LaterLater
<1>13. {} \cup {} = {} /\ {c} \cup {} = {c}
  OBVIOUS
<1>14. Later(v, w, {}, {c}, version)
  BY <1>12, <1>13
<1> QED
  BY <1>9, <1>10, <1>14 DEF w

\* A card that is shown gets another version.
LEMMA WithVersionLater ==
    ASSUME NEW v, ViewInv(v), NEW c \in Ids, NEW version \in {1, 2}, v.cards[c] \in 1 .. version - 1
    PROVE  ViewInv(WithVersion(v, c, version)) /\ Later(v, WithVersion(v, c, version), {}, {c}, version)
<1> DEFINE w == WithVersion(v, c, version)
           row == CardRow(c)
           known == [v EXCEPT !.cards[c] = version]
           cards == [v.cards EXCEPT ![c] = version]
           list == IF c \in v.held THEN Append(v.list, row) ELSE v.list
           held == v.held \ {c}
<1>1. v \in Views /\ ViewShape(v) /\ Distinct(v.list) /\ ChatInOrder(v.list) /\ row \in PageRows /\ row.id = 0
  BY RowKinds DEF ViewInv, ViewShape
<1>2. /\ v = [cards |-> v.cards, list |-> v.list, made |-> v.made, held |-> v.held, trimmed |-> v.trimmed]
      /\ v.cards \in [Ids -> 0 .. 2] /\ v.list \in Seq(PageRows) /\ v.made \in BOOLEAN
      /\ v.held \in SUBSET PermissionIds /\ v.trimmed \in SUBSET PageRows
  BY <1>1, FieldsOf
<1>3. cards \in [Ids -> 0 .. 2] /\ held \in SUBSET PermissionIds
  BY <1>2
<1>4. /\ list \in Seq(PageRows) /\ Distinct(list) /\ ChatInOrder(list)
      /\ {list[i] : i \in 1 .. Len(list)} = RowsOf(v) \cup (IF c \in v.held THEN {row} ELSE {})
      /\ Len(list) = Len(v.list) + (IF c \in v.held THEN 1 ELSE 0)
  <2>1. CASE c \in v.held
    <3>1. \A i \in 1 .. Len(v.list) : v.list[i] # row
      BY <1>1, <2>1, CardNotShown
    <3>2. \A i \in 1 .. Len(v.list) : ~(v.list[i].id > 0 /\ row.id > 0)
      BY <1>1
    <3>3. list = Append(v.list, row)
      BY <2>1
    <3> HIDE DEF row, list
    <3> QED
      BY <1>1, <1>2, <2>1, <3>1, <3>2, <3>3, RowAppended DEF RowsOf
  <2>2. CASE c \notin v.held
    BY <1>1, <1>2, <2>2 DEF RowsOf
  <2> QED
    BY <2>1, <2>2
<1>k. known = [cards |-> cards, list |-> v.list, made |-> v.made, held |-> v.held, trimmed |-> v.trimmed]
  <2>1. known = [v EXCEPT !.cards = cards]
    BY <1>2
  <2> HIDE DEF known, cards
  <2> QED
    BY <1>2, <2>1
<1> HIDE DEF list, held, cards
<1>5. w = [known EXCEPT !.held = held, !.list = list]
  <2>1. w = [v EXCEPT !.cards[c] = version, !.held = v.held \ {c},
                      !.list = IF c \in v.held THEN Append(v.list, CardRow(c)) ELSE v.list]
    BY DEF WithVersion
  <2> QED
    BY <2>1 DEF list, held
<1> HIDE DEF w, known
<1>6. w.cards = cards /\ w.list = list /\ w.held = held /\ w.trimmed = v.trimmed
  BY <1>k, <1>5
<1>7. w \in Views
  BY <1>2, <1>3, <1>4, <1>k, <1>5 DEF Views
<1>8. \A d \in Ids : w.cards[d] = IF d = c THEN version ELSE v.cards[d]
  BY <1>2, <1>6 DEF cards
<1>9. RowsOf(w) = RowsOf(v) \cup (IF c \in v.held THEN {row} ELSE {})
  BY <1>4, <1>6 DEF RowsOf
<1>10. w.held \subseteq Ids /\ w.held = v.held \ {c}
  BY <1>3, <1>6 DEF Ids, held
<1>11. \A d \in Ids : CardRow(d) = row => d = c
  BY RowKinds
<1> HIDE DEF row
<1>12. \A d \in Ids : w.cards[d] > 0 <=> CardRow(d) \in RowsOf(w) \/ d \in w.held
  <2> TAKE d \in Ids
  <2>1. v.cards[d] > 0 <=> CardRow(d) \in RowsOf(v) \/ d \in v.held
    BY <1>1 DEF ViewShape, CardsOf
  <2>2. v.cards[c] > 0 <=> row \in RowsOf(v) \/ c \in v.held
    BY <1>1 DEF ViewShape, CardsOf, row
  <2>3. CASE d = c
    BY <1>8, <1>9, <1>10, <2>2, <2>3 DEF row
  <2>4. CASE d # c
    BY <1>8, <1>9, <1>10, <1>11, <2>1, <2>4
  <2> QED
    BY <2>3, <2>4
<1>13. \A d \in w.held : CardRow(d) \notin RowsOf(w)
  BY <1>1, <1>9, <1>10, <1>11 DEF ViewShape
<1>14. ViewShape(w)
  <2>1. CardsOf(w) = {d \in Ids : CardRow(d) \in RowsOf(w)} \cup w.held
    BY <1>10, <1>12 DEF CardsOf
  <2> QED
    BY <1>4, <1>6, <1>7, <1>13, <2>1 DEF ViewShape
<1>15. Len(w.list) + Cardinality(w.held) <= DomLimit + Cardinality(PermissionIds)
  <2>1. Len(v.list) + Cardinality(v.held) <= DomLimit + Cardinality(PermissionIds)
    BY DEF ViewInv
  <2>2. /\ Cardinality(v.held) \in Nat /\ Cardinality(PermissionIds) \in Nat
        /\ \A d \in v.held : Cardinality(v.held \ {d}) = Cardinality(v.held) - 1
    BY <1>2, HeldFew
  <2>3. CASE c \in v.held
    BY <1>2, <1>4, <1>6, <1>10, <2>1, <2>2, <2>3
  <2>4. CASE c \notin v.held
    <3>1. w.held = v.held
      BY <1>10, <2>4
    <3> QED
      BY <1>4, <1>6, <2>1, <2>4, <3>1
  <2> QED
    BY <2>3, <2>4
<1>16. Later(v, w, {}, {c}, version)
  <2>1. RowsOf(v) \subseteq RowsOf(w) /\ RowsOf(w) \subseteq RowsOf(v) \cup {CardRow(c)}
    BY <1>9 DEF row
  <2>2. \A d \in Ids : v.cards[d] \in 0 .. 2
    BY <1>2
  <2>3. \A d \in Ids : /\ w.cards[d] <= v.cards[d] \/ (d \in {c} /\ w.cards[d] <= version)
                       /\ w.cards[d] >= v.cards[d] /\ (d \in {c} => w.cards[d] >= version)
    BY <1>8, <2>2
  <2> QED
    BY <1>6, <2>1, <2>3 DEF Later
<1> QED
  BY <1>14, <1>15, <1>16 DEF ViewInv, w

\* renderHandoffCard, renderInterruptCard, renderPermissionCard: a card never
\* shows less than before (handoff.js, interrupt.js, permission.js).
LEMMA WithEventLater ==
    ASSUME NEW v, ViewInv(v), NEW c \in Ids, NEW version \in {1, 2}
    PROVE  ViewInv(WithEvent(v, c, version)) /\ Later(v, WithEvent(v, c, version), {}, {c}, version)
<1>1. v \in Views /\ v.cards[c] \in 0 .. 2
  BY DEF ViewInv, ViewShape, Views
<1>2. CASE v.cards[c] >= version
  <2>1. WithEvent(v, c, version) = v
    BY <1>1, <1>2 DEF WithEvent
  <2> QED
    BY <1>1, <1>2, <2>1, LaterItself
<1>3. CASE v.cards[c] \in 1 .. version - 1
  <2>1. WithEvent(v, c, version) = WithVersion(v, c, version)
    BY <1>1, <1>3 DEF WithEvent
  <2> QED
    BY <1>3, <2>1, WithVersionLater
<1>4. CASE v.cards[c] = 0
  <2>1. WithEvent(v, c, version) = WithCard(v, c, version)
    BY <1>1, <1>4 DEF WithEvent
  <2> QED
    BY <1>4, <2>1, WithCardLater
<1> QED
  BY <1>1, <1>2, <1>3, <1>4

\* A row that is no card: a message that is later than what the list shows, or
\* the notice of the page.
LEMMA RowLater ==
    ASSUME NEW v, ViewInv(v), NEW r \in PageRows, \A c \in Ids : CardRow(c) # r, r \notin RowsOf(v),
           \A x \in RowsOf(v) : x.id > 0 /\ r.id > 0 =>
               x.life < r.life \/ (x.life = r.life /\ x.id < r.id)
    PROVE  LET w == Trimmed([v EXCEPT !.list = Append(@, r)])
           IN  ViewInv(w) /\ Later(v, w, {r}, {}, 0)
<1> DEFINE list == Append(v.list, r)
           u == [v EXCEPT !.list = Append(@, r)]
           w == Trimmed(u)
<1>1. v \in Views /\ ViewShape(v) /\ Distinct(v.list) /\ ChatInOrder(v.list)
  BY DEF ViewInv, ViewShape
<1>2. /\ v = [cards |-> v.cards, list |-> v.list, made |-> v.made, held |-> v.held, trimmed |-> v.trimmed]
      /\ v.cards \in [Ids -> 0 .. 2] /\ v.list \in Seq(PageRows) /\ v.made \in BOOLEAN
      /\ v.held \in SUBSET PermissionIds /\ v.trimmed \in SUBSET PageRows
  BY <1>1, FieldsOf
<1>3. /\ list \in Seq(PageRows) /\ Distinct(list) /\ ChatInOrder(list)
      /\ {list[i] : i \in 1 .. Len(list)} = RowsOf(v) \cup {r}
  <2>1. \A i \in 1 .. Len(v.list) : v.list[i] \in RowsOf(v)
    BY DEF RowsOf
  <2>2. \A i \in 1 .. Len(v.list) : v.list[i] # r
    BY <2>1
  <2>3. \A i \in 1 .. Len(v.list) : v.list[i].id > 0 /\ r.id > 0 =>
            v.list[i].life < r.life \/ (v.list[i].life = r.life /\ v.list[i].id < r.id)
    BY <2>1
  <2> QED
    BY <1>1, <1>2, <2>2, <2>3, RowAppended DEF RowsOf
<1>4. u.list = list /\ u.cards = v.cards /\ u.held = v.held /\ u.trimmed = v.trimmed
  BY <1>2
<1>5. u \in Views
  <2> HIDE DEF list
  <2>1. u = [v EXCEPT !.list = list]
    BY DEF list
  <2> HIDE DEF u
  <2> QED
    BY <1>2, <1>3, <2>1 DEF Views
<1> HIDE DEF u, list
<1>6. RowsOf(u) = RowsOf(v) \cup {r}
  BY <1>3, <1>4 DEF RowsOf
<1>7. \A c \in Ids : CardRow(c) \in RowsOf(u) <=> CardRow(c) \in RowsOf(v)
  BY <1>6
<1>8. v.held \subseteq Ids
  BY <1>2 DEF Ids
<1>9. CardsOf(u) = {c \in Ids : CardRow(c) \in RowsOf(u)} \cup u.held
  BY <1>1, <1>4, <1>7 DEF ViewShape, CardsOf
<1>10. ViewShape(u)
  BY <1>1, <1>3, <1>4, <1>5, <1>7, <1>8, <1>9 DEF ViewShape
<1>11. Later(v, u, {r}, {}, 0)
  <2>1. \A c \in Ids : v.cards[c] \in 0 .. 2
    BY <1>2
  <2>2. \A c \in Ids : /\ u.cards[c] <= v.cards[c] \/ (c \in {} /\ u.cards[c] <= 0)
                       /\ u.cards[c] >= v.cards[c] /\ (c \in {} => u.cards[c] >= 0)
    BY <1>4, <2>1
  <2> QED
    BY <1>4, <1>6, <2>2 DEF Later
<1>12. ViewInv(w) /\ Later(u, w, {}, {}, 0)
  BY <1>10, TrimmedLater
<1>13. w \in Views
  BY <1>12 DEF ViewInv, ViewShape
<1> HIDE DEF w
<1>14. Later(v, w, {r} \cup {}, {} \cup {}, 0)
  BY <1>1, <1>5, <1>11, <1>12, <1>13, LaterLater
<1>15. {r} \cup {} = {r} /\ {} \cup {} = {}
  OBVIOUS
<1>16. Later(v, w, {r}, {}, 0)
  BY <1>14, <1>15
<1> QED
  BY <1>12, <1>16 DEF w, u

\* What the view becomes when the pending items of a kind arrive, in any order
\* (kind-renderer.js loadAllPending).
LEMMA LoadedLater ==
    ASSUME NEW v, ViewInv(v), NEW C, C \subseteq Ids
    PROVE  LET w == FoldLeft(LAMBDA a, c : WithEvent(a, c, 1), v, SetToSeq(C))
           IN  ViewInv(w) /\ Later(v, w, {}, C, 1)
<1> DEFINE n == Cardinality(C)
           s == SetToSeq(C)
           A == {x \in Views : ViewInv(x)}
           Load1(a, c) == WithEvent(a, c, 1)
           w == FoldLeft(Load1, v, s)
           op == [ab \in A \X C |-> Load1(ab[1], ab[2])]
           P(g) == g = [I \in SUBSET (DOMAIN s) |->
                          IF I = {} THEN v ELSE Load1(g[I \ {Max(I)}], s[Max(I)])]
           it == CHOOSE g : P(g)
<1>0. n \in Nat /\ s \in Seq(C) /\ Len(s) = n /\ DOMAIN s = 1 .. n /\ C = {s[i] : i \in 1 .. n}
  <2>1. IsFiniteSet(C)
    BY FS_Subset, FanoutAssumption
  <2>2. n \in Nat /\ ExistsBijection(1 .. n, C)
    BY <2>1, FS_CardinalityType
  <2>3. \E f \in [1 .. n -> C] : IsInjective(f)
    BY <2>2 DEF ExistsBijection, Bijection, Injection
  <2>4. s \in [1 .. n -> C] /\ IsInjective(s)
    BY <2>3 DEF SetToSeq
  <2>5. s \in Surjection(1 .. n, C)
    <3>1. s \in Injection(1 .. n, C)
      BY <2>4 DEF Injection
    <3>2. Cardinality(1 .. n) = n
      BY <2>2, FS_Interval
    <3> HIDE DEF s
    <3> QED
      BY <2>1, <3>1, <3>2, FS_Injection
  <2> HIDE DEF s, n
  <2>6. \A c \in C : \E i \in 1 .. n : s[i] = c
    BY <2>5 DEF Surjection
  <2>7. s \in Seq(C) /\ Len(s) = n
    BY <2>2, <2>4
  <2> QED
    BY <2>2, <2>4, <2>6, <2>7
<1> HIDE DEF n, s
<1>1. \A i \in 1 .. n : s[i] \in C
  BY <1>0
<1>2. op \in [A \X C -> A] /\ \A a \in A, c \in C : op[<<a, c>>] = Load1(a, c)
  <2>1. ASSUME NEW a \in A, NEW c \in C PROVE Load1(a, c) \in A
    <3>1. ViewInv(Load1(a, c))
      BY WithEventLater
    <3> QED
      BY <3>1 DEF ViewInv, ViewShape
  <2> HIDE DEF A, Load1
  <2> QED
    BY <2>1
<1>v. v \in A
  BY DEF ViewInv, ViewShape
<1> HIDE DEF A, op, P, it, w, Load1
<1>3. \E g : P(g)
  <2>1. PICK g \in [SUBSET (DOMAIN s) -> A] : FoldsInto(g, s, op, v, A, C)
    BY <1>0, <1>2, <1>v, FoldedParts
  <2>2. ASSUME NEW I \in SUBSET (DOMAIN s)
        PROVE  g[I] = IF I = {} THEN v ELSE Load1(g[I \ {Max(I)}], s[Max(I)])
    BY <1>2, <2>1 DEF FoldsInto
  <2>3. P(g)
    BY <2>1, <2>2 DEF P
  <2> QED
    BY <2>3
<1>4. P(it)
  BY <1>3 DEF it
<1>5. w = it[1 .. n]
  <2>1. w = it[DOMAIN s]
    BY DEF FoldLeft, MapThenFoldSet, P, it, w
  <2> QED
    BY <1>0, <2>1
<1>6. it[1 .. 0] = v
  <2>1. 1 .. 0 = {} /\ {} \in SUBSET (DOMAIN s)
    OBVIOUS
  <2> QED
    BY <1>4, <2>1 DEF P
<1>7. ASSUME NEW i \in 1 .. n PROVE it[1 .. i] = Load1(it[1 .. i - 1], s[i])
  <2>1. 1 .. i \in SUBSET (DOMAIN s) /\ 1 .. i # {} /\ Max(1 .. i) = i /\ (1 .. i) \ {i} = 1 .. i - 1
    BY <1>0, PrefixIndices
  <2> QED
    BY <1>4, <2>1 DEF P
<1> DEFINE First(i) == {s[j] : j \in 1 .. i}
           Good(i) == ViewInv(it[1 .. i]) /\ Later(v, it[1 .. i], {}, First(i), 1)
           T == {i \in 0 .. n : Good(i)}
<1>8. 0 \in T
  <2>1. First(0) = {}
    OBVIOUS
  <2>2. v \in Views
    BY DEF ViewInv, ViewShape
  <2>3. Later(v, v, {}, {}, 1)
    BY <2>2, LaterItself
  <2>4. Good(0)
    BY <1>6, <2>1, <2>3
  <2> HIDE DEF Good
  <2>5. 0 \in 0 .. n
    BY <1>0
  <2> QED
    BY <2>4, <2>5
<1>9. ASSUME NEW i \in 0 .. n - 1, i \in T PROVE i + 1 \in T
  <2> DEFINE a == it[1 .. i]
             c == s[i + 1]
             b == it[1 .. i + 1]
  <2>1. ViewInv(a) /\ Later(v, a, {}, First(i), 1)
    BY <1>9
  <2>2. b = Load1(a, c) /\ c \in Ids
    <3>1. i + 1 \in 1 .. n /\ (i + 1) - 1 = i
      BY <1>0
    <3> QED
      BY <1>1, <1>7, <3>1
  <2>3. First(i + 1) = First(i) \cup {c}
    BY <1>0
  <2>4. i + 1 \in 0 .. n
    BY <1>0
  <2> HIDE DEF a, b, c, First
  <2>5. ViewInv(b) /\ Later(a, b, {}, {c}, 1)
    BY <2>1, <2>2, WithEventLater DEF Load1
  <2>6. v \in Views /\ a \in Views /\ b \in Views
    BY <2>1, <2>5 DEF ViewInv, ViewShape
  <2>7. Later(v, b, {} \cup {}, First(i) \cup {c}, 1)
    BY <2>1, <2>5, <2>6, LaterLater
  <2>8. {} \cup {} = {}
    OBVIOUS
  <2>9. Later(v, b, {}, First(i + 1), 1)
    BY <2>3, <2>7, <2>8
  <2>10. Good(i + 1)
    BY <2>5, <2>9 DEF b
  <2> HIDE DEF Good
  <2> QED
    BY <2>4, <2>10
<1> HIDE DEF T
<1>10. \A i \in 0 .. n : i \in T
  BY <1>0, <1>8, <1>9, UpTo
<1>11. n \in T
  BY <1>0, <1>10
<1>12. Good(n)
  <2> HIDE DEF Good
  <2> QED
    BY <1>11 DEF T
<1>13. ViewInv(w) /\ Later(v, w, {}, C, 1)
  <2>1. First(n) = C
    BY <1>0
  <2> HIDE DEF First
  <2> QED
    BY <1>5, <1>12, <2>1
<1> QED
  BY <1>13 DEF w, s, Load1

-----------------------------------------------------------------------------
(* What one handler sends. *)

IsLegend(f) == f.type \in {"roster", "presence"}
LegendTrue(f, state) == f.type = "roster" \/ (f.online => state = "online")
NoLegend(s) == \A i \in 1 .. Len(s) : ~IsLegend(s[i])

\* What a sequence says last of the agent is true.
LastTrue(s, state) ==
    \E i \in 1 .. Len(s) :
        IsLegend(s[i]) /\ LegendTrue(s[i], state) /\ \A j \in i + 1 .. Len(s) : ~IsLegend(s[j])

\* The entries of a handler bear the versions it committed, and what it says of
\* the agent comes last.
Handled(ambient, entries) ==
    /\ entries \in Seq(Lines) /\ ambient \in Seq(Ambient)
    /\ \A i \in 1 .. Len(ambient) : ambient[i].type # "session"
    /\ \A c \in Ids : ledger[c] <= ledger'[c]
    /\ Truthful(entries, ledger') /\ FollowedUp(entries, ledger', unsent')
    /\ \A c \in Ids : \/ ledger'[c] = ledger[c] /\ (c \in unsent => c \in unsent')
                      \/ Told(entries, c, ledger')
    /\ (NoLegend(ambient) /\ agent' = agent) \/ LastTrue(ambient, agent')
    /\ UNCHANGED <<client, cast, life, optedIn, pageVars>>

LEMMA FrameKindsOfPage ==
    ASSUME NEW f \in PageFrames
    PROVE  /\ IsEntry(f) <=> f \in LogEntries
           /\ f.type \in {"entry", "session", "roster", "presence"}
           /\ IsEntry(f) => f.id \in Nat \ {0} /\ f.subject \in Subjects /\ f.version \in {1, 2}
           /\ f.type = "session" => f.life \in Nat
           /\ f.type = "roster" => f.known \in BOOLEAN
           /\ f.type = "presence" => f.online \in BOOLEAN
           /\ IsLegend(f) <=> f.type = "roster" \/ f.type = "presence"
  BY DEF PageFrames, LogEntries, Ambient, IsEntry, IsLegend

LEMMA AmbientKinds ==
    ASSUME NEW f \in Ambient
    PROVE  f \in PageFrames /\ ~IsEntry(f)
  BY DEF PageFrames, Ambient, IsEntry

LEMMA NumberedFacts ==
    ASSUME LogInv, NEW entries \in Seq(Lines)
    PROVE  /\ Numbered(entries) \in Seq(LogEntries) /\ Len(Numbered(entries)) = Len(entries)
           /\ \A i \in 1 .. Len(entries) :
                 /\ Numbered(entries)[i].id = seq + i /\ IsEntry(Numbered(entries)[i])
                 /\ \A c, version : Bears(Numbered(entries)[i], c, version) <=> Bears(entries[i], c, version)
<1> DEFINE s == Numbered(entries)
           n == Len(entries)
<1>1. n \in Nat /\ DOMAIN entries = 1 .. n /\ seq \in Nat
  BY DEF LogInv
<1>2. \A i \in 1 .. n : entries[i] \in Lines
  OBVIOUS
<1>3. s = [i \in 1 .. n |-> [type |-> "entry", id |-> seq + i,
                              subject |-> entries[i].subject, version |-> entries[i].version]]
  BY <1>1 DEF Numbered
<1> HIDE DEF s, n
<1>4. \A i \in 1 .. n : /\ s[i] \in LogEntries /\ s[i].id = seq + i /\ s[i].type = "entry"
                        /\ s[i].subject = entries[i].subject /\ s[i].version = entries[i].version
                        /\ entries[i].type = "entry"
  BY <1>1, <1>2, <1>3 DEF LogEntries, Lines
<1>5. s \in Seq(LogEntries) /\ Len(s) = n
  <2>1. s \in [1 .. n -> LogEntries]
    BY <1>3, <1>4
  <2> QED
    BY <1>1, <2>1
<1> QED
  BY <1>4, <1>5 DEF s, n, Bears, IsEntry

\* The log goes on with the next ids, and forgets the first.
LEMMA SendGrowsLog ==
    ASSUME LogInv, NEW ambient, NEW entries, Send(ambient, entries), Handled(ambient, entries),
           client = "page"
    PROVE  LET new == Numbered(entries)
           IN  /\ seq' = seq + Len(entries) /\ chatLog' \in Seq(LogEntries) /\ Len(chatLog') <= seq'
               /\ Ends(chatLog', chatLog \o new)
               /\ \A i \in 1 .. Len(chatLog') : chatLog'[i].id = seq' - Len(chatLog') + i
               /\ seq' - Len(chatLog') >= seq - Len(chatLog)
               /\ \A k \in 1 .. Len(chatLog') : \/ \E i \in 1 .. Len(chatLog) : chatLog'[k] = chatLog[i]
                                                \/ \E j \in 1 .. Len(new) : chatLog'[k] = new[j]
               /\ \A i \in 1 .. Len(chatLog) : \/ \E k \in 1 .. Len(chatLog') : chatLog'[k] = chatLog[i]
                                               \/ seq' - Len(chatLog') >= chatLog[i].id
               /\ \A j \in 1 .. Len(new) : \/ \E k \in 1 .. Len(chatLog') : chatLog'[k] = new[j]
                                           \/ seq' - Len(chatLog') >= new[j].id
<1> DEFINE new == Numbered(entries)
           log == chatLog \o new
           n == Len(entries)
           k == Len(log) - Len(chatLog')
<1>0. /\ entries \in Seq(Lines) /\ seq \in Nat /\ chatLog \in Seq(LogEntries) /\ Len(chatLog) <= seq
      /\ n \in Nat /\ Len(chatLog) \in Nat
      /\ \A i \in 1 .. Len(chatLog) : chatLog[i].id = seq - Len(chatLog) + i
  BY DEF LogInv, Handled
<1>1. /\ new \in Seq(LogEntries) /\ Len(new) = n
      /\ \A i \in 1 .. n : new[i].id = seq + i
  BY <1>0, NumberedFacts
<1>2. seq' = seq + n /\ chatLog' = LastOf(log, HistoryLimit)
  BY DEF Send
<1> HIDE DEF new, n
<1>3. /\ log \in Seq(LogEntries) /\ Len(log) = Len(chatLog) + n
      /\ \A i \in 1 .. Len(chatLog) : log[i] = chatLog[i]
      /\ \A i \in 1 .. n : log[Len(chatLog) + i] = new[i]
  <2>1. /\ log \in Seq(LogEntries) /\ Len(log) = Len(chatLog) + Len(new)
        /\ \A i \in 1 .. Len(chatLog) : log[i] = chatLog[i]
        /\ \A i \in 1 .. Len(new) : log[Len(chatLog) + i] = new[i]
    <3>1. chatLog \in Seq(LogEntries) /\ new \in Seq(LogEntries)
      BY <1>0, <1>1
    <3>2. log \in Seq(LogEntries) /\ Len(log) = Len(chatLog) + Len(new)
      BY <3>1
    <3>3. \A i \in 1 .. Len(chatLog) : log[i] = chatLog[i]
      BY <3>1
    <3>4. \A i \in 1 .. Len(new) : log[Len(chatLog) + i] = new[i]
      BY <3>1
    <3> QED
      BY <3>2, <3>3, <3>4
  <2> HIDE DEF log
  <2> QED
    BY <1>1, <2>1
<1> HIDE DEF log
<1>4. \A i \in 1 .. Len(log) : \/ i \in 1 .. Len(chatLog) /\ log[i] = chatLog[i]
                               \/ i - Len(chatLog) \in 1 .. n /\ log[i] = new[i - Len(chatLog)]
  <2> TAKE i \in 1 .. Len(log)
  <2> DEFINE j == i - Len(chatLog)
  <2>1. i \in 1 .. Len(chatLog) \/ (j \in 1 .. n /\ i = Len(chatLog) + j)
    BY <1>0, <1>3
  <2> HIDE DEF j
  <2>2. i \in 1 .. Len(chatLog) \/ (j \in 1 .. n /\ log[i] = new[j])
    BY <1>3, <2>1
  <2> QED
    BY <1>3, <2>2 DEF j
<1>5. \A i \in 1 .. Len(log) : log[i].id = seq - Len(chatLog) + i
  <2> TAKE i \in 1 .. Len(log)
  <2>1. CASE i \in 1 .. Len(chatLog) /\ log[i] = chatLog[i]
    BY <1>0, <2>1
  <2>2. CASE i - Len(chatLog) \in 1 .. n /\ log[i] = new[i - Len(chatLog)]
    <3>1. log[i].id = seq + (i - Len(chatLog))
      BY <1>1, <2>2
    <3> QED
      BY <1>0, <3>1
  <2> QED
    BY <1>4, <2>1, <2>2
<1>6. chatLog' \in Seq(LogEntries) /\ Ends(chatLog', log)
  BY <1>2, <1>3, LastOfEnds, FanoutAssumption
<1>7. /\ Len(chatLog') \in Nat /\ Len(log) \in Nat /\ k \in Nat /\ Len(chatLog') = Len(log) - k
      /\ \A i \in 1 .. Len(chatLog') : i + k \in 1 .. Len(log) /\ chatLog'[i] = log[i + k]
  <2>1. /\ Len(chatLog') <= Len(log) /\ Len(chatLog') \in Nat /\ Len(log) \in Nat
        /\ \A i \in 1 .. Len(chatLog') : i + k \in 1 .. Len(log) /\ chatLog'[i] = log[i + k]
    <3>1. Len(chatLog') \in Nat /\ Len(log) \in Nat
      BY <1>3, <1>6
    <3>2. /\ Len(chatLog') <= Len(log)
          /\ \A i \in 1 .. Len(chatLog') : i + k \in 1 .. Len(log) /\ chatLog'[i] = log[i + k]
      BY <1>3, <1>6, EndsWithin, Zenon
    <3> QED
      BY <3>1, <3>2, Zenon
  <2> QED
    BY <2>1
<1> HIDE DEF k
<1>8. seq' - Len(chatLog') = seq - Len(chatLog) + k
  BY <1>0, <1>2, <1>3, <1>7
<1>9. \A i \in 1 .. Len(chatLog') : chatLog'[i].id = seq' - Len(chatLog') + i
  <2> TAKE i \in 1 .. Len(chatLog')
  <2>1. chatLog'[i].id = seq - Len(chatLog) + (i + k)
    <3> DEFINE j == i + k
    <3>1. j \in 1 .. Len(log) /\ chatLog'[i] = log[j]
      BY <1>7
    <3> HIDE DEF j
    <3>2. chatLog'[i].id = seq - Len(chatLog) + j
      BY <1>5, <3>1, Zenon
    <3> QED
      BY <3>2 DEF j
  <2>2. /\ seq \in Int /\ Len(chatLog) \in Int /\ k \in Int /\ i \in Int
        /\ seq' \in Int /\ Len(chatLog') \in Int
    BY <1>0, <1>2, <1>7
  <2>3. seq - Len(chatLog) + (i + k) = (seq - Len(chatLog) + k) + i
    BY <2>2
  <2> QED
    BY <1>8, <2>1, <2>3
<1>10. Len(chatLog') <= seq' /\ seq' - Len(chatLog') >= seq - Len(chatLog)
  BY <1>0, <1>2, <1>3, <1>7, <1>8
<1>11. \A m \in 1 .. Len(log) : \/ \E i \in 1 .. Len(chatLog') : chatLog'[i] = log[m]
                                \/ seq' - Len(chatLog') >= log[m].id
  <2> TAKE m \in 1 .. Len(log)
  <2>1. CASE m <= k
    BY <1>0, <1>5, <1>7, <1>8, <2>1
  <2>2. CASE m > k
    <3>1. m - k \in 1 .. Len(chatLog') /\ (m - k) + k = m
      BY <1>7, <2>2
    <3> QED
      BY <1>7, <3>1
  <2> QED
    BY <1>7, <2>1, <2>2
<1>12. \A i \in 1 .. Len(chatLog) : \/ \E m \in 1 .. Len(chatLog') : chatLog'[m] = chatLog[i]
                                    \/ seq' - Len(chatLog') >= chatLog[i].id
  <2>1. \A i \in 1 .. Len(chatLog) : i \in 1 .. Len(log)
    BY <1>0, <1>3
  <2> QED
    BY <1>3, <1>11, <2>1
<1>13. \A j \in 1 .. n : \/ \E m \in 1 .. Len(chatLog') : chatLog'[m] = new[j]
                         \/ seq' - Len(chatLog') >= new[j].id
  <2> TAKE j \in 1 .. n
  <2>1. Len(chatLog) + j \in 1 .. Len(log) /\ log[Len(chatLog) + j] = new[j]
    BY <1>0, <1>3
  <2> QED
    BY <1>11, <2>1
<1>14. \A m \in 1 .. Len(chatLog') : \/ \E i \in 1 .. Len(chatLog) : chatLog'[m] = chatLog[i]
                                     \/ \E j \in 1 .. n : chatLog'[m] = new[j]
  BY <1>4, <1>7
<1> QED
  BY <1>1, <1>2, <1>6, <1>9, <1>10, <1>12, <1>13, <1>14 DEF new, n, log

LEMMA SendKeepsLog ==
    ASSUME LogInv, NEW ambient, NEW entries, Send(ambient, entries), Handled(ambient, entries),
           client = "page", HubTyped'
    PROVE  LogInv'
<1> DEFINE new == Numbered(entries)
<1>0. /\ entries \in Seq(Lines) /\ chatLog \in Seq(LogEntries) /\ transcript \in Seq(Lines)
      /\ ledger \in [Ids -> 0 .. 2] /\ ledger' \in [Ids -> 0 .. 2]
  BY DEF LogInv, Handled, HubTyped
<1>1. /\ new \in Seq(LogEntries) /\ Len(new) = Len(entries)
      /\ \A i \in 1 .. Len(entries) :
            \A c, version : Bears(new[i], c, version) <=> Bears(entries[i], c, version)
  BY <1>0, NumberedFacts
<1>2. \A c \in Ids : \/ ledger'[c] = ledger[c] /\ (c \in unsent => c \in unsent')
                     \/ Told(entries, c, ledger')
  BY DEF Handled
<1>t. /\ Truthful(entries, ledger') /\ FollowedUp(entries, ledger', unsent')
      /\ \A c \in Ids : ledger[c] <= ledger'[c]
  BY DEF Handled
<1> HIDE DEF new
<1>3. Truthful(new, ledger') /\ FollowedUp(new, ledger', unsent')
  <2>1. Truthful(new, ledger')
    BY <1>1, <1>t DEF Truthful
  <2>2. FollowedUp(new, ledger', unsent')
    <3> SUFFICES ASSUME NEW i \in 1 .. Len(new), NEW c \in Ids, Bears(new[i], c, 1), ledger'[c] = 2,
                        c \notin unsent'
                 PROVE  \E j \in i + 1 .. Len(new) : Bears(new[j], c, 2)
      BY DEF FollowedUp
    <3>1. PICK j \in i + 1 .. Len(entries) : Bears(entries[j], c, 2)
      BY <1>1, <1>t DEF FollowedUp
    <3>2. j \in 1 .. Len(entries)
      BY <1>1
    <3> QED
      BY <1>1, <3>1, <3>2
  <2> QED
    BY <2>1, <2>2
<1>4. \A c \in Ids : \/ ledger'[c] = ledger[c] /\ (c \in unsent => c \in unsent')
                     \/ Told(new, c, ledger')
  BY <1>1, <1>2 DEF Told
<1>5. Truthful(chatLog \o new, ledger') /\ FollowedUp(chatLog \o new, ledger', unsent')
  <2>1. Truthful(chatLog, ledger) /\ FollowedUp(chatLog, ledger, unsent)
    BY DEF LogInv
  <2> QED
    BY <1>0, <1>1, <1>3, <1>4, <1>t, <2>1, TruthfulAppended, FollowedUpAppended
<1>6. /\ seq' = seq + Len(entries) /\ chatLog' \in Seq(LogEntries) /\ Len(chatLog') <= seq'
      /\ Ends(chatLog', chatLog \o new)
      /\ \A i \in 1 .. Len(chatLog') : chatLog'[i].id = seq' - Len(chatLog') + i
  BY SendGrowsLog DEF new
<1>7. Truthful(chatLog', ledger') /\ FollowedUp(chatLog', ledger', unsent')
  <2>1. chatLog \o new \in Seq(LogEntries)
    BY <1>0, <1>1
  <2> QED
    BY <1>5, <1>6, <2>1, TruthfulEnds, FollowedUpEnds
<1>8. /\ transcript' \in Seq(Lines) /\ (optedIn \/ transcript' = <<>>)
      /\ Truthful(transcript', ledger') /\ FollowedUp(transcript', ledger', unsent')
  <2>1. CASE optedIn
    <3>1. transcript' = FoldLeft(AppendLine, transcript, entries)
      BY <2>1 DEF Send
    <3>2. transcript' \in Seq(Lines) /\ Ends(transcript', transcript \o entries)
      BY <1>0, <3>1, TranscriptEnds
    <3>3. Truthful(transcript, ledger) /\ FollowedUp(transcript, ledger, unsent)
      BY DEF LogInv
    <3>4. Truthful(transcript \o entries, ledger') /\ FollowedUp(transcript \o entries, ledger', unsent')
      BY <1>0, <1>2, <1>t, <3>3, TruthfulAppended, FollowedUpAppended
    <3>5. transcript \o entries \in Seq(Lines)
      BY <1>0
    <3> QED
      BY <2>1, <3>2, <3>4, <3>5, TruthfulEnds, FollowedUpEnds
  <2>2. CASE ~optedIn
    <3>1. transcript' = <<>>
      BY <2>2 DEF Send, LogInv
    <3>2. Len(<<>>) = 0
      OBVIOUS
    <3> QED
      BY <3>1, <3>2 DEF Truthful, FollowedUp
  <2> QED
    BY <2>1, <2>2
<1>9. life' = life /\ optedIn' = optedIn /\ seq' \in Nat
  BY <1>0, <1>6 DEF Handled, LogInv
<1> QED
  BY <1>6, <1>7, <1>8, <1>9 DEF LogInv

-----------------------------------------------------------------------------
(* The connection of the page. *)

Streams == {NoStream}
    \cup [phase : {"opening"}, bus : Nat, session : Nat, lastId : Nat]
    \cup [phase : {"open"}, bus : Nat]

\* The page knows no hub that is later than the one its stream is of, and no id
\* that was not given.
ConnInv ==
    /\ session \in Nat /\ session <= bus
    /\ bus \in Nat \ {0} /\ bus <= life
    /\ lastSeen \in Nat /\ (session = life => lastSeen <= seq)
    /\ stream \in Streams /\ drops \in 0 .. MaxDrops
    /\ stream.phase # "none" => session <= stream.bus /\ stream.bus <= bus
    /\ stream.phase = "opening" => stream.session = session /\ stream.lastId = lastSeen
    /\ legend \in {"absent", "off", "on"}

\* The session comes first on a stream, and once.
WireInv ==
    /\ wire \in Seq(PageFrames)
    /\ ~Open => wire = <<>>
    /\ \A i \in 1 .. Len(wire) : wire[i].type = "session" => i = 1 /\ wire[i].life = stream.bus
    /\ Open /\ session # stream.bus => wire # <<>> /\ wire[1].type = "session"
    /\ Attached => \A i \in 1 .. Len(wire) : IsEntry(wire[i]) => wire[i].id <= seq
    /\ Truthful(wire, ledger)

\* The id the page has handled last of the hub that runs.
Seen == IF session = life THEN lastSeen ELSE 0

\* Unless something went by the page, its stream holds what it has not seen.
Unseen ==
    \A i \in 1 .. Len(wire) :
        IsEntry(wire[i]) =>
            /\ wire[i].id > Seen
            /\ \A j \in i + 1 .. Len(wire) : IsEntry(wire[j]) => wire[i].id < wire[j].id
Consistent ==
    \A i \in 1 .. Len(wire), k \in 1 .. Len(chatLog) :
        IsEntry(wire[i]) /\ wire[i].id = chatLog[k].id => wire[i] = chatLog[k]
Complete ==
    \A k \in 1 .. Len(chatLog) :
        chatLog[k].id > Seen => \E i \in 1 .. Len(wire) : wire[i] = chatLog[k]

LegendInv == (NoLegend(wire) /\ (legend = "on" => agent = "online")) \/ LastTrue(wire, agent)

SyncInv ==
    Attached /\ ~missed =>
        Unseen /\ Consistent /\ Complete /\ FollowedUp(wire, ledger, unsent) /\ LegendInv

-----------------------------------------------------------------------------
(* What comes to the page. *)

\* The log no longer holds all the page has not seen.
Gap == seq - Len(chatLog) > Seen

OnWire(c, version) == \E i \in 1 .. Len(wire) : Bears(wire[i], c, version)
InLog(c, version) ==
    \E k \in 1 .. Len(chatLog) : chatLog[k].id > Seen /\ Bears(chatLog[k], c, version)

\* A version of a card comes to the page, or something went by it.
Coming(c, version) ==
    \/ missed
    \/ Attached /\ OnWire(c, version)
    \/ ~Attached /\ (Gap \/ InLog(c, version))

LEMMA LegendAppended ==
    ASSUME NEW S, NEW s \in Seq(S), NEW t \in Seq(S), NEW state
    PROVE  /\ NoLegend(s) /\ NoLegend(t) => NoLegend(s \o t)
           /\ LastTrue(s, state) /\ NoLegend(t) => LastTrue(s \o t, state)
           /\ LastTrue(t, state) => LastTrue(s \o t, state)
<1> DEFINE u == s \o t
<1>0. Len(s) \in Nat /\ Len(t) \in Nat /\ Len(u) = Len(s) + Len(t)
  OBVIOUS
<1>s. \A i \in 1 .. Len(s) : u[i] = s[i]
  OBVIOUS
<1>t. \A i \in 1 .. Len(t) : u[Len(s) + i] = t[i]
  OBVIOUS
<1> HIDE DEF u
<1>1. \A i \in 1 .. Len(u) : \/ i \in 1 .. Len(s) /\ u[i] = s[i]
                             \/ i - Len(s) \in 1 .. Len(t) /\ u[i] = t[i - Len(s)]
  <2> TAKE i \in 1 .. Len(u)
  <2> DEFINE j == i - Len(s)
  <2>1. i \in 1 .. Len(s) \/ (j \in 1 .. Len(t) /\ i = Len(s) + j)
    BY <1>0
  <2> HIDE DEF j
  <2>2. i \in 1 .. Len(s) \/ (j \in 1 .. Len(t) /\ u[i] = t[j])
    BY <1>t, <2>1
  <2> QED
    BY <1>s, <2>2 DEF j
<1>2. NoLegend(s) /\ NoLegend(t) => NoLegend(u)
  BY <1>1 DEF NoLegend
<1>3. ASSUME LastTrue(s, state), NoLegend(t) PROVE LastTrue(u, state)
  <2>1. PICK i \in 1 .. Len(s) : /\ IsLegend(s[i]) /\ LegendTrue(s[i], state)
                                 /\ \A j \in i + 1 .. Len(s) : ~IsLegend(s[j])
    BY <1>3 DEF LastTrue
  <2>2. i \in 1 .. Len(u) /\ u[i] = s[i]
    BY <1>0, <1>s
  <2>3. ASSUME NEW j \in i + 1 .. Len(u) PROVE ~IsLegend(u[j])
    <3>1. j \in 1 .. Len(u) /\ (j \in 1 .. Len(s) => j \in i + 1 .. Len(s))
      BY <1>0
    <3> QED
      BY <1>1, <1>3, <2>1, <3>1 DEF NoLegend
  <2> QED
    BY <2>1, <2>2, <2>3 DEF LastTrue
<1>4. ASSUME LastTrue(t, state) PROVE LastTrue(u, state)
  <2>1. PICK i \in 1 .. Len(t) : /\ IsLegend(t[i]) /\ LegendTrue(t[i], state)
                                 /\ \A j \in i + 1 .. Len(t) : ~IsLegend(t[j])
    BY <1>4 DEF LastTrue
  <2> DEFINE m == Len(s) + i
  <2>2. m \in 1 .. Len(u) /\ u[m] = t[i]
    BY <1>0, <1>t
  <2>3. ASSUME NEW j \in m + 1 .. Len(u) PROVE ~IsLegend(u[j])
    <3>1. j \in 1 .. Len(u) /\ j \notin 1 .. Len(s) /\ j - Len(s) \in i + 1 .. Len(t)
      BY <1>0
    <3> QED
      BY <1>1, <2>1, <3>1
  <2> HIDE DEF m
  <2> QED
    BY <2>1, <2>2, <2>3 DEF LastTrue
<1> QED
  BY <1>2, <1>3, <1>4 DEF u

LEMMA QueuedTyped ==
    ASSUME NEW S, NEW s \in Seq(S)
    PROVE  Queued(s) \in Seq(S)
<1>1. CASE s = <<>>
  BY <1>1 DEF Queued
<1>2. CASE s # <<>>
  <2>1. Head(s) \in S /\ Tail(s) \in Seq(S) /\ UiQueueMax \in Nat
    BY <1>2, FanoutAssumption
  <2>2. LastOf(Tail(s), UiQueueMax) \in Seq(S)
    BY <2>1, LastOfEnds
  <2>3. <<Head(s)>> \in Seq(S)
    BY <2>1
  <2>4. Queued(s) = <<Head(s)>> \o LastOf(Tail(s), UiQueueMax)
    BY <1>2 DEF Queued
  <2> QED
    BY <2>2, <2>3, <2>4
<1> QED
  BY <1>1, <1>2

\* What is sent, and what of it is queued.
LEMMA SendFrames ==
    ASSUME LogInv, NEW ambient, NEW entries, Send(ambient, entries), Handled(ambient, entries),
           client = "page", HubTyped'
    PROVE  LET frames == ambient \o Numbered(entries)
               more == Queued(frames)
           IN  /\ frames \in Seq(PageFrames) /\ more \in Seq(PageFrames)
               /\ \A i \in 1 .. Len(more) :
                     /\ more[i].type # "session" /\ (IsEntry(more[i]) => more[i].id <= seq')
                     /\ \A c \in Ids, version \in {1, 2} :
                           Bears(more[i], c, version) => version <= ledger'[c]
               /\ wire' = IF Attached THEN wire \o more ELSE wire
               /\ Attached /\ ~missed' => more = frames
               /\ missed' = (missed \/ (Attached /\ more # frames))
<1> DEFINE new == Numbered(entries)
           frames == ambient \o new
           more == Queued(frames)
           Good(f) == /\ f.type # "session" /\ (IsEntry(f) => f.id <= seq')
                      /\ \A c \in Ids, version \in {1, 2} : Bears(f, c, version) => version <= ledger'[c]
           S == {f \in PageFrames : Good(f)}
<1>0. entries \in Seq(Lines) /\ ambient \in Seq(Ambient) /\ seq \in Nat
  BY DEF Handled, LogInv
<1>1. /\ new \in Seq(LogEntries) /\ Len(new) = Len(entries)
      /\ \A i \in 1 .. Len(entries) :
            /\ new[i].id = seq + i /\ IsEntry(new[i])
            /\ \A c, version : Bears(new[i], c, version) <=> Bears(entries[i], c, version)
  BY <1>0, NumberedFacts
<1>2. seq' = seq + Len(entries) /\ Truthful(entries, ledger')
  BY DEF Send, Handled
<1> HIDE DEF new
<1>3. ASSUME NEW i \in 1 .. Len(ambient) PROVE ambient[i] \in S
  <2>1. ambient[i] \in PageFrames /\ ~IsEntry(ambient[i]) /\ ambient[i].type # "session"
    BY <1>0, AmbientKinds DEF Handled
  <2> QED
    BY <2>1 DEF Bears
<1>4. ASSUME NEW i \in 1 .. Len(new) PROVE new[i] \in S
  <2>1. new[i] \in PageFrames /\ new[i].type = "entry" /\ new[i].id <= seq'
    BY <1>0, <1>1, <1>2 DEF PageFrames, IsEntry
  <2>2. \A c \in Ids, version \in {1, 2} : Bears(new[i], c, version) => version <= ledger'[c]
    <3>1. i \in 1 .. Len(entries)
      BY <1>1, Zenon
    <3>2. \A c, version : Bears(new[i], c, version) <=> Bears(entries[i], c, version)
      BY <1>1, <3>1, Zenon
    <3>3. \A c \in Ids, version \in {1, 2} : Bears(entries[i], c, version) => version <= ledger'[c]
      BY <1>2, <3>1, Zenon DEF Truthful
    <3> QED
      BY <3>2, <3>3, Zenon
  <2> QED
    BY <2>1, <2>2
<1> HIDE DEF S
<1>5. ambient \in Seq(S) /\ new \in Seq(S)
  <2>1. \A T, s : s \in Seq(T) => s \in [1 .. Len(s) -> T] /\ Len(s) \in Nat
    OBVIOUS
  <2>2. ambient \in [1 .. Len(ambient) -> S] /\ new \in [1 .. Len(new) -> S]
    BY <1>0, <1>1, <1>3, <1>4, <2>1
  <2>3. \A m \in Nat : \A s \in [1 .. m -> S] : s \in Seq(S)
    OBVIOUS
  <2> QED
    BY <1>0, <1>1, <2>1, <2>2, <2>3
<1>6. frames \in Seq(S)
  BY <1>5
<1> HIDE DEF frames
<1>7. more \in Seq(S)
  BY <1>6, QueuedTyped
<1> HIDE DEF more
<1>8. frames \in Seq(PageFrames) /\ more \in Seq(PageFrames)
  <2>1. S \subseteq PageFrames
    BY DEF S
  <2> QED
    BY <1>6, <1>7, <2>1
<1>9. \A i \in 1 .. Len(more) : Good(more[i])
  <2>1. \A i \in 1 .. Len(more) : more[i] \in S
    BY <1>7
  <2> QED
    BY <2>1 DEF S
<1>10. wire' = (IF Attached THEN wire \o more ELSE wire)
       /\ missed' = (missed \/ (Attached /\ more # frames))
  BY DEF Send, more, frames, new
<1> QED
  BY <1>8, <1>9, <1>10 DEF more, frames, new

LEMMA SendKeepsConn ==
    ASSUME LogInv, ConnInv, WireInv, NEW ambient, NEW entries, Send(ambient, entries),
           Handled(ambient, entries), client = "page", HubTyped'
    PROVE  ConnInv' /\ WireInv' /\ Attached' = Attached /\ Open' = Open /\ Seen' = Seen
<1> DEFINE more == Queued(ambient \o Numbered(entries))
<1>1. /\ UNCHANGED <<life, stream, session, lastSeen, bus, drops, legend>> /\ seq' \in Nat /\ seq <= seq'
      /\ seq \in Nat
  <2>1. entries \in Seq(Lines) /\ seq' = seq + Len(entries) /\ seq \in Nat
    BY DEF Handled, Send, LogInv
  <2> QED
    BY <2>1 DEF Handled, Send, pageVars
<1>2. Attached' = Attached /\ Open' = Open /\ Seen' = Seen
  BY <1>1 DEF Attached, Open, Seen
<1>3. ConnInv'
  BY <1>1 DEF ConnInv
<1>4. /\ more \in Seq(PageFrames)
      /\ \A i \in 1 .. Len(more) :
            /\ more[i].type # "session" /\ (IsEntry(more[i]) => more[i].id <= seq')
            /\ \A c \in Ids, version \in {1, 2} :
                  Bears(more[i], c, version) => version <= ledger'[c]
      /\ wire' = IF Attached THEN wire \o more ELSE wire
  BY SendFrames
<1> HIDE DEF more
<1>5. ledger \in [Ids -> 0 .. 2] /\ ledger' \in [Ids -> 0 .. 2] /\ \A c \in Ids : ledger[c] <= ledger'[c]
  BY DEF LogInv, HubTyped, Handled
<1>6. CASE ~Attached
  <2>1. Truthful(wire, ledger')
    <3>1. \A c \in Ids : ledger[c] \in 0 .. 2 /\ ledger'[c] \in 0 .. 2 /\ ledger[c] <= ledger'[c]
      BY <1>5
    <3>2. \A i \in 1 .. Len(wire), c \in Ids, version \in {1, 2} :
              Bears(wire[i], c, version) => version <= ledger[c]
      BY DEF WireInv, Truthful
    <3>3. ASSUME NEW i \in 1 .. Len(wire), NEW c \in Ids, NEW version \in {1, 2},
                 Bears(wire[i], c, version)
          PROVE  version <= ledger'[c]
      BY <3>1, <3>2, <3>3
    <3> QED
      BY <3>3 DEF Truthful
  <2> QED
    BY <1>1, <1>2, <1>3, <1>4, <1>6, <2>1 DEF WireInv
<1>7. CASE Attached
  <2>1. wire' = wire \o more /\ wire \in Seq(PageFrames)
    BY <1>4, <1>7 DEF WireInv
  <2>2. /\ wire' \in Seq(PageFrames) /\ Len(wire) \in Nat /\ Len(more) \in Nat
        /\ Len(wire') = Len(wire) + Len(more)
        /\ \A i \in 1 .. Len(wire) : wire'[i] = wire[i]
    BY <1>4, <2>1
  <2>3. \A i \in 1 .. Len(wire') : \/ i \in 1 .. Len(wire) /\ wire'[i] = wire[i]
                                   \/ \E j \in 1 .. Len(more) : wire'[i] = more[j]
    <3> TAKE i \in 1 .. Len(wire')
    <3>1. CASE i \in 1 .. Len(wire)
      BY <2>2, <3>1
    <3>2. CASE i \notin 1 .. Len(wire)
      <4>1. i - Len(wire) \in 1 .. Len(more)
        BY <2>2, <3>2
      <4>2. (wire \o more)[i] = more[i - Len(wire)]
        BY <1>4, <2>1, <2>2, <3>2, <4>1
      <4> QED
        BY <2>1, <4>1, <4>2
    <3> QED
      BY <3>1, <3>2
  <2>4. Truthful(wire', ledger')
    <3>1. Truthful(more, ledger')
      BY <1>4 DEF Truthful
    <3>2. Truthful(wire, ledger)
      BY DEF WireInv
    <3> QED
      BY <1>4, <1>5, <2>1, <3>1, <3>2, TruthfulAppended
  <2>5. \A i \in 1 .. Len(wire') : wire'[i].type = "session" => i = 1 /\ wire'[i].life = stream.bus
    BY <1>4, <2>3 DEF WireInv
  <2>6. session # stream.bus => wire' # <<>> /\ wire'[1].type = "session"
    <3> SUFFICES ASSUME session # stream.bus PROVE wire' # <<>> /\ wire'[1].type = "session"
      OBVIOUS
    <3>1. wire # <<>> /\ wire[1].type = "session"
      BY <1>7 DEF WireInv, Attached
    <3>2. 1 \in 1 .. Len(wire) /\ Len(wire') # 0
      BY <2>1, <2>2, <3>1
    <3> QED
      BY <2>2, <3>1, <3>2
  <2>7. \A i \in 1 .. Len(wire') : IsEntry(wire'[i]) => wire'[i].id <= seq'
    <3> TAKE i \in 1 .. Len(wire')
    <3>1. CASE i \in 1 .. Len(wire) /\ wire'[i] = wire[i]
      <4>1. wire[i] \in PageFrames
        BY <2>1, <3>1
      <4>2. IsEntry(wire[i]) => wire[i].id \in Nat /\ wire[i].id <= seq
        BY <1>7, <3>1, <4>1, FrameKindsOfPage DEF WireInv
      <4> QED
        BY <1>1, <3>1, <4>2
    <3> QED
      BY <1>4, <2>3, <3>1
  <2> QED
    BY <1>1, <1>2, <1>3, <1>7, <2>2, <2>4, <2>5, <2>6, <2>7 DEF WireInv, Attached
<1> QED
  BY <1>2, <1>3, <1>6, <1>7

\* A sequence that is three others one after the other, the third from `base` on.
Parts(u, base, a, b, t) ==
    /\ base \in Nat /\ Len(a) \in Nat /\ Len(b) \in Nat /\ Len(t) \in Nat
    /\ Len(u) = base + Len(t) /\ Len(a) <= base
    /\ \A i \in 1 .. Len(a) : u[i] = a[i]
    /\ \A i \in 1 .. Len(t) : base + i \in 1 .. Len(u) /\ u[base + i] = t[i]
    /\ \A i \in 1 .. Len(u) : \/ i \in 1 .. Len(a) /\ u[i] = a[i]
                              \/ \E j \in 1 .. Len(b) : u[i] = b[j]
                              \/ \E j \in 1 .. Len(t) : i = base + j /\ u[i] = t[j]

LEMMA ThreeParts ==
    ASSUME NEW S, NEW a \in Seq(S), NEW b \in Seq(S), NEW t \in Seq(S)
    PROVE  Parts(a \o (b \o t), Len(a) + Len(b), a, b, t)
<1> DEFINE u == a \o (b \o t)
           base == Len(a) + Len(b)
<1> DEFINE r == b \o t
<1>0. Len(a) \in Nat /\ Len(b) \in Nat /\ Len(t) \in Nat /\ r \in Seq(S) /\ Len(r) = Len(b) + Len(t)
  OBVIOUS
<1>b. \A i \in 1 .. Len(b) : r[i] = b[i]
  OBVIOUS
<1>r. r \in Seq(S)
  OBVIOUS
<1>1. \A i \in 1 .. Len(t) : r[Len(b) + i] = t[i]
  OBVIOUS
<1> HIDE DEF r
<1>2. u = a \o r
  BY DEF r
<1> HIDE DEF u
<1>3. Len(u) = Len(a) + Len(r) /\ \A i \in 1 .. Len(a) : u[i] = a[i]
  <2>1. Len(a \o r) = Len(a) + Len(r)
    BY <1>r
  <2>2. \A i \in 1 .. Len(a) : (a \o r)[i] = a[i]
    BY <1>r
  <2> QED
    BY <1>2, <2>1, <2>2
<1>4. \A i \in 1 .. Len(r) : u[Len(a) + i] = r[i]
  <2>1. \A i \in 1 .. Len(r) : (a \o r)[Len(a) + i] = r[i]
    BY <1>r
  <2> QED
    BY <1>2, <2>1
<1>5. \A i \in 1 .. Len(b) : u[Len(a) + i] = b[i]
  <2> TAKE i \in 1 .. Len(b)
  <2>1. i \in 1 .. Len(r)
    BY <1>0
  <2> QED
    BY <1>b, <1>4, <2>1
<1>6. \A i \in 1 .. Len(t) : base + i \in 1 .. Len(u) /\ u[base + i] = t[i]
  <2> TAKE i \in 1 .. Len(t)
  <2> DEFINE j == Len(b) + i
  <2>1. j \in 1 .. Len(r) /\ Len(a) + j = base + i /\ base + i \in 1 .. Len(u)
    BY <1>0, <1>3
  <2>2. r[j] = t[i]
    BY <1>1
  <2> HIDE DEF j
  <2>3. u[Len(a) + j] = r[j]
    BY <1>4, <2>1
  <2> QED
    BY <2>1, <2>2, <2>3
<1>7. ASSUME NEW i \in 1 .. Len(u)
      PROVE  \/ i \in 1 .. Len(a) /\ u[i] = a[i]
             \/ \E j \in 1 .. Len(b) : i = Len(a) + j /\ u[i] = b[j]
             \/ \E j \in 1 .. Len(t) : i = base + j /\ u[i] = t[j]
  <2> DEFINE j == i - Len(a)
             k == i - base
  <2>1. \/ i \in 1 .. Len(a)
        \/ j \in 1 .. Len(b) /\ i = Len(a) + j
        \/ k \in 1 .. Len(t) /\ i = base + k
    <3>1. i \in Int /\ base \in Nat /\ i >= 1 /\ i <= Len(a) + (Len(b) + Len(t)) /\ base = Len(a) + Len(b)
      BY <1>0, <1>3
    <3> QED
      BY <1>0, <3>1
  <2> HIDE DEF j, k
  <2> QED
    BY <1>3, <1>5, <1>6, <2>1
<1>8. base \in Nat /\ Len(a) <= base /\ Len(u) = base + Len(t)
  BY <1>0, <1>3
<1> HIDE DEF base
<1>9. Parts(u, base, a, b, t)
  BY <1>0, <1>3, <1>6, <1>7, <1>8 DEF Parts
<1> QED
  BY <1>9 DEF u, base

LEMMA SendKeepsSync ==
    ASSUME LogInv, ConnInv, WireInv, SyncInv, NEW ambient, NEW entries, Send(ambient, entries),
           Handled(ambient, entries), client = "page", HubTyped'
    PROVE  SyncInv'
<1> DEFINE new == Numbered(entries)
           frames == ambient \o new
           n == Len(entries)
           base == Len(wire) + Len(ambient)
<1>s. Attached' = Attached /\ Seen' = Seen
  BY SendKeepsConn
<1> SUFFICES ASSUME Attached, ~missed'
             PROVE  (Unseen /\ Consistent /\ Complete /\ FollowedUp(wire, ledger, unsent) /\ LegendInv)'
  BY <1>s DEF SyncInv
<1>0. /\ entries \in Seq(Lines) /\ ambient \in Seq(Ambient) /\ seq \in Nat /\ wire \in Seq(PageFrames)
      /\ chatLog \in Seq(LogEntries) /\ n \in Nat
  BY DEF Handled, LogInv, WireInv
<1>1. wire' = wire \o frames /\ ~missed /\ frames \in Seq(PageFrames)
  BY SendFrames
<1>2. Unseen /\ Consistent /\ Complete /\ FollowedUp(wire, ledger, unsent) /\ LegendInv
  BY <1>1 DEF SyncInv
<1>3. /\ new \in Seq(LogEntries) /\ Len(new) = n
      /\ \A i \in 1 .. n :
            /\ new[i].id = seq + i /\ IsEntry(new[i])
            /\ \A c, version : Bears(new[i], c, version) <=> Bears(entries[i], c, version)
  BY <1>0, NumberedFacts
<1> HIDE DEF new, n
<1> HIDE DEF base, frames
<1>p. ambient \in Seq(PageFrames) /\ new \in Seq(PageFrames)
  <2>1. Ambient \subseteq PageFrames /\ LogEntries \subseteq PageFrames
    BY DEF PageFrames
  <2> QED
    BY <1>0, <1>3, <2>1
<1>4. /\ Len(wire) \in Nat /\ Len(wire') = base + n /\ base \in Nat /\ Len(wire) <= base
      /\ \A i \in 1 .. Len(wire) : wire'[i] = wire[i]
      /\ \A i \in 1 .. n : base + i \in 1 .. Len(wire') /\ wire'[base + i] = new[i]
      /\ \A i \in 1 .. Len(wire') :
            \/ i \in 1 .. Len(wire) /\ wire'[i] = wire[i]
            \/ \E j \in 1 .. Len(ambient) : wire'[i] = ambient[j]
            \/ \E j \in 1 .. n : i = base + j /\ wire'[i] = new[j]
  <2>1. wire' = wire \o (ambient \o new) /\ base = Len(wire) + Len(ambient)
    BY <1>1 DEF frames, base
  <2>2. wire \in Seq(PageFrames)
    BY <1>0
  <2>3. Parts(wire', base, wire, ambient, new)
    BY <1>p, <2>1, <2>2, ThreeParts
  <2> HIDE DEF n
  <2> QED
    BY <1>3, <2>3 DEF Parts
<1>5. \A i \in 1 .. Len(wire') : IsEntry(wire'[i]) =>
          \/ i \in 1 .. Len(wire) /\ wire'[i] = wire[i]
          \/ i - base \in 1 .. n /\ wire'[i] = new[i - base]
  <2> SUFFICES ASSUME NEW i \in 1 .. Len(wire'), IsEntry(wire'[i]), i \notin 1 .. Len(wire)
               PROVE  i - base \in 1 .. n /\ wire'[i] = new[i - base]
    BY <1>4
  <2>1. \A j \in 1 .. Len(ambient) : ~IsEntry(ambient[j])
    <3>1. \A j \in 1 .. Len(ambient) : ambient[j] \in Ambient
      BY <1>0
    <3> QED
      BY <3>1, AmbientKinds
  <2>2. PICK j \in 1 .. n : i = base + j /\ wire'[i] = new[j]
    BY <1>4, <2>1
  <2>3. i - base = j
    BY <1>4, <2>2
  <2> QED
    BY <2>2, <2>3
<1>6. Seen \in Nat /\ Seen <= seq
  BY <1>0 DEF Seen, ConnInv
<1>7. \A i \in 1 .. Len(wire) : IsEntry(wire[i]) => wire[i].id \in Nat /\ wire[i].id > Seen /\ wire[i].id <= seq
  <2> TAKE i \in 1 .. Len(wire)
  <2>1. wire[i] \in PageFrames
    BY <1>0
  <2> QED
    BY <1>2, <2>1, FrameKindsOfPage DEF Unseen, WireInv
<1>8. Unseen'
  <2> SUFFICES ASSUME NEW i \in 1 .. Len(wire'), IsEntry(wire'[i])
               PROVE  /\ wire'[i].id > Seen
                      /\ \A j \in i + 1 .. Len(wire') : IsEntry(wire'[j]) => wire'[i].id < wire'[j].id
    BY <1>s DEF Unseen
  <2>1. CASE i \in 1 .. Len(wire) /\ wire'[i] = wire[i]
    <3>1. ASSUME NEW j \in i + 1 .. Len(wire'), IsEntry(wire'[j]) PROVE wire'[i].id < wire'[j].id
      <4>1. j \in 1 .. Len(wire')
        BY <1>4, <2>1
      <4>2. CASE j \in 1 .. Len(wire) /\ wire'[j] = wire[j]
        <5>1. j \in i + 1 .. Len(wire)
          BY <1>4, <4>2
        <5> QED
          BY <1>2, <2>1, <3>1, <4>2, <5>1 DEF Unseen
      <4>3. CASE j - base \in 1 .. n /\ wire'[j] = new[j - base]
        <5>1. wire'[j].id = seq + (j - base) /\ wire'[i].id <= seq /\ wire'[i].id \in Nat
          BY <1>3, <1>7, <2>1, <4>3
        <5> QED
          BY <1>0, <4>3, <5>1
      <4> QED
        BY <1>5, <3>1, <4>1, <4>2, <4>3
    <3> QED
      BY <1>7, <2>1, <3>1
  <2>2. CASE i - base \in 1 .. n /\ wire'[i] = new[i - base]
    <3>1. wire'[i].id = seq + (i - base)
      BY <1>3, <2>2
    <3>2. ASSUME NEW j \in i + 1 .. Len(wire'), IsEntry(wire'[j]) PROVE wire'[i].id < wire'[j].id
      <4>1. j \in 1 .. Len(wire') /\ j \notin 1 .. Len(wire) /\ i \in Nat
        <5>1. Len(wire) \in Nat /\ Len(wire') \in Nat /\ i \in Nat
          BY <1>0, <1>4
        <5>2. i - base > 0 /\ base >= Len(wire) /\ base \in Nat
          BY <1>0, <1>4, <2>2
        <5>3. j \in i + 1 .. Len(wire')
          OBVIOUS
        <5> QED
          BY <5>1, <5>2, <5>3
      <4>2. j - base \in 1 .. n /\ wire'[j] = new[j - base]
        BY <1>5, <3>2, <4>1
      <4>3. wire'[j].id = seq + (j - base)
        BY <1>3, <4>2
      <4> QED
        BY <1>0, <1>4, <3>1, <4>1, <4>3
    <3> QED
      BY <1>0, <1>6, <2>2, <3>1, <3>2
  <2> QED
    BY <1>5, <2>1, <2>2
<1>9. /\ \A k \in 1 .. Len(chatLog') : \/ \E i \in 1 .. Len(chatLog) : chatLog'[k] = chatLog[i]
                                       \/ \E j \in 1 .. n : chatLog'[k] = new[j]
  <2>1. \A k \in 1 .. Len(chatLog') : \/ \E i \in 1 .. Len(chatLog) : chatLog'[k] = chatLog[i]
                                      \/ \E j \in 1 .. Len(Numbered(entries)) : chatLog'[k] = Numbered(entries)[j]
    BY SendGrowsLog
  <2> QED
    BY <1>3, <2>1 DEF new
<1>10. \A k \in 1 .. Len(chatLog) : chatLog[k].id \in Nat /\ chatLog[k].id <= seq
  <2>1. Len(chatLog) \in Nat
    BY <1>0
  <2> QED
    BY <1>0, <2>1 DEF LogInv
<1>11. Consistent'
  <2> SUFFICES ASSUME NEW i \in 1 .. Len(wire'), NEW k \in 1 .. Len(chatLog'), IsEntry(wire'[i]),
                      wire'[i].id = chatLog'[k].id
               PROVE  wire'[i] = chatLog'[k]
    BY DEF Consistent
  <2>1. CASE \E m \in 1 .. Len(chatLog) : chatLog'[k] = chatLog[m]
    <3>1. PICK m \in 1 .. Len(chatLog) : chatLog'[k] = chatLog[m]
      BY <2>1
    <3>2. CASE i \in 1 .. Len(wire) /\ wire'[i] = wire[i]
      BY <1>2, <3>1, <3>2 DEF Consistent
    <3>3. CASE i - base \in 1 .. n /\ wire'[i] = new[i - base]
      <4>1. wire'[i].id = seq + (i - base)
        BY <1>3, <3>3
      <4> QED
        BY <1>0, <1>10, <3>1, <3>3, <4>1
    <3> QED
      BY <1>5, <3>2, <3>3
  <2>2. CASE \E j \in 1 .. n : chatLog'[k] = new[j]
    <3>1. PICK j \in 1 .. n : chatLog'[k] = new[j]
      BY <2>2
    <3>2. chatLog'[k].id = seq + j
      BY <1>3, <3>1
    <3>3. CASE i \in 1 .. Len(wire) /\ wire'[i] = wire[i]
      BY <1>0, <1>7, <3>2, <3>3
    <3>4. CASE i - base \in 1 .. n /\ wire'[i] = new[i - base]
      <4>1. wire'[i].id = seq + (i - base)
        BY <1>3, <3>4
      <4>2. i - base = j
        BY <1>0, <3>2, <3>4, <4>1
      <4> QED
        BY <3>1, <3>4, <4>2
    <3> QED
      BY <1>5, <3>3, <3>4
  <2> QED
    BY <1>9, <2>1, <2>2
<1>12. Complete'
  <2> SUFFICES ASSUME NEW k \in 1 .. Len(chatLog'), chatLog'[k].id > Seen
               PROVE  \E i \in 1 .. Len(wire') : wire'[i] = chatLog'[k]
    BY <1>s DEF Complete
  <2>1. CASE \E m \in 1 .. Len(chatLog) : chatLog'[k] = chatLog[m]
    <3>1. PICK i \in 1 .. Len(wire) : wire[i] = chatLog'[k]
      BY <1>2, <2>1 DEF Complete
    <3>2. i \in 1 .. Len(wire')
      BY <1>0, <1>4
    <3> QED
      BY <1>4, <3>1, <3>2
  <2>2. CASE \E j \in 1 .. n : chatLog'[k] = new[j]
    <3>1. PICK j \in 1 .. n : chatLog'[k] = new[j]
      BY <2>2
    <3>2. base + j \in 1 .. Len(wire')
      BY <1>4
    <3> QED
      BY <1>4, <3>1, <3>2
  <2> QED
    BY <1>9, <2>1, <2>2
<1>13. FollowedUp(wire', ledger', unsent')
  <2>1. \A c \in Ids : \/ ledger'[c] = ledger[c] /\ (c \in unsent => c \in unsent')
                       \/ Told(frames, c, ledger')
    <3> TAKE c \in Ids
    <3>1. CASE Told(entries, c, ledger')
      <4>1. PICK j \in 1 .. Len(entries) : Bears(entries[j], c, ledger'[c])
        BY <3>1 DEF Told
      <4>2. Bears(new[j], c, ledger'[c]) /\ j \in 1 .. Len(new)
        BY <1>3, <4>1 DEF n
      <4>3. Len(ambient) + j \in 1 .. Len(frames) /\ frames[Len(ambient) + j] = new[j]
        <5>1. Len(ambient \o new) = Len(ambient) + Len(new) /\ Len(ambient) \in Nat /\ Len(new) \in Nat
          BY <1>p
        <5>2. (ambient \o new)[Len(ambient) + j] = new[j]
          BY <1>p, <4>2
        <5>3. Len(ambient) + j \in 1 .. Len(ambient) + Len(new)
          BY <4>2, <5>1
        <5> QED
          BY <5>1, <5>2, <5>3 DEF frames
      <4> QED
        BY <4>2, <4>3 DEF Told
    <3> QED
      BY <3>1 DEF Handled
  <2>2. FollowedUp(frames, ledger', unsent')
    <3>1. \A i \in 1 .. Len(ambient) : ~IsEntry(ambient[i])
      BY <1>0, AmbientKinds
    <3>2. FollowedUp(ambient, ledger', unsent')
      BY <3>1 DEF FollowedUp, Bears
    <3>3. FollowedUp(new, ledger', unsent')
      <4> SUFFICES ASSUME NEW i \in 1 .. Len(new), NEW c \in Ids, Bears(new[i], c, 1), ledger'[c] = 2,
                          c \notin unsent'
                   PROVE  \E j \in i + 1 .. Len(new) : Bears(new[j], c, 2)
        BY DEF FollowedUp
      <4>1. PICK j \in i + 1 .. Len(entries) : Bears(entries[j], c, 2)
        BY <1>3 DEF FollowedUp, n, Handled
      <4>2. j \in 1 .. Len(entries)
        BY <1>3 DEF n
      <4> QED
        BY <1>3, <4>1, <4>2 DEF n
    <3>4. ambient \in Seq(PageFrames) /\ new \in Seq(PageFrames)
      <4>1. Ambient \subseteq PageFrames /\ LogEntries \subseteq PageFrames
        BY DEF PageFrames
      <4> QED
        BY <1>0, <1>3, <4>1
    <3> QED
      BY <3>2, <3>3, <3>4, FollowedUpAppended DEF frames
  <2> QED
    BY <1>0, <1>1, <1>2, <2>1, <2>2, FollowedUpAppended
<1>14. LegendInv'
  <2>1. NoLegend(new)
    BY <1>3 DEF NoLegend, IsLegend, IsEntry
  <2>2. ambient \in Seq(PageFrames) /\ new \in Seq(PageFrames)
    <3>1. Ambient \subseteq PageFrames /\ LogEntries \subseteq PageFrames
      BY DEF PageFrames
    <3> QED
      BY <1>0, <1>3, <3>1
  <2>3. legend' = legend
    BY DEF Handled, pageVars
  <2>4. CASE NoLegend(ambient) /\ agent' = agent
    <3>1. NoLegend(frames)
      BY <2>1, <2>2, <2>4, LegendAppended DEF frames
    <3> QED
      BY <1>0, <1>1, <1>2, <2>3, <2>4, <3>1, LegendAppended DEF LegendInv
  <2>5. CASE LastTrue(ambient, agent')
    <3>1. LastTrue(frames, agent')
      BY <2>1, <2>2, <2>5, LegendAppended DEF frames
    <3> QED
      BY <1>0, <1>1, <3>1, LegendAppended DEF LegendInv
  <2> QED
    BY <2>4, <2>5 DEF Handled
<1> QED
  BY <1>8, <1>11, <1>12, <1>13, <1>14

\* What is on the stream of the page is in the log, unless the log has lost it.
LEMMA OnWireInLog ==
    ASSUME LogInv, ConnInv, WireInv, SyncInv, Attached, ~missed, NEW c \in Ids, NEW version,
           OnWire(c, version)
    PROVE  Gap \/ InLog(c, version)
<1> DEFINE base == seq - Len(chatLog)
<1>1. PICK i \in 1 .. Len(wire) : Bears(wire[i], c, version)
  BY DEF OnWire
<1>2. wire[i] \in PageFrames /\ IsEntry(wire[i])
  BY <1>1 DEF WireInv, Bears
<1>3. wire[i].id \in Nat /\ wire[i].id > Seen /\ wire[i].id <= seq
  BY <1>2, FrameKindsOfPage DEF SyncInv, Unseen, WireInv
<1>4. seq \in Nat /\ chatLog \in Seq(LogEntries) /\ base \in Nat /\ Seen \in Nat
  BY DEF LogInv, Seen, ConnInv
<1> DEFINE k == wire[i].id - base
<1>5. CASE wire[i].id <= base
  <2>1. base > Seen
    BY <1>3, <1>4, <1>5
  <2> QED
    BY <2>1 DEF Gap
<1>6. CASE wire[i].id > base
  <2>1. Len(chatLog) \in Nat
    BY <1>4
  <2>2. k \in 1 .. Len(chatLog) /\ base + k = wire[i].id
    BY <1>3, <1>4, <1>6, <2>1
  <2> HIDE DEF k
  <2>3. chatLog[k].id = wire[i].id
    BY <2>2 DEF LogInv
  <2>4. wire[i] = chatLog[k]
    BY <1>2, <2>2, <2>3 DEF SyncInv, Consistent
  <2> QED
    BY <1>1, <1>3, <2>2, <2>4 DEF InLog
<1> QED
  BY <1>3, <1>4, <1>5, <1>6

\* What came still comes, and so does what is sent.
LEMMA SendComing ==
    ASSUME LogInv, ConnInv, WireInv, SyncInv, NEW ambient, NEW entries, Send(ambient, entries),
           Handled(ambient, entries), client = "page", HubTyped', NEW c \in Ids, NEW version \in {1, 2},
           Coming(c, version) \/ (Told(entries, c, ledger') /\ version = ledger'[c])
    PROVE  Coming(c, version)'
<1> DEFINE new == Numbered(entries)
<1> SUFFICES ASSUME ~missed' PROVE Coming(c, version)'
  BY DEF Coming
<1>0. /\ entries \in Seq(Lines) /\ ambient \in Seq(Ambient) /\ seq \in Nat /\ wire \in Seq(PageFrames)
      /\ chatLog \in Seq(LogEntries)
  BY DEF Handled, LogInv, WireInv
<1>1. Attached' = Attached /\ Seen' = Seen /\ ~missed
  BY SendKeepsConn DEF Send
<1>2. Seen \in Nat /\ Seen <= seq
  BY <1>0 DEF Seen, ConnInv
<1>3. /\ new \in Seq(LogEntries) /\ Len(new) = Len(entries)
      /\ \A i \in 1 .. Len(entries) :
            /\ new[i].id = seq + i /\ IsEntry(new[i])
            /\ \A d, v : Bears(new[i], d, v) <=> Bears(entries[i], d, v)
  BY <1>0, NumberedFacts
<1>4. Told(entries, c, ledger') /\ version = ledger'[c] =>
          \E j \in 1 .. Len(new) : Bears(new[j], c, version) /\ new[j].id > Seen
  <2> SUFFICES ASSUME Told(entries, c, ledger'), version = ledger'[c]
               PROVE  \E j \in 1 .. Len(new) : Bears(new[j], c, version) /\ new[j].id > Seen
    OBVIOUS
  <2>1. PICK j \in 1 .. Len(entries) : Bears(entries[j], c, version)
    BY DEF Told
  <2>2. new[j].id = seq + j /\ Bears(new[j], c, version) /\ j \in 1 .. Len(new)
    BY <1>3, <2>1
  <2>3. seq + j > Seen
    BY <1>0, <1>2, <2>1
  <2> QED
    BY <2>2, <2>3
<1>5. CASE Attached
  <2> DEFINE base == Len(wire) + Len(ambient)
  <2>1. wire' = wire \o (ambient \o new)
    BY <1>5, SendFrames
  <2>2. ambient \in Seq(PageFrames) /\ new \in Seq(PageFrames)
    <3>1. Ambient \subseteq PageFrames /\ LogEntries \subseteq PageFrames
      BY DEF PageFrames
    <3> QED
      BY <1>0, <1>3, <3>1
  <2> HIDE DEF new
  <2>3. Parts(wire', base, wire, ambient, new)
    BY <1>0, <2>1, <2>2, ThreeParts
  <2> HIDE DEF base
  <2>4. /\ \A i \in 1 .. Len(wire) : i \in 1 .. Len(wire') /\ wire'[i] = wire[i]
        /\ \A i \in 1 .. Len(new) : base + i \in 1 .. Len(wire') /\ wire'[base + i] = new[i]
    BY <2>3 DEF Parts
  <2>5. CASE Coming(c, version)
    <3>1. PICK i \in 1 .. Len(wire) : Bears(wire[i], c, version)
      BY <1>1, <1>5, <2>5 DEF Coming, OnWire
    <3>2. i \in 1 .. Len(wire') /\ Bears(wire'[i], c, version)
      BY <2>4, <3>1
    <3>3. OnWire(c, version)'
      BY <3>2 DEF OnWire
    <3> QED
      BY <1>1, <1>5, <3>3 DEF Coming
  <2>6. CASE Told(entries, c, ledger') /\ version = ledger'[c]
    <3>1. PICK j \in 1 .. Len(new) : Bears(new[j], c, version)
      BY <1>4, <2>6
    <3> DEFINE i == base + j
    <3>2. i \in 1 .. Len(wire') /\ Bears(wire'[i], c, version)
      BY <2>4, <3>1
    <3> HIDE DEF i
    <3>3. OnWire(c, version)'
      BY <3>2 DEF OnWire
    <3> QED
      BY <1>1, <1>5, <3>3 DEF Coming
  <2> QED
    BY <2>5, <2>6
<1>6. CASE ~Attached
  <2>1. /\ seq' \in Nat /\ chatLog' \in Seq(LogEntries)
        /\ seq' - Len(chatLog') >= seq - Len(chatLog)
        /\ \A i \in 1 .. Len(chatLog) : \/ \E k \in 1 .. Len(chatLog') : chatLog'[k] = chatLog[i]
                                        \/ seq' - Len(chatLog') >= chatLog[i].id
        /\ \A j \in 1 .. Len(new) : \/ \E k \in 1 .. Len(chatLog') : chatLog'[k] = new[j]
                                    \/ seq' - Len(chatLog') >= new[j].id
    BY <1>0, SendGrowsLog
  <2> HIDE DEF new
  <2> DEFINE lost == seq' - Len(chatLog')
  <2>2. lost \in Int /\ seq - Len(chatLog) \in Int
    BY <1>0, <2>1
  <2>3. ASSUME NEW e, e.id \in Nat, e.id > Seen, Bears(e, c, version),
               (\E k \in 1 .. Len(chatLog') : chatLog'[k] = e) \/ lost >= e.id
        PROVE  Coming(c, version)'
    <3>1. CASE \E k \in 1 .. Len(chatLog') : chatLog'[k] = e
      <4>1. InLog(c, version)'
        BY <1>1, <2>3, <3>1 DEF InLog
      <4> QED
        BY <1>1, <1>6, <4>1 DEF Coming
    <3>2. CASE lost >= e.id
      <4>1. lost > Seen
        BY <1>2, <2>2, <2>3, <3>2
      <4>2. Gap'
        BY <1>1, <4>1 DEF Gap
      <4> QED
        BY <1>1, <1>6, <4>2 DEF Coming
    <3> QED
      BY <2>3, <3>1, <3>2
  <2>4. CASE Gap
    <3>1. lost > Seen
      BY <1>2, <2>1, <2>2, <2>4 DEF Gap
    <3>2. Gap'
      BY <1>1, <3>1 DEF Gap
    <3> QED
      BY <1>1, <1>6, <3>2 DEF Coming
  <2>5. CASE InLog(c, version)
    <3>1. PICK k \in 1 .. Len(chatLog) : chatLog[k].id > Seen /\ Bears(chatLog[k], c, version)
      BY <2>5 DEF InLog
    <3>2. chatLog[k] \in LogEntries
      BY <1>0, <3>1
    <3>3. chatLog[k].id \in Nat
      BY <3>2 DEF LogEntries
    <3> QED
      BY <2>1, <2>3, <3>1, <3>3
  <2>6. CASE Told(entries, c, ledger') /\ version = ledger'[c]
    <3>1. PICK j \in 1 .. Len(new) : Bears(new[j], c, version) /\ new[j].id > Seen
      BY <1>4, <2>6
    <3>2. new[j] \in LogEntries
      BY <1>3, <3>1
    <3>3. new[j].id \in Nat
      BY <3>2 DEF LogEntries
    <3> QED
      BY <2>1, <2>3, <3>1, <3>3
  <2> QED
    BY <1>1, <1>6, <2>4, <2>5, <2>6 DEF Coming
<1> QED
  BY <1>5, <1>6

-----------------------------------------------------------------------------
(* The list, and the awaits of the page. *)

Flows == {"boot", "reload"}
Swapping == Step("reload", "swap")
Announces == \E i \in 1 .. Len(flows["reload"]) : flows["reload"][i] = "notice"

\* What the list shows was said by a hub the page knows, and was seen.
RowsSeen ==
    \A r \in RowsOf(view) :
        r.id > 0 => r.life <= session /\ (r.life = session => r.id <= lastSeen)

\* No card shows a version that the ledger has not.
ListInv ==
    /\ ViewInv(view) /\ RowsSeen
    /\ \A c \in Ids : view.cards[c] <= ledger[c]

\* An answer of a hub, or none.
Answers == {None} \cup [by : Nat, found : BOOLEAN \cup SUBSET Ids]

\* An answer names entities of the kind it is about, which exist.
Names(f, kind, versions) == replies[f].found \in SUBSET {c \in OfKind(kind) : versions[c] > 0}

\* What was answered is waited for, and names entities that exist; the click
\* ends with a notice the list does not show yet.
AwaitsInv ==
    /\ \A i \in 1 .. Len(flows["reload"]) : flows["reload"][i] = "notice" => i = Len(flows["reload"])
    /\ ~Swapping /\ Announces => NoticeRow \notin RowsOf(view)
    /\ replies \in [Flows -> Answers]
    /\ \A f \in Flows :
          replies[f] # None =>
             /\ replies[f].by <= life
             /\ Step(f, "roster") \/ (\E kind \in ToSet(KindSteps) : Step(f, kind) /\ Names(f, kind, ledger))
    /\ loaded \subseteq ToSet(KindSteps)

-----------------------------------------------------------------------------
(* What the page shows. *)

\* The last version of a card, which was emitted.
Sent(c, version) == ledger[c] = version /\ c \notin unsent

\* The list has it, or has forgotten the card; else it comes.
Has(c, version) == CardRow(c) \in view.trimmed \/ view.cards[c] >= version
Due(c, version) == Has(c, version) \/ Coming(c, version)

\* The hub that runs has answered, and its answer is awaited.
Asked(f, kind) == replies[f] # None /\ Step(f, kind) /\ replies[f].by = life

\* Such an answer is about to bring a card, or does not tell of one.
Awaited(c, version) ==
    \E f \in Flows, kind \in ToSet(KindSteps) :
        /\ Asked(f, kind)
        /\ \/ version = 2 /\ c \in replies[f].found
           \/ version = 1 /\ c \in OfKind(kind) /\ c \notin replies[f].found

\* A resolution is wanted of a card that is shown, but for those of an earlier
\* hub, or about to be; a pending card, of a kind that was loaded or is about to be.
Wanted(c, version) ==
    \/ version = 2 /\ view.cards[c] > 0 /\ c \notin stale
    \/ version = 1 /\ \E kind \in loaded : c \in OfKind(kind)
    \/ Awaited(c, version)

DueInv == \A c \in Ids, version \in {1, 2} : Sent(c, version) /\ Wanted(c, version) => Due(c, version)

\* What the page has seen of the log it shows, or has shown.
MessageRow(e) == [subject |-> e.subject, life |-> life, id |-> e.id]
ChatInv ==
    \A k \in 1 .. Len(chatLog) :
        chatLog[k].subject \in Messages /\ chatLog[k].id <= Seen =>
            missed \/ MessageRow(chatLog[k]) \in RowsOf(view) \cup view.trimmed

\* From the answer to the click on, and but for it, the page knows the hub.
ShownInv ==
    ~Swapping =>
        /\ bus = life /\ (stream.phase # "none" => stream.bus = life)
        /\ DueInv /\ ChatInv

\* What came of an entity after an answer was sent by the hub that runs.
Logged(c, version) ==
    (\E k \in 1 .. Len(chatLog) : Bears(chatLog[k], c, version)) \/ seq > Len(chatLog)
FreshInv ==
    \A c \in Ids, version \in {1, 2} :
        Sent(c, version) /\ Awaited(c, version) => Logged(c, version)

PageInv ==
    /\ client = "page"
    /\ LogInv /\ ConnInv /\ WireInv /\ SyncInv /\ ListInv /\ AwaitsInv /\ ShownInv
    /\ FreshInv /\ RetryInv

-----------------------------------------------------------------------------
(* The hub sends. *)

LEMMA KindsStay == ASSUME cast' = cast PROVE KindSteps' = KindSteps
  BY DEF KindSteps, Load, OfKind

LEMMA KindIds ==
    ASSUME NEW kind \in ToSet(KindSteps)
    PROVE  kind \in KindNames /\ kind \notin {"roster", "connect", "swap", "notice"} /\ OfKind(kind) \subseteq Ids
<1>1. kind \in KindNames
  BY KindStepsTyped
<1> QED
  BY <1>1 DEF KindNames, OfKind, Ids

LEMMA NamesMore ==
    ASSUME NEW f, NEW kind \in ToSet(KindSteps), Names(f, kind, ledger),
           \A c \in Ids : ledger[c] \in 0 .. 2 /\ ledger'[c] \in 0 .. 2 /\ ledger[c] <= ledger'[c]
    PROVE  Names(f, kind, ledger')
<1>1. OfKind(kind) \subseteq Ids
  BY KindIds
<1>2. \A c \in OfKind(kind) : ledger[c] > 0 => ledger'[c] > 0
  BY <1>1
<1> QED
  BY <1>2 DEF Names

\* While the awaits, the answers and the view stay, the same is wanted.
LEMMA WantedSame ==
    ASSUME UNCHANGED <<cast, life, flows, replies, view, loaded, stale>>, NEW c, NEW version
    PROVE  (Wanted(c, version)' <=> Wanted(c, version)) /\ (Awaited(c, version)' <=> Awaited(c, version))
<1>1. KindSteps' = KindSteps
  BY KindsStay
<1>2. Awaited(c, version)' <=> Awaited(c, version)
  BY <1>1 DEF Awaited, Asked, Step, OfKind
<1> QED
  BY <1>2 DEF Wanted, OfKind

\* What was logged stays so, but for what the log is too short for.
LEMMA SendLogged ==
    ASSUME LogInv, NEW ambient, NEW entries, Send(ambient, entries), Handled(ambient, entries),
           client = "page", NEW c \in Ids, NEW version,
           Logged(c, version) \/ (Told(entries, c, ledger') /\ version = ledger'[c])
    PROVE  Logged(c, version)'
<1> DEFINE new == Numbered(entries)
<1>0. entries \in Seq(Lines) /\ seq \in Nat /\ chatLog \in Seq(LogEntries) /\ Len(chatLog) \in Nat
  BY DEF Handled, LogInv
<1>1. /\ new \in Seq(LogEntries) /\ Len(new) = Len(entries)
      /\ \A i \in 1 .. Len(entries) : \A d, v : Bears(new[i], d, v) <=> Bears(entries[i], d, v)
  BY <1>0, NumberedFacts
<1>2. /\ seq' \in Nat /\ Len(chatLog') \in Nat /\ seq' - Len(chatLog') >= seq - Len(chatLog)
      /\ \A i \in 1 .. Len(chatLog) : \/ \E k \in 1 .. Len(chatLog') : chatLog'[k] = chatLog[i]
                                      \/ seq' - Len(chatLog') >= chatLog[i].id
      /\ \A j \in 1 .. Len(new) : \/ \E k \in 1 .. Len(chatLog') : chatLog'[k] = new[j]
                                  \/ seq' - Len(chatLog') >= new[j].id
  BY <1>0, SendGrowsLog
<1> HIDE DEF new
<1>3. ASSUME NEW e \in LogEntries, Bears(e, c, version),
             (\E k \in 1 .. Len(chatLog') : chatLog'[k] = e) \/ seq' - Len(chatLog') >= e.id
      PROVE  Logged(c, version)'
  <2>1. e.id \in Nat \ {0}
    BY DEF LogEntries
  <2>2. CASE seq' - Len(chatLog') >= e.id
    <3>1. seq' > Len(chatLog')
      BY <1>2, <2>1, <2>2
    <3> QED
      BY <3>1 DEF Logged
  <2> QED
    BY <1>3, <2>2 DEF Logged
<1>4. CASE seq > Len(chatLog)
  <2>1. seq' > Len(chatLog')
    BY <1>0, <1>2, <1>4
  <2> QED
    BY <2>1 DEF Logged
<1>5. CASE \E k \in 1 .. Len(chatLog) : Bears(chatLog[k], c, version)
  <2>1. PICK k \in 1 .. Len(chatLog) : Bears(chatLog[k], c, version)
    BY <1>5
  <2>2. chatLog[k] \in LogEntries
    BY <1>0
  <2> QED
    BY <1>2, <1>3, <2>1, <2>2
<1>6. CASE Told(entries, c, ledger') /\ version = ledger'[c]
  <2>1. PICK j \in 1 .. Len(new) : Bears(new[j], c, version)
    BY <1>1, <1>6 DEF Told
  <2>2. new[j] \in LogEntries
    BY <1>1
  <2> QED
    BY <1>2, <1>3, <2>1, <2>2
<1> QED
  BY <1>4, <1>5, <1>6 DEF Logged

LEMMA FreshKept ==
    ASSUME FreshInv, UNCHANGED <<ledger, unsent>>,
           \A c \in Ids, version \in {1, 2} : Sent(c, version) /\ Awaited(c, version)' => Awaited(c, version),
           \A c \in Ids, version \in {1, 2} : Logged(c, version) => Logged(c, version)'
    PROVE  FreshInv'
<1> SUFFICES ASSUME NEW c \in Ids, NEW version \in {1, 2}, Sent(c, version)', Awaited(c, version)'
             PROVE  Logged(c, version)'
  BY DEF FreshInv
<1>1. Sent(c, version)
  BY DEF Sent
<1> QED
  BY <1>1 DEF FreshInv

LEMMA PageUntouched ==
    ASSUME ListInv, AwaitsInv, UNCHANGED <<cast, life, pageVars>>, ledger \in [Ids -> 0 .. 2],
           ledger' \in [Ids -> 0 .. 2], \A c \in Ids : ledger[c] <= ledger'[c]
    PROVE  /\ ListInv' /\ AwaitsInv' /\ (Swapping' <=> Swapping)
           /\ \A c, version : /\ Wanted(c, version)' <=> Wanted(c, version)
                              /\ Awaited(c, version)' <=> Awaited(c, version)
                              /\ Has(c, version)' <=> Has(c, version)
<1>0. KindSteps' = KindSteps
  BY KindsStay
<1>1. UNCHANGED <<session, lastSeen, bus, drops, flows, replies, view, loaded, stale, legend>>
  BY DEF pageVars
<1>2. \A c \in Ids : ledger[c] \in 0 .. 2 /\ ledger'[c] \in 0 .. 2 /\ ledger[c] <= ledger'[c]
  OBVIOUS
<1>3. ListInv'
  <2>1. view.cards \in [Ids -> 0 .. 2]
    BY DEF ListInv, ViewInv, ViewShape, Views
  <2>2. ASSUME NEW c \in Ids PROVE view.cards[c] <= ledger'[c]
    <3>1. view.cards[c] \in 0 .. 2 /\ view.cards[c] <= ledger[c]
      BY <2>1 DEF ListInv
    <3> QED
      BY <1>2, <3>1
  <2>3. RowsSeen'
    BY <1>1 DEF ListInv, RowsSeen
  <2> QED
    BY <1>1, <2>2, <2>3 DEF ListInv
<1>4. AwaitsInv'
  <2>1. \A f \in Flows, kind \in ToSet(KindSteps) : Names(f, kind, ledger) => Names(f, kind, ledger')
    BY <1>2, NamesMore
  <2>2. \A f \in Flows, kind \in ToSet(KindSteps) : Names(f, kind, ledger)' <=> Names(f, kind, ledger')
    BY <1>1 DEF Names, OfKind
  <2>3. \A f \in Flows :
          replies[f] # None =>
             /\ replies[f].by <= life
             /\ Step(f, "roster") \/ (\E kind \in ToSet(KindSteps) : Step(f, kind) /\ Names(f, kind, ledger)')
    BY <2>1, <2>2 DEF AwaitsInv
  <2> QED
    BY <1>0, <1>1, <2>3 DEF AwaitsInv, Swapping, Announces, Step, NoticeRow
<1>5. Swapping' <=> Swapping
  BY <1>1 DEF Swapping, Step
<1>6. \A c, version : /\ Wanted(c, version)' <=> Wanted(c, version)
                      /\ Awaited(c, version)' <=> Awaited(c, version)
  BY <1>1, WantedSame
<1>7. \A c, version : Has(c, version)' <=> Has(c, version)
  BY <1>1 DEF Has
<1> QED
  BY <1>3, <1>4, <1>5, <1>6, <1>7

LEMMA SendKeepsPage ==
    ASSUME PageInv, NEW ambient, NEW entries, Send(ambient, entries), Handled(ambient, entries),
           HubTyped', RetryInv'
    PROVE  PageInv'
<1>0. /\ client = "page" /\ LogInv /\ ConnInv /\ WireInv /\ SyncInv /\ ListInv /\ AwaitsInv /\ ShownInv
      /\ FreshInv /\ client' = client
  BY DEF PageInv, Handled
<1>1. LogInv'
  BY <1>0, SendKeepsLog
<1>2. ConnInv' /\ WireInv' /\ Attached' = Attached /\ Seen' = Seen
  BY <1>0, SendKeepsConn
<1>3. SyncInv'
  BY <1>0, SendKeepsSync
<1>4. /\ ledger \in [Ids -> 0 .. 2] /\ ledger' \in [Ids -> 0 .. 2] /\ \A c \in Ids : ledger[c] <= ledger'[c]
      /\ UNCHANGED <<cast, pageVars, life>>
  BY <1>0 DEF LogInv, HubTyped, Handled
<1>5. /\ ListInv' /\ AwaitsInv' /\ (Swapping' <=> Swapping)
      /\ \A c, version : /\ Wanted(c, version)' <=> Wanted(c, version)
                         /\ Awaited(c, version)' <=> Awaited(c, version)
                         /\ Has(c, version)' <=> Has(c, version)
  BY <1>0, <1>4, PageUntouched
<1>6. ASSUME ~Swapping, NEW c \in Ids, NEW version \in {1, 2}, Sent(c, version)', Wanted(c, version)'
      PROVE  Due(c, version)'
  <2>1. CASE ledger'[c] = ledger[c] /\ (c \in unsent => c \in unsent')
    <3>1. Sent(c, version) /\ Wanted(c, version)
      BY <1>5, <1>6, <2>1 DEF Sent
    <3>2. Has(c, version) \/ Coming(c, version)
      BY <1>0, <1>6, <3>1 DEF ShownInv, DueInv, Due
    <3>3. CASE Has(c, version)
      BY <1>5, <3>3 DEF Due
    <3>4. CASE Coming(c, version)
      <4>1. Coming(c, version)'
        BY <1>0, <3>4, SendComing
      <4> QED
        BY <4>1 DEF Due
    <3> QED
      BY <3>2, <3>3, <3>4
  <2>2. CASE Told(entries, c, ledger')
    <3>1. version = ledger'[c]
      BY <1>6 DEF Sent
    <3>2. Coming(c, version)'
      BY <1>0, <2>2, <3>1, SendComing
    <3> QED
      BY <3>2 DEF Due
  <2> QED
    BY <2>1, <2>2 DEF Handled
<1>7. ASSUME ~Swapping, NEW k \in 1 .. Len(chatLog'), chatLog'[k].subject \in Messages, chatLog'[k].id <= Seen
      PROVE  missed' \/ MessageRow(chatLog'[k]) \in RowsOf(view) \cup view.trimmed
  <2> DEFINE new == Numbered(entries)
  <2>1. \/ \E i \in 1 .. Len(chatLog) : chatLog'[k] = chatLog[i]
        \/ \E j \in 1 .. Len(new) : chatLog'[k] = new[j]
    BY <1>0, SendGrowsLog
  <2>2. CASE \E i \in 1 .. Len(chatLog) : chatLog'[k] = chatLog[i]
    <3>1. missed \/ MessageRow(chatLog'[k]) \in RowsOf(view) \cup view.trimmed
      BY <1>0, <1>7, <2>2 DEF ShownInv, ChatInv
    <3>2. missed => missed'
      BY <1>0 DEF Send
    <3> QED
      BY <3>1, <3>2
  <2>3. CASE \E j \in 1 .. Len(new) : chatLog'[k] = new[j]
    <3>0. entries \in Seq(Lines) /\ seq \in Nat /\ Seen \in Nat /\ Seen <= seq
      BY <1>0 DEF Handled, LogInv, Seen, ConnInv
    <3>1. PICK j \in 1 .. Len(entries) : chatLog'[k].id = seq + j
      BY <1>0, <2>3, <3>0, NumberedFacts
    <3> QED
      BY <1>7, <3>0, <3>1
  <2> QED
    BY <2>1, <2>2, <2>3
<1>9. FreshInv'
  <2> SUFFICES ASSUME NEW c \in Ids, NEW version \in {1, 2}, Sent(c, version)', Awaited(c, version)'
               PROVE  Logged(c, version)'
    BY DEF FreshInv
  <2>1. CASE ledger'[c] = ledger[c] /\ (c \in unsent => c \in unsent')
    <3>1. Sent(c, version) /\ Awaited(c, version)
      BY <1>5, <2>1 DEF Sent
    <3>2. Logged(c, version)
      BY <1>0, <3>1 DEF FreshInv
    <3> QED
      BY <1>0, <3>2, SendLogged
  <2>2. CASE Told(entries, c, ledger')
    <3>1. version = ledger'[c]
      BY DEF Sent
    <3> QED
      BY <1>0, <2>2, <3>1, SendLogged
  <2> QED
    BY <2>1, <2>2 DEF Handled
<1>8. ShownInv'
  <2> SUFFICES ASSUME ~Swapping'
               PROVE  (/\ bus = life /\ (stream.phase # "none" => stream.bus = life)
                       /\ DueInv /\ ChatInv)'
    BY DEF ShownInv
  <2>1. ~Swapping
    BY <1>5
  <2>2. (bus = life /\ (stream.phase # "none" => stream.bus = life))'
    BY <1>0, <1>4, <2>1 DEF ShownInv, pageVars, Send
  <2>3. DueInv'
    BY <1>6, <2>1 DEF DueInv
  <2>4. ChatInv'
    <3>1. view' = view /\ life' = life
      BY <1>4 DEF pageVars
    <3> QED
      BY <1>2, <1>7, <2>1, <3>1 DEF ChatInv, MessageRow
  <2> QED
    BY <2>2, <2>3, <2>4
<1> QED
  BY <1>0, <1>1, <1>2, <1>3, <1>5, <1>8, <1>9 DEF PageInv

\* One entry, or none; one frame about the agent.
LEMMA OneEntry ==
    ASSUME NEW subject \in Subjects, NEW version \in {1, 2}
    PROVE  LET s == <<Entry(subject, version)>>
           IN  /\ s \in Seq(Lines) /\ Len(s) = 1
               /\ \A c, v : Bears(s[1], c, v) <=> c = subject /\ v = version
<1>1. Entry(subject, version) \in Lines
  BY DEF Entry, Lines
<1>2. \A c, v : Bears(Entry(subject, version), c, v) <=> c = subject /\ v = version
  BY DEF Entry, Bears, IsEntry
<1> QED
  BY <1>1, <1>2

LEMMA OneFrame ==
    ASSUME NEW f \in Ambient, NEW state, f.type # "session", LegendTrue(f, state)
    PROVE  /\ <<f>> \in Seq(Ambient) /\ Len(<<f>>) = 1 /\ <<f>>[1] = f
           /\ \A i \in 1 .. Len(<<f>>) : <<f>>[i].type # "session"
           /\ LastTrue(<<f>>, state)
<1>1. <<f>> \in Seq(Ambient) /\ Len(<<f>>) = 1 /\ <<f>>[1] = f
  OBVIOUS
<1>2. \A i \in 1 .. Len(<<f>>) : <<f>>[i].type # "session"
  BY <1>1
<1>3. IsLegend(f)
  BY DEF Ambient, IsLegend
<1>4. \A j \in 1 + 1 .. 1 : FALSE
  OBVIOUS
<1> QED
  BY <1>1, <1>2, <1>3, <1>4 DEF LastTrue

LEMMA AmbientFrames ==
    ASSUME NEW state
    PROVE  /\ RosterFrame(state) \in Ambient /\ PresenceFrame(state) \in Ambient /\ SessionFrame.type = "session"
           /\ RosterFrame(state).type = "roster" /\ PresenceFrame(state).type = "presence"
           /\ LegendTrue(RosterFrame(state), state) /\ LegendTrue(PresenceFrame(state), state)
           /\ SessionFrame.life = life
  BY DEF RosterFrame, PresenceFrame, SessionFrame, Ambient, LegendTrue

LEMMA NothingSent ==
    /\ <<>> \in Seq(Ambient) /\ NoLegend(<<>>) /\ <<>> \in Seq(Lines)
    /\ \A i \in 1 .. Len(<<>>) : FALSE
    /\ \A versions, silent : Truthful(<<>>, versions) /\ FollowedUp(<<>>, versions, silent)
<1>1. <<>> \in Seq(Ambient) /\ <<>> \in Seq(Lines) /\ Len(<<>>) = 0
  OBVIOUS
<1>2. \A i \in 1 .. Len(<<>>) : FALSE
  BY <1>1
<1> QED
  BY <1>1, <1>2 DEF NoLegend, Truthful, FollowedUp

LEMMA AdvanceHandled ==
    ASSUME LogInv, NEW c \in Ids, Advance(c), UNCHANGED pageVars
    PROVE  LET s == <<Entry(c, ledger'[c])>> IN Send(<<>>, s) /\ Handled(<<>>, s)
<1> DEFINE s == <<Entry(c, ledger'[c])>>
<1>1. /\ ledger \in [Ids -> 0 .. 2] /\ ledger[c] < 2 /\ ledger' = [ledger EXCEPT ![c] = @ + 1]
      /\ unsent' = unsent \ {c} /\ UNCHANGED <<client, cast, life, agent, optedIn>> /\ Send(<<>>, s)
  BY DEF Advance, Commit, LogInv, HubTyped
<1>2. /\ ledger[c] \in 0 .. 2 /\ ledger'[c] = ledger[c] + 1 /\ ledger'[c] \in {1, 2}
      /\ \A d \in Ids : d # c => ledger'[d] = ledger[d]
      /\ \A d \in Ids : ledger[d] \in 0 .. 2
  BY <1>1
<1>3. s \in Seq(Lines) /\ Len(s) = 1 /\ \A d, v : Bears(s[1], d, v) <=> d = c /\ v = ledger'[c]
  BY <1>2, OneEntry DEF Subjects
<1> HIDE DEF s
<1>4. \A d \in Ids : ledger[d] <= ledger'[d]
  BY <1>2
<1>5. Truthful(s, ledger') /\ FollowedUp(s, ledger', unsent')
  <2>1. \A i \in 1 .. Len(s) : i = 1
    BY <1>3
  <2>2. Truthful(s, ledger')
    <3>1. \A d \in Ids, v \in {1, 2} : Bears(s[1], d, v) => v <= ledger'[d]
      BY <1>2, <1>3
    <3> QED
      BY <2>1, <3>1 DEF Truthful
  <2>3. FollowedUp(s, ledger', unsent')
    <3>1. \A d \in Ids : Bears(s[1], d, 1) => ledger'[d] # 2
      BY <1>3
    <3> QED
      BY <2>1, <3>1 DEF FollowedUp
  <2> QED
    BY <2>2, <2>3
<1>6. Told(s, c, ledger')
  <2>1. 1 \in 1 .. Len(s) /\ Bears(s[1], c, ledger'[c])
    BY <1>3
  <2> QED
    BY <2>1 DEF Told
<1>7. \A d \in Ids : (ledger'[d] = ledger[d] /\ (d \in unsent => d \in unsent')) \/ Told(s, d, ledger')
  BY <1>1, <1>2, <1>6
<1>8. Handled(<<>>, s)
  BY <1>1, <1>3, <1>4, <1>5, <1>7, NothingSent DEF Handled
<1> QED
  BY <1>1, <1>8 DEF s

\* A handler that commits nothing.
LEMMA NothingCommitted ==
    ASSUME LogInv, NEW ambient \in Seq(Ambient), NEW entries \in Seq(Lines),
           \A i \in 1 .. Len(ambient) : ambient[i].type # "session",
           Truthful(entries, ledger), FollowedUp(entries, ledger, unsent),
           (NoLegend(ambient) /\ agent' = agent) \/ LastTrue(ambient, agent'),
           UNCHANGED <<client, cast, ledger, unsent, life, optedIn, pageVars>>
    PROVE  Handled(ambient, entries)
<1>1. \A c \in Ids : ledger[c] \in 0 .. 2
  BY DEF LogInv, HubTyped
<1>2. \A c \in Ids : ledger[c] <= ledger'[c]
  BY <1>1
<1> QED
  BY <1>2 DEF Handled

LEMMA MessageSaid ==
    ASSUME LogInv, NEW m \in Messages
    PROVE  LET s == <<Entry(m, 1)>>
           IN  s \in Seq(Lines) /\ Truthful(s, ledger) /\ FollowedUp(s, ledger, unsent)
<1> DEFINE s == <<Entry(m, 1)>>
<1>1. m \in Subjects /\ m \notin Ids
  BY FanoutAssumption DEF Subjects
<1>2. s \in Seq(Lines) /\ Len(s) = 1 /\ \A d, v : Bears(s[1], d, v) <=> d = m /\ v = 1
  BY <1>1, OneEntry
<1> HIDE DEF s
<1>3. \A i \in 1 .. Len(s), d \in Ids, v \in {1, 2} : ~Bears(s[i], d, v)
  <2>1. \A i \in 1 .. Len(s) : i = 1
    BY <1>2
  <2> QED
    BY <1>1, <1>2, <2>1
<1>4. Truthful(s, ledger) /\ FollowedUp(s, ledger, unsent)
  BY <1>3 DEF Truthful, FollowedUp
<1> QED
  BY <1>2, <1>4 DEF s

LEMMA ReplayTruthful ==
    ASSUME LogInv
    PROVE  Replay \in Seq(Lines) /\ Truthful(Replay, ledger) /\ FollowedUp(Replay, ledger, unsent)
<1>1. CASE hydrated \/ ~optedIn
  BY <1>1, NothingSent DEF Replay
<1>2. CASE ~(hydrated \/ ~optedIn)
  <2>1. Replay = LastOf(transcript, HistoryLimit)
    BY <1>2 DEF Replay
  <2>2. transcript \in Seq(Lines) /\ HistoryLimit \in Nat
    BY FanoutAssumption DEF LogInv
  <2>3. Replay \in Seq(Lines) /\ Ends(Replay, transcript)
    BY <2>1, <2>2, LastOfEnds
  <2> QED
    BY <2>2, <2>3, TruthfulEnds, FollowedUpEnds DEF LogInv
<1> QED
  BY <1>1, <1>2

\* Every handler that sends.
LEMMA HandlersKeepPage ==
    ASSUME PageInv, UNCHANGED pageVars, HubTyped', RetryInv',
           \/ \E c \in Ids : Advance(c)
           \/ \E m \in Messages : Say(m) \/ SayFirst(m)
           \/ AgentConnects \/ AgentLeaves \/ AgentRemoved
    PROVE  PageInv'
<1>0. LogInv
  BY DEF PageInv
<1> SUFFICES \E ambient, entries : Send(ambient, entries) /\ Handled(ambient, entries)
  BY SendKeepsPage
<1>1. ASSUME NEW c \in Ids, Advance(c) PROVE \E ambient, entries : Send(ambient, entries) /\ Handled(ambient, entries)
  BY <1>0, <1>1, AdvanceHandled
<1>2. ASSUME NEW m \in Messages, Say(m) PROVE \E ambient, entries : Send(ambient, entries) /\ Handled(ambient, entries)
  <2>1. /\ Send(<<>>, <<Entry(m, 1)>>) /\ agent' = agent
        /\ UNCHANGED <<client, cast, ledger, unsent, life, optedIn, pageVars>>
    BY <1>2 DEF Say, ledgerVars
  <2>2. Handled(<<>>, <<Entry(m, 1)>>)
    BY <1>0, <2>1, MessageSaid, NothingSent, NothingCommitted
  <2> QED
    BY <2>1, <2>2
<1>3. ASSUME NEW m \in Messages, SayFirst(m) PROVE \E ambient, entries : Send(ambient, entries) /\ Handled(ambient, entries)
  <2> DEFINE a == <<RosterFrame(agent')>>
  <2>1. Send(a, <<Entry(m, 1)>>) /\ UNCHANGED <<client, cast, ledger, unsent, life, optedIn, pageVars>>
    BY <1>3 DEF SayFirst, ledgerVars
  <2>2. a \in Seq(Ambient) /\ LastTrue(a, agent') /\ \A i \in 1 .. Len(a) : a[i].type # "session"
    BY AmbientFrames, OneFrame
  <2> HIDE DEF a
  <2>3. Handled(a, <<Entry(m, 1)>>)
    BY <1>0, <2>1, <2>2, MessageSaid, NothingCommitted
  <2> QED
    BY <2>1, <2>3
<1>4. ASSUME AgentConnects PROVE \E ambient, entries : Send(ambient, entries) /\ Handled(ambient, entries)
  <2> DEFINE first == IF agent = "absent" THEN <<RosterFrame(agent')>> ELSE <<>>
             last == <<PresenceFrame(agent')>>
             a == first \o last
  <2>1. Send(a, Replay) /\ UNCHANGED <<client, cast, ledger, unsent, life, optedIn, pageVars>>
    BY <1>4 DEF AgentConnects
  <2>2. first \in Seq(Ambient) /\ \A i \in 1 .. Len(first) : first[i].type # "session"
    <3>1. CASE agent = "absent"
      BY <3>1, AmbientFrames, OneFrame
    <3>2. CASE agent # "absent"
      BY <3>2, NothingSent
    <3> QED
      BY <3>1, <3>2
  <2>3. last \in Seq(Ambient) /\ LastTrue(last, agent') /\ Len(last) = 1 /\ last[1].type # "session"
    BY AmbientFrames, OneFrame
  <2> HIDE DEF first, last
  <2>4. a \in Seq(Ambient) /\ LastTrue(a, agent')
    BY <2>2, <2>3, LegendAppended
  <2>5. \A i \in 1 .. Len(a) : a[i].type # "session"
    <3> TAKE i \in 1 .. Len(a)
    <3>1. /\ Len(a) = Len(first) + 1 /\ Len(first) \in Nat
          /\ \A j \in 1 .. Len(first) : a[j] = first[j]
      <4>1. first \in Seq(Ambient) /\ last \in Seq(Ambient) /\ Len(last) = 1
        BY <2>2, <2>3
      <4>2. Len(first) \in Nat
        BY <4>1
      <4>3. Len(a) = Len(first) + Len(last) /\ \A j \in 1 .. Len(first) : a[j] = first[j]
        BY <4>1, Appended
      <4> QED
        BY <4>1, <4>2, <4>3
    <3>2. a[Len(first) + 1] = last[1]
      <4>1. first \in Seq(Ambient) /\ last \in Seq(Ambient) /\ 1 \in 1 .. Len(last)
        BY <2>2, <2>3
      <4> QED
        BY <4>1, Appended
    <3>3. i \in 1 .. Len(first) \/ i = Len(first) + 1
      BY <3>1
    <3> QED
      BY <2>2, <2>3, <3>1, <3>2, <3>3
  <2> HIDE DEF a
  <2>6. Handled(a, Replay)
    BY <1>0, <2>1, <2>4, <2>5, ReplayTruthful, NothingCommitted
  <2> QED
    BY <2>1, <2>6
<1>5. ASSUME AgentLeaves PROVE \E ambient, entries : Send(ambient, entries) /\ Handled(ambient, entries)
  <2> DEFINE a == <<PresenceFrame(agent')>>
  <2>1. Send(a, <<>>) /\ UNCHANGED <<client, cast, ledger, unsent, life, optedIn, pageVars>>
    BY <1>5 DEF AgentLeaves
  <2>2. a \in Seq(Ambient) /\ LastTrue(a, agent') /\ \A i \in 1 .. Len(a) : a[i].type # "session"
    BY AmbientFrames, OneFrame
  <2> HIDE DEF a
  <2>3. Handled(a, <<>>)
    BY <1>0, <2>1, <2>2, NothingSent, NothingCommitted
  <2> QED
    BY <2>1, <2>3
<1>6. ASSUME AgentRemoved PROVE \E ambient, entries : Send(ambient, entries) /\ Handled(ambient, entries)
  <2> DEFINE first == <<RosterFrame(agent')>>
             last == <<PresenceFrame(agent')>>
             a == <<RosterFrame(agent'), PresenceFrame(agent')>>
  <2>1. Send(a, <<>>) /\ UNCHANGED <<client, cast, ledger, unsent, life, optedIn, pageVars>>
    BY <1>6 DEF AgentRemoved
  <2>2. /\ first \in Seq(Ambient) /\ last \in Seq(Ambient) /\ LastTrue(last, agent')
        /\ first[1].type # "session" /\ last[1].type # "session" /\ Len(first) = 1 /\ Len(last) = 1
    BY AmbientFrames, OneFrame
  <2>3. /\ a \in Seq(Ambient) /\ Len(a) = 2 /\ a[1] = first[1] /\ a[2] = last[1]
    <3>1. \A S : \A f, g \in S : /\ <<f, g>> \in Seq(S) /\ Len(<<f, g>>) = 2
                                /\ <<f, g>>[1] = f /\ <<f, g>>[2] = g
      OBVIOUS
    <3>3. \A f : <<f>>[1] = f
      OBVIOUS
    <3>4. RosterFrame(agent') \in Ambient /\ PresenceFrame(agent') \in Ambient
      BY AmbientFrames
    <3> QED
      BY <3>1, <3>3, <3>4
  <2>4. \A i \in 1 .. Len(a) : a[i].type # "session"
    <3>1. \A i \in 1 .. Len(a) : i = 1 \/ i = 2
      BY <2>3
    <3> QED
      BY <2>2, <2>3, <3>1
  <2> HIDE DEF first, last, a
  <2>5. LastTrue(a, agent')
    <3>1. IsLegend(last[1]) /\ LegendTrue(last[1], agent')
      BY AmbientFrames DEF last, IsLegend
    <3>2. 2 \in 1 .. Len(a) /\ \A j \in 2 + 1 .. Len(a) : FALSE
      BY <2>3
    <3> QED
      BY <2>3, <3>1, <3>2 DEF LastTrue
  <2>6. Handled(a, <<>>)
    BY <1>0, <2>1, <2>3, <2>4, <2>5, NothingSent, NothingCommitted
  <2> QED
    BY <2>1, <2>6
<1> QED
  BY <1>1, <1>2, <1>3, <1>4, <1>5, <1>6

-----------------------------------------------------------------------------
(* The hub, but for what it sends. *)

\* What is due stays due, unless the view or the hub changes.
LEMMA ShownKept ==
    ASSUME ShownInv, ~Swapping' => ~Swapping,
           ~Swapping' /\ bus = life => bus' = life /\ (stream' = stream \/ stream'.phase = "none" \/ stream'.bus = life),
           UNCHANGED <<ledger, unsent, life, view>>, Seen' = Seen, missed => missed',
           \A k \in 1 .. Len(chatLog') : \E i \in 1 .. Len(chatLog) : chatLog'[k] = chatLog[i],
           \A c \in Ids, version \in {1, 2} :
              Sent(c, version) /\ Wanted(c, version)' => Wanted(c, version),
           \A c \in Ids, version \in {1, 2} : Coming(c, version) => Coming(c, version)'
    PROVE  ShownInv'
<1> SUFFICES ASSUME ~Swapping'
             PROVE  (/\ bus = life /\ (stream.phase # "none" => stream.bus = life)
                     /\ DueInv /\ ChatInv)'
  BY DEF ShownInv
<1>1. /\ bus = life /\ (stream.phase # "none" => stream.bus = life)
      /\ DueInv /\ ChatInv
  BY DEF ShownInv
<1>2. DueInv'
  <2> SUFFICES ASSUME NEW c \in Ids, NEW version \in {1, 2}, Sent(c, version)', Wanted(c, version)'
               PROVE  Due(c, version)'
    BY DEF DueInv
  <2>1. Sent(c, version)
    BY DEF Sent
  <2>2. Has(c, version) \/ Coming(c, version)
    BY <1>1, <2>1 DEF DueInv, Due
  <2>3. Has(c, version) => Has(c, version)'
    BY DEF Has, CardRow
  <2> QED
    BY <2>2, <2>3 DEF Due
<1>3. ChatInv'
  BY <1>1 DEF ChatInv, MessageRow
<1>4. (bus = life /\ (stream.phase # "none" => stream.bus = life))'
  BY <1>1
<1> QED
  BY <1>2, <1>3, <1>4


LEMMA ClearKeepsPage ==
    ASSUME PageInv, ClearTranscript, UNCHANGED pageVars, HubTyped', RetryInv'
    PROVE  PageInv'
<1>0. /\ client = "page" /\ LogInv /\ ConnInv /\ WireInv /\ SyncInv /\ ListInv /\ AwaitsInv /\ ShownInv /\ FreshInv
  BY DEF PageInv
<1>1. /\ UNCHANGED <<client, cast, ledger, unsent, life, agent, seq, optedIn, stream, wire, missed,
                     session, lastSeen, bus, drops, flows, view, loaded, stale, legend, replies>>
      /\ chatLog' = <<>> /\ transcript' = <<>>
  BY DEF ClearTranscript, ledgerVars, streamVars, pageVars
<1>2. Len(<<>>) = 0 /\ \A i \in 1 .. Len(<<>>) : FALSE
  BY NothingSent
<1>3. LogInv'
  <2>1. <<>> \in Seq(LogEntries) /\ <<>> \in Seq(Lines)
    OBVIOUS
  <2> QED
    BY <1>0, <1>1, <1>2, <2>1, NothingSent DEF LogInv
<1>4. ConnInv' /\ WireInv' /\ Attached' = Attached /\ Seen' = Seen
  BY <1>0, <1>1 DEF ConnInv, WireInv, Attached, Open, Seen
<1>5. SyncInv'
  <2> SUFFICES ASSUME Attached, ~missed
               PROVE  (Unseen /\ Consistent /\ Complete /\ FollowedUp(wire, ledger, unsent) /\ LegendInv)'
    BY <1>1, <1>4 DEF SyncInv
  <2>1. Unseen /\ FollowedUp(wire, ledger, unsent) /\ LegendInv
    BY <1>0 DEF SyncInv
  <2>2. Unseen' /\ FollowedUp(wire, ledger, unsent)' /\ LegendInv'
    BY <1>1, <1>4, <2>1 DEF Unseen, LegendInv
  <2>3. Consistent' /\ Complete'
    BY <1>1, <1>2 DEF Consistent, Complete
  <2> QED
    BY <2>2, <2>3
<1>6. /\ ListInv' /\ AwaitsInv' /\ (Swapping' <=> Swapping)
      /\ \A c, version : /\ Wanted(c, version)' <=> Wanted(c, version)
                         /\ Awaited(c, version)' <=> Awaited(c, version)
                         /\ Has(c, version)' <=> Has(c, version)
  <2>1. ledger \in [Ids -> 0 .. 2] /\ \A c \in Ids : ledger[c] <= ledger[c]
    BY <1>0 DEF LogInv, HubTyped
  <2> QED
    BY <1>0, <1>1, <2>1, PageUntouched
<1>7. ASSUME NEW c \in Ids, NEW version \in {1, 2}, Coming(c, version) PROVE Coming(c, version)'
  <2>1. /\ seq \in Nat /\ chatLog \in Seq(LogEntries) /\ Len(chatLog) \in Nat /\ Len(chatLog) <= seq
        /\ Seen \in Nat
    BY <1>0 DEF LogInv, Seen, ConnInv
  <2>2. ASSUME seq > Seen, ~Attached PROVE Coming(c, version)'
    <3>1. seq' - Len(chatLog') > Seen'
      BY <1>1, <1>2, <1>4, <2>1, <2>2
    <3> QED
      BY <1>4, <2>2, <3>1 DEF Coming, Gap
  <2>3. CASE missed
    BY <1>1, <2>3 DEF Coming
  <2>4. CASE Attached /\ OnWire(c, version)
    BY <1>1, <1>4, <2>4 DEF Coming, OnWire
  <2>5. CASE ~Attached /\ Gap
    BY <2>1, <2>2, <2>5 DEF Gap
  <2>6. CASE ~Attached /\ InLog(c, version)
    <3>1. PICK k \in 1 .. Len(chatLog) : chatLog[k].id > Seen
      BY <2>6 DEF InLog
    <3>2. chatLog[k].id = seq - Len(chatLog) + k
      BY <1>0 DEF LogInv
    <3> QED
      BY <2>1, <2>2, <2>6, <3>1, <3>2
  <2> QED
    BY <1>7, <2>3, <2>4, <2>5, <2>6 DEF Coming
<1>8. ShownInv'
  BY <1>0, <1>1, <1>2, <1>4, <1>6, <1>7, ShownKept
<1>9. FreshInv'
  <2>1. seq \in Nat /\ chatLog \in Seq(LogEntries) /\ Len(chatLog) <= seq /\ chatLog # <<>>
    BY <1>0 DEF LogInv, HubTyped, ClearTranscript
  <2>2. seq' > Len(chatLog')
    BY <1>1, <1>2, <2>1
  <2> QED
    BY <1>0, <1>1, <1>6, <2>2, FreshKept DEF Logged
<1> QED
  BY <1>0, <1>1, <1>3, <1>4, <1>5, <1>6, <1>8, <1>9 DEF PageInv

LEMMA ListenKeepsPage ==
    ASSUME PageInv, Listen, UNCHANGED pageVars, HubTyped', RetryInv'
    PROVE  PageInv'
<1>1. /\ UNCHANGED <<client, cast, ledger, unsent, life, agent, seq, chatLog, transcript, optedIn, stream,
                     wire, missed, session, lastSeen, bus, drops, flows, view, loaded, stale, legend, replies>>
  BY DEF Listen, ledgerVars, streamVars, pageVars
<1>2. /\ client = "page" /\ LogInv /\ ConnInv /\ WireInv /\ SyncInv /\ ListInv /\ AwaitsInv /\ ShownInv /\ FreshInv
  BY DEF PageInv
<1>3. LogInv' /\ ConnInv' /\ WireInv' /\ Attached' = Attached /\ Seen' = Seen
  BY <1>1, <1>2 DEF LogInv, ConnInv, WireInv, Attached, Open, Seen
<1>4. SyncInv'
  BY <1>1, <1>2, <1>3 DEF SyncInv, Unseen, Consistent, Complete, LegendInv
<1>5. /\ ListInv' /\ AwaitsInv' /\ (Swapping' <=> Swapping)
      /\ \A c, version : /\ Wanted(c, version)' <=> Wanted(c, version)
                         /\ Awaited(c, version)' <=> Awaited(c, version)
                         /\ Has(c, version)' <=> Has(c, version)
  <2>1. ledger \in [Ids -> 0 .. 2] /\ \A c \in Ids : ledger[c] <= ledger[c]
    BY <1>2 DEF LogInv, HubTyped
  <2> QED
    BY <1>1, <1>2, <2>1, PageUntouched
<1>6. \A c \in Ids, version \in {1, 2} : Coming(c, version) => Coming(c, version)'
  BY <1>1, <1>3 DEF Coming, OnWire, InLog, Gap
<1>7. ShownInv'
  BY <1>1, <1>2, <1>3, <1>5, <1>6, ShownKept
<1>8. FreshInv'
  BY <1>1, <1>2, <1>5, FreshKept DEF Logged
<1> QED
  BY <1>1, <1>2, <1>3, <1>4, <1>5, <1>7, <1>8 DEF PageInv

-----------------------------------------------------------------------------
(* The stream is accepted. *)

Greeting == <<SessionFrame, RosterFrame(agent), PresenceFrame(agent)>>

LEMMA GreetingFrames ==
    ASSUME LogInv
    PROVE  /\ Greeting \in Seq(PageFrames) /\ Len(Greeting) = 3 /\ LastTrue(Greeting, agent)
           /\ Greeting[1].type = "session" /\ Greeting[1].life = life
           /\ \A i \in 1 .. 3 : ~IsEntry(Greeting[i]) /\ (Greeting[i].type = "session" => i = 1)
<1>1. life \in Nat
  BY DEF LogInv, HubTyped
<1>2. /\ SessionFrame \in PageFrames /\ RosterFrame(agent) \in PageFrames /\ PresenceFrame(agent) \in PageFrames
  BY <1>1, AmbientFrames, AmbientKinds DEF SessionFrame, PageFrames, Ambient
<1>3. /\ Greeting \in Seq(PageFrames) /\ Len(Greeting) = 3 /\ Greeting[1] = SessionFrame
      /\ Greeting[2] = RosterFrame(agent) /\ Greeting[3] = PresenceFrame(agent)
  BY <1>2 DEF Greeting
<1>4. LastTrue(Greeting, agent)
  <2>1. 3 \in 1 .. Len(Greeting) /\ \A j \in 3 + 1 .. Len(Greeting) : FALSE
    BY <1>3
  <2>2. IsLegend(Greeting[3]) /\ LegendTrue(Greeting[3], agent)
    BY <1>3, AmbientFrames DEF IsLegend
  <2> QED
    BY <2>1, <2>2 DEF LastTrue
<1>5. \A i \in 1 .. 3 : ~IsEntry(Greeting[i]) /\ (Greeting[i].type = "session" => i = 1)
  <2>1. \A i \in 1 .. 3 : i = 1 \/ i = 2 \/ i = 3
    OBVIOUS
  <2>2. /\ Greeting[1].type = "session" /\ Greeting[2].type = "roster" /\ Greeting[3].type = "presence"
    BY <1>3, AmbientFrames
  <2> QED
    BY <2>1, <2>2 DEF IsEntry
<1> QED
  BY <1>3, <1>4, <1>5, AmbientFrames

\* What the page is sent at first: of the log, what it has not seen.
LEMMA Accepted ==
    ASSUME LogInv, ConnInv, AcceptStream
    PROVE  \E replay \in Seq(LogEntries) :
              /\ wire' = Greeting \o replay /\ Len(replay) \in Nat
              /\ missed' = (missed \/ Len(replay) < seq - Seen)
              /\ Ends(replay, chatLog) /\ Len(replay) <= Len(chatLog)
              /\ \A i \in 1 .. Len(replay) :
                    /\ replay[i].id > Seen /\ replay[i].id = seq - Len(replay) + i /\ IsEntry(replay[i])
                    /\ \E k \in 1 .. Len(chatLog) : replay[i] = chatLog[k]
              /\ \A k \in 1 .. Len(chatLog) :
                    chatLog[k].id > Seen => \E i \in 1 .. Len(replay) : replay[i] = chatLog[k]
<1> DEFINE replay == LogAfter(Seen)
<1>1. stream.phase = "opening" /\ stream.session = session /\ stream.lastId = lastSeen
  BY DEF AcceptStream, ConnInv
<1>2. (IF stream.session = life THEN stream.lastId ELSE 0) = Seen
  BY <1>1 DEF Seen
<1>3. wire' = Greeting \o replay /\ missed' = (missed \/ Len(replay) < seq - Seen)
  BY <1>2, Zenon DEF AcceptStream, Greeting
<1>4. Seen \in Nat
  BY DEF Seen, ConnInv
<1>5. /\ replay \in Seq(LogEntries) /\ Ends(replay, chatLog)
      /\ \A i \in 1 .. Len(replay) : replay[i].id > Seen
      /\ \A k \in 1 .. Len(chatLog) : chatLog[k].id > Seen => \E i \in 1 .. Len(replay) : replay[i] = chatLog[k]
  BY <1>4, LogAfterEnds
<1> HIDE DEF replay
<1>6. chatLog \in Seq(LogEntries) /\ seq \in Nat /\ \A i \in 1 .. Len(chatLog) : chatLog[i].id = seq - Len(chatLog) + i
  BY DEF LogInv
<1>7. Len(replay) \in Nat /\ Len(chatLog) \in Nat /\ Len(replay) <= Len(chatLog)
  BY <1>5, <1>6, EndsWithin
<1>8. ASSUME NEW i \in 1 .. Len(replay)
      PROVE  /\ replay[i].id = seq - Len(replay) + i /\ IsEntry(replay[i])
             /\ \E k \in 1 .. Len(chatLog) : replay[i] = chatLog[k]
  <2> DEFINE k == i + (Len(chatLog) - Len(replay))
  <2>1. k \in 1 .. Len(chatLog) /\ replay[i] = chatLog[k]
    BY <1>5, <1>6, EndsWithin
  <2>2. replay[i] \in LogEntries
    BY <1>5
  <2>3. seq - Len(chatLog) + k = seq - Len(replay) + i
    BY <1>6, <1>7
  <2> HIDE DEF k
  <2> QED
    BY <1>6, <2>1, <2>2, <2>3 DEF LogEntries, IsEntry
<1> QED
  BY <1>3, <1>5, <1>7, <1>8

LEMMA AcceptKeepsPage ==
    ASSUME PageInv, AcceptStream, UNCHANGED pageVars, HubTyped', RetryInv'
    PROVE  PageInv'
<1>0. /\ client = "page" /\ LogInv /\ ConnInv /\ WireInv /\ SyncInv /\ ListInv /\ AwaitsInv /\ ShownInv /\ FreshInv
  BY DEF PageInv
<1>1. /\ UNCHANGED <<client, cast, ledger, unsent, life, agent, seq, chatLog, transcript, optedIn,
                     session, lastSeen, bus, drops, flows, view, loaded, stale, legend, replies>>
      /\ stream.phase = "opening" /\ stream.bus = life /\ stream' = [phase |-> "open", bus |-> life]
  BY DEF AcceptStream, ledgerVars, hubVars, pageVars
<1>2. ~Attached /\ Attached' /\ Seen' = Seen /\ Open' /\ stream'.bus = life /\ stream'.phase = "open"
  BY <1>1 DEF Attached, Open, Seen
<1>3. PICK replay \in Seq(LogEntries) :
              /\ wire' = Greeting \o replay /\ Len(replay) \in Nat
              /\ missed' = (missed \/ Len(replay) < seq - Seen)
              /\ Ends(replay, chatLog) /\ Len(replay) <= Len(chatLog)
              /\ \A i \in 1 .. Len(replay) :
                    /\ replay[i].id > Seen /\ replay[i].id = seq - Len(replay) + i /\ IsEntry(replay[i])
                    /\ \E k \in 1 .. Len(chatLog) : replay[i] = chatLog[k]
              /\ \A k \in 1 .. Len(chatLog) :
                    chatLog[k].id > Seen => \E i \in 1 .. Len(replay) : replay[i] = chatLog[k]
  BY <1>0, Accepted
<1>4. /\ Greeting \in Seq(PageFrames) /\ Len(Greeting) = 3 /\ LastTrue(Greeting, agent)
      /\ Greeting[1].type = "session" /\ Greeting[1].life = life
      /\ \A i \in 1 .. 3 : ~IsEntry(Greeting[i]) /\ (Greeting[i].type = "session" => i = 1)
  BY <1>0, GreetingFrames
<1>5. replay \in Seq(PageFrames)
  <2>1. LogEntries \subseteq PageFrames
    BY DEF PageFrames
  <2> QED
    BY <2>1
<1>6. /\ wire' \in Seq(PageFrames) /\ Len(wire') = 3 + Len(replay)
      /\ \A i \in 1 .. 3 : wire'[i] = Greeting[i]
      /\ \A i \in 1 .. Len(replay) : 3 + i \in 1 .. Len(wire') /\ wire'[3 + i] = replay[i]
  <2>1. /\ wire' \in Seq(PageFrames) /\ Len(wire') = 3 + Len(replay)
        /\ \A i \in 1 .. 3 : wire'[i] = Greeting[i]
        /\ \A i \in 1 .. Len(replay) : wire'[3 + i] = replay[i]
    <3>1. /\ Greeting \o replay \in Seq(PageFrames) /\ Len(Greeting \o replay) = Len(Greeting) + Len(replay)
          /\ \A i \in 1 .. Len(Greeting) : (Greeting \o replay)[i] = Greeting[i]
          /\ \A i \in 1 .. Len(replay) : (Greeting \o replay)[Len(Greeting) + i] = replay[i]
      <4>1. Greeting \in Seq(PageFrames)
        BY <1>4
      <4> QED
        BY <1>5, <4>1, Appended
    <3>2. wire' = Greeting \o replay /\ Len(Greeting) = 3
      BY <1>3, <1>4
    <3> QED
      BY <3>1, <3>2
  <2>2. \A i \in 1 .. Len(replay) : 3 + i \in 1 .. Len(wire')
    BY <1>3, <2>1
  <2> QED
    BY <2>1, <2>2
<1>7. \A i \in 1 .. Len(wire') : \/ i \in 1 .. 3 /\ wire'[i] = Greeting[i]
                                 \/ \E j \in 1 .. Len(replay) : i = 3 + j /\ wire'[i] = replay[j]
  <2> TAKE i \in 1 .. Len(wire')
  <2> DEFINE j == i - 3
  <2>1. i \in 1 .. 3 \/ (j \in 1 .. Len(replay) /\ i = 3 + j)
    BY <1>3, <1>6
  <2> HIDE DEF j
  <2> QED
    BY <1>6, <2>1
<1>8. \A i \in 1 .. Len(wire') : IsEntry(wire'[i]) => \E j \in 1 .. Len(replay) : i = 3 + j /\ wire'[i] = replay[j]
  BY <1>4, <1>7
<1>9. seq \in Nat /\ Seen \in Nat /\ session <= life /\ session \in Nat /\ life \in Nat
  BY <1>0 DEF LogInv, Seen, ConnInv, HubTyped
<1>10. LogInv'
  BY <1>0, <1>1 DEF LogInv
<1>11. ConnInv'
  <2>1. stream' \in Streams
    BY <1>1, <1>9 DEF Streams
  <2> QED
    BY <1>0, <1>1, <1>2, <1>9, <2>1 DEF ConnInv
<1>12. WireInv'
  <2>1. \A i \in 1 .. Len(wire') : wire'[i].type = "session" => i = 1 /\ wire'[i].life = stream'.bus
    <3> SUFFICES ASSUME NEW i \in 1 .. Len(wire'), wire'[i].type = "session"
                 PROVE  i = 1 /\ wire'[i].life = stream'.bus
      OBVIOUS
    <3>1. \A j \in 1 .. Len(replay) : replay[j].type = "entry"
      BY <1>3 DEF IsEntry
    <3>2. i \in 1 .. 3 /\ wire'[i] = Greeting[i]
      BY <1>7, <3>1
    <3>3. i = 1
      BY <1>4, <3>2
    <3> QED
      BY <1>2, <1>4, <3>2, <3>3
  <2>2. wire' # <<>> /\ wire'[1].type = "session"
    <3>1. Len(wire') # 0 /\ 1 \in 1 .. 3
      BY <1>3, <1>6
    <3>2. Len(<<>>) = 0
      OBVIOUS
    <3> QED
      BY <1>4, <1>6, <3>1, <3>2
  <2>3. \A i \in 1 .. Len(wire') : IsEntry(wire'[i]) => wire'[i].id <= seq
    <3> TAKE i \in 1 .. Len(wire')
    <3> HAVE IsEntry(wire'[i])
    <3>1. PICK j \in 1 .. Len(replay) : wire'[i] = replay[j]
      BY <1>8
    <3> QED
      BY <1>3, <1>9, <3>1
  <2>4. Truthful(wire', ledger)
    <3> SUFFICES ASSUME NEW i \in 1 .. Len(wire'), NEW c \in Ids, NEW version \in {1, 2}, Bears(wire'[i], c, version)
                 PROVE  version <= ledger[c]
      BY DEF Truthful
    <3>1. PICK j \in 1 .. Len(replay) : wire'[i] = replay[j]
      BY <1>8 DEF Bears
    <3>2. PICK k \in 1 .. Len(chatLog) : replay[j] = chatLog[k]
      BY <1>3
    <3> QED
      BY <1>0, <3>1, <3>2 DEF LogInv, Truthful
  <2> QED
    BY <1>1, <1>2, <1>6, <2>1, <2>2, <2>3, <2>4 DEF WireInv
<1>13. SyncInv'
  <2>1. Unseen'
    <3> SUFFICES ASSUME NEW i \in 1 .. Len(wire'), IsEntry(wire'[i])
                 PROVE  /\ wire'[i].id > Seen
                        /\ \A j \in i + 1 .. Len(wire') : IsEntry(wire'[j]) => wire'[i].id < wire'[j].id
      BY <1>2 DEF Unseen
    <3>1. PICK m \in 1 .. Len(replay) : i = 3 + m /\ wire'[i] = replay[m]
      BY <1>8
    <3>2. ASSUME NEW j \in i + 1 .. Len(wire'), IsEntry(wire'[j]) PROVE wire'[i].id < wire'[j].id
      <4>1. j \in 1 .. Len(wire') /\ j > i
        BY <3>1
      <4>2. PICK n \in 1 .. Len(replay) : j = 3 + n /\ wire'[j] = replay[n]
        BY <1>8, <3>2, <4>1
      <4>3. wire'[i].id = seq - Len(replay) + m /\ wire'[j].id = seq - Len(replay) + n
        BY <1>3, <3>1, <4>2
      <4>4. m < n
        BY <3>1, <4>1, <4>2
      <4> QED
        BY <1>3, <1>9, <4>3, <4>4
    <3> QED
      BY <1>3, <3>1, <3>2
  <2>2. Consistent'
    <3> SUFFICES ASSUME NEW i \in 1 .. Len(wire'), NEW k \in 1 .. Len(chatLog), IsEntry(wire'[i]),
                        wire'[i].id = chatLog[k].id
                 PROVE  wire'[i] = chatLog[k]
      BY <1>1 DEF Consistent
    <3>1. PICK m \in 1 .. Len(replay) : i = 3 + m /\ wire'[i] = replay[m]
      BY <1>8
    <3>2. PICK n \in 1 .. Len(chatLog) : replay[m] = chatLog[n]
      BY <1>3
    <3>3. chatLog[n].id = seq - Len(chatLog) + n /\ chatLog[k].id = seq - Len(chatLog) + k
      BY <1>0 DEF LogInv
    <3>4. chatLog \in Seq(LogEntries)
      BY <1>0 DEF LogInv
    <3>5. Len(chatLog) \in Nat
      BY <3>4
    <3>6. n = k
      BY <1>9, <3>1, <3>2, <3>3, <3>5
    <3> QED
      BY <3>1, <3>2, <3>6
  <2>3. Complete'
    <3> SUFFICES ASSUME NEW k \in 1 .. Len(chatLog), chatLog[k].id > Seen
                 PROVE  \E i \in 1 .. Len(wire') : wire'[i] = chatLog[k]
      BY <1>1, <1>2 DEF Complete
    <3>1. PICK j \in 1 .. Len(replay) : replay[j] = chatLog[k]
      BY <1>3
    <3> QED
      BY <1>6, <3>1
  <2>4. FollowedUp(wire', ledger, unsent)
    <3>1. chatLog \in Seq(LogEntries) /\ FollowedUp(chatLog, ledger, unsent)
      BY <1>0 DEF LogInv
    <3>2. FollowedUp(replay, ledger, unsent)
      BY <1>3, <3>1, FollowedUpEnds
    <3>3. FollowedUp(Greeting, ledger, unsent)
      BY <1>4 DEF FollowedUp, Bears
    <3> QED
      BY <1>3, <1>4, <1>5, <3>2, <3>3, FollowedUpAppended
  <2>5. LegendInv'
    <3>1. NoLegend(replay)
      <4>1. \A i \in 1 .. Len(replay) : ~IsLegend(replay[i])
        BY <1>3 DEF IsLegend, IsEntry
      <4> QED
        BY <4>1 DEF NoLegend
    <3>2. LastTrue(wire', agent)
      BY <1>3, <1>4, <1>5, <3>1, LegendAppended
    <3> QED
      BY <1>1, <3>2 DEF LegendInv
  <2> QED
    BY <1>1, <2>1, <2>2, <2>3, <2>4, <2>5 DEF SyncInv
<1>14. /\ ListInv' /\ AwaitsInv' /\ (Swapping' <=> Swapping)
       /\ \A c, version : /\ Wanted(c, version)' <=> Wanted(c, version)
                          /\ Awaited(c, version)' <=> Awaited(c, version)
                          /\ Has(c, version)' <=> Has(c, version)
  <2>1. ledger \in [Ids -> 0 .. 2]
    BY <1>0 DEF LogInv, HubTyped
  <2>2. \A c \in Ids : ledger[c] <= ledger[c]
    BY <2>1
  <2> QED
    BY <1>0, <1>1, <2>1, <2>2, PageUntouched
<1>15. ASSUME NEW c \in Ids, NEW version \in {1, 2}, Coming(c, version) PROVE Coming(c, version)'
  <2>1. CASE missed
    BY <1>3, <2>1 DEF Coming
  <2>2. CASE Gap
    <3>1. Len(chatLog) \in Nat
      <4>1. chatLog \in Seq(LogEntries)
        BY <1>0 DEF LogInv
      <4> QED
        BY <4>1
    <3>2. Len(replay) < seq - Seen
      BY <1>3, <1>9, <2>2, <3>1 DEF Gap
    <3> QED
      BY <1>3, <3>2 DEF Coming
  <2>3. CASE InLog(c, version)
    <3>1. PICK k \in 1 .. Len(chatLog) : chatLog[k].id > Seen /\ Bears(chatLog[k], c, version)
      BY <2>3 DEF InLog
    <3>2. PICK j \in 1 .. Len(replay) : replay[j] = chatLog[k]
      BY <1>3, <3>1
    <3> DEFINE i == 3 + j
    <3>3. i \in 1 .. Len(wire') /\ Bears(wire'[i], c, version)
      BY <1>6, <3>1, <3>2
    <3> HIDE DEF i
    <3>4. OnWire(c, version)'
      BY <3>3 DEF OnWire
    <3> QED
      BY <1>2, <3>4 DEF Coming
  <2> QED
    BY <1>2, <1>15, <2>1, <2>2, <2>3 DEF Coming
<1>16. ShownInv'
  <2>1. \A k \in 1 .. Len(chatLog') : \E i \in 1 .. Len(chatLog) : chatLog'[k] = chatLog[i]
    BY <1>1
  <2> QED
    BY <1>0, <1>1, <1>2, <1>3, <1>14, <1>15, <2>1, ShownKept
<1>17. FreshInv'
  BY <1>0, <1>1, <1>14, FreshKept DEF Logged
<1> QED
  BY <1>0, <1>1, <1>10, <1>11, <1>12, <1>13, <1>14, <1>16, <1>17 DEF PageInv

-----------------------------------------------------------------------------
(* The stream ends, or another one is opened. *)

LEMMA StreamGone ==
    ASSUME PageInv, wire' = <<>>, stream'.phase # "open",
           UNCHANGED <<client, cast, ledger, unsent, life, agent, seq, chatLog, transcript, optedIn,
                       missed, session, lastSeen, view>>,
           ConnInv', AwaitsInv', HubTyped', RetryInv', ~Swapping' => ~Swapping,
           ~Swapping' /\ bus = life => bus' = life /\ (stream'.phase = "none" \/ stream'.bus = life),
           \A c \in Ids, version \in {1, 2} :
              /\ Wanted(c, version)' => Wanted(c, version)
              /\ Awaited(c, version)' => Awaited(c, version)
    PROVE  PageInv'
<1>0. /\ client = "page" /\ LogInv /\ ConnInv /\ WireInv /\ SyncInv /\ ListInv /\ AwaitsInv /\ ShownInv /\ FreshInv
  BY DEF PageInv
<1>1. ~Open' /\ ~Attached' /\ Seen' = Seen
  BY DEF Open, Attached, Seen
<1>2. LogInv'
  BY <1>0 DEF LogInv
<1>3. WireInv'
  <2>1. <<>> \in Seq(PageFrames) /\ \A i \in 1 .. Len(<<>>) : FALSE
    OBVIOUS
  <2> QED
    BY <1>1, <2>1 DEF WireInv, Truthful
<1>4. SyncInv'
  BY <1>1 DEF SyncInv
<1>5. ListInv'
  <2>1. RowsSeen'
    BY <1>0 DEF ListInv, RowsSeen
  <2> QED
    BY <1>0, <2>1 DEF ListInv
<1>6. ASSUME NEW c \in Ids, NEW version \in {1, 2}, Coming(c, version) PROVE Coming(c, version)'
  <2>1. missed \/ Gap \/ InLog(c, version)
    BY <1>0, <1>6, OnWireInLog DEF Coming
  <2>2. (Gap => Gap') /\ (InLog(c, version) => InLog(c, version)')
    BY <1>1 DEF Gap, InLog
  <2> QED
    BY <1>1, <2>1, <2>2 DEF Coming
<1>7. ShownInv'
  <2>1. \A k \in 1 .. Len(chatLog') : \E i \in 1 .. Len(chatLog) : chatLog'[k] = chatLog[i]
    OBVIOUS
  <2> QED
    BY <1>0, <1>1, <1>6, <2>1, ShownKept
<1>8. FreshInv'
  BY <1>0, FreshKept DEF Logged
<1> QED
  BY <1>0, <1>2, <1>3, <1>4, <1>5, <1>7, <1>8 DEF PageInv

LEMMA StreamEndsKeepsPage ==
    ASSUME PageInv, StreamEnds, HubTyped', RetryInv'
    PROVE  PageInv'
<1>1. /\ UNCHANGED <<client, cast, ledger, unsent, life, agent, seq, chatLog, transcript, optedIn,
                     missed, session, lastSeen, bus, view, flows, replies, loaded, stale>>
      /\ stream' = NoStream /\ wire' = <<>> /\ legend' = AllOff
      /\ drops' = IF Broken THEN drops + 1 ELSE drops
  BY DEF StreamEnds, ledgerVars, hubVars
<1>2. LogInv /\ ConnInv /\ AwaitsInv /\ ListInv
  BY DEF PageInv
<1>3. ConnInv'
  <2>1. drops' \in 0 .. MaxDrops
    <3>1. MaxDrops \in Nat /\ drops \in 0 .. MaxDrops
      BY <1>2, PageAssumption DEF ConnInv
    <3> QED
      BY <1>1, <3>1 DEF Broken
  <2>2. stream'.phase = "none" /\ stream' \in Streams
    BY <1>1 DEF NoStream, Streams
  <2>3. legend' \in {"absent", "off", "on"}
    BY <1>1, <1>2 DEF AllOff, ConnInv
  <2> QED
    BY <1>1, <1>2, <2>1, <2>2, <2>3 DEF ConnInv
<1>4. KindSteps' = KindSteps
  BY <1>1, KindsStay
<1>5. AwaitsInv' /\ (Swapping' <=> Swapping)
  BY <1>1, <1>2, <1>4 DEF AwaitsInv, Swapping, Announces, Step, NoticeRow, Names, OfKind
<1>6. \A c \in Ids, version \in {1, 2} : /\ Wanted(c, version)' => Wanted(c, version)
                                         /\ Awaited(c, version)' => Awaited(c, version)
  BY <1>1, WantedSame
<1>7. stream'.phase = "none" /\ stream'.phase # "open"
  BY <1>1 DEF NoStream
<1> QED
  BY <1>1, <1>3, <1>5, <1>6, <1>7, StreamGone

LEMMA OpeningTyped ==
    ASSUME NEW target \in Nat, NEW from \in Nat, session \in Nat, Connect(target, from)
    PROVE  /\ stream' \in Streams /\ stream'.phase = "opening" /\ stream'.bus = target
           /\ stream'.session = session /\ stream'.lastId = from /\ wire' = <<>>
  BY DEF Connect, Streams

LEMMA RetryFiresKeepsPage ==
    ASSUME PageInv, RetryFires, HubTyped', RetryInv'
    PROVE  PageInv'
<1>1. /\ UNCHANGED <<client, cast, ledger, unsent, life, agent, seq, chatLog, transcript, optedIn,
                     missed, session, lastSeen, drops, view, flows, replies, loaded, stale, legend>>
      /\ bus' = life /\ Connect(life, lastSeen)
  BY DEF RetryFires, ledgerVars, hubVars
<1>2. LogInv /\ ConnInv /\ AwaitsInv /\ ListInv
  BY DEF PageInv
<1>3. life \in Nat \ {0} /\ session \in Nat /\ lastSeen \in Nat /\ session <= bus /\ bus <= life /\ bus \in Nat
  BY <1>2 DEF LogInv, HubTyped, ConnInv
<1>4. /\ stream' \in Streams /\ stream'.phase = "opening" /\ stream'.bus = life
      /\ stream'.session = session /\ stream'.lastId = lastSeen /\ wire' = <<>>
  BY <1>1, <1>3, OpeningTyped
<1>5. ConnInv'
  <2>1. session <= life
    BY <1>3
  <2> QED
    BY <1>1, <1>2, <1>3, <1>4, <2>1 DEF ConnInv
<1>6. KindSteps' = KindSteps
  BY <1>1, KindsStay
<1>7. AwaitsInv' /\ (Swapping' <=> Swapping)
  BY <1>1, <1>2, <1>6 DEF AwaitsInv, Swapping, Announces, Step, NoticeRow, Names, OfKind
<1>8. \A c \in Ids, version \in {1, 2} : /\ Wanted(c, version)' => Wanted(c, version)
                                         /\ Awaited(c, version)' => Awaited(c, version)
  BY <1>1, WantedSame
<1>9. stream'.phase # "open"
  BY <1>4
<1> QED
  BY <1>1, <1>4, <1>5, <1>7, <1>8, <1>9, StreamGone

\* An await ends: what it asked for was answered, or nothing.
LEMMA AwaitDone ==
    ASSUME AwaitsInv, RetryInv, NEW f \in Flows, flows[f] # <<>>, StepDone(f), Head(flows[f]) # "swap",
           replies' \in [Flows -> Answers], replies'[f] = None,
           \A g \in Flows : g # f => replies'[g] = replies[g],
           loaded' \subseteq ToSet(KindSteps), UNCHANGED <<cast, ledger, life>>,
           \/ f = "reload" /\ Head(flows[f]) = "notice"
           \/ NoticeRow \in RowsOf(view') => NoticeRow \in RowsOf(view)
    PROVE  /\ AwaitsInv' /\ (~Swapping' => ~Swapping)
           /\ \A g \in Flows, kind \in ToSet(KindSteps) :
                 Asked(g, kind)' => g # f /\ Asked(g, kind) /\ replies'[g] = replies[g]
<1> DEFINE rest == Tail(flows[f])
<1>1. /\ flows \in [Flows -> Seq(StepNames)] /\ flows' = [flows EXCEPT ![f] = rest]
      /\ flows[f] \in Seq(StepNames)
  BY DEF RetryInv, StepDone, Flows
<1>2. /\ Head(flows[f]) = flows[f][1] /\ Len(flows[f]) \in Nat \ {0}
      /\ Len(rest) = Len(flows[f]) - 1
      /\ \A i \in 1 .. Len(rest) : rest[i] = flows[f][i + 1] /\ i + 1 \in 1 .. Len(flows[f])
  BY <1>1, TailFacts
<1>3. flows'[f] = rest /\ \A g \in Flows : g # f => flows'[g] = flows[g]
  BY <1>1
<1> HIDE DEF rest
<1>4. \A g \in Flows : \A name : g # f => (Step(g, name)' <=> Step(g, name))
  BY <1>3 DEF Step
<1>5. KindSteps' = KindSteps
  BY KindsStay
<1>6. f = "boot" => flows'["reload"] = flows["reload"]
  BY <1>3 DEF Flows
<1>8. (~Swapping' => ~Swapping) /\ (f = "boot" => (Swapping' <=> Swapping)) /\ (f = "reload" => ~Swapping)
  <2>1. CASE f = "boot"
    <3>1. "reload" \in Flows /\ "reload" # f
      BY <2>1 DEF Flows
    <3>2. Step("reload", "swap")' <=> Step("reload", "swap")
      BY <1>4, <3>1
    <3> QED
      BY <2>1, <3>2 DEF Swapping
  <2>2. CASE f = "reload"
    BY <2>2 DEF Swapping, Step
  <2> QED
    BY <2>1, <2>2 DEF Flows
<1>9. \A i \in 1 .. Len(flows'["reload"]) : flows'["reload"][i] = "notice" => i = Len(flows'["reload"])
  <2>1. CASE f = "boot"
    <3>1. flows'["reload"] = flows["reload"]
      BY <1>6, <2>1
    <3> QED
      BY <3>1 DEF AwaitsInv
  <2>2. CASE f = "reload"
    <3> SUFFICES ASSUME NEW i \in 1 .. Len(rest), rest[i] = "notice" PROVE i = Len(rest)
      BY <1>3, <2>2
    <3> DEFINE j == i + 1
    <3>1. j \in 1 .. Len(flows[f]) /\ flows[f][j] = "notice"
      BY <1>2
    <3> HIDE DEF j
    <3>2. j = Len(flows[f])
      BY <2>2, <3>1 DEF AwaitsInv
    <3> QED
      BY <1>2, <3>2 DEF j
  <2> QED
    BY <2>1, <2>2 DEF Flows
<1>10. ~Swapping' /\ Announces' => NoticeRow \notin RowsOf(view')
  <2> SUFFICES ASSUME ~Swapping', NEW i \in 1 .. Len(flows'["reload"]), flows'["reload"][i] = "notice"
               PROVE  NoticeRow \notin RowsOf(view')
    BY DEF Announces
  <2>1. CASE f = "boot"
    <3>1. ~Swapping /\ Announces
      BY <1>6, <1>8, <2>1 DEF Announces
    <3>2. NoticeRow \notin RowsOf(view)
      BY <3>1 DEF AwaitsInv
    <3> QED
      BY <2>1, <3>2
  <2>2. CASE f = "reload"
    <3> DEFINE j == i + 1
    <3>1. j \in 1 .. Len(flows[f]) /\ flows[f][j] = "notice" /\ j > 1 /\ 1 \in 1 .. Len(flows[f])
      BY <1>2, <1>3, <2>2
    <3> HIDE DEF j
    <3>2. j = Len(flows[f]) /\ Announces
      BY <2>2, <3>1 DEF AwaitsInv, Announces
    <3>3. Head(flows[f]) # "notice"
      BY <1>2, <2>2, <3>1, <3>2 DEF AwaitsInv
    <3> QED
      BY <1>8, <2>2, <3>2, <3>3 DEF AwaitsInv
  <2> QED
    BY <2>1, <2>2 DEF Flows
<1>11. \A g \in Flows :
          replies'[g] # None =>
             /\ replies'[g].by <= life'
             /\ Step(g, "roster")' \/ (\E kind \in ToSet(KindSteps)' : Step(g, kind)' /\ Names(g, kind, ledger)')
  <2> TAKE g \in Flows
  <2> HAVE replies'[g] # None
  <2>1. g # f /\ replies'[g] = replies[g]
    OBVIOUS
  <2>2. \A kind \in ToSet(KindSteps) : Names(g, kind, ledger) => Names(g, kind, ledger)'
    BY <2>1 DEF Names, OfKind
  <2> QED
    BY <1>4, <1>5, <2>1, <2>2 DEF AwaitsInv
<1>12. AwaitsInv'
  <2>1. KindSteps' = KindSteps /\ NoticeRow' = NoticeRow
    BY <1>5 DEF NoticeRow
  <2> QED
    BY <1>9, <1>10, <1>11, <2>1 DEF AwaitsInv
<1>13. ASSUME NEW g \in Flows, NEW kind \in ToSet(KindSteps), Asked(g, kind)'
       PROVE  g # f /\ Asked(g, kind) /\ replies'[g] = replies[g]
  BY <1>4, <1>13 DEF Asked
<1> QED
  BY <1>8, <1>12, <1>13

\* An await that has ended makes nothing awaited.
LEMMA AwaitedDone ==
    ASSUME UNCHANGED cast,
           \A g \in Flows, kind \in ToSet(KindSteps) :
              Asked(g, kind)' => Asked(g, kind) /\ replies'[g] = replies[g],
           NEW c \in Ids, NEW version \in {1, 2}
    PROVE  Awaited(c, version)' => Awaited(c, version)
<1>1. KindSteps' = KindSteps
  BY KindsStay
<1> SUFFICES ASSUME Awaited(c, version)' PROVE Awaited(c, version)
  OBVIOUS
<1>2. PICK g \in Flows, kind \in ToSet(KindSteps) :
         /\ Asked(g, kind)'
         /\ \/ version = 2 /\ c \in replies'[g].found
            \/ version = 1 /\ c \in OfKind(kind) /\ c \notin replies'[g].found
  BY <1>1 DEF Awaited, OfKind
<1>3. Asked(g, kind) /\ replies'[g] = replies[g]
  BY <1>2
<1> QED
  BY <1>2, <1>3 DEF Awaited

\* Of what is wanted when an await has ended, only its answer is new.
LEMMA WantedDone ==
    ASSUME UNCHANGED <<cast, loaded, stale>>,
           \A g \in Flows, kind \in ToSet(KindSteps) :
              Asked(g, kind)' => Asked(g, kind) /\ replies'[g] = replies[g],
           \A c \in Ids : view'.cards[c] > 0 => view.cards[c] > 0,
           NEW c \in Ids, NEW version \in {1, 2}
    PROVE  (Wanted(c, version)' => Wanted(c, version)) /\ (Awaited(c, version)' => Awaited(c, version))
<1>1. Awaited(c, version)' => Awaited(c, version)
  BY AwaitedDone
<1> QED
  BY <1>1 DEF Wanted, OfKind

LEMMA BootConnectsKeepsPage ==
    ASSUME PageInv, BootConnects, HubTyped', RetryInv'
    PROVE  PageInv'
<1>1. /\ UNCHANGED <<client, cast, ledger, unsent, life, agent, seq, chatLog, transcript, optedIn,
                     missed, session, lastSeen, drops, view, replies, loaded, stale, legend>>
      /\ bus' \in {bus, life} /\ Connect(bus', lastSeen) /\ Step("boot", "connect") /\ StepDone("boot")
  BY DEF BootConnects, ledgerVars, hubVars
<1>2. LogInv /\ ConnInv /\ AwaitsInv /\ ListInv /\ RetryInv
  BY DEF PageInv
<1>3. session \in Nat /\ lastSeen \in Nat /\ session <= bus' /\ bus' <= life /\ bus' \in Nat \ {0}
  <2>1. session \in Nat /\ lastSeen \in Nat /\ session <= bus /\ bus <= life /\ bus \in Nat \ {0} /\ life \in Nat \ {0}
    BY <1>2 DEF ConnInv, LogInv, HubTyped
  <2> QED
    BY <1>1, <2>1
<1>4. /\ stream' \in Streams /\ stream'.phase = "opening" /\ stream'.bus = bus'
      /\ stream'.session = session /\ stream'.lastId = lastSeen /\ wire' = <<>>
  BY <1>1, <1>3, OpeningTyped
<1>5. ConnInv'
  BY <1>1, <1>2, <1>3, <1>4 DEF ConnInv
<1>6. replies["boot"] = None
  <2>1. \A kind \in ToSet(KindSteps) : ~Step("boot", kind)
    BY <1>1, KindIds DEF Step
  <2>2. ~Step("boot", "roster")
    BY <1>1 DEF Step
  <2> QED
    BY <1>2, <2>1, <2>2 DEF AwaitsInv, Flows
<1>7. /\ AwaitsInv' /\ (~Swapping' => ~Swapping)
      /\ \A g \in Flows, kind \in ToSet(KindSteps) :
            Asked(g, kind)' => g # "boot" /\ Asked(g, kind) /\ replies'[g] = replies[g]
  <2>1. /\ flows["boot"] # <<>> /\ Head(flows["boot"]) = "connect" /\ "boot" \in Flows
    BY <1>1 DEF Step, Flows
  <2>2. /\ replies' \in [Flows -> Answers] /\ replies'["boot"] = None
        /\ \A g \in Flows : g # "boot" => replies'[g] = replies[g]
        /\ loaded' \subseteq ToSet(KindSteps)
    BY <1>1, <1>2, <1>6 DEF AwaitsInv
  <2> QED
    BY <1>1, <1>2, <2>1, <2>2, AwaitDone
<1>8. \A c \in Ids, version \in {1, 2} : /\ Wanted(c, version)' => Wanted(c, version)
                                         /\ Awaited(c, version)' => Awaited(c, version)
  BY <1>1, <1>7, WantedDone DEF Flows
<1>9. ~Swapping' /\ bus = life => bus' = life /\ stream'.bus = life
  BY <1>1, <1>4
<1>10. stream'.phase # "open"
  BY <1>4
<1> QED
  BY <1>1, <1>4, <1>5, <1>7, <1>8, <1>9, <1>10, StreamGone

\* The click on Reload settings: the next hub knows nothing of the page.
LEMMA ReloadClickedKeepsPage ==
    ASSUME PageInv, ReloadClicked, HubTyped', RetryInv'
    PROVE  PageInv'
<1>0. /\ client = "page" /\ LogInv /\ ConnInv /\ WireInv /\ SyncInv /\ ListInv /\ AwaitsInv /\ FreshInv /\ RetryInv
  BY DEF PageInv
<1> DEFINE steps == <<"swap">> \o KindSteps \o <<"notice">>
<1>1. PICK done \in Halfway : Killed(done)
  BY DEF ReloadClicked
<1>2. /\ UNCHANGED <<client, cast, optedIn, transcript, stream, wire, missed, session, lastSeen, bus, drops,
                     replies, view, loaded, stale, legend>>
      /\ life < MaxLives /\ life' = life + 1 /\ seq' = 0 /\ chatLog' = <<>> /\ unsent' = unsent \cup done
      /\ ledger' = [c \in Ids |-> IF c \in done THEN ledger[c] + 1 ELSE ledger[c]]
      /\ flows["reload"] = <<>>
  BY <1>1 DEF ReloadClicked, Killed, streamVars
<1>3. flows' = [flows EXCEPT !["reload"] = steps]
  BY DEF ReloadClicked
<1>4. \A c \in done : c \in Ids /\ ledger[c] < 2
  BY <1>1 DEF Halfway
<1>5. \A c \in Ids : /\ ledger[c] \in 0 .. 2 /\ ledger'[c] \in 0 .. 2 /\ ledger[c] <= ledger'[c]
                     /\ c \notin done => ledger'[c] = ledger[c]
  <2>1. \A c \in Ids : ledger[c] \in 0 .. 2
    BY <1>0 DEF LogInv, HubTyped
  <2>2. \A c \in Ids : ledger'[c] = IF c \in done THEN ledger[c] + 1 ELSE ledger[c]
    BY <1>2
  <2> QED
    BY <1>4, <2>1, <2>2
<1>6. \A S, s : Truthful(s, ledger) /\ s \in Seq(S) => Truthful(s, ledger')
  <2> SUFFICES ASSUME NEW s, Truthful(s, ledger), NEW i \in 1 .. Len(s), NEW c \in Ids, NEW version \in {1, 2},
                      Bears(s[i], c, version)
               PROVE  version <= ledger'[c]
    BY DEF Truthful
  <2>1. version <= ledger[c]
    BY DEF Truthful
  <2> QED
    BY <1>5, <2>1
<1>7. life \in Nat \ {0} /\ bus \in Nat /\ bus <= life /\ session \in Nat /\ session <= bus /\ MaxLives \in Nat
  BY <1>0, FanoutAssumption DEF LogInv, HubTyped, ConnInv
<1>8. LogInv'
  <2>1. /\ <<>> \in Seq(LogEntries) /\ Len(<<>>) = 0 /\ \A i \in 1 .. Len(<<>>) : FALSE
    OBVIOUS
  <2>2. Truthful(transcript, ledger')
    <3>1. Truthful(transcript, ledger) /\ transcript \in Seq(Lines)
      BY <1>0 DEF LogInv
    <3> QED
      BY <1>6, <3>1
  <2>3. FollowedUp(transcript, ledger', unsent')
    <3> SUFFICES ASSUME NEW i \in 1 .. Len(transcript), NEW c \in Ids, Bears(transcript[i], c, 1),
                        ledger'[c] = 2, c \notin unsent'
                 PROVE  \E j \in i + 1 .. Len(transcript) : Bears(transcript[j], c, 2)
      BY DEF FollowedUp
    <3>1. ledger[c] = 2 /\ c \notin unsent
      BY <1>2, <1>5
    <3> QED
      BY <1>0, <3>1 DEF LogInv, FollowedUp
  <2>4. life' <= MaxLives
    BY <1>2, <1>7
  <2> QED
    BY <1>0, <1>2, <2>1, <2>2, <2>3, <2>4, NothingSent DEF LogInv
<1>9. session # life' /\ bus <= life' /\ (stream.phase # "none" => stream.bus # life')
  <2>1. stream.phase # "none" => stream.bus <= bus /\ stream.bus \in Nat
    BY <1>0 DEF ConnInv, Streams, NoStream
  <2> QED
    BY <1>2, <1>7, <2>1
<1>10. ConnInv'
  BY <1>0, <1>2, <1>9 DEF ConnInv
<1>11. ~Attached' /\ (Open' <=> Open)
  BY <1>2, <1>9 DEF Attached, Open
<1>12. WireInv'
  <2>1. Truthful(wire, ledger')
    <3>1. Truthful(wire, ledger) /\ wire \in Seq(PageFrames)
      BY <1>0 DEF WireInv
    <3> QED
      BY <1>6, <3>1
  <2> QED
    BY <1>0, <1>2, <1>11, <2>1 DEF WireInv
<1>13. SyncInv'
  BY <1>11 DEF SyncInv
<1>14. ListInv'
  <2>1. RowsSeen'
    BY <1>0, <1>2 DEF ListInv, RowsSeen
  <2>2. \A c \in Ids : view.cards[c] <= ledger'[c]
    <3> TAKE c \in Ids
    <3>1. view.cards[c] \in 0 .. 2 /\ view.cards[c] <= ledger[c]
      BY <1>0 DEF ListInv, ViewInv, ViewShape, Views
    <3> QED
      BY <1>5, <3>1
  <2> QED
    BY <1>0, <1>2, <2>1, <2>2 DEF ListInv
<1>15. steps \in Seq(StepNames) /\ Head(steps) = "swap" /\ steps # <<>>
       /\ \A i \in 1 .. Len(steps) : steps[i] = "notice" => i = Len(steps)
  <2>1. KindSteps \in Seq(KindNames)
    BY KindStepsTyped
  <2>2. \A s \in Seq(KindNames) : \A t : t = <<"swap">> \o s \o <<"notice">> =>
           /\ t \in Seq(StepNames) /\ Head(t) = "swap" /\ t # <<>> /\ Len(t) = Len(s) + 2
           /\ Len(s) \in Nat /\ t[1] = "swap"
           /\ \A i \in 1 .. Len(s) : t[i + 1] = s[i]
    BY DEF KindNames, StepNames
  <2>3. /\ steps \in Seq(StepNames) /\ Head(steps) = "swap" /\ steps # <<>>
        /\ Len(KindSteps) \in Nat /\ Len(steps) = Len(KindSteps) + 2 /\ steps[1] = "swap"
        /\ \A i \in 1 .. Len(KindSteps) : steps[i + 1] = KindSteps[i]
    BY <2>1, <2>2
  <2> HIDE DEF steps
  <2>4. ASSUME NEW i \in 1 .. Len(steps), steps[i] = "notice" PROVE i = Len(steps)
    <3> DEFINE j == i - 1
    <3>1. i = 1 \/ (j \in 1 .. Len(KindSteps) /\ i = j + 1) \/ i = Len(steps)
      BY <2>3
    <3> HIDE DEF j
    <3>2. i # 1
      BY <2>3, <2>4
    <3>3. ~(j \in 1 .. Len(KindSteps) /\ i = j + 1)
      <4> SUFFICES ASSUME j \in 1 .. Len(KindSteps), i = j + 1 PROVE FALSE
        OBVIOUS
      <4>1. KindSteps[j] = "notice" /\ KindSteps[j] \in KindNames
        BY <2>1, <2>3, <2>4
      <4> QED
        BY <4>1 DEF KindNames
    <3> QED
      BY <3>1, <3>2, <3>3
  <2> QED
    BY <2>3, <2>4
<1> HIDE DEF steps
<1>16. flows'["reload"] = steps /\ flows'["boot"] = flows["boot"]
  BY <1>0, <1>2, <1>3 DEF RetryInv
<1>17. Swapping'
  BY <1>15, <1>16 DEF Swapping, Step
<1>18. AwaitsInv'
  <2>1. KindSteps' = KindSteps /\ NoticeRow' = NoticeRow
    BY <1>2, KindsStay DEF NoticeRow
  <2>2. ASSUME NEW f \in Flows, replies[f] # None
        PROVE  /\ replies[f].by <= life'
               /\ Step(f, "roster")' \/ (\E kind \in ToSet(KindSteps) : Step(f, kind)' /\ Names(f, kind, ledger)')
    <3>1. f = "boot"
      <4>1. \A name : ~Step("reload", name)
        BY <1>2 DEF Step
      <4> QED
        BY <1>0, <2>2, <4>1 DEF AwaitsInv, Flows
    <3>2. \A name : Step(f, name)' <=> Step(f, name)
      BY <1>16, <3>1 DEF Step
    <3>3. replies[f].by <= life'
      <4>1. replies[f].by <= life /\ replies[f].by \in Nat
        BY <1>0, <2>2 DEF AwaitsInv, Answers
      <4> QED
        BY <1>2, <1>7, <4>1
    <3>4. \A kind \in ToSet(KindSteps) : Names(f, kind, ledger) => Names(f, kind, ledger)'
      <4>1. \A kind \in ToSet(KindSteps) : Names(f, kind, ledger) => Names(f, kind, ledger')
        BY <1>5, NamesMore
      <4>2. \A kind : Names(f, kind, ledger)' <=> Names(f, kind, ledger')
        BY <1>2 DEF Names, OfKind
      <4> QED
        BY <4>1, <4>2
    <3> QED
      BY <1>0, <2>2, <3>2, <3>3, <3>4 DEF AwaitsInv
  <2> QED
    BY <1>0, <1>2, <1>15, <1>16, <1>17, <2>1, <2>2 DEF AwaitsInv
<1>19. ShownInv'
  BY <1>17 DEF ShownInv
<1>20. FreshInv'
  <2> SUFFICES ASSUME NEW c \in Ids, NEW version \in {1, 2}, Awaited(c, version)' PROVE FALSE
    BY DEF FreshInv
  <2>1. PICK g \in Flows : replies[g] # None /\ replies[g].by = life'
    BY <1>2 DEF Awaited, Asked
  <2>2. replies[g].by <= life /\ replies[g].by \in Nat
    BY <1>0, <2>1 DEF AwaitsInv, Answers
  <2> QED
    BY <1>2, <1>7, <2>1, <2>2
<1> QED
  BY <1>0, <1>2, <1>8, <1>10, <1>12, <1>13, <1>14, <1>18, <1>19, <1>20 DEF PageInv

-----------------------------------------------------------------------------
(* What the awaits of the page do. *)

\* The hub and the stream stay as they are.
LEMMA HubSame ==
    ASSUME PageInv, UNCHANGED <<ledgerVars, hubVars, streamVars, session, lastSeen, drops>>,
           bus' = bus \/ bus' = life, legend' \in {"absent", "off", "on"}, legend' = "on" => legend = "on"
    PROVE  /\ LogInv' /\ ConnInv' /\ WireInv' /\ SyncInv' /\ Seen' = Seen
           /\ \A c \in Ids, version \in {1, 2} : Coming(c, version) => Coming(c, version)'
<1>1. LogInv /\ ConnInv /\ WireInv /\ SyncInv
  BY DEF PageInv
<1>2. /\ UNCHANGED <<client, cast, ledger, unsent, life, agent, seq, chatLog, transcript, optedIn,
                     stream, wire, missed, session, lastSeen, drops>>
  BY DEF ledgerVars, hubVars, streamVars
<1>3. Attached' = Attached /\ Open' = Open /\ Seen' = Seen
  BY <1>2 DEF Attached, Open, Seen
<1>4. LogInv'
  BY <1>1, <1>2 DEF LogInv, HubTyped
<1>5. ConnInv'
  <2>1. /\ session \in Nat /\ session <= bus /\ bus \in Nat \ {0} /\ bus <= life /\ life \in Nat \ {0}
        /\ stream.phase # "none" => stream.bus <= bus /\ stream.bus \in Nat
    BY <1>1 DEF ConnInv, LogInv, HubTyped, Streams, NoStream
  <2>2. /\ session <= bus' /\ bus' \in Nat \ {0} /\ bus' <= life
        /\ stream.phase # "none" => stream.bus <= bus'
    BY <2>1
  <2> QED
    BY <1>1, <1>2, <2>2 DEF ConnInv
<1>6. WireInv'
  BY <1>1, <1>2, <1>3 DEF WireInv
<1>7. SyncInv'
  <2> SUFFICES ASSUME Attached, ~missed
               PROVE  (Unseen /\ Consistent /\ Complete /\ FollowedUp(wire, ledger, unsent) /\ LegendInv)'
    BY <1>2, <1>3 DEF SyncInv
  <2>1. Unseen /\ Consistent /\ Complete /\ FollowedUp(wire, ledger, unsent) /\ LegendInv
    BY <1>1 DEF SyncInv
  <2>2. (Unseen /\ Consistent /\ Complete /\ FollowedUp(wire, ledger, unsent))'
    BY <1>2, <1>3, <2>1 DEF Unseen, Consistent, Complete
  <2>3. LegendInv'
    BY <1>2, <2>1 DEF LegendInv
  <2> QED
    BY <2>2, <2>3
<1>8. \A c \in Ids, version \in {1, 2} : Coming(c, version) => Coming(c, version)'
  BY <1>2, <1>3 DEF Coming, OnWire, InLog, Gap
<1> QED
  BY <1>3, <1>4, <1>5, <1>6, <1>7, <1>8

\* What a later view has.
LEMMA LaterHas ==
    ASSUME ViewInv(view), ViewInv(view'), NEW R, NEW C, NEW version \in {0, 1, 2}, Later(view, view', R, C, version)
    PROVE  /\ \A c \in Ids, v \in {1, 2} : Has(c, v) => Has(c, v)'
           /\ \A c \in Ids, v \in {1, 2} : c \in C /\ v <= version => Has(c, v)'
           /\ \A c \in Ids : view'.cards[c] > 0 => view.cards[c] > 0 \/ c \in C
           /\ RowsOf(view) \cup view.trimmed \cup R \subseteq RowsOf(view') \cup view'.trimmed
<1>1. \A c \in Ids : view.cards[c] \in 0 .. 2 /\ view'.cards[c] \in 0 .. 2
  BY DEF ViewInv, ViewShape, Views
<1>2. \A c \in Ids : CardRow(c)' = CardRow(c)
  BY DEF CardRow
<1>3. ASSUME NEW c \in Ids, NEW v \in {1, 2}, Has(c, v) PROVE Has(c, v)'
  <2>1. CASE CardRow(c) \in view.trimmed
    BY <1>2, <2>1 DEF Has, Later
  <2>2. CASE view.cards[c] >= v
    <3>1. CardRow(c) \in view'.trimmed \/ view'.cards[c] >= view.cards[c]
      BY DEF Later
    <3>2. CardRow(c) \in view'.trimmed \/ view'.cards[c] >= v
      BY <1>1, <2>2, <3>1
    <3> QED
      BY <1>2, <3>2 DEF Has
  <2> QED
    BY <1>3, <2>1, <2>2 DEF Has
<1>4. ASSUME NEW c \in Ids, NEW v \in {1, 2}, c \in C, v <= version PROVE Has(c, v)'
  <2>1. CardRow(c) \in view'.trimmed \/ view'.cards[c] >= version
    BY <1>4 DEF Later
  <2>2. CardRow(c) \in view'.trimmed \/ view'.cards[c] >= v
    BY <1>1, <1>4, <2>1
  <2> QED
    BY <1>2, <2>2 DEF Has
<1>5. ASSUME NEW c \in Ids, view'.cards[c] > 0, c \notin C PROVE view.cards[c] > 0
  <2>1. view'.cards[c] <= view.cards[c]
    BY <1>5 DEF Later
  <2> QED
    BY <1>1, <1>5, <2>1
<1>6. RowsOf(view) \cup view.trimmed \cup R \subseteq RowsOf(view') \cup view'.trimmed
  BY DEF Later
<1> QED
  BY <1>3, <1>4, <1>5, <1>6

LEMMA ListKept ==
    ASSUME ListInv, LogInv, ConnInv, UNCHANGED <<ledger, session>>, ViewInv(view'), NEW R, NEW C, C \subseteq Ids,
           NEW version \in {0, 1, 2}, Later(view, view', R, C, version), lastSeen' \in Nat, lastSeen <= lastSeen',
           \A r \in R : r.id > 0 => r.life = session /\ r.id <= lastSeen', R \subseteq PageRows,
           \A c \in C : version <= ledger[c]
    PROVE  ListInv'
<1>1. /\ \A c \in Ids : view.cards[c] \in 0 .. 2 /\ view'.cards[c] \in 0 .. 2 /\ ledger[c] \in 0 .. 2
      /\ RowsOf(view) \subseteq PageRows
  BY DEF ListInv, ViewInv, ViewShape, Views, LogInv, HubTyped, RowsOf
<1>2. \A c \in Ids : view'.cards[c] <= ledger[c]
  <2> TAKE c \in Ids
  <2>1. view'.cards[c] <= view.cards[c] \/ (c \in C /\ view'.cards[c] <= version)
    BY DEF Later
  <2>2. view.cards[c] <= ledger[c]
    BY DEF ListInv
  <2> QED
    BY <1>1, <2>1, <2>2
<1>3. RowsSeen'
  <2> SUFFICES ASSUME NEW r \in RowsOf(view'), r.id > 0
               PROVE  r.life <= session /\ (r.life = session => r.id <= lastSeen')
    BY DEF RowsSeen
  <2>1. r \in RowsOf(view) \/ r \in R \/ r \in {CardRow(c) : c \in C}
    BY DEF Later
  <2>2. session \in Nat /\ lastSeen \in Nat
    BY DEF ConnInv
  <2>3. CASE r \in RowsOf(view)
    <3>1. r.life <= session /\ (r.life = session => r.id <= lastSeen)
      BY <2>3 DEF ListInv, RowsSeen
    <3>2. r.id \in Nat
      BY <1>1, <2>3 DEF PageRows
    <3> QED
      BY <2>2, <3>1, <3>2
  <2>4. CASE r \in R
    BY <2>2, <2>4
  <2>5. CASE r \in {CardRow(c) : c \in C}
    BY <2>5 DEF CardRow
  <2> QED
    BY <2>1, <2>3, <2>4, <2>5
<1> QED
  BY <1>2, <1>3 DEF ListInv

\* What is due stays due while the view goes on.
LEMMA ShownLater ==
    ASSUME ShownInv, ~Swapping' => ~Swapping, bus' = bus \/ bus' = life,
           UNCHANGED <<ledger, unsent, life, chatLog, missed, stream>>, Seen' = Seen,
           \A c \in Ids, version \in {1, 2} : Coming(c, version) => Coming(c, version)',
           \A c \in Ids, version \in {1, 2} : Has(c, version) => Has(c, version)',
           RowsOf(view) \cup view.trimmed \subseteq RowsOf(view') \cup view'.trimmed,
           \A c \in Ids, version \in {1, 2} :
              Sent(c, version) /\ Wanted(c, version)' => Wanted(c, version) \/ Has(c, version)'
    PROVE  ShownInv'
<1> SUFFICES ASSUME ~Swapping'
             PROVE  (/\ bus = life /\ (stream.phase # "none" => stream.bus = life)
                     /\ DueInv /\ ChatInv)'
  BY DEF ShownInv
<1>1. /\ bus = life /\ (stream.phase # "none" => stream.bus = life)
      /\ DueInv /\ ChatInv
  BY DEF ShownInv
<1>2. DueInv'
  <2> SUFFICES ASSUME NEW c \in Ids, NEW version \in {1, 2}, Sent(c, version)', Wanted(c, version)'
               PROVE  Due(c, version)'
    BY DEF DueInv
  <2>1. Sent(c, version)
    BY DEF Sent
  <2>2. Has(c, version)' \/ Due(c, version)
    BY <1>1, <2>1 DEF DueInv
  <2> QED
    BY <2>2 DEF Due
<1>3. ChatInv'
  <2> SUFFICES ASSUME NEW k \in 1 .. Len(chatLog), chatLog[k].subject \in Messages, chatLog[k].id <= Seen, ~missed
               PROVE  MessageRow(chatLog[k]) \in RowsOf(view') \cup view'.trimmed
    BY DEF ChatInv, MessageRow
  <2>1. MessageRow(chatLog[k]) \in RowsOf(view) \cup view.trimmed
    BY <1>1 DEF ChatInv
  <2> QED
    BY <2>1
<1>4. (bus = life /\ (stream.phase # "none" => stream.bus = life))'
  BY <1>1
<1> QED
  BY <1>2, <1>3, <1>4

LEMMA AskKeepsPage ==
    ASSUME PageInv, NEW f \in DOMAIN flows, Ask(f), HubTyped', RetryInv'
    PROVE  PageInv'
<1>0. /\ client = "page" /\ LogInv /\ ConnInv /\ ListInv /\ AwaitsInv /\ ShownInv /\ FreshInv /\ RetryInv
  BY DEF PageInv
<1>1. /\ UNCHANGED <<ledgerVars, hubVars, streamVars, session, lastSeen, drops, flows, view, loaded, stale, legend>>
      /\ bus' = life /\ replies[f] = None
  BY DEF Ask
<1>2. UNCHANGED <<client, cast, ledger, unsent, life, chatLog, missed, stream>>
  BY <1>1 DEF ledgerVars, hubVars, streamVars
<1>f. f \in Flows /\ DOMAIN flows = Flows
  BY <1>0 DEF RetryInv, Flows
<1>3. /\ LogInv' /\ ConnInv' /\ WireInv' /\ SyncInv' /\ Seen' = Seen
      /\ \A c \in Ids, version \in {1, 2} : Coming(c, version) => Coming(c, version)'
  <2>1. legend' \in {"absent", "off", "on"}
    BY <1>0, <1>1 DEF ConnInv
  <2> QED
    BY <1>1, <2>1, HubSame
<1>4. KindSteps' = KindSteps /\ \A g \in Flows : \A name : Step(g, name)' <=> Step(g, name)
  BY <1>1, <1>2, KindsStay DEF Step
<1>5. PICK found \in BOOLEAN \cup SUBSET Ids :
         /\ replies' = [replies EXCEPT ![f] = Reply(found)]
         /\ Step(f, "roster") \/ (\E kind \in ToSet(KindSteps) : Step(f, kind) /\ found = Pending(kind))
  <2>1. CASE Step(f, "roster") /\ replies' = [replies EXCEPT ![f] = Reply(agent # "absent")]
    BY <2>1
  <2>2. CASE \E kind \in ToSet(KindSteps) : Step(f, kind) /\ replies' = [replies EXCEPT ![f] = Reply(Pending(kind))]
    <3>1. PICK kind \in ToSet(KindSteps) : Step(f, kind) /\ replies' = [replies EXCEPT ![f] = Reply(Pending(kind))]
      BY <2>2
    <3>2. Pending(kind) \in SUBSET Ids
      BY KindIds DEF Pending
    <3> QED
      BY <3>1, <3>2
  <2> QED
    BY <2>1, <2>2 DEF Ask
<1>6. /\ replies' \in [Flows -> Answers] /\ replies'[f].by = life /\ replies'[f].found = found
      /\ \A g \in Flows : g # f => replies'[g] = replies[g]
  <2>1. life \in Nat
    BY <1>0 DEF LogInv, HubTyped
  <2>2. Reply(found) \in Answers /\ Reply(found).by = life /\ Reply(found).found = found
    BY <2>1 DEF Reply, Answers
  <2> QED
    BY <1>0, <1>5, <1>f, <2>2 DEF AwaitsInv
<1>7. ASSUME NEW kind \in ToSet(KindSteps), Step(f, kind) PROVE found = Pending(kind)
  <2>1. ~Step(f, "roster")
    BY <1>7, KindIds DEF Step
  <2>2. PICK k \in ToSet(KindSteps) : Step(f, k) /\ found = Pending(k)
    BY <1>5, <2>1
  <2>3. k = kind
    BY <1>7, <2>2 DEF Step
  <2> QED
    BY <2>2, <2>3
<1>8. \A kind \in ToSet(KindSteps) : Pending(kind) \in SUBSET {c \in OfKind(kind) : ledger[c] > 0}
  BY DEF Pending
<1>9. AwaitsInv'
  <2>1. ASSUME NEW g \in Flows, replies'[g] # None
        PROVE  /\ replies'[g].by <= life'
               /\ Step(g, "roster")' \/ (\E kind \in ToSet(KindSteps)' : Step(g, kind)' /\ Names(g, kind, ledger)')
    <3>1. CASE g = f
      <4>1. replies'[g].by <= life'
        BY <1>0, <1>2, <1>6, <3>1 DEF LogInv, HubTyped
      <4>2. CASE Step(f, "roster")
        BY <1>4, <1>f, <3>1, <4>1, <4>2
      <4>3. CASE ~Step(f, "roster")
        <5>1. PICK kind \in ToSet(KindSteps) : Step(f, kind) /\ found = Pending(kind)
          BY <1>5, <4>3
        <5>2. replies'[g].found \in SUBSET {c \in OfKind(kind) : ledger'[c] > 0}
          BY <1>2, <1>6, <1>8, <3>1, <5>1
        <5>3. Names(g, kind, ledger)'
          BY <5>2 DEF Names, OfKind
        <5> QED
          BY <1>4, <1>f, <3>1, <4>1, <5>1, <5>3
      <4> QED
        BY <4>2, <4>3
    <3>2. CASE g # f
      <4>1. replies'[g] = replies[g] /\ replies[g] # None
        BY <1>6, <2>1, <3>2
      <4>2. \A kind \in ToSet(KindSteps) : Names(g, kind, ledger) => Names(g, kind, ledger)'
        BY <1>2, <4>1 DEF Names, OfKind
      <4> QED
        BY <1>0, <1>2, <1>4, <4>1, <4>2 DEF AwaitsInv
    <3> QED
      BY <3>1, <3>2
  <2>2. NoticeRow' = NoticeRow
    BY DEF NoticeRow
  <2> QED
    BY <1>0, <1>1, <1>4, <1>6, <2>1, <2>2 DEF AwaitsInv, Swapping, Announces, Step
<1>10. ListInv'
  <2>1. RowsSeen'
    BY <1>0, <1>1 DEF ListInv, RowsSeen
  <2> QED
    BY <1>0, <1>1, <1>2, <2>1 DEF ListInv
<1>11. ASSUME NEW c \in Ids, NEW version \in {1, 2}, Sent(c, version), Awaited(c, version)'
       PROVE  Awaited(c, version)
  <2>1. PICK g \in Flows, kind \in ToSet(KindSteps) :
           /\ Asked(g, kind)'
           /\ \/ version = 2 /\ c \in replies'[g].found
              \/ version = 1 /\ c \in OfKind(kind) /\ c \notin replies'[g].found
    BY <1>4, <1>11 DEF Awaited, OfKind
  <2>2. CASE g = f
    <3>1. Step(f, kind)
      BY <1>4, <2>1, <2>2 DEF Asked
    <3>2. replies'[g].found = Pending(kind)
      BY <1>6, <1>7, <2>2, <3>1
    <3> QED
      BY <1>11, <2>1, <3>2 DEF Sent, Pending
  <2>3. CASE g # f
    <3>1. Asked(g, kind) /\ replies'[g] = replies[g]
      BY <1>2, <1>4, <1>6, <2>1, <2>3 DEF Asked
    <3> QED
      BY <2>1, <3>1 DEF Awaited
  <2> QED
    BY <2>2, <2>3
<1>13. FreshInv'
  BY <1>0, <1>1, <1>2, <1>11, FreshKept DEF Logged, hubVars
<1>12. ShownInv'
  <2>1. \A c \in Ids, version \in {1, 2} : Has(c, version) => Has(c, version)'
    BY <1>1 DEF Has, CardRow
  <2>2. ~Swapping' => ~Swapping
    BY <1>4 DEF Swapping, Flows
  <2>3. RowsOf(view) \cup view.trimmed \subseteq RowsOf(view') \cup view'.trimmed
    BY <1>1
  <2>4. \A c \in Ids, version \in {1, 2} : Sent(c, version) /\ Wanted(c, version)' => Wanted(c, version)
    BY <1>1, <1>2, <1>11 DEF Wanted, OfKind
  <2> QED
    BY <1>0, <1>1, <1>2, <1>3, <2>1, <2>2, <2>3, <2>4, ShownLater
<1> QED
  BY <1>0, <1>2, <1>3, <1>9, <1>10, <1>12, <1>13 DEF PageInv

LEMMA AskInVainKeepsPage ==
    ASSUME PageInv, NEW f \in DOMAIN flows, AskInVain(f), HubTyped', RetryInv'
    PROVE  PageInv'
<1>0. /\ client = "page" /\ LogInv /\ ConnInv /\ ListInv /\ AwaitsInv /\ ShownInv /\ FreshInv /\ RetryInv
  BY DEF PageInv
<1>1. /\ UNCHANGED <<ledgerVars, hubVars, streamVars, session, lastSeen, drops, replies, view, loaded, stale>>
      /\ bus' = life /\ replies[f] = None /\ StepDone(f)
      /\ legend' = (IF Step(f, "roster") THEN "absent" ELSE legend)
      /\ \E name \in {"roster"} \cup ToSet(KindSteps) : Step(f, name)
  BY DEF AskInVain
<1>2. UNCHANGED <<client, cast, ledger, unsent, life, chatLog, missed, stream>>
  BY <1>1 DEF ledgerVars, hubVars, streamVars
<1>f. f \in Flows
  BY <1>0 DEF RetryInv, Flows
<1>3. /\ LogInv' /\ ConnInv' /\ WireInv' /\ SyncInv' /\ Seen' = Seen
      /\ \A c \in Ids, version \in {1, 2} : Coming(c, version) => Coming(c, version)'
  <2>1. legend' \in {"absent", "off", "on"} /\ (legend' = "on" => legend = "on")
    BY <1>0, <1>1 DEF ConnInv
  <2> QED
    BY <1>1, <2>1, HubSame
<1>4. flows[f] # <<>> /\ Head(flows[f]) \notin {"swap", "notice"}
  BY <1>1, KindIds DEF Step
<1>5. /\ AwaitsInv' /\ (~Swapping' => ~Swapping)
      /\ \A g \in Flows, kind \in ToSet(KindSteps) :
            Asked(g, kind)' => g # f /\ Asked(g, kind) /\ replies'[g] = replies[g]
  <2>1. /\ replies' \in [Flows -> Answers] /\ replies'[f] = None
        /\ \A g \in Flows : g # f => replies'[g] = replies[g]
        /\ loaded' \subseteq ToSet(KindSteps)
    BY <1>0, <1>1 DEF AwaitsInv
  <2> QED
    BY <1>0, <1>1, <1>2, <1>4, <1>f, <2>1, AwaitDone
<1>6. ListInv'
  <2>1. RowsSeen'
    BY <1>0, <1>1 DEF ListInv, RowsSeen
  <2> QED
    BY <1>0, <1>1, <1>2, <2>1 DEF ListInv
<1>7. ShownInv'
  <2>1. \A c \in Ids, version \in {1, 2} : Wanted(c, version)' => Wanted(c, version)
    BY <1>1, <1>2, <1>5, WantedDone
  <2>2. \A c \in Ids, version \in {1, 2} : Has(c, version) => Has(c, version)'
    BY <1>1 DEF Has, CardRow
  <2>3. RowsOf(view) \cup view.trimmed \subseteq RowsOf(view') \cup view'.trimmed
    BY <1>1
  <2> QED
    BY <1>0, <1>1, <1>2, <1>3, <1>5, <2>1, <2>2, <2>3, ShownLater
<1>8. FreshInv'
  <2>1. \A c \in Ids, version \in {1, 2} : Awaited(c, version)' => Awaited(c, version)
    BY <1>2, <1>5, AwaitedDone
  <2> QED
    BY <1>0, <1>1, <1>2, <2>1, FreshKept DEF Logged, hubVars
<1> QED
  BY <1>0, <1>2, <1>3, <1>5, <1>6, <1>7, <1>8 DEF PageInv

\* A card that an answer brings: of the hub that runs, or counted as stale.
Answered(f, c) ==
    \/ \E kind \in ToSet(KindSteps) : Asked(f, kind) /\ c \in replies[f].found
    \/ view.cards[c] = 0 => c \in stale'

LEMMA AnswerKeepsPage ==
    ASSUME PageInv, NEW f \in DOMAIN flows, Answer(f), HubTyped', RetryInv'
    PROVE  PageInv'
<1>0. /\ client = "page" /\ LogInv /\ ConnInv /\ ListInv /\ AwaitsInv /\ ShownInv /\ FreshInv /\ RetryInv
  BY DEF PageInv
<1>1. /\ UNCHANGED <<ledgerVars, hubVars, streamVars, session, lastSeen, bus, drops>>
      /\ replies[f] # None /\ StepDone(f) /\ replies' = [replies EXCEPT ![f] = None]
  BY DEF Answer
<1>2. UNCHANGED <<client, cast, ledger, unsent, life, chatLog, missed, stream>>
  BY <1>1 DEF ledgerVars, hubVars, streamVars
<1>f. f \in Flows
  BY <1>0 DEF RetryInv, Flows
<1>k. KindSteps' = KindSteps
  BY <1>2, KindsStay
<1>3. PICK C \in SUBSET Ids, kinds \in SUBSET ToSet(KindSteps) :
         /\ ViewInv(view') /\ Later(view, view', {}, C, 1) /\ loaded' = loaded \cup kinds
         /\ legend' \in {"absent", "off", legend}
         /\ stale \subseteq stale' /\ \A c \in C : ledger[c] > 0 /\ Answered(f, c)
         /\ \A kind \in kinds : Asked(f, kind) /\ C = replies[f].found
         /\ flows[f] # <<>> /\ Head(flows[f]) \notin {"swap", "notice"}
  <2>1. CASE Step(f, "roster") /\ legend' = (IF replies[f].found THEN "off" ELSE "absent") /\ UNCHANGED <<view, loaded, stale>>
    <3>1. ViewInv(view) /\ view \in Views
      BY <1>0 DEF ListInv, ViewInv, ViewShape
    <3>2. \A c \in {} : c \in Ids => view.cards[c] >= 1
      OBVIOUS
    <3>3. Later(view, view, {}, {}, 1)
      BY <3>1, <3>2, LaterItself
    <3>4. legend' \in {"absent", "off", legend}
      BY <2>1
    <3>5. flows[f] # <<>> /\ Head(flows[f]) \notin {"swap", "notice"}
      BY <2>1 DEF Step
    <3>6. loaded' = loaded \cup {} /\ view' = view /\ stale' = stale
      BY <2>1
    <3> DEFINE C == {}
               kinds == {}
    <3>7. /\ ViewInv(view') /\ Later(view, view', {}, C, 1) /\ loaded' = loaded \cup kinds
          /\ stale \subseteq stale' /\ \A c \in C : ledger[c] > 0 /\ Answered(f, c)
          /\ \A k \in kinds : Asked(f, k) /\ C = replies[f].found
      BY <3>1, <3>3, <3>6
    <3>8. C \in SUBSET Ids /\ kinds \in SUBSET ToSet(KindSteps)
      OBVIOUS
    <3> HIDE DEF C, kinds
    <3> QED
      BY <3>4, <3>5, <3>7, <3>8
  <2> DEFINE found == replies[f].found
             new == {c \in found : view.cards[c] = 0}
  <2>2. CASE \E kind \in ToSet(KindSteps) :
             /\ Step(f, kind)
             /\ view' = FoldLeft(LAMBDA v, c : WithEvent(v, c, 1), view, SetToSeq(found))
             /\ \/ replies[f].by = life /\ loaded' = loaded \cup {kind} /\ stale' = stale
                \/ replies[f].by # life /\ stale' = stale \cup new /\ loaded' = loaded
             /\ UNCHANGED legend
    <3>1. PICK kind \in ToSet(KindSteps) :
             /\ Step(f, kind)
             /\ view' = FoldLeft(LAMBDA v, c : WithEvent(v, c, 1), view, SetToSeq(found))
             /\ \/ replies[f].by = life /\ loaded' = loaded \cup {kind} /\ stale' = stale
                \/ replies[f].by # life /\ stale' = stale \cup new /\ loaded' = loaded
             /\ UNCHANGED legend
      BY <2>2
    <3>2. found \in SUBSET {c \in OfKind(kind) : ledger[c] > 0}
      <4>1. ~Step(f, "roster")
        BY <3>1, KindIds DEF Step
      <4>2. PICK k \in ToSet(KindSteps) : Step(f, k) /\ Names(f, k, ledger)
        BY <1>0, <1>1, <1>f, <4>1 DEF AwaitsInv
      <4>3. k = kind
        BY <3>1, <4>2 DEF Step
      <4> QED
        BY <4>2, <4>3 DEF Names
    <3>3. found \in SUBSET Ids
      BY <3>2, KindIds
    <3> HIDE DEF found
    <3>4. ViewInv(view') /\ Later(view, view', {}, found, 1)
      <4>1. ViewInv(view)
        BY <1>0 DEF ListInv
      <4> QED
        BY <3>1, <3>3, <4>1, LoadedLater
    <3>5. flows[f] # <<>> /\ Head(flows[f]) \notin {"swap", "notice"}
      BY <3>1, KindIds DEF Step
    <3> DEFINE kinds == IF replies[f].by = life THEN {kind} ELSE {}
    <3>6. loaded' = loaded \cup kinds /\ stale \subseteq stale' /\ kinds \in SUBSET ToSet(KindSteps)
      BY <3>1
    <3>7. \A k \in kinds : Asked(f, k) /\ found = replies[f].found
      BY <1>1, <3>1 DEF Asked, found
    <3>8. ASSUME NEW c \in found PROVE ledger[c] > 0 /\ Answered(f, c)
      <4>1. CASE replies[f].by = life
        <5>1. Asked(f, kind)
          BY <1>1, <3>1, <4>1 DEF Asked
        <5> QED
          BY <3>2, <5>1 DEF Answered, found
      <4>2. CASE replies[f].by # life
        BY <3>1, <3>2, <4>2 DEF Answered
      <4> QED
        BY <4>1, <4>2
    <3>9. legend' \in {"absent", "off", legend}
      BY <3>1
    <3> HIDE DEF kinds, new
    <3> QED
      BY <3>3, <3>4, <3>5, <3>6, <3>7, <3>8, <3>9
  <2>3. \/ Step(f, "roster") /\ legend' = (IF replies[f].found THEN "off" ELSE "absent") /\ UNCHANGED <<view, loaded, stale>>
        \/ \E kind \in ToSet(KindSteps) :
             /\ Step(f, kind)
             /\ view' = FoldLeft(LAMBDA v, c : WithEvent(v, c, 1), view, SetToSeq(found))
             /\ \/ replies[f].by = life /\ loaded' = loaded \cup {kind} /\ stale' = stale
                \/ replies[f].by # life /\ stale' = stale \cup new /\ loaded' = loaded
             /\ UNCHANGED legend
    BY Zenon DEF Answer
  <2> QED
    BY <2>1, <2>2, <2>3
<1>4. /\ LogInv' /\ ConnInv' /\ WireInv' /\ SyncInv' /\ Seen' = Seen
      /\ \A c \in Ids, version \in {1, 2} : Coming(c, version) => Coming(c, version)'
  <2>1. legend' \in {"absent", "off", "on"} /\ (legend' = "on" => legend = "on")
    BY <1>0, <1>3 DEF ConnInv
  <2> QED
    BY <1>1, <2>1, HubSame
<1>5. /\ \A c \in Ids, v \in {1, 2} : Has(c, v) => Has(c, v)'
      /\ \A c \in C : Has(c, 1)'
      /\ \A c \in Ids : view'.cards[c] > 0 => view.cards[c] > 0 \/ c \in C
      /\ RowsOf(view) \cup view.trimmed \subseteq RowsOf(view') \cup view'.trimmed
  <2>1. ViewInv(view)
    BY <1>0 DEF ListInv
  <2>2. 1 \in {0, 1, 2} /\ 1 \in {1, 2} /\ 1 <= 1
    OBVIOUS
  <2> QED
    BY <1>3, <2>1, <2>2, LaterHas
<1>6. /\ AwaitsInv' /\ (~Swapping' => ~Swapping)
      /\ \A g \in Flows, kind \in ToSet(KindSteps) :
            Asked(g, kind)' => g # f /\ Asked(g, kind) /\ replies'[g] = replies[g]
  <2>1. /\ replies' \in [Flows -> Answers] /\ replies'[f] = None
        /\ \A g \in Flows : g # f => replies'[g] = replies[g]
        /\ loaded' \subseteq ToSet(KindSteps)
    BY <1>0, <1>1, <1>3, <1>f DEF AwaitsInv, Answers
  <2>2. NoticeRow \in RowsOf(view') => NoticeRow \in RowsOf(view)
    BY <1>3, RowKinds DEF Later
  <2> QED
    BY <1>0, <1>1, <1>2, <1>3, <1>f, <2>1, <2>2, AwaitDone
<1>7. ListInv'
  <2>1. lastSeen \in Nat /\ lastSeen <= lastSeen /\ lastSeen' = lastSeen
    BY <1>0, <1>1 DEF ConnInv
  <2>2. \A c \in C : 1 <= ledger[c]
    <3>1. \A c \in Ids : ledger[c] \in 0 .. 2
      BY <1>0 DEF LogInv, HubTyped
    <3> QED
      BY <1>3, <3>1
  <2> QED
    BY <1>0, <1>1, <1>2, <1>3, <2>1, <2>2, ListKept
<1>a. \A c \in Ids, version \in {1, 2} : Awaited(c, version)' => Awaited(c, version)
  BY <1>2, <1>6, AwaitedDone
<1>8. ASSUME NEW c \in Ids, NEW version \in {1, 2}, Wanted(c, version)'
      PROVE  Wanted(c, version) \/ Has(c, version)'
  <2>1. CASE Awaited(c, version)'
    BY <1>a, <2>1 DEF Wanted
  <2>2. CASE version = 1 /\ \E kind \in loaded' : c \in OfKind(kind)
    <3>1. PICK kind \in loaded' : c \in OfKind(kind)
      BY <2>2
    <3>2. CASE kind \in kinds
      <4>1. Asked(f, kind) /\ C = replies[f].found /\ kind \in ToSet(KindSteps)
        BY <1>3, <3>2
      <4>2. CASE c \in C
        BY <1>5, <2>2, <4>2
      <4>3. CASE c \notin C
        <5>1. Awaited(c, 1)
          BY <1>f, <3>1, <4>1, <4>3 DEF Awaited
        <5> QED
          BY <2>2, <5>1 DEF Wanted
      <4> QED
        BY <4>2, <4>3
    <3>3. CASE kind \notin kinds
      BY <1>3, <2>2, <3>1, <3>3 DEF Wanted
    <3> QED
      BY <3>2, <3>3
  <2>3. CASE version = 2 /\ view'.cards[c] > 0 /\ c \notin stale'
    <3>1. c \notin stale /\ (view.cards[c] > 0 \/ c \in C)
      BY <1>3, <1>5, <2>3
    <3>2. CASE view.cards[c] > 0
      BY <2>3, <3>1, <3>2 DEF Wanted
    <3>3. CASE c \in C /\ ~(view.cards[c] > 0)
      <4>1. view.cards[c] = 0
        BY <1>0, <3>3 DEF ListInv, ViewInv, ViewShape, Views
      <4>2. \E kind \in ToSet(KindSteps) : Asked(f, kind) /\ c \in replies[f].found
        BY <1>3, <2>3, <3>3, <4>1 DEF Answered
      <4>3. Awaited(c, 2)
        BY <1>f, <4>2 DEF Awaited
      <4> QED
        BY <2>3, <4>3 DEF Wanted
    <3> QED
      BY <3>1, <3>2, <3>3
  <2>4. \/ Awaited(c, version)'
        \/ version = 1 /\ \E kind \in loaded' : c \in OfKind(kind)
        \/ version = 2 /\ view'.cards[c] > 0 /\ c \notin stale'
    BY <1>8 DEF Wanted, OfKind
  <2> QED
    BY <2>1, <2>2, <2>3, <2>4
<1>9. ShownInv'
  <2>1. bus' = bus
    BY <1>1
  <2> QED
    BY <1>0, <1>2, <1>4, <1>5, <1>6, <1>8, <2>1, ShownLater
<1>10. FreshInv'
  BY <1>0, <1>1, <1>2, <1>a, FreshKept DEF Logged, hubVars
<1> QED
  BY <1>0, <1>2, <1>4, <1>6, <1>7, <1>9, <1>10 DEF PageInv

\* A view of nothing.
LEMMA EmptyViewShape == ViewInv(EmptyView) /\ RowsOf(EmptyView) = {}
<1>1. /\ EmptyView \in Views /\ EmptyView.list = <<>> /\ EmptyView.held = {}
      /\ \A c \in Ids : EmptyView.cards[c] = 0
  BY DEF EmptyView, Views
<1>2. Len(<<>>) = 0 /\ \A i \in 1 .. Len(<<>>) : FALSE
  OBVIOUS
<1>3. RowsOf(EmptyView) = {}
  BY <1>1, <1>2 DEF RowsOf
<1>4. CardsOf(EmptyView) = {}
  BY <1>1 DEF CardsOf
<1>5. Distinct(<<>>) /\ ChatInOrder(<<>>)
  BY <1>2 DEF Distinct, ChatInOrder
<1>6. Cardinality({}) = 0 /\ Cardinality(PermissionIds) \in Nat /\ DomLimit \in Nat
  BY HeldFew, FS_EmptySet, PageAssumption
<1> QED
  BY <1>1, <1>2, <1>3, <1>4, <1>5, <1>6 DEF ViewInv, ViewShape

\* The answer to the click: the page starts anew.
LEMMA SwapKeepsPage ==
    ASSUME PageInv, Swap, HubTyped', RetryInv'
    PROVE  PageInv'
<1>0. /\ client = "page" /\ LogInv /\ ConnInv /\ ListInv /\ AwaitsInv /\ FreshInv /\ RetryInv
  BY DEF PageInv
<1>1. /\ UNCHANGED <<client, cast, ledger, unsent, life, agent, seq, chatLog, transcript, optedIn,
                     session, drops, replies, legend>>
      /\ stale' = {} /\ Step("reload", "swap") /\ StepDone("reload") /\ Connect(life, 0) /\ bus' = life
      /\ lastSeen' = 0 /\ view' = EmptyView /\ loaded' = {} /\ missed' = FALSE
  BY DEF Swap, ledgerVars, hubVars
<1>2. session \in Nat /\ session <= bus /\ bus <= life /\ life \in Nat \ {0} /\ bus \in Nat /\ seq \in Nat
  BY <1>0 DEF ConnInv, LogInv, HubTyped
<1>3. /\ stream' \in Streams /\ stream'.phase = "opening" /\ stream'.bus = life
      /\ stream'.session = session /\ stream'.lastId = 0 /\ wire' = <<>>
  BY <1>1, <1>2, OpeningTyped
<1>4. LogInv'
  BY <1>0, <1>1 DEF LogInv
<1>5. ConnInv'
  <2>1. session <= life /\ 0 <= seq
    BY <1>2
  <2> QED
    BY <1>0, <1>1, <1>2, <1>3, <2>1 DEF ConnInv
<1>6. ~Open' /\ ~Attached' /\ Seen' = 0
  BY <1>1, <1>3 DEF Open, Attached, Seen
<1>7. WireInv'
  <2>1. <<>> \in Seq(PageFrames) /\ \A i \in 1 .. Len(<<>>) : FALSE
    OBVIOUS
  <2> QED
    BY <1>3, <1>6, <2>1 DEF WireInv, Truthful
<1>8. SyncInv'
  BY <1>6 DEF SyncInv
<1>9. ViewInv(EmptyView) /\ RowsOf(EmptyView) = {}
  BY EmptyViewShape
<1>10. ListInv'
  <2>1. \A c \in Ids : EmptyView.cards[c] <= ledger[c]
    <3>1. \A c \in Ids : EmptyView.cards[c] = 0
      BY DEF EmptyView
    <3>2. \A c \in Ids : ledger[c] \in 0 .. 2
      BY <1>0 DEF LogInv, HubTyped
    <3> QED
      BY <3>1, <3>2
  <2>2. RowsSeen'
    BY <1>1, <1>9 DEF RowsSeen
  <2> QED
    BY <1>1, <1>9, <2>1, <2>2 DEF ListInv
<1>11. flows["reload"] # <<>> /\ Head(flows["reload"]) = "swap" /\ flows' = [flows EXCEPT !["reload"] = Tail(@)]
  BY <1>1 DEF Step, StepDone
<1>12. replies["reload"] = None
  <2>1. \A kind \in ToSet(KindSteps) : ~Step("reload", kind)
    BY <1>11, KindIds DEF Step
  <2>2. ~Step("reload", "roster")
    BY <1>11 DEF Step
  <2> QED
    BY <1>0, <2>1, <2>2 DEF AwaitsInv, Flows
<1>13. /\ AwaitsInv'
       /\ \A g \in Flows, kind \in ToSet(KindSteps) :
             Asked(g, kind)' => g # "reload" /\ Asked(g, kind) /\ replies'[g] = replies[g]
  <2> DEFINE steps == flows["reload"]
             rest == Tail(steps)
  <2>1. steps \in Seq(StepNames) /\ flows \in [Flows -> Seq(StepNames)]
    BY <1>0 DEF RetryInv, Flows
  <2>2. /\ Len(steps) \in Nat \ {0} /\ Len(rest) = Len(steps) - 1
        /\ \A i \in 1 .. Len(rest) : rest[i] = steps[i + 1] /\ i + 1 \in 1 .. Len(steps)
    BY <1>11, <2>1, TailFacts
  <2>3. flows'["reload"] = rest /\ flows'["boot"] = flows["boot"]
    BY <1>11, <2>1 DEF Flows
  <2> HIDE DEF rest
  <2>4. ASSUME NEW i \in 1 .. Len(rest), rest[i] = "notice" PROVE i = Len(rest)
    <3> DEFINE j == i + 1
    <3>1. j \in 1 .. Len(steps) /\ steps[j] = "notice"
      BY <2>2, <2>4
    <3> HIDE DEF j
    <3>2. j = Len(steps)
      BY <1>0, <3>1 DEF AwaitsInv
    <3> QED
      BY <2>2, <3>2 DEF j
  <2>5. KindSteps' = KindSteps
    BY <1>1, KindsStay
  <2>6. ASSUME NEW g \in Flows, replies[g] # None
        PROVE  /\ g # "reload" /\ (\A name : Step(g, name)' <=> Step(g, name))
               /\ replies[g].by <= life
               /\ Step(g, "roster")' \/ (\E kind \in ToSet(KindSteps) : Step(g, kind)' /\ Names(g, kind, ledger)')
    <3>1. g # "reload" /\ g = "boot"
      BY <1>12, <2>6 DEF Flows
    <3>2. \A name : Step(g, name)' <=> Step(g, name)
      BY <2>3, <3>1 DEF Step
    <3>3. \A kind : Names(g, kind, ledger)' <=> Names(g, kind, ledger)
      BY <1>1 DEF Names, OfKind
    <3> QED
      BY <1>0, <2>6, <3>1, <3>2, <3>3 DEF AwaitsInv
  <2>7. AwaitsInv'
    <3>1. NoticeRow \notin RowsOf(view')
      BY <1>1, <1>9
    <3>2. (NoticeRow \notin RowsOf(view))'
      BY <3>1 DEF NoticeRow, RowsOf
    <3> QED
      BY <1>0, <1>1, <2>3, <2>4, <2>5, <2>6, <3>2 DEF AwaitsInv
  <2>8. ASSUME NEW g \in Flows, NEW kind \in ToSet(KindSteps), Asked(g, kind)'
        PROVE  g # "reload" /\ Asked(g, kind) /\ replies'[g] = replies[g]
    BY <1>1, <2>6, <2>8 DEF Asked
  <2> QED
    BY <2>7, <2>8
<1>15. \A c \in Ids, version \in {1, 2} : Awaited(c, version)' => Awaited(c, version)
  BY <1>1, <1>13, AwaitedDone
<1>16. FreshInv'
  BY <1>0, <1>1, <1>15, FreshKept DEF Logged
<1>14. ShownInv'
  <2>1. DueInv'
    <3> SUFFICES ASSUME NEW c \in Ids, NEW version \in {1, 2}, Sent(c, version)', Wanted(c, version)'
                 PROVE  Coming(c, version)'
      BY DEF DueInv, Due
    <3>1. view'.cards[c] = 0
      BY <1>1 DEF EmptyView
    <3>2. Awaited(c, version)'
      BY <1>1, <3>1 DEF Wanted
    <3>3. Logged(c, version)'
      BY <1>16, <3>2 DEF FreshInv
    <3>4. CASE \E k \in 1 .. Len(chatLog) : Bears(chatLog[k], c, version)
      <4>1. PICK k \in 1 .. Len(chatLog) : Bears(chatLog[k], c, version)
        BY <3>4
      <4>2. chatLog[k].id > 0
        BY <1>0, <4>1 DEF LogInv, LogEntries
      <4>3. InLog(c, version)'
        BY <1>1, <1>6, <4>1, <4>2 DEF InLog, Bears, IsEntry
      <4> QED
        BY <1>6, <4>3 DEF Coming
    <3>5. CASE seq > Len(chatLog)
      <4>1. seq - Len(chatLog) > 0
        BY <1>0, <3>5 DEF LogInv, HubTyped
      <4>2. Gap'
        BY <1>1, <1>6, <4>1 DEF Gap
      <4> QED
        BY <1>6, <4>2 DEF Coming
    <3> QED
      BY <1>1, <3>3, <3>4, <3>5 DEF Logged, Bears, IsEntry
  <2>2. ChatInv'
    <3>1. \A k \in 1 .. Len(chatLog) : ~(chatLog[k].id <= 0)
      <4> TAKE k \in 1 .. Len(chatLog)
      <4>1. chatLog[k] \in LogEntries
        BY <1>0 DEF LogInv
      <4> QED
        BY <4>1 DEF LogEntries
    <3> QED
      BY <1>1, <1>6, <3>1 DEF ChatInv
  <2> QED
    BY <1>1, <1>3, <2>1, <2>2 DEF ShownInv
<1> QED
  BY <1>0, <1>1, <1>4, <1>5, <1>7, <1>8, <1>10, <1>13, <1>14, <1>16 DEF PageInv

\* The end of the click: the page tells itself.
LEMMA NoticeKeepsPage ==
    ASSUME PageInv, Notice, HubTyped', RetryInv'
    PROVE  PageInv'
<1>0. /\ client = "page" /\ LogInv /\ ConnInv /\ ListInv /\ AwaitsInv /\ ShownInv /\ FreshInv /\ RetryInv
  BY DEF PageInv
<1>1. /\ UNCHANGED <<ledgerVars, hubVars, streamVars, session, lastSeen, bus, drops, replies, loaded, stale, legend>>
      /\ Step("reload", "notice") /\ StepDone("reload") /\ view' = WithNotice(view)
  BY DEF Notice
<1>2. UNCHANGED <<client, cast, ledger, unsent, life, chatLog, missed, stream>>
  BY <1>1 DEF ledgerVars, hubVars, streamVars
<1>3. /\ LogInv' /\ ConnInv' /\ WireInv' /\ SyncInv' /\ Seen' = Seen
      /\ \A c \in Ids, version \in {1, 2} : Coming(c, version) => Coming(c, version)'
  <2>1. legend' \in {"absent", "off", "on"} /\ (legend' = "on" => legend = "on")
    BY <1>0, <1>1 DEF ConnInv
  <2> QED
    BY <1>1, <2>1, HubSame
<1>4. flows["reload"] # <<>> /\ Head(flows["reload"]) = "notice"
  BY <1>1 DEF Step
<1>5. NoticeRow \notin RowsOf(view)
  <2>1. flows["reload"] \in Seq(StepNames)
    BY <1>0 DEF RetryInv
  <2>2. 1 \in 1 .. Len(flows["reload"]) /\ flows["reload"][1] = "notice"
    BY <1>4, <2>1, TailFacts
  <2>3. Announces /\ ~Swapping
    BY <1>1, <2>2 DEF Announces, Swapping, Step
  <2> QED
    BY <1>0, <2>3 DEF AwaitsInv
<1>6. ViewInv(view') /\ Later(view, view', {NoticeRow}, {}, 0)
  <2>1. ViewInv(view) /\ NoticeRow \in PageRows /\ NoticeRow.id = 0
    BY <1>0, RowKinds DEF ListInv
  <2>2. \A c \in Ids : CardRow(c) # NoticeRow
    BY RowKinds
  <2>3. \A x \in RowsOf(view) : ~(NoticeRow.id > 0)
    BY <2>1
  <2>4. view' = Trimmed([view EXCEPT !.list = Append(@, NoticeRow)])
    BY <1>1 DEF WithNotice
  <2> QED
    BY <1>5, <2>1, <2>2, <2>3, <2>4, RowLater
<1>7. /\ \A c \in Ids, v \in {1, 2} : Has(c, v) => Has(c, v)'
      /\ \A c \in Ids : view'.cards[c] > 0 => view.cards[c] > 0
      /\ RowsOf(view) \cup view.trimmed \subseteq RowsOf(view') \cup view'.trimmed
  <2>1. ViewInv(view) /\ 0 \in {0, 1, 2}
    BY <1>0 DEF ListInv
  <2> QED
    BY <1>6, <2>1, LaterHas
<1>8. /\ AwaitsInv' /\ (~Swapping' => ~Swapping)
      /\ \A g \in Flows, kind \in ToSet(KindSteps) :
            Asked(g, kind)' => g # "reload" /\ Asked(g, kind) /\ replies'[g] = replies[g]
  <2>1. replies["reload"] = None
    <3>1. \A kind \in ToSet(KindSteps) : ~Step("reload", kind)
      BY <1>4, KindIds DEF Step
    <3>2. ~Step("reload", "roster")
      BY <1>4 DEF Step
    <3> QED
      BY <1>0, <3>1, <3>2 DEF AwaitsInv, Flows
  <2>2. /\ replies' \in [Flows -> Answers] /\ replies'["reload"] = None
        /\ \A g \in Flows : g # "reload" => replies'[g] = replies[g]
        /\ loaded' \subseteq ToSet(KindSteps) /\ "reload" \in Flows
    BY <1>0, <1>1, <2>1 DEF AwaitsInv, Flows
  <2> QED
    BY <1>0, <1>1, <1>2, <1>4, <2>2, AwaitDone
<1>9. ListInv'
  <2>1. lastSeen \in Nat /\ lastSeen <= lastSeen /\ lastSeen' = lastSeen
    BY <1>0, <1>1 DEF ConnInv
  <2>2. /\ \A r \in {NoticeRow} : r.id > 0 => r.life = session /\ r.id <= lastSeen'
        /\ {NoticeRow} \subseteq PageRows
    BY RowKinds
  <2>3. \A c \in {} : 0 <= ledger[c]
    OBVIOUS
  <2> QED
    BY <1>0, <1>1, <1>2, <1>6, <2>1, <2>2, <2>3, ListKept
<1>10. ShownInv'
  <2>1. \A c \in Ids, version \in {1, 2} : Wanted(c, version)' => Wanted(c, version)
    BY <1>1, <1>2, <1>7, <1>8, WantedDone
  <2> QED
    BY <1>0, <1>1, <1>2, <1>3, <1>7, <1>8, <2>1, ShownLater
<1>11. FreshInv'
  <2>1. \A c \in Ids, version \in {1, 2} : Awaited(c, version)' => Awaited(c, version)
    BY <1>2, <1>8, AwaitedDone
  <2> QED
    BY <1>0, <1>1, <1>2, <2>1, FreshKept DEF Logged, hubVars
<1> QED
  BY <1>0, <1>2, <1>3, <1>8, <1>9, <1>10, <1>11 DEF PageInv

-----------------------------------------------------------------------------
(* The page handles a frame. *)

\* An entry that was not seen yet.
Fresh(frame) == IsEntry(frame) /\ frame.id > lastSeen

\* What a frame does to the view: nothing, or a card, or a row.
LEMMA FrameShown ==
    ASSUME LogInv, ConnInv, ListInv, NEW frame \in PageFrames, HandleAmbient(frame) \/ HandleEntry(frame)
    PROVE  \E R \in SUBSET PageRows, C \in SUBSET Ids, version \in {0, 1, 2} :
              /\ ViewInv(view') /\ Later(view, view', R, C, version)
              /\ \A r \in R : r.id > 0 /\ r.life = session /\ r.id <= lastSeen'
              /\ \A c \in C : Bears(frame, c, version)
              /\ Fresh(frame) => \A c \in Ids, v \in {1, 2} : Bears(frame, c, v) => c \in C /\ v = version
              /\ Fresh(frame) /\ frame.subject \in Messages => ChatRow(frame.subject, frame.id) \in R
              /\ ~Fresh(frame) => view' = view
<1>1. ViewInv(view) /\ view \in Views
  BY DEF ListInv, ViewInv, ViewShape
<1>2. CASE ~Fresh(frame)
  <2>1. view' = view
    BY <1>2, FrameKindsOfPage DEF HandleAmbient, HandleEntry, Fresh, IsEntry
  <2> DEFINE C == {}
  <2>2. \A c \in C : c \in Ids => view.cards[c] >= 0
    OBVIOUS
  <2>3. C \in SUBSET Ids /\ C \in SUBSET PageRows /\ \A c \in C : FALSE
    OBVIOUS
  <2> HIDE DEF C
  <2>4. Later(view, view, {}, C, 0)
    BY <1>1, <2>2, LaterItself
  <2>5. {} = C
    BY <2>3
  <2>6. Later(view, view', C, C, 0)
    BY <2>1, <2>4, <2>5
  <2> QED
    BY <1>1, <1>2, <2>1, <2>3, <2>6
<1>3. CASE Fresh(frame)
  <2>1. /\ lastSeen' = frame.id
        /\ view' = IF frame.subject \in Ids
                     THEN WithEvent(view, frame.subject, frame.version)
                     ELSE WithMessage(view, frame.subject, frame.id)
    <3>1. ~HandleAmbient(frame)
      BY <1>3 DEF HandleAmbient, Fresh, IsEntry
    <3>2. frame.id \in Nat /\ lastSeen \in Nat /\ frame.id > lastSeen
      BY <1>3, FrameKindsOfPage DEF Fresh, ConnInv
    <3>3. ~(frame.id <= lastSeen)
      BY <3>2
    <3> QED
      BY <3>1, <3>3 DEF HandleEntry
  <2>2. frame.id \in Nat \ {0} /\ frame.subject \in Subjects /\ frame.version \in {1, 2} /\ frame.id > lastSeen
    BY <1>3, FrameKindsOfPage DEF Fresh
  <2>3. CASE frame.subject \in Ids
    <3> DEFINE C == {frame.subject}
               R == {}
               version == frame.version
    <3>1. ViewInv(view') /\ Later(view, view', R, C, version)
      BY <1>1, <2>1, <2>2, <2>3, WithEventLater
    <3>2. /\ C \in SUBSET Ids /\ R \in SUBSET PageRows /\ version \in {0, 1, 2} /\ \A r \in R : FALSE
      BY <2>2, <2>3
    <3>3. /\ \A c \in C : Bears(frame, c, version)
          /\ \A c \in Ids, v \in {1, 2} : Bears(frame, c, v) => c \in C /\ v = version
      BY <1>3 DEF Bears, Fresh
    <3>4. frame.subject \notin Messages
      BY <2>3, FanoutAssumption
    <3> HIDE DEF C, R, version
    <3> QED
      BY <1>3, <3>1, <3>2, <3>3, <3>4
  <2>4. CASE frame.subject \notin Ids
    <3> DEFINE r == ChatRow(frame.subject, frame.id)
               R == {r}
               C == {}
    <3>1. session \in Nat /\ lastSeen \in Nat
      BY DEF ConnInv
    <3>2. r \in PageRows /\ r.id = frame.id /\ r.life = session /\ r.subject = frame.subject
      BY <2>2, <3>1 DEF ChatRow, PageRows
    <3>3. view' = Trimmed([view EXCEPT !.list = Append(@, r)])
      BY <2>1, <2>4 DEF WithMessage
    <3> HIDE DEF r
    <3>4. \A c \in Ids : CardRow(c) # r
      BY <2>2, <3>2 DEF CardRow
    <3>5. \A x \in RowsOf(view) : x.id > 0 => x.life <= session /\ (x.life = session => x.id <= lastSeen)
      BY DEF ListInv, RowsSeen
    <3>6. r \notin RowsOf(view)
      <4> SUFFICES ASSUME r \in RowsOf(view) PROVE FALSE
        OBVIOUS
      <4>1. r.id <= lastSeen
        BY <2>2, <3>1, <3>2, <3>5
      <4> QED
        BY <2>2, <3>1, <3>2, <4>1
    <3>7. ASSUME NEW x \in RowsOf(view), x.id > 0
          PROVE  x.life < r.life \/ (x.life = r.life /\ x.id < r.id)
      <4>1. x \in PageRows
        BY <1>1 DEF RowsOf, Views
      <4>2. x.life \in Nat /\ x.id \in Nat
        BY <4>1 DEF PageRows
      <4>3. x.life <= session /\ (x.life = session => x.id <= lastSeen)
        BY <3>5, <3>7
      <4> QED
        BY <2>2, <3>1, <3>2, <4>2, <4>3
    <3>8. ViewInv(view') /\ Later(view, view', {r}, {}, 0)
      BY <1>1, <3>2, <3>3, <3>4, <3>6, <3>7, RowLater
    <3>9. R \in SUBSET PageRows /\ C \in SUBSET Ids /\ ViewInv(view') /\ Later(view, view', R, C, 0)
          /\ (\A c \in C : FALSE) /\ \A x \in R : x = r
      BY <3>2, <3>8
    <3>10. \A x \in R : x.id > 0 /\ x.life = session /\ x.id <= lastSeen'
      <4>1. frame.id <= lastSeen' /\ frame.id > 0
        BY <2>1, <2>2
      <4> QED
        BY <3>2, <3>9, <4>1
    <3>11. ChatRow(frame.subject, frame.id) \in R
      BY DEF r
    <3> HIDE DEF R, C
    <3>12. \A c \in Ids, v \in {1, 2} : ~Bears(frame, c, v)
      BY <2>4 DEF Bears
    <3> QED
      BY <1>3, <3>9, <3>10, <3>11, <3>12
  <2> QED
    BY <2>3, <2>4
<1> QED
  BY <1>2, <1>3

\* What a frame does to what the page has seen.
LEMMA FrameSeen ==
    ASSUME LogInv, ConnInv, WireInv, Open, wire # <<>>,
           HandleAmbient(Head(wire)) \/ HandleEntry(Head(wire))
    PROVE  /\ Head(wire) = wire[1] /\ wire[1] \in PageFrames /\ 1 \in 1 .. Len(wire)
           /\ session' = stream.bus /\ lastSeen' \in Nat
           /\ wire[1].type # "session" => session' = session
           /\ Fresh(wire[1]) => lastSeen' = wire[1].id /\ session' = session
           /\ ~Fresh(wire[1]) /\ session' = session => lastSeen' = lastSeen
           /\ session <= session' /\ (session' = session => lastSeen <= lastSeen')
           /\ session' # session => lastSeen' = 0
           /\ legend' \in {"absent", "off", "on"}
           /\ wire[1].type \in {"session", "entry"} => legend' = legend
           /\ IsLegend(wire[1]) => (legend' = "on" => wire[1].type = "presence" /\ wire[1].online)
<1> DEFINE f == wire[1]
<1>1. Head(wire) = f /\ f \in PageFrames /\ 1 \in 1 .. Len(wire)
  <2>1. wire \in Seq(PageFrames)
    BY DEF WireInv
  <2>2. Head(wire) = wire[1] /\ Head(wire) \in PageFrames /\ Len(wire) \in Nat \ {0}
    BY <2>1, TailFacts
  <2> QED
    BY <2>2
<1>2. /\ f.type = "session" => f.life = stream.bus
      /\ f.type # "session" => session = stream.bus
  BY <1>1 DEF WireInv
<1> HIDE DEF f
<1>3. session \in Nat /\ lastSeen \in Nat /\ stream.bus \in Nat /\ session <= stream.bus
      /\ legend \in {"absent", "off", "on"}
  <2>1. stream.phase # "none"
    BY DEF Open
  <2> QED
    BY <2>1 DEF ConnInv, Streams, NoStream
<1>4. f.type \in {"entry", "session", "roster", "presence"} /\ (IsEntry(f) => f.id \in Nat \ {0})
      /\ (IsLegend(f) <=> f.type = "roster" \/ f.type = "presence")
  BY <1>1, FrameKindsOfPage
<1>5. CASE f.type = "session"
  <2>1. session' = f.life /\ lastSeen' = (IF session = f.life THEN lastSeen ELSE 0) /\ legend' = legend
    BY <1>1, <1>5 DEF HandleAmbient, HandleEntry
  <2> QED
    BY <1>1, <1>2, <1>3, <1>4, <1>5, <2>1 DEF f, Fresh, IsEntry, IsLegend
<1>6. CASE f.type = "roster"
  <2>1. UNCHANGED <<session, lastSeen>> /\ legend' = (IF f.known THEN "off" ELSE "absent")
    BY <1>1, <1>6 DEF HandleAmbient, HandleEntry
  <2> QED
    BY <1>1, <1>2, <1>3, <1>4, <1>6, <2>1 DEF f, Fresh, IsEntry, IsLegend
<1>7. CASE f.type = "presence"
  <2>1. UNCHANGED <<session, lastSeen>> /\ legend' = (IF legend # "absent" /\ f.online THEN "on" ELSE AllOff)
    BY <1>1, <1>7 DEF HandleAmbient, HandleEntry
  <2>2. AllOff \in {"absent", "off"}
    BY <1>3 DEF AllOff
  <2>3. legend' \in {"absent", "off", "on"} /\ (legend' = "on" => f.online)
    BY <2>1, <2>2
  <2> QED
    BY <1>1, <1>2, <1>3, <1>4, <1>7, <2>1, <2>3 DEF f, Fresh, IsEntry, IsLegend
<1>8. CASE f.type = "entry"
  <2>1. UNCHANGED <<session, legend>> /\ (f.id > lastSeen => lastSeen' = f.id) /\ (~(f.id > lastSeen) => lastSeen' = lastSeen)
    <3>1. HandleEntry(f)
      BY <1>1, <1>8 DEF HandleAmbient
    <3>2. f.id \in Nat
      BY <1>4, <1>8 DEF IsEntry
    <3> QED
      BY <1>3, <3>1, <3>2 DEF HandleEntry
  <2>2. lastSeen' \in Nat /\ lastSeen <= lastSeen'
    BY <1>3, <1>4, <1>8, <2>1 DEF IsEntry
  <2> QED
    BY <1>1, <1>2, <1>3, <1>4, <1>8, <2>1, <2>2 DEF f, Fresh, IsEntry, IsLegend
<1> QED
  BY <1>4, <1>5, <1>6, <1>7, <1>8

\* What is left of the stream.
LEMMA HandleTail ==
    ASSUME PageInv, Handle
    PROVE  /\ UNCHANGED <<client, cast, ledger, unsent, life, agent, seq, chatLog, transcript, optedIn,
                          stream, missed, bus, drops, flows, replies, loaded, stale>>
           /\ wire \in Seq(PageFrames) /\ wire' \in Seq(PageFrames) /\ Ends(wire', wire)
           /\ Len(wire) \in Nat \ {0} /\ Len(wire') \in Nat
           /\ \A i \in 1 .. Len(wire') : i + 1 \in 2 .. Len(wire) /\ wire'[i] = wire[i + 1]
           /\ \A i \in 1 .. Len(wire) : i # 1 => i - 1 \in 1 .. Len(wire') /\ wire'[i - 1] = wire[i]
           /\ Open /\ Open' /\ Attached' = Attached /\ wire # <<>>
           /\ HandleAmbient(wire[1]) \/ HandleEntry(wire[1])
<1>1. /\ Open /\ wire # <<>> /\ wire' = Tail(wire)
      /\ HandleAmbient(Head(wire)) \/ HandleEntry(Head(wire))
      /\ UNCHANGED <<client, cast, ledger, unsent, life, agent, seq, chatLog, transcript, optedIn,
                     stream, missed, bus, drops, flows, replies, loaded, stale>>
  BY DEF Handle, ledgerVars, hubVars
<1>2. wire \in Seq(PageFrames)
  BY DEF PageInv, WireInv
<1>3. /\ wire' \in Seq(PageFrames) /\ Len(wire) \in Nat \ {0} /\ Len(wire') = Len(wire) - 1
      /\ Head(wire) = wire[1]
      /\ \A i \in 1 .. Len(wire') : wire'[i] = wire[i + 1]
  BY <1>1, <1>2, TailFacts
<1>4. Ends(wire', wire)
  <2>1. 1 \in 0 .. Len(wire)
    BY <1>3
  <2> QED
    BY <1>3, <2>1 DEF Ends
<1>5. \A i \in 1 .. Len(wire') : i + 1 \in 2 .. Len(wire)
  BY <1>3
<1>6. ASSUME NEW i \in 1 .. Len(wire), i # 1 PROVE i - 1 \in 1 .. Len(wire') /\ wire'[i - 1] = wire[i]
  <2> DEFINE j == i - 1
  <2>1. j \in 1 .. Len(wire') /\ j + 1 = i
    BY <1>3, <1>6
  <2> HIDE DEF j
  <2>2. wire'[j] = wire[i]
    BY <1>3, <2>1
  <2> QED
    BY <2>1, <2>2 DEF j
<1>7. Open' /\ Attached' = Attached
  BY <1>1 DEF Open, Attached
<1> QED
  BY <1>1, <1>2, <1>3, <1>4, <1>5, <1>6, <1>7

\* What is seen after a frame: an entry that was not seen yet is seen next.
LEMMA SeenNext ==
    ASSUME PageInv, Handle
    PROVE  /\ Seen \in Nat /\ Seen' \in Nat /\ Seen <= Seen'
           /\ Attached /\ Fresh(wire[1]) => session = life /\ session' = session /\ Seen' = wire[1].id
           /\ Attached /\ ~Fresh(wire[1]) => Seen' = Seen
           /\ Attached /\ ~missed /\ IsEntry(wire[1]) => Fresh(wire[1])
<1>0. LogInv /\ ConnInv /\ WireInv /\ SyncInv
  BY DEF PageInv
<1>1. /\ Open /\ wire # <<>> /\ life' = life
      /\ HandleAmbient(Head(wire)) \/ HandleEntry(Head(wire))
  BY HandleTail DEF Handle
<1>2. /\ wire[1] \in PageFrames /\ 1 \in 1 .. Len(wire)
      /\ session' = stream.bus /\ lastSeen' \in Nat
      /\ wire[1].type # "session" => session' = session
      /\ Fresh(wire[1]) => lastSeen' = wire[1].id /\ session' = session
      /\ ~Fresh(wire[1]) /\ session' = session => lastSeen' = lastSeen
      /\ session <= session' /\ (session' = session => lastSeen <= lastSeen')
      /\ session' # session => lastSeen' = 0
  BY <1>0, <1>1, FrameSeen
<1>3. /\ session \in Nat /\ lastSeen \in Nat /\ bus \in Nat /\ life \in Nat /\ stream.bus \in Nat
      /\ session <= stream.bus /\ stream.bus <= bus /\ bus <= life
  <2>1. stream.phase # "none"
    BY <1>1 DEF Open
  <2> QED
    BY <1>0, <2>1 DEF ConnInv, LogInv, HubTyped, Streams, NoStream
<1>4. Seen \in Nat /\ Seen' \in Nat
  BY <1>1, <1>2, <1>3 DEF Seen
<1>5. Attached <=> stream.bus = life
  BY <1>1 DEF Attached
<1>6. ASSUME Attached, Fresh(wire[1])
      PROVE  session = life /\ session' = session /\ Seen' = wire[1].id
  BY <1>1, <1>2, <1>5, <1>6 DEF Seen
<1>7. ASSUME Attached, ~Fresh(wire[1]) PROVE Seen' = Seen
  BY <1>1, <1>2, <1>5, <1>7 DEF Seen
<1>8. Seen <= Seen'
  <2>1. CASE session' = session
    <3>1. lastSeen <= lastSeen'
      BY <1>2, <2>1
    <3> QED
      BY <1>1, <1>2, <1>3, <2>1, <3>1 DEF Seen
  <2>2. CASE session' # session
    <3>1. session # life
      BY <1>2, <1>3, <2>2
    <3> QED
      BY <1>4, <3>1 DEF Seen
  <2> QED
    BY <2>1, <2>2
<1>9. ASSUME Attached, ~missed, IsEntry(wire[1]) PROVE Fresh(wire[1])
  <2>1. session = life
    BY <1>2, <1>5, <1>9 DEF IsEntry
  <2>2. wire[1].id > Seen
    BY <1>0, <1>2, <1>9 DEF SyncInv, Unseen
  <2> QED
    BY <1>9, <2>1, <2>2 DEF Seen, Fresh
<1> QED
  BY <1>4, <1>6, <1>7, <1>8, <1>9

LEMMA HandleKeepsConn ==
    ASSUME PageInv, Handle, HubTyped'
    PROVE  LogInv' /\ ConnInv' /\ WireInv'
<1>0. LogInv /\ ConnInv /\ WireInv
  BY DEF PageInv
<1>1. /\ UNCHANGED <<client, cast, ledger, unsent, life, agent, seq, chatLog, transcript, optedIn,
                     stream, missed, bus, drops, flows, replies, loaded, stale>>
      /\ wire \in Seq(PageFrames) /\ wire' \in Seq(PageFrames) /\ Ends(wire', wire)
      /\ Len(wire) \in Nat \ {0} /\ Len(wire') \in Nat
      /\ \A i \in 1 .. Len(wire') : i + 1 \in 2 .. Len(wire) /\ wire'[i] = wire[i + 1]
      /\ Open /\ Open' /\ Attached' = Attached /\ wire # <<>>
      /\ HandleAmbient(Head(wire)) \/ HandleEntry(Head(wire))
  BY HandleTail DEF Handle
<1>2. /\ 1 \in 1 .. Len(wire)
      /\ session' = stream.bus /\ lastSeen' \in Nat
      /\ Fresh(wire[1]) => lastSeen' = wire[1].id /\ session' = session
      /\ ~Fresh(wire[1]) /\ session' = session => lastSeen' = lastSeen
      /\ session' # session => lastSeen' = 0
      /\ legend' \in {"absent", "off", "on"}
  BY <1>0, <1>1, FrameSeen
<1>3. LogInv'
  BY <1>0, <1>1 DEF LogInv
<1>4. /\ stream.phase = "open" /\ stream.bus \in Nat /\ stream.bus <= bus /\ seq \in Nat
  BY <1>0, <1>1 DEF ConnInv, LogInv, Open, Streams, NoStream
<1>5. session' = life => lastSeen' <= seq
  <2> SUFFICES ASSUME session' = life PROVE lastSeen' <= seq
    OBVIOUS
  <2>1. Attached
    BY <1>1, <1>2 DEF Attached
  <2>2. CASE Fresh(wire[1])
    BY <1>0, <1>2, <2>1, <2>2 DEF WireInv, Fresh
  <2>3. CASE ~Fresh(wire[1]) /\ session' = session
    BY <1>0, <1>2, <2>3 DEF ConnInv
  <2>4. CASE session' # session
    BY <1>2, <1>4, <2>4
  <2> QED
    BY <2>2, <2>3, <2>4
<1>6. ConnInv'
  BY <1>0, <1>1, <1>2, <1>4, <1>5 DEF ConnInv
<1>7. WireInv'
  <2>1. ASSUME NEW i \in 1 .. Len(wire')
        PROVE  /\ wire'[i].type # "session"
               /\ Attached /\ IsEntry(wire'[i]) => wire'[i].id <= seq
    <3> DEFINE j == i + 1
    <3>1. j \in 2 .. Len(wire) /\ wire'[i] = wire[j]
      BY <1>1, <2>1
    <3>2. j \in 1 .. Len(wire) /\ j # 1
      BY <1>1, <3>1
    <3> HIDE DEF j
    <3> QED
      BY <1>0, <3>1, <3>2 DEF WireInv
  <2>2. Truthful(wire', ledger)
    BY <1>0, <1>1, TruthfulEnds DEF WireInv
  <2> QED
    BY <1>1, <1>2, <2>1, <2>2 DEF WireInv
<1> QED
  BY <1>3, <1>6, <1>7

LEMMA HandleKeepsSync ==
    ASSUME PageInv, Handle
    PROVE  SyncInv'
<1> SUFFICES ASSUME Attached, ~missed
             PROVE  (Unseen /\ Consistent /\ Complete /\ FollowedUp(wire, ledger, unsent) /\ LegendInv)'
  BY HandleTail DEF SyncInv
<1>0. /\ LogInv /\ ConnInv /\ WireInv
      /\ Unseen /\ Consistent /\ Complete /\ FollowedUp(wire, ledger, unsent) /\ LegendInv
  BY DEF PageInv, SyncInv
<1>1. /\ UNCHANGED <<ledger, unsent, life, agent, chatLog>>
      /\ wire \in Seq(PageFrames) /\ wire' \in Seq(PageFrames) /\ Ends(wire', wire)
      /\ Len(wire) \in Nat \ {0} /\ Len(wire') \in Nat
      /\ \A i \in 1 .. Len(wire') : i + 1 \in 2 .. Len(wire) /\ wire'[i] = wire[i + 1]
      /\ \A i \in 1 .. Len(wire) : i # 1 => i - 1 \in 1 .. Len(wire') /\ wire'[i - 1] = wire[i]
  BY HandleTail
<1>2. /\ wire[1] \in PageFrames /\ 1 \in 1 .. Len(wire)
      /\ wire[1].type \in {"session", "entry"} => legend' = legend
      /\ IsLegend(wire[1]) => (legend' = "on" => wire[1].type = "presence" /\ wire[1].online)
  <2>1. /\ Open /\ wire # <<>>
        /\ HandleAmbient(Head(wire)) \/ HandleEntry(Head(wire))
    BY DEF Handle
  <2> QED
    BY <1>0, <2>1, FrameSeen
<1>3. /\ Seen \in Nat /\ Seen' \in Nat /\ Seen <= Seen'
      /\ IsEntry(wire[1]) => Seen' = wire[1].id
      /\ ~IsEntry(wire[1]) => Seen' = Seen
  BY SeenNext DEF Fresh
<1>4. \A i \in 1 .. Len(wire) : IsEntry(wire[i]) => wire[i].id \in Nat
  <2> TAKE i \in 1 .. Len(wire)
  <2>1. wire[i] \in PageFrames
    BY <1>1
  <2> QED
    BY <2>1, FrameKindsOfPage
<1>5. Unseen'
  <2> SUFFICES ASSUME NEW i \in 1 .. Len(wire'), IsEntry(wire'[i])
               PROVE  /\ wire'[i].id > Seen'
                      /\ \A j \in i + 1 .. Len(wire') : IsEntry(wire'[j]) => wire'[i].id < wire'[j].id
    BY DEF Unseen, IsEntry
  <2> DEFINE k == i + 1
  <2>1. k \in 2 .. Len(wire) /\ wire'[i] = wire[k]
    BY <1>1
  <2>2. k \in 1 .. Len(wire) /\ k \in 1 + 1 .. Len(wire)
    BY <1>1, <2>1
  <2>3. wire'[i].id > Seen'
    <3> HIDE DEF k
    <3>1. wire[k].id > Seen /\ wire[k].id \in Nat
      BY <1>0, <1>4, <2>1, <2>2 DEF Unseen
    <3>2. IsEntry(wire[1]) => wire[1].id < wire[k].id
      BY <1>0, <1>2, <2>1, <2>2 DEF Unseen
    <3> QED
      BY <1>3, <2>1, <3>1, <3>2
  <2>4. ASSUME NEW j \in i + 1 .. Len(wire'), IsEntry(wire'[j]) PROVE wire'[i].id < wire'[j].id
    <3> DEFINE n == j + 1
    <3>1. j \in 1 .. Len(wire')
      BY <1>1, <2>4
    <3>2. n \in 2 .. Len(wire) /\ wire'[j] = wire[n]
      BY <1>1, <3>1
    <3>3. n \in k + 1 .. Len(wire)
      BY <1>1, <2>4, <3>2
    <3> HIDE DEF n, k
    <3> QED
      BY <1>0, <2>1, <2>2, <2>4, <3>2, <3>3 DEF Unseen
  <2> QED
    BY <2>3, <2>4
<1>6. Consistent'
  <2> SUFFICES ASSUME NEW i \in 1 .. Len(wire'), NEW m \in 1 .. Len(chatLog), IsEntry(wire'[i]),
                      wire'[i].id = chatLog[m].id
               PROVE  wire'[i] = chatLog[m]
    BY <1>1 DEF Consistent, IsEntry
  <2> DEFINE k == i + 1
  <2>1. k \in 2 .. Len(wire) /\ wire'[i] = wire[k]
    BY <1>1
  <2>2. k \in 1 .. Len(wire)
    BY <1>1, <2>1
  <2> HIDE DEF k
  <2> QED
    BY <1>0, <2>1, <2>2 DEF Consistent
<1>7. Complete'
  <2> SUFFICES ASSUME NEW m \in 1 .. Len(chatLog), chatLog[m].id > Seen'
               PROVE  \E i \in 1 .. Len(wire') : wire'[i] = chatLog[m]
    BY <1>1 DEF Complete
  <2>1. chatLog[m] \in LogEntries
    BY <1>0 DEF LogInv
  <2>2. chatLog[m].id \in Nat /\ IsEntry(chatLog[m])
    BY <2>1 DEF LogEntries, IsEntry
  <2>3. chatLog[m].id > Seen
    BY <1>3, <2>2
  <2>4. PICK i \in 1 .. Len(wire) : wire[i] = chatLog[m]
    BY <1>0, <2>3 DEF Complete
  <2>5. i # 1
    BY <1>3, <2>2, <2>4
  <2> DEFINE k == i - 1
  <2>6. k \in 1 .. Len(wire') /\ wire'[k] = wire[i]
    BY <1>1, <2>5
  <2> HIDE DEF k
  <2> QED
    BY <2>4, <2>6
<1>8. FollowedUp(wire', ledger, unsent)
  BY <1>0, <1>1, FollowedUpEnds
<1>9. LegendInv'
  <2>1. CASE NoLegend(wire) /\ (legend = "on" => agent = "online")
    <3>1. \A i \in 1 .. Len(wire) : ~IsLegend(wire[i])
      BY <2>1 DEF NoLegend
    <3>2. NoLegend(wire')
      <4> SUFFICES ASSUME NEW i \in 1 .. Len(wire') PROVE ~IsLegend(wire'[i])
        BY DEF NoLegend
      <4> DEFINE k == i + 1
      <4>1. k \in 2 .. Len(wire) /\ wire'[i] = wire[k]
        BY <1>1
      <4>2. k \in 1 .. Len(wire)
        BY <1>1, <4>1
      <4> HIDE DEF k
      <4> QED
        BY <3>1, <4>1, <4>2
    <3>3. legend' = legend
      BY <1>2, <3>1, FrameKindsOfPage
    <3> QED
      BY <1>1, <2>1, <3>2, <3>3 DEF LegendInv
  <2>2. CASE LastTrue(wire, agent)
    <3>1. PICK i \in 1 .. Len(wire) :
             IsLegend(wire[i]) /\ LegendTrue(wire[i], agent) /\ \A j \in i + 1 .. Len(wire) : ~IsLegend(wire[j])
      BY <2>2 DEF LastTrue
    <3>2. ASSUME NEW n \in 1 .. Len(wire'), n + 1 > i PROVE ~IsLegend(wire'[n])
      <4> DEFINE k == n + 1
      <4>1. k \in 2 .. Len(wire) /\ wire'[n] = wire[k]
        BY <1>1
      <4>2. k \in i + 1 .. Len(wire)
        BY <1>1, <3>2, <4>1
      <4> HIDE DEF k
      <4> QED
        BY <3>1, <4>1, <4>2
    <3>3. CASE i = 1
      <4>1. NoLegend(wire')
        BY <1>1, <3>2, <3>3 DEF NoLegend
      <4>2. legend' = "on" => agent = "online"
        BY <1>2, <3>1, <3>3 DEF LegendTrue
      <4> QED
        BY <1>1, <4>1, <4>2 DEF LegendInv
    <3>4. CASE i # 1
      <4> DEFINE k == i - 1
      <4>1. k \in 1 .. Len(wire') /\ wire'[k] = wire[i] /\ i = k + 1
        BY <1>1, <3>4
      <4> HIDE DEF k
      <4>2. \A n \in k + 1 .. Len(wire') : n \in 1 .. Len(wire') /\ n + 1 > i
        BY <1>1, <4>1
      <4>3. \A n \in k + 1 .. Len(wire') : ~IsLegend(wire'[n])
        BY <3>2, <4>2
      <4>4. LastTrue(wire', agent)
        BY <3>1, <4>1, <4>3 DEF LastTrue
      <4> QED
        BY <1>1, <4>4 DEF LegendInv
    <3> QED
      BY <3>3, <3>4
  <2> QED
    BY <1>0, <2>1, <2>2 DEF LegendInv
<1> QED
  BY <1>1, <1>5, <1>6, <1>7, <1>8, <1>9

\* handleEvent: what came, is shown (main.js).
LEMMA HandleKeepsPage ==
    ASSUME PageInv, Handle, HubTyped', RetryInv'
    PROVE  PageInv'
<1>0. /\ client = "page" /\ LogInv /\ ConnInv /\ WireInv /\ SyncInv /\ ListInv /\ AwaitsInv /\ ShownInv /\ FreshInv
  BY DEF PageInv
<1> DEFINE f == wire[1]
<1>1. /\ UNCHANGED <<client, cast, ledger, unsent, life, chatLog, stream, missed, bus, flows, replies, loaded, stale>>
      /\ Attached' = Attached /\ Open /\ wire # <<>>
      /\ HandleAmbient(f) \/ HandleEntry(f)
      /\ \A i \in 1 .. Len(wire) : i # 1 => i - 1 \in 1 .. Len(wire') /\ wire'[i - 1] = wire[i]
  BY HandleTail
<1>2. /\ Head(wire) = f /\ f \in PageFrames /\ 1 \in 1 .. Len(wire)
      /\ session' = stream.bus /\ lastSeen' \in Nat
      /\ Fresh(f) => session' = session
      /\ session <= session' /\ (session' = session => lastSeen <= lastSeen')
  <2>1. HandleAmbient(Head(wire)) \/ HandleEntry(Head(wire))
    BY DEF Handle
  <2> QED
    BY <1>0, <1>1, <2>1, FrameSeen
<1>3. /\ Seen \in Nat /\ Seen' \in Nat /\ Seen <= Seen'
      /\ Attached /\ Fresh(f) => session = life /\ Seen' = f.id
      /\ Attached /\ ~Fresh(f) => Seen' = Seen
      /\ Attached /\ ~missed /\ IsEntry(f) => Fresh(f)
  BY SeenNext
<1>4. LogInv' /\ ConnInv' /\ WireInv' /\ SyncInv'
  BY HandleKeepsConn, HandleKeepsSync
<1> HIDE DEF f
<1>5. PICK R \in SUBSET PageRows, C \in SUBSET Ids, shown \in {0, 1, 2} :
         /\ ViewInv(view') /\ Later(view, view', R, C, shown)
         /\ \A r \in R : r.id > 0 /\ r.life = session /\ r.id <= lastSeen'
         /\ \A c \in C : Bears(f, c, shown)
         /\ Fresh(f) => \A c \in Ids, v \in {1, 2} : Bears(f, c, v) => c \in C /\ v = shown
         /\ Fresh(f) /\ f.subject \in Messages => ChatRow(f.subject, f.id) \in R
         /\ ~Fresh(f) => view' = view
  BY <1>0, <1>1, <1>2, FrameShown
<1>6. /\ \A c \in Ids, v \in {1, 2} : Has(c, v) => Has(c, v)'
      /\ \A c \in Ids, v \in {1, 2} : c \in C /\ v <= shown => Has(c, v)'
      /\ \A c \in Ids : view'.cards[c] > 0 => view.cards[c] > 0 \/ c \in C
      /\ RowsOf(view) \cup view.trimmed \cup R \subseteq RowsOf(view') \cup view'.trimmed
  BY <1>0, <1>5, LaterHas DEF ListInv
<1>7. \A c \in C : shown \in {1, 2} /\ shown <= ledger[c]
  <2> TAKE c \in C
  <2>1. shown \in {1, 2} /\ Bears(f, c, shown)
    BY <1>2, <1>5, FrameKindsOfPage DEF Bears
  <2>2. Truthful(wire, ledger)
    BY <1>0 DEF WireInv
  <2> QED
    BY <1>2, <2>1, <2>2 DEF Truthful, f
<1>8. ListInv'
  <2>1. CASE session' = session
    <3>1. \A r \in R : r.id > 0 => r.life = session /\ r.id <= lastSeen'
      BY <1>5
    <3>2. \A c \in C : shown <= ledger[c]
      BY <1>7
    <3>3. /\ ListInv /\ LogInv /\ ConnInv /\ UNCHANGED <<ledger, session>>
          /\ lastSeen' \in Nat /\ lastSeen <= lastSeen'
      BY <1>0, <1>1, <1>2, <1>5, <2>1
    <3>4. /\ ViewInv(view') /\ Later(view, view', R, C, shown)
          /\ R \subseteq PageRows /\ C \subseteq Ids /\ shown \in {0, 1, 2}
      BY <1>5
    <3> QED
      BY <3>1, <3>2, <3>3, <3>4, ListKept
  <2>2. CASE session' # session
    <3>1. view' = view
      BY <1>2, <1>5, <2>2
    <3>2. session \in Nat /\ session' \in Nat /\ session < session'
      BY <1>0, <1>2, <1>4, <2>2 DEF ConnInv
    <3>3. RowsSeen'
      <4> SUFFICES ASSUME NEW r \in RowsOf(view), r.id > 0
                   PROVE  r.life <= session' /\ (r.life = session' => r.id <= lastSeen')
        BY <3>1 DEF RowsSeen
      <4>1. r \in PageRows
        BY <1>0 DEF ListInv, ViewInv, ViewShape, Views, RowsOf
      <4>2. r.life \in Nat /\ r.life <= session
        BY <1>0, <4>1 DEF ListInv, RowsSeen, PageRows
      <4> QED
        BY <3>2, <4>2
    <3> QED
      BY <1>0, <1>1, <3>1, <3>3 DEF ListInv
  <2> QED
    BY <2>1, <2>2
<1>9. AwaitsInv'
  <2>1. NoticeRow \in RowsOf(view') => NoticeRow \in RowsOf(view)
    <3>1. NoticeRow \notin R
      BY <1>5, RowKinds
    <3>2. \A c \in C : NoticeRow # CardRow(c)
      BY <1>5, RowKinds
    <3> QED
      BY <1>5, <3>1, <3>2 DEF Later
  <2>2. KindSteps' = KindSteps
    BY <1>1, KindsStay
  <2>3. NoticeRow' = NoticeRow
    BY DEF NoticeRow
  <2> QED
    BY <1>0, <1>1, <2>1, <2>2, <2>3 DEF AwaitsInv, Swapping, Announces, Step, Names, OfKind
<1>a. \A c \in Ids, version \in {1, 2} : Awaited(c, version)' => Awaited(c, version)
  <2>1. \A g \in Flows, kind \in ToSet(KindSteps) : Asked(g, kind)' => Asked(g, kind) /\ replies'[g] = replies[g]
    BY <1>1 DEF Asked, Step
  <2> QED
    BY <1>1, <2>1, AwaitedDone
<1>10. ShownInv'
  <2> SUFFICES ASSUME ~Swapping
               PROVE  (/\ bus = life /\ (stream.phase # "none" => stream.bus = life)
                       /\ DueInv /\ ChatInv)'
    BY <1>1 DEF ShownInv, Swapping, Step
  <2>1. /\ bus = life /\ (stream.phase # "none" => stream.bus = life)
        /\ DueInv /\ ChatInv
    BY <1>0 DEF ShownInv
  <2>2. Attached
    BY <1>1, <2>1 DEF Attached, Open
  <2>3. ASSUME NEW c \in Ids, NEW version \in {1, 2}, NEW i \in 1 .. Len(wire), i # 1,
               Bears(wire[i], c, version)
        PROVE  Coming(c, version)'
    <3> DEFINE k == i - 1
    <3>1. k \in 1 .. Len(wire') /\ wire'[k] = wire[i]
      BY <1>1, <2>3
    <3> HIDE DEF k
    <3>2. OnWire(c, version)'
      BY <2>3, <3>1 DEF OnWire, Bears, IsEntry
    <3> QED
      BY <1>1, <2>2, <3>2 DEF Coming
  <2>4. ASSUME NEW c \in Ids, NEW version \in {1, 2}, Due(c, version) PROVE Due(c, version)'
    <3>1. CASE Has(c, version)
      BY <1>6, <3>1 DEF Due
    <3>2. CASE missed
      BY <1>1, <3>2 DEF Due, Coming
    <3>3. CASE OnWire(c, version) /\ ~missed
      <4>1. PICK i \in 1 .. Len(wire) : Bears(wire[i], c, version)
        BY <3>3 DEF OnWire
      <4>2. CASE i = 1
        <5>1. Bears(f, c, version) /\ Fresh(f)
          BY <1>3, <2>2, <3>3, <4>1, <4>2 DEF f, Bears
        <5>2. c \in C /\ version = shown /\ version <= shown
          BY <1>5, <5>1
        <5> QED
          BY <1>6, <5>2 DEF Due
      <4>3. CASE i # 1
        BY <2>3, <4>1, <4>3 DEF Due
      <4> QED
        BY <4>2, <4>3
    <3> QED
      BY <2>2, <2>4, <3>1, <3>2, <3>3 DEF Due, Coming
  <2>5. DueInv'
    <3> SUFFICES ASSUME NEW c \in Ids, NEW version \in {1, 2}, Sent(c, version), Wanted(c, version)'
                 PROVE  Due(c, version)'
      BY <1>1 DEF DueInv, Sent
    <3>1. Wanted(c, version) \/ (version = 2 /\ c \in C)
      <4>1. Awaited(c, version)' => Awaited(c, version)
        BY <1>a
      <4>2. view'.cards[c] > 0 => view.cards[c] > 0 \/ c \in C
        BY <1>6
      <4> QED
        BY <1>1, <4>1, <4>2 DEF Wanted, OfKind
    <3>2. CASE Wanted(c, version)
      BY <2>1, <2>4, <3>2 DEF DueInv
    <3>3. CASE version = 2 /\ c \in C
      <4>1. shown \in {1, 2} /\ Bears(f, c, shown)
        BY <1>5, <1>7, <3>3
      <4>2. CASE shown = 2
        BY <1>6, <3>3, <4>2 DEF Due
      <4>3. CASE missed
        BY <1>1, <4>3 DEF Due, Coming
      <4>4. CASE shown = 1 /\ ~missed
        <5>1. FollowedUp(wire, ledger, unsent)
          BY <1>0, <2>2, <4>4 DEF SyncInv
        <5>2. PICK j \in 1 + 1 .. Len(wire) : Bears(wire[j], c, 2)
          BY <1>2, <3>3, <4>1, <4>4, <5>1 DEF FollowedUp, Sent, f
        <5>3. j \in 1 .. Len(wire) /\ j # 1
          BY <5>2
        <5> QED
          BY <2>3, <3>3, <5>2, <5>3 DEF Due
      <4> QED
        BY <4>1, <4>2, <4>3, <4>4
    <3> QED
      BY <3>1, <3>2, <3>3
  <2>6. ChatInv'
    <3> SUFFICES ASSUME NEW k \in 1 .. Len(chatLog), chatLog[k].subject \in Messages, chatLog[k].id <= Seen', ~missed
                 PROVE  MessageRow(chatLog[k]) \in RowsOf(view') \cup view'.trimmed
      BY <1>1 DEF ChatInv, MessageRow
    <3>1. chatLog[k] \in LogEntries
      BY <1>0 DEF LogInv
    <3>2. chatLog[k].id \in Nat /\ IsEntry(chatLog[k])
      BY <3>1 DEF LogEntries, IsEntry
    <3>3. CASE chatLog[k].id <= Seen
      <4>1. MessageRow(chatLog[k]) \in RowsOf(view) \cup view.trimmed
        BY <2>1, <3>3 DEF ChatInv
      <4> QED
        BY <1>6, <4>1
    <3>4. CASE ~(chatLog[k].id <= Seen)
      <4>1. Fresh(f) /\ session = life /\ Seen' = f.id
        BY <1>3, <2>2, <3>4
      <4>2. chatLog[k].id > Seen
        BY <1>3, <3>2, <3>4
      <4>3. PICK i \in 1 .. Len(wire) : wire[i] = chatLog[k]
        BY <1>0, <2>2, <4>2 DEF SyncInv, Complete
      <4>4. i = 1
        <5> SUFFICES ASSUME i # 1 PROVE FALSE
          OBVIOUS
        <5>1. i \in 1 + 1 .. Len(wire)
          BY <4>3
        <5>2. IsEntry(wire[1]) /\ IsEntry(wire[i]) /\ f.id \in Nat
          BY <1>2, <3>2, <4>1, <4>3, FrameKindsOfPage DEF f, Fresh
        <5>3. wire[1].id < wire[i].id
          BY <1>0, <1>2, <2>2, <5>1, <5>2 DEF SyncInv, Unseen
        <5> QED
          BY <3>2, <4>1, <4>3, <5>2, <5>3 DEF f
      <4>5. f = chatLog[k]
        BY <4>3, <4>4 DEF f
      <4>6. ChatRow(f.subject, f.id) \in R
        BY <1>5, <4>1, <4>5
      <4>7. MessageRow(chatLog[k]) = ChatRow(f.subject, f.id)
        BY <4>1, <4>5 DEF MessageRow, ChatRow
      <4> QED
        BY <1>6, <4>6, <4>7
    <3> QED
      BY <3>3, <3>4
  <2> QED
    BY <1>1, <2>1, <2>5, <2>6
<1>11. RetryInv'
  OBVIOUS
<1>12. FreshInv'
  <2>1. seq' = seq
    BY DEF Handle, hubVars
  <2> QED
    BY <1>0, <1>1, <1>a, <2>1, FreshKept DEF Logged
<1> QED
  BY <1>0, <1>1, <1>4, <1>8, <1>9, <1>10, <1>11, <1>12 DEF PageInv

-----------------------------------------------------------------------------
(* Every step. *)

\* The page where the client is the sidecar of an agent.
PageIdle ==
    /\ stream = NoStream /\ session = 0 /\ lastSeen = 2 /\ bus = 1 /\ drops = 0
    /\ view = EmptyView /\ loaded = {} /\ legend = "absent"

DeliveryInv ==
    /\ SideInv /\ RetryInv
    /\ (client = "sidecar" /\ PageIdle) \/ PageInv

LEMMA PageStarts ==
    ASSUME Init, client = "page", HubTyped, RetryInv
    PROVE  PageInv
<1>1. /\ life = 1 /\ seq = 0 /\ chatLog = <<>> /\ transcript = <<>> /\ stream = NoStream /\ wire = <<>>
      /\ session = 0 /\ lastSeen = 2 /\ bus = 1 /\ drops = 0 /\ flows["reload"] = <<>>
      /\ replies = [f \in Flows |-> None] /\ view = EmptyView /\ loaded = {} /\ legend = "absent"
  BY DEF Init, FanoutInit, PageInit, Flows
<1>2. ~Open /\ ~Attached /\ stream.phase = "none" /\ stream \in Streams
  BY <1>1 DEF Open, Attached, NoStream, Streams
<1>3. ~Swapping /\ ~Announces
  <2>1. \A i \in 1 .. Len(<<>>) : FALSE
    OBVIOUS
  <2> QED
    BY <1>1, <2>1 DEF Swapping, Announces, Step
<1>4. /\ ViewInv(view) /\ RowsOf(view) = {} /\ \A c \in Ids : view.cards[c] = 0
  BY <1>1, EmptyViewShape DEF EmptyView
<1>5. \A i \in 1 .. Len(<<>>) : FALSE
  OBVIOUS
<1>6. LogInv
  <2>1. <<>> \in Seq(LogEntries) /\ <<>> \in Seq(Lines) /\ Len(<<>>) = 0
    OBVIOUS
  <2>2. Truthful(<<>>, ledger) /\ FollowedUp(<<>>, ledger, unsent)
    BY NothingSent
  <2> QED
    BY <1>1, <1>5, <2>1, <2>2, FanoutAssumption DEF LogInv
<1>7. ConnInv
  BY <1>1, <1>2, PageAssumption DEF ConnInv
<1>8. WireInv
  <2>1. <<>> \in Seq(PageFrames) /\ Truthful(<<>>, ledger)
    BY NothingSent
  <2> QED
    BY <1>1, <1>2, <1>5, <2>1 DEF WireInv
<1>9. SyncInv
  BY <1>2 DEF SyncInv
<1>10. ListInv
  <2>1. \A c \in Ids : ledger[c] \in 0 .. 2
    BY DEF HubTyped
  <2>2. \A c \in Ids : view.cards[c] <= ledger[c]
    BY <1>4, <2>1
  <2> QED
    BY <1>4, <2>2 DEF ListInv, RowsSeen
<1>11. AwaitsInv
  BY <1>1, <1>3, <1>5 DEF AwaitsInv, Answers
<1>12. ShownInv
  <2>1. \A c \in Ids, version \in {1, 2} : ~Wanted(c, version)
    BY <1>1, <1>4 DEF Wanted, Awaited, Asked
  <2> QED
    BY <1>1, <1>2, <1>5, <2>1 DEF ShownInv, DueInv, ChatInv
<1>13. FreshInv
  BY <1>1 DEF FreshInv, Awaited, Asked
<1> QED
  BY <1>6, <1>7, <1>8, <1>9, <1>10, <1>11, <1>12, <1>13 DEF PageInv

LEMMA DeliveryStarts ==
    ASSUME Init
    PROVE  DeliveryInv
<1>1. SideInv /\ RetryInv /\ HubTyped
  BY SideInit, RetryInit DEF SideInv
<1>2. CASE client = "page"
  BY <1>1, <1>2, PageStarts DEF DeliveryInv
<1>3. CASE client = "sidecar"
  BY <1>1, <1>3 DEF DeliveryInv, PageIdle, Init, FanoutInit, PageInit
<1> QED
  BY <1>1, <1>2, <1>3 DEF HubTyped

\* The page and the hub go on.
LEMMA PageGoesOn ==
    ASSUME PageInv, Next, HubTyped', RetryInv'
    PROVE  PageInv'
<1>1. PageNext \/ (HubNext /\ UNCHANGED pageVars)
  BY DEF Next, PageInv
<1>2. CASE HubNext /\ UNCHANGED pageVars
  BY <1>2, HandlersKeepPage, ClearKeepsPage, ListenKeepsPage, AcceptKeepsPage DEF HubNext
<1>3. CASE PageNext
  <2>1. CASE Handle
    BY <2>1, HandleKeepsPage
  <2>2. CASE StreamEnds
    BY <2>2, StreamEndsKeepsPage
  <2>3. CASE RetryFires
    BY <2>3, RetryFiresKeepsPage
  <2>4. CASE \E f \in DOMAIN flows : Ask(f) \/ AskInVain(f) \/ Answer(f)
    BY <2>4, AskKeepsPage, AskInVainKeepsPage, AnswerKeepsPage
  <2>5. CASE BootConnects
    BY <2>5, BootConnectsKeepsPage
  <2>6. CASE Swap
    BY <2>6, SwapKeepsPage
  <2>7. CASE Notice
    BY <2>7, NoticeKeepsPage
  <2>8. CASE ReloadClicked
    BY <2>8, ReloadClickedKeepsPage
  <2> QED
    BY <1>3, <2>1, <2>2, <2>3, <2>4, <2>5, <2>6, <2>7, <2>8 DEF PageNext, PageStep
<1> QED
  BY <1>1, <1>2, <1>3

\* The sidecar leaves the page alone.
LEMMA PageStaysIdle ==
    ASSUME client = "sidecar", PageIdle, Next
    PROVE  client' = "sidecar" /\ PageIdle'
<1>1. SidecarNext /\ UNCHANGED pageVars
  BY DEF Next
<1>2. client' = "sidecar"
  BY ClientStays
<1>3. \A ambient, entries : Send(ambient, entries) => stream' = stream
  BY DEF Send, streamVars
<1>4. \A c : Advance(c) => stream' = stream
  BY <1>3 DEF Advance
<1>5. ASSUME PeerChanges PROVE stream' = stream
  BY <1>3, <1>5 DEF PeerChanges, AgentConnects, AgentLeaves, AgentRemoved
<1>6. ASSUME \E c \in Ids : Create(c) \/ Resolve(c) PROVE stream' = stream
  BY <1>4, <1>6 DEF Create, Resolve
<1>7. ASSUME Post \/ Removed \/ DebounceFires \/ Restarted \/ Connected \/ Disconnected \/ HandleEvent \/ Listen
      PROVE  stream' = stream
  BY <1>7 DEF Post, Removed, DebounceFires, Restarted, Connected, Disconnected, HandleEvent, Listen, streamVars
<1>8. stream' = stream
  BY <1>1, <1>5, <1>6, <1>7 DEF SidecarNext
<1>9. PageIdle'
  BY <1>1, <1>8 DEF PageIdle, pageVars, NoStream, EmptyView
<1> QED
  BY <1>2, <1>9

LEMMA DeliveryGoesOn ==
    ASSUME DeliveryInv, Next
    PROVE  DeliveryInv'
<1>1. SideInv' /\ RetryInv' /\ HubTyped'
  BY SideStep, RetryStep DEF DeliveryInv, SideInv
<1>2. CASE client = "sidecar" /\ PageIdle
  BY <1>1, <1>2, PageStaysIdle DEF DeliveryInv
<1>3. CASE PageInv
  BY <1>1, <1>3, PageGoesOn DEF DeliveryInv
<1> QED
  BY <1>2, <1>3 DEF DeliveryInv

\* Nothing happens.
LEMMA PageStutters ==
    ASSUME PageInv, UNCHANGED vars, HubTyped', RetryInv'
    PROVE  PageInv'
<1>0. /\ client = "page" /\ LogInv /\ ConnInv /\ ListInv /\ AwaitsInv /\ ShownInv /\ FreshInv
  BY DEF PageInv
<1>1. UNCHANGED <<ledgerVars, hubVars, streamVars, session, lastSeen, drops, bus, flows, replies, view, loaded, stale, legend>>
  BY DEF vars, pageVars
<1>2. UNCHANGED <<client, cast, ledger, unsent, life, chatLog, missed, stream>>
  BY <1>1 DEF ledgerVars, hubVars, streamVars
<1>3. /\ LogInv' /\ ConnInv' /\ WireInv' /\ SyncInv' /\ Seen' = Seen
      /\ \A c \in Ids, version \in {1, 2} : Coming(c, version) => Coming(c, version)'
  <2>1. legend' \in {"absent", "off", "on"} /\ (legend' = "on" => legend = "on")
    BY <1>0, <1>1 DEF ConnInv
  <2> QED
    BY <1>1, <2>1, HubSame
<1>4. ListInv' /\ AwaitsInv' /\ (Swapping' <=> Swapping)
      /\ \A c, version : /\ Wanted(c, version)' <=> Wanted(c, version)
                         /\ Awaited(c, version)' <=> Awaited(c, version)
                         /\ Has(c, version)' <=> Has(c, version)
  <2>1. ledger \in [Ids -> 0 .. 2] /\ ledger' = ledger
    BY <1>0, <1>2 DEF LogInv, HubTyped
  <2>2. \A c \in Ids : ledger[c] <= ledger[c]
    BY <2>1
  <2>3. UNCHANGED <<cast, life, pageVars>>
    BY <1>2 DEF vars
  <2> QED
    BY <1>0, <2>1, <2>2, <2>3, PageUntouched
<1>5. ShownInv'
  <2>1. RowsOf(view) \cup view.trimmed \subseteq RowsOf(view') \cup view'.trimmed
    BY <1>1
  <2> QED
    BY <1>0, <1>1, <1>2, <1>3, <1>4, <2>1, ShownLater
<1>6. FreshInv'
  BY <1>0, <1>1, <1>2, <1>4, FreshKept DEF Logged, hubVars
<1> QED
  BY <1>0, <1>2, <1>3, <1>4, <1>5, <1>6 DEF PageInv

LEMMA DeliveryStutters ==
    ASSUME DeliveryInv, UNCHANGED vars
    PROVE  DeliveryInv'
<1>1. SideInv' /\ HubTyped'
  BY SideStutters DEF DeliveryInv, SideInv
<1>2. RetryInv'
  BY DEF DeliveryInv, RetryInv, RetryDue, Step, vars, ledgerVars, streamVars, pageVars
<1>3. CASE client = "sidecar" /\ PageIdle
  BY <1>1, <1>2, <1>3 DEF DeliveryInv, PageIdle, vars, ledgerVars, streamVars, pageVars, NoStream, EmptyView
<1>4. CASE PageInv
  BY <1>1, <1>2, <1>4, PageStutters DEF DeliveryInv
<1> QED
  BY <1>3, <1>4 DEF DeliveryInv

LEMMA DeliveryInvariant == Spec => []DeliveryInv
<1>1. DeliveryInv /\ [Next]_vars => DeliveryInv'
  BY DeliveryGoesOn, DeliveryStutters
<1> QED
  BY <1>1, DeliveryStarts, PTL DEF Spec

-----------------------------------------------------------------------------
(* What the page shows. *)

\* A page that has caught up: its stream is of the hub it knows, and nothing
\* that is due is still to come.
LEMMA CaughtUp ==
    ASSUME PageInv, Quiet, ~missed
    PROVE  /\ LogInv /\ ListInv /\ AwaitsInv
           /\ session = life /\ DueInv /\ ChatInv /\ LegendInv
           /\ \A c, version : ~Coming(c, version)
           /\ \A k \in 1 .. Len(chatLog) : chatLog[k].id <= Seen
<1>1. /\ LogInv /\ ListInv /\ AwaitsInv /\ ConnInv /\ WireInv /\ SyncInv /\ ShownInv
      /\ Attached /\ wire = <<>> /\ ~Swapping
  BY DEF PageInv, Quiet, Swapping
<1>2. \A i \in 1 .. Len(wire) : FALSE
  BY <1>1
<1>3. session = life
  BY <1>1 DEF WireInv, Attached
<1>4. \A c, version : ~Coming(c, version)
  BY <1>1, <1>2 DEF Coming, OnWire
<1>5. ASSUME NEW k \in 1 .. Len(chatLog) PROVE chatLog[k].id <= Seen
  <2>1. chatLog[k] \in LogEntries /\ Seen \in Nat
    BY <1>1, <1>3 DEF LogInv, ConnInv, Seen
  <2>2. ~(chatLog[k].id > Seen)
    BY <1>1, <1>2 DEF SyncInv, Complete
  <2> QED
    BY <2>1, <2>2 DEF LogEntries
<1> QED
  BY <1>1, <1>3, <1>4, <1>5 DEF ShownInv, SyncInv

LEMMA ViewTyped ==
    ASSUME DeliveryInv
    PROVE  /\ ViewInv(view) /\ view.cards \in [Ids -> 0 .. 2] /\ view.list \in Seq(PageRows)
           /\ Rows = RowsOf(view) /\ Held = CardsOf(view)
           /\ \A c \in Ids : view.cards[c] \in 0 .. 2
<1>1. ViewInv(view)
  BY EmptyViewShape DEF DeliveryInv, PageIdle, PageInv, ListInv
<1>2. view.cards \in [Ids -> 0 .. 2] /\ view.list \in Seq(PageRows)
  BY <1>1 DEF ViewInv, ViewShape, Views
<1>3. DOMAIN view.list = 1 .. Len(view.list)
  BY <1>2
<1> QED
  BY <1>1, <1>2, <1>3 DEF Rows, RowsOf, Held, CardsOf

LEMMA IdleNotQuiet ==
    ASSUME PageIdle
    PROVE  ~Quiet
  BY DEF PageIdle, Quiet, Attached, Open, NoStream

\* The variables of both clients keep their types and bounds.  The list has no
\* more than its limit, and one child for each permission: it is not trimmed
\* when one leaves the stack for it (messages.js trimMessages, permission.js).
THEOREM DeliveryTypeCorrect == Spec => []DeliveryTypeOK
<1>1. ASSUME DeliveryInv PROVE DeliveryTypeOK
  <2>1. SidecarTypeOK
    BY <1>1 DEF DeliveryInv, SideInv, SidecarTypeOK
  <2>2. /\ view.cards \in [Ids -> 0 .. 2] /\ Len(view.list) \in Nat
        /\ Len(view.list) <= DomLimit + Cardinality(PermissionIds)
    <3>1. ViewInv(view) /\ view.cards \in [Ids -> 0 .. 2] /\ Len(view.list) \in Nat
      BY <1>1, ViewTyped
    <3>2. view.held \in SUBSET PermissionIds
      BY <3>1 DEF ViewInv, ViewShape, Views
    <3>3. Cardinality(view.held) \in Nat /\ Cardinality(PermissionIds) \in Nat /\ DomLimit \in Nat
      BY <3>2, HeldFew, PageAssumption
    <3>4. Len(view.list) + Cardinality(view.held) <= DomLimit + Cardinality(PermissionIds)
      BY <3>1 DEF ViewInv
    <3> QED
      BY <3>1, <3>3, <3>4
  <2>3. timers \in Nat
    BY <1>1 DEF DeliveryInv, RetryInv
  <2>4. CASE PageIdle
    BY <2>1, <2>2, <2>3, <2>4, FanoutAssumption, PageAssumption DEF PageIdle, DeliveryTypeOK, PageTypeOK
  <2>5. CASE PageInv
    <3>1. LogInv /\ ConnInv /\ AwaitsInv
      BY <2>5 DEF PageInv
    <3>2. /\ session \in 0 .. MaxLives /\ lastSeen \in Nat /\ bus \in 1 .. MaxLives
          /\ drops \in 0 .. MaxDrops /\ legend \in {"absent", "off", "on"}
      BY <3>1, FanoutAssumption DEF LogInv, HubTyped, ConnInv
    <3> QED
      BY <2>1, <2>2, <2>3, <3>1, <3>2 DEF AwaitsInv, DeliveryTypeOK, PageTypeOK
  <2> QED
    BY <1>1, <2>4, <2>5 DEF DeliveryInv
<1> QED
  BY <1>1, DeliveryInvariant, PTL

\* The maps and the list agree, in whatever order cards come, change and are
\* trimmed: a card is in a map exactly while it is in the list or in the stack,
\* and never twice (messages.js trimMessages, permission.js, main.js).
THEOREM CardsAlwaysInPage == Spec => []CardsInPage
<1>1. ASSUME DeliveryInv PROVE CardsInPage
  <2>1. ViewShape(view) /\ Rows = RowsOf(view) /\ Held = CardsOf(view) /\ view.list \in Seq(PageRows)
    BY <1>1, ViewTyped DEF ViewInv
  <2>2. IsInjective(view.list)
    BY <2>1 DEF ViewShape, Distinct, IsInjective
  <2> QED
    BY <2>1, <2>2 DEF ViewShape, CardsInPage
<1> QED
  BY <1>1, DeliveryInvariant, PTL

\* A page that has caught up shows every card as the ledger has it, but for one
\* that an answer of an earlier hub left pending: replay, hydration, the loads
\* and live entries may come in any order and again (streams.ts handleStream,
\* main.js handleEvent, kind-renderer.js loadAllPending).
THEOREM CardsAlwaysAgree == Spec => []CardsAgree
<1>1. ASSUME DeliveryInv PROVE CardsAgree
  <2> SUFFICES ASSUME Quiet, ~missed, NEW c \in Held \ unsent,
                      ~(c \in stale /\ view.cards[c] = 1), CardRow(c) \notin view.trimmed
               PROVE  view.cards[c] = ledger[c]
    BY DEF CardsAgree, Agrees
  <2>1. PageInv
    BY <1>1, IdleNotQuiet DEF DeliveryInv
  <2>2. LogInv /\ ListInv /\ DueInv /\ \A d, version : ~Coming(d, version)
    BY <2>1, CaughtUp
  <2>3. c \in Ids /\ view.cards[c] > 0 /\ view.cards[c] \in 0 .. 2 /\ c \notin unsent
    BY <1>1, ViewTyped DEF Held
  <2>4. view.cards[c] <= ledger[c] /\ ledger[c] \in 0 .. 2
    BY <2>2, <2>3 DEF ListInv, LogInv, HubTyped
  <2>5. ASSUME ledger[c] = 2, view.cards[c] = 1 PROVE view.cards[c] >= 2
    <3>1. Sent(c, 2) /\ Wanted(c, 2)
      BY <2>3, <2>5 DEF Sent, Wanted
    <3>2. Has(c, 2)
      BY <2>2, <2>3, <3>1 DEF DueInv, Due
    <3> QED
      BY <3>2 DEF Has
  <2> QED
    BY <2>3, <2>4, <2>5
<1> QED
  BY <1>1, DeliveryInvariant, PTL

\* Once the pending items of a kind were loaded from the hub that runs, every
\* pending one of the kind has its card, whatever fell between the load and the
\* stream (kind-renderer.js loadAllPending, main.js bootstrap).
THEOREM PendingAlwaysShown == Spec => []PendingShown
<1>1. ASSUME DeliveryInv PROVE PendingShown
  <2> SUFFICES ASSUME Quiet, ~missed, NEW kind \in loaded, NEW c \in OfKind(kind) \ unsent, ledger[c] = 1
               PROVE  c \in Held \/ CardRow(c) \in view.trimmed
    BY DEF PendingShown
  <2>1. PageInv
    BY <1>1, IdleNotQuiet DEF DeliveryInv
  <2>2. AwaitsInv /\ DueInv /\ \A d, version : ~Coming(d, version)
    BY <2>1, CaughtUp
  <2>3. kind \in ToSet(KindSteps)
    BY <2>2 DEF AwaitsInv
  <2>4. c \in Ids /\ view.cards[c] \in 0 .. 2
    BY <1>1, <2>3, KindIds, ViewTyped
  <2>5. Sent(c, 1) /\ Wanted(c, 1)
    BY <2>3 DEF Sent, Wanted
  <2>6. Has(c, 1)
    BY <2>2, <2>4, <2>5 DEF DueInv, Due
  <2> QED
    BY <2>4, <2>6 DEF Has, Held
<1> QED
  BY <1>1, DeliveryInvariant, PTL

\* Of a hub's chat log every message is shown, once and in order, however often
\* the stream broke (main.js handleEvent, streams.ts handleStream).
THEOREM ChatAlwaysShown == Spec => []ChatShown
<1>1. ASSUME DeliveryInv PROVE ChatShown
  <2>1. /\ ViewInv(view) /\ view.list \in Seq(PageRows) /\ Rows = RowsOf(view)
        /\ DOMAIN view.list = 1 .. Len(view.list)
    BY <1>1, ViewTyped
  <2>2. ASSUME NEW i \in DOMAIN view.list, view.list[i].life = life, view.list[i].id > 0,
               NEW j \in DOMAIN view.list, view.list[j].life = life, view.list[j].id > 0, i < j
        PROVE  view.list[i].id < view.list[j].id
    <3>1. view.list[i].life < view.list[j].life
          \/ (view.list[i].life = view.list[j].life /\ view.list[i].id < view.list[j].id)
      BY <2>1, <2>2 DEF ViewInv, ViewShape, ChatInOrder
    <3>2. life \in Nat
      BY <1>1 DEF DeliveryInv, SideInv, HubTyped
    <3> QED
      BY <2>2, <3>1, <3>2
  <2>3. ASSUME Quiet, ~missed, NEW i \in DOMAIN chatLog, chatLog[i].subject \in Messages
        PROVE  [subject |-> chatLog[i].subject, life |-> life, id |-> chatLog[i].id] \in Rows \cup view.trimmed
    <3>1. PageInv
      BY <1>1, <2>3, IdleNotQuiet DEF DeliveryInv
    <3>2. LogInv /\ ChatInv /\ \A k \in 1 .. Len(chatLog) : chatLog[k].id <= Seen
      BY <2>3, <3>1, CaughtUp
    <3>3. i \in 1 .. Len(chatLog)
      BY <2>3, <3>2 DEF LogInv
    <3>4. MessageRow(chatLog[i]) \in RowsOf(view) \cup view.trimmed
      BY <2>3, <3>2, <3>3 DEF ChatInv
    <3> QED
      BY <2>1, <3>4 DEF MessageRow
  <2> QED
    BY <2>2, <2>3 DEF ChatShown
<1> QED
  BY <1>1, DeliveryInvariant, PTL

\* A page that has caught up never shows an agent as connected that is not,
\* whatever roster, presence and broken streams crossed (roster.js
\* applyPresence, markAllOffline).
THEOREM LegendAlwaysHonest == Spec => []LegendHonest
<1>1. ASSUME DeliveryInv PROVE LegendHonest
  <2> SUFFICES ASSUME Quiet, ~missed, legend = "on" PROVE agent = "online"
    BY DEF LegendHonest
  <2>1. PageInv /\ wire = <<>>
    BY <1>1, IdleNotQuiet DEF DeliveryInv, Quiet
  <2>2. LegendInv
    BY <2>1, CaughtUp
  <2>3. ~LastTrue(wire, agent)
    BY <2>1 DEF LastTrue
  <2> QED
    BY <2>2, <2>3 DEF LegendInv
<1> QED
  BY <1>1, DeliveryInvariant, PTL
=============================================================================
