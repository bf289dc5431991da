-------------------------- MODULE ReviewToolsProofs --------------------------
(***************************************************************************)
(* TLAPS proofs about ReviewTools, for every limit, every file, directory, *)
(* tree and change list: a reviewer that follows the hints believes of the *)
(* snapshot only what is so and can know of what it was not shown, and an  *)
(* encoded answer fits its frame.                                          *)
(*                                                                         *)
(* The argument goes from positions to lines.  A line starts behind as     *)
(* many feeds as there are lines before it (SkipIs, SkipAt), so a slice of *)
(* a file that starts with one of its lines has its lines (SliceLines), up *)
(* to the one it breaks off in.  A window is such a slice, what is trimmed *)
(* off it is blank (ReadIs), and the frame cuts it to a shorter one        *)
(* (EncodeIs, AnswerIs).  Reading and Listing say how far the reviewer is. *)
(* What other proofs would take by induction is taken here by a least      *)
(* counterexample (Least).                                                 *)
(***************************************************************************)
EXTENDS ReviewTools, SequenceTheorems, FiniteSetTheorems, WellFoundedInduction, TLAPS

\* What files are made of.
Chars == {"x", "q", "n", "h"}

\* The limits and bounds are numbers.
LEMMA Limits ==
    /\ MaxOutput \in Nat \ {0} /\ Marker \in Nat \ {0} /\ MaxEntries \in Nat \ {0}
    /\ MaxMatches \in Nat \ {0} /\ MaxScan \in Nat \ {0} /\ MaxPreamble \in Nat \ {0}
    /\ Budget \in Nat \ {0} /\ MaxFile \in Nat \ {0} /\ MaxNames \in Nat \ {0}
    /\ MaxName \in Nat \ {0} /\ MaxHits \in Nat \ {0} /\ MaxName <= MaxOutput
  BY ReviewAssumption

-----------------------------------------------------------------------------
(* Numbers *)

\* A set of numbers has a least one.
LEMMA Least ==
    ASSUME NEW T \in SUBSET Nat, T # {}
    PROVE  \E x \in T : \A y \in T : x <= y
  <1> DEFINE R == {ss \in Nat \X Nat : ss[1] < ss[2]}
  <1>1. IsWellFoundedOn(R, Nat)
    BY NatLessThanWellFounded DEF OpToRel
  <1> HIDE DEF R
  <1>2. PICK x \in T : \A y \in T : ~(<<y, x>> \in R)
    BY <1>1, WFMin
  <1>3. ASSUME NEW y \in T PROVE x <= y
    <2>1. ~(y < x)
      BY <1>2 DEF R
    <2> QED
      BY <2>1
  <1> QED
    BY <1>3

\* Min is what it says.
LEMMA MinIs ==
    ASSUME NEW T \in SUBSET Nat, T # {}
    PROVE  Min(T) \in T /\ \A y \in T : Min(T) <= y
  <1>1. PICK x \in T : \A y \in T : x <= y
    BY Least
  <1> QED
    BY <1>1 DEF Min

\* Max is what it says, of a set with a bound.
LEMMA MaxIs ==
    ASSUME NEW n \in Nat, NEW T \in SUBSET (0 .. n), T # {}
    PROVE  Max(T) \in T /\ \A y \in T : Max(T) >= y
  <1> DEFINE D == {d \in 0 .. n : n - d \in T}
  <1>1. D \in SUBSET Nat /\ D # {}
    <2>1. PICK y \in T : TRUE
      OBVIOUS
    <2>2. n - y \in 0 .. n /\ n - (n - y) = y
      OBVIOUS
    <2>3. n - y \in D
      BY <2>2
    <2>4. D \in SUBSET Nat
      OBVIOUS
    <2> HIDE DEF D
    <2> QED
      BY <2>3, <2>4
  <1>2. PICK d \in D : \A e \in D : d <= e
    BY <1>1, Least
  <1>3. n - d \in T
    OBVIOUS
  <1>4. ASSUME NEW y \in T PROVE n - d >= y
    <2>1. n - y \in 0 .. n /\ n - (n - y) = y
      OBVIOUS
    <2>2. d <= n - y
      BY <2>1, <1>2
    <2> QED
      BY <2>2
  <1> QED
    BY <1>3, <1>4 DEF Max

-----------------------------------------------------------------------------
(* Line feeds and where lines start *)

\* The feeds before a position grow by the one behind it.
LEMMA FeedsStep ==
    ASSUME NEW data \in Seq(Chars)
    PROVE  /\ \A p \in Nat : Feeds(data, p) \in Nat
           /\ Feeds(data, 0) = 0
           /\ \A p \in 0 .. Len(data) - 1 :
                 Feeds(data, p + 1) = Feeds(data, p) + (IF data[p + 1] = "n" THEN 1 ELSE 0)
  <1> DEFINE F(p) == {i \in DOMAIN data : i <= p /\ data[i] = "n"}
  <1>1. Len(data) \in Nat /\ DOMAIN data = 1 .. Len(data)
    BY LenProperties
  <1>2. ASSUME NEW p \in Nat PROVE IsFiniteSet(F(p)) /\ Feeds(data, p) = Cardinality(F(p))
    <2>1. IsFiniteSet(1 .. Len(data)) /\ F(p) \in SUBSET (1 .. Len(data))
      BY <1>1, FS_Interval
    <2> QED
      BY <2>1, FS_Subset DEF Feeds
  <1>3. ASSUME NEW p \in Nat PROVE Feeds(data, p) \in Nat
    BY <1>2, FS_CardinalityType
  <1>4. Feeds(data, 0) = 0
    <2>1. F(0) = {}
      BY <1>1
    <2> QED
      BY <2>1, <1>2, FS_EmptySet
  <1>5. ASSUME NEW p \in 0 .. Len(data) - 1
        PROVE  Feeds(data, p + 1) = Feeds(data, p) + (IF data[p + 1] = "n" THEN 1 ELSE 0)
    <2>1. p \in Nat /\ p + 1 \in Nat /\ p + 1 \in 1 .. Len(data)
      BY <1>1
    <2>2. CASE data[p + 1] = "n"
      <3>1. F(p + 1) = F(p) \cup {p + 1} /\ p + 1 \notin F(p)
        BY <1>1, <2>1, <2>2
      <3>2. IsFiniteSet(F(p)) /\ Feeds(data, p) = Cardinality(F(p))
            /\ Feeds(data, p + 1) = Cardinality(F(p + 1))
        BY <2>1, <1>2
      <3> HIDE DEF F
      <3> QED
        BY <3>1, <3>2, <2>2, FS_AddElement
    <2>3. CASE data[p + 1] # "n"
      <3>1. F(p + 1) = F(p)
        BY <1>1, <2>1, <2>3
      <3>2. Feeds(data, p) = Cardinality(F(p)) /\ Feeds(data, p) \in Nat
            /\ Feeds(data, p + 1) = Cardinality(F(p + 1))
        BY <2>1, <1>2, <1>3
      <3> HIDE DEF F
      <3> QED
        BY <3>1, <3>2, <2>3
    <2> QED
      BY <2>2, <2>3
  <1> QED
    BY <1>3, <1>4, <1>5

\* They grow with the position, and by a feed in between.
LEMMA FeedsGrow ==
    ASSUME NEW data \in Seq(Chars), NEW p \in Nat, NEW q \in Nat, p <= q
    PROVE  /\ Feeds(data, p) <= Feeds(data, q)
           /\ (\E i \in p + 1 .. q : i <= Len(data) /\ data[i] = "n")
                 <=> Feeds(data, p) < Feeds(data, q)
  <1> DEFINE F(r) == {i \in DOMAIN data : i <= r /\ data[i] = "n"}
  <1>1. Len(data) \in Nat /\ DOMAIN data = 1 .. Len(data)
    BY LenProperties
  <1>2. ASSUME NEW r \in Nat
        PROVE  IsFiniteSet(F(r)) /\ Feeds(data, r) = Cardinality(F(r)) /\ Feeds(data, r) \in Nat
    <2>1. IsFiniteSet(1 .. Len(data)) /\ F(r) \in SUBSET (1 .. Len(data))
      BY <1>1, FS_Interval
    <2>2. IsFiniteSet(F(r))
      BY <2>1, FS_Subset
    <2> QED
      BY <2>2, FeedsStep DEF Feeds
  <1>3. F(p) \in SUBSET F(q)
    OBVIOUS
  <1>4. Feeds(data, p) <= Feeds(data, q) /\ (Feeds(data, p) = Feeds(data, q) => F(p) = F(q))
    <2>1. IsFiniteSet(F(q)) /\ Feeds(data, p) = Cardinality(F(p))
          /\ Feeds(data, q) = Cardinality(F(q))
      BY <1>2
    <2> HIDE DEF F
    <2> QED
      BY <2>1, <1>3, FS_Subset
  <1>5. ASSUME NEW i \in p + 1 .. q, i <= Len(data), data[i] = "n"
        PROVE  Feeds(data, p) < Feeds(data, q)
    <2>1. i \in F(q) /\ i \notin F(p)
      BY <1>1, <1>5
    <2>2. Feeds(data, p) # Feeds(data, q)
      BY <2>1, <1>4
    <2>3. Feeds(data, p) \in Nat /\ Feeds(data, q) \in Nat
      BY <1>2
    <2> QED
      BY <2>2, <2>3, <1>4
  <1>6. ASSUME Feeds(data, p) < Feeds(data, q)
        PROVE  \E i \in p + 1 .. q : i <= Len(data) /\ data[i] = "n"
    <2>1. F(p) # F(q)
      <3>1. /\ Feeds(data, p) = Cardinality(F(p)) /\ Feeds(data, p) \in Nat
            /\ Feeds(data, q) = Cardinality(F(q)) /\ Feeds(data, q) \in Nat
        BY <1>2
      <3> HIDE DEF F
      <3> QED
        BY <3>1, <1>6
    <2>2. PICK i \in F(q) : i \notin F(p)
      BY <2>1, <1>3
    <2>3. i \in 1 .. Len(data) /\ i <= q /\ data[i] = "n" /\ ~(i <= p)
      BY <2>2, <1>1
    <2>4. i \in p + 1 .. q
      BY <2>3
    <2> QED
      BY <2>3, <2>4
  <1> QED
    BY <1>4, <1>5, <1>6

\* Skip finds the first position with so many feeds before it.
LEMMA SkipIs ==
    ASSUME NEW data \in Seq(Chars), NEW m \in Nat
    PROVE  /\ Skip(data, m) \in 0 .. Len(data) + 1
           /\ \A p \in 0 .. Len(data) : p < Skip(data, m) => Feeds(data, p) < m
           /\ Skip(data, m) <= Len(data) =>
                 /\ Feeds(data, Skip(data, m)) = m
                 /\ Skip(data, m) # 0 => data[Skip(data, m)] = "n"
           /\ m = 0 => Skip(data, m) = 0
  <1> DEFINE T == {pos \in 0 .. Len(data) + 1 : pos > Len(data) \/ Feeds(data, pos) >= m}
             s == Skip(data, m)
  <1>1. Len(data) \in Nat
    BY LenProperties
  <1>2. T \in SUBSET Nat /\ Len(data) + 1 \in T
    BY <1>1
  <1>3. s \in T /\ \A y \in T : s <= y
    BY <1>2, MinIs DEF Skip
  <1>4. s \in 0 .. Len(data) + 1 /\ s \in Nat
    BY <1>3, <1>1
  <1> HIDE DEF s
  <1>5. ASSUME NEW p \in 0 .. Len(data), p < s PROVE Feeds(data, p) < m
    <2>1. p \notin T
      BY <1>3, <1>4, <1>5
    <2>2. p \in 0 .. Len(data) + 1 /\ ~(p > Len(data)) /\ Feeds(data, p) \in Nat
      BY <1>1, FeedsStep
    <2> QED
      BY <2>1, <2>2
  <1>6. ASSUME s <= Len(data)
        PROVE  Feeds(data, s) = m /\ (s # 0 => data[s] = "n")
    <2>1. Feeds(data, s) >= m /\ Feeds(data, s) \in Nat
      BY <1>3, <1>4, <1>6, <1>1, FeedsStep
    <2>2. CASE s = 0
      BY <2>1, <2>2, FeedsStep
    <2>3. CASE s # 0
      <3>1. s - 1 \in 0 .. Len(data) - 1 /\ s - 1 \in 0 .. Len(data) /\ s - 1 < s
            /\ (s - 1) + 1 = s
        BY <1>4, <1>6, <2>3, <1>1
      <3>2. Feeds(data, s - 1) < m /\ Feeds(data, s - 1) \in Nat
        BY <3>1, <1>5, FeedsStep
      <3>3. Feeds(data, (s - 1) + 1)
                = Feeds(data, s - 1) + (IF data[(s - 1) + 1] = "n" THEN 1 ELSE 0)
        BY <3>1, FeedsStep
      <3>4. Feeds(data, s) = Feeds(data, s - 1) + (IF data[s] = "n" THEN 1 ELSE 0)
        BY <3>3, <3>1
      <3> QED
        BY <3>2, <3>4, <2>1
    <2> QED
      BY <2>2, <2>3
  <1>7. ASSUME m = 0 PROVE s = 0
    <2>1. 0 \in T
      BY <1>1, <1>7, FeedsStep
    <2> QED
      BY <2>1, <1>3, <1>4
  <1> QED
    BY <1>4, <1>5, <1>6, <1>7 DEF s

\* A position behind a feed, or the first, is the start of its line.
LEMMA SkipAt ==
    ASSUME NEW data \in Seq(Chars), NEW p \in 0 .. Len(data), p = 0 \/ data[p] = "n"
    PROVE  Skip(data, Feeds(data, p)) = p
  <1> DEFINE m == Feeds(data, p)
             s == Skip(data, m)
  <1>1. Len(data) \in Nat /\ m \in Nat
    BY LenProperties, FeedsStep
  <1> HIDE DEF m
  <1>2. /\ s \in 0 .. Len(data) + 1
        /\ p < s => m < m
        /\ s <= Len(data) => Feeds(data, s) = m
    BY <1>1, SkipIs DEF m
  <1>3. s <= p /\ s <= Len(data)
    BY <1>1, <1>2
  <1>4. CASE s < p
    <2>1. p \in s + 1 .. p /\ p <= Len(data) /\ data[p] = "n"
      BY <1>1, <1>2, <1>4
    <2>2. Feeds(data, s) < Feeds(data, p)
      BY <2>1, <1>2, <1>3, FeedsGrow
    <2> QED
      BY <2>2, <1>2, <1>3, <1>1 DEF m
  <1> QED
    BY <1>3, <1>4, <1>1, <1>2 DEF m

\* The lines of a file are its feeds and one more.
LEMMA CountIs ==
    ASSUME NEW data \in Seq(Chars)
    PROVE  CountLines(data) = Feeds(data, Len(data)) + 1 /\ CountLines(data) \in Nat \ {0}
  <1>1. Len(data) \in Nat /\ DOMAIN data = 1 .. Len(data)
    BY LenProperties
  <1>2. {i \in DOMAIN data : data[i] = "n"}
           = {i \in DOMAIN data : i <= Len(data) /\ data[i] = "n"}
    BY <1>1
  <1>3. CountLines(data) = Feeds(data, Len(data)) + 1 /\ Feeds(data, Len(data)) \in Nat
    BY <1>1, <1>2, FeedsStep DEF CountLines, Feeds
  <1> QED
    BY <1>3

\* Past the last line there is no start.
LEMMA SkipPast ==
    ASSUME NEW data \in Seq(Chars), NEW m \in Nat
    PROVE  Skip(data, m) <= Len(data) <=> m < CountLines(data)
  <1> DEFINE s == Skip(data, m)
  <1>1. Len(data) \in Nat
    BY LenProperties
  <1>3. CountLines(data) = Feeds(data, Len(data)) + 1 /\ Feeds(data, Len(data)) \in Nat
    BY <1>1, FeedsStep, CountIs
  <1>4. /\ s \in 0 .. Len(data) + 1
        /\ Len(data) < s => Feeds(data, Len(data)) < m
        /\ s <= Len(data) => Feeds(data, s) = m
    BY <1>1, SkipIs
  <1>5. s <= Len(data) => Feeds(data, s) <= Feeds(data, Len(data))
    BY <1>1, <1>4, FeedsGrow
  <1> QED
    BY <1>1, <1>3, <1>4, <1>5

\* Later lines start later.
LEMMA SkipGrows ==
    ASSUME NEW data \in Seq(Chars), NEW m \in Nat, NEW n \in Nat, m <= n
    PROVE  /\ Skip(data, m) <= Skip(data, n)
           /\ m < n /\ Skip(data, m) <= Len(data) => Skip(data, m) < Skip(data, n)
  <1> DEFINE s == Skip(data, m)
             t == Skip(data, n)
  <1>1. Len(data) \in Nat /\ s \in 0 .. Len(data) + 1 /\ t \in 0 .. Len(data) + 1
    BY LenProperties, SkipIs
  <1>2. CASE t <= Len(data)
    <2>1. Feeds(data, t) = n
      BY <1>2, SkipIs
    <2>2. t < s => Feeds(data, t) < m
      BY <1>1, <1>2, SkipIs
    <2>3. s <= t
      BY <1>1, <2>1, <2>2
    <2>4. s <= Len(data) => Feeds(data, s) = m
      BY SkipIs
    <2> QED
      BY <2>1, <2>3, <2>4, <1>1, <1>2
  <1>3. CASE ~(t <= Len(data))
    BY <1>1, <1>3
  <1> QED
    BY <1>2, <1>3

-----------------------------------------------------------------------------
(* Slices of a file and their lines *)

\* A slice of a file.
LEMMA SliceIs ==
    ASSUME NEW data \in Seq(Chars), NEW s \in Nat, NEW e \in s .. Len(data)
    PROVE  /\ SubSeq(data, s + 1, e) \in Seq(Chars)
           /\ Len(SubSeq(data, s + 1, e)) = e - s
           /\ \A i \in 1 .. e - s : SubSeq(data, s + 1, e)[i] = data[s + i]
  <1>1. Len(data) \in Nat /\ \A i \in 1 .. Len(data) : data[i] \in Chars
    BY LenProperties, ElementOfSeq
  <1>2. s + 1 \in Int /\ e \in Int /\ \A i \in s + 1 .. e : data[i] \in Chars
    BY <1>1
  <1>3. /\ SubSeq(data, s + 1, e) \in Seq(Chars)
        /\ Len(SubSeq(data, s + 1, e)) = IF s + 1 <= e THEN e - (s + 1) + 1 ELSE 0
        /\ \A i \in 1 .. e - (s + 1) + 1 : SubSeq(data, s + 1, e)[i] = data[(s + 1) + i - 1]
    BY <1>2, SubSeqProperties
  <1>4. e - (s + 1) + 1 = e - s /\ \A i \in 1 .. e - s : (s + 1) + i - 1 = s + i
    BY <1>1
  <1>5. (IF s + 1 <= e THEN e - (s + 1) + 1 ELSE 0) = e - s
    BY <1>1
  <1> QED
    BY <1>3, <1>4, <1>5

\* A slice of a slice is a slice.
LEMMA SliceOfSlice ==
    ASSUME NEW data \in Seq(Chars), NEW s \in Nat, NEW e \in s .. Len(data),
           NEW a \in 0 .. e - s, NEW b \in a .. e - s
    PROVE  SubSeq(SubSeq(data, s + 1, e), a + 1, b) = SubSeq(data, s + a + 1, s + b)
  <1> DEFINE t == SubSeq(data, s + 1, e)
  <1>1. Len(data) \in Nat
    BY LenProperties
  <1>2. t \in Seq(Chars) /\ Len(t) = e - s /\ \A i \in 1 .. e - s : t[i] = data[s + i]
    BY SliceIs
  <1> HIDE DEF t
  <1>3. a \in Nat /\ b \in a .. Len(t) /\ s + a \in Nat /\ s + b \in (s + a) .. Len(data)
    BY <1>1, <1>2
  <1>4. /\ SubSeq(t, a + 1, b) \in Seq(Chars)
        /\ Len(SubSeq(t, a + 1, b)) = b - a
        /\ \A i \in 1 .. b - a : SubSeq(t, a + 1, b)[i] = t[a + i]
    BY <1>2, <1>3, SliceIs
  <1>5. /\ SubSeq(data, s + a + 1, s + b) \in Seq(Chars)
        /\ Len(SubSeq(data, s + a + 1, s + b)) = (s + b) - (s + a)
        /\ \A i \in 1 .. (s + b) - (s + a) :
              SubSeq(data, s + a + 1, s + b)[i] = data[(s + a) + i]
    BY <1>3, SliceIs
  <1>6. (s + b) - (s + a) = b - a
    BY <1>1, <1>3
  <1>7. ASSUME NEW i \in 1 .. b - a
        PROVE  SubSeq(t, a + 1, b)[i] = SubSeq(data, s + a + 1, s + b)[i]
    <2>1. a + i \in 1 .. e - s /\ s + (a + i) = (s + a) + i
      BY <1>1, <1>3
    <2>2. t[a + i] = data[(s + a) + i]
      BY <2>1, <1>2
    <2> QED
      BY <2>2, <1>4, <1>5, <1>6
  <1>8. SubSeq(t, a + 1, b) = SubSeq(data, s + a + 1, s + b)
    BY <1>4, <1>5, <1>6, <1>7, SeqEqual
  <1> QED
    BY <1>8 DEF t

\* A line lies between the start of it and that of the next.
LEMMA LineIs ==
    ASSUME NEW data \in Seq(Chars), NEW i \in 1 .. CountLines(data)
    PROVE  /\ i - 1 \in Nat /\ i \in Nat
           /\ Skip(data, i - 1) <= Len(data)
           /\ Skip(data, i - 1) < Skip(data, i)
           /\ NextLine(data, Skip(data, i - 1)).next = Skip(data, i)
           /\ Line(data, i) = SubSeq(data, Skip(data, i - 1) + 1, Skip(data, i) - 1)
           /\ Line(data, i) \in Seq(Chars)
  <1> DEFINE s == Skip(data, i - 1)
             t == Skip(data, i)
             feeds == {j \in s + 1 .. Len(data) : data[j] = "n"}
  <1>1. Len(data) \in Nat /\ i - 1 \in Nat /\ i \in Nat /\ i - 1 < i
    BY LenProperties
  <1>2. s \in 0 .. Len(data) /\ s \in Nat
    <2>1. CountLines(data) \in Int
      BY CountIs
    <2>2. s <= Len(data)
      BY <1>1, <2>1, SkipPast
    <2> QED
      BY <2>2, <1>1, SkipIs
  <1>3. s < t /\ t \in 0 .. Len(data) + 1
    BY <1>1, <1>2, SkipGrows, SkipIs
  <1>4. Feeds(data, s) = i - 1
    BY <1>1, <1>2, SkipIs
  <1> HIDE DEF s, t
  <1>5. ASSUME feeds = {}
        PROVE  NextLine(data, s).line = SubSeq(data, s + 1, t - 1) /\ NextLine(data, s).next = t
    <2>1. ~(Feeds(data, s) < Feeds(data, Len(data)))
      <3>1. s \in Nat /\ Len(data) \in Nat /\ s <= Len(data)
        BY <1>1, <1>2
      <3> QED
        BY <3>1, <1>5, FeedsGrow
    <2>2. t <= Len(data) => Feeds(data, t) = i /\ Feeds(data, t) <= Feeds(data, Len(data))
      <3> SUFFICES ASSUME t <= Len(data)
                   PROVE  Feeds(data, t) = i /\ Feeds(data, t) <= Feeds(data, Len(data))
        OBVIOUS
      <3>1. Feeds(data, t) = i
        BY <1>1, SkipIs DEF t
      <3>2. t \in Nat
        BY <1>3
      <3> QED
        BY <3>1, <3>2, <1>1, FeedsGrow
    <2>3. Feeds(data, Len(data)) \in Nat
      BY <1>1, FeedsStep
    <2>4. t = Len(data) + 1
      BY <2>1, <2>2, <2>3, <1>3, <1>4, <1>1
    <2>5. NextLine(data, s) = [line |-> SubSeq(data, s + 1, Len(data)), next |-> Len(data) + 1]
      BY <1>5 DEF NextLine
    <2>6. t - 1 = Len(data)
      BY <2>4, <1>1
    <2>7. /\ [line |-> SubSeq(data, s + 1, Len(data)), next |-> Len(data) + 1].line
               = SubSeq(data, s + 1, Len(data))
          /\ [line |-> SubSeq(data, s + 1, Len(data)), next |-> Len(data) + 1].next
               = Len(data) + 1
      OBVIOUS
    <2> QED
      BY <2>4, <2>5, <2>6, <2>7
  <1>6. ASSUME feeds # {}
        PROVE  NextLine(data, s).line = SubSeq(data, s + 1, t - 1) /\ NextLine(data, s).next = t
    <2>1. feeds \in SUBSET Nat
      BY <1>1, <1>2
    <2> DEFINE f == Min(feeds)
    <2>2. f \in feeds /\ \A y \in feeds : f <= y
      BY <2>1, <1>6, MinIs
    <2> HIDE DEF f
    <2>3. f \in s + 1 .. Len(data) /\ data[f] = "n" /\ f - 1 \in Nat /\ s <= f - 1
          /\ f \in 0 .. Len(data) /\ (f - 1) + 1 = f /\ f - 1 \in 0 .. Len(data) - 1
      BY <2>2, <1>1, <1>2
    <2>4. ~(\E j \in s + 1 .. f - 1 : j <= Len(data) /\ data[j] = "n")
      <3> SUFFICES ASSUME NEW j \in s + 1 .. f - 1, j <= Len(data), data[j] = "n" PROVE FALSE
        OBVIOUS
      <3>1. j \in feeds /\ ~(f <= j)
        BY <2>3, <1>1, <1>2
      <3> QED
        BY <3>1, <2>2
    <2>5. Feeds(data, s) = Feeds(data, f - 1)
      <3>1. Feeds(data, s) <= Feeds(data, f - 1) /\ ~(Feeds(data, s) < Feeds(data, f - 1))
        BY <2>3, <2>4, <1>2, FeedsGrow
      <3>2. Feeds(data, s) \in Nat /\ Feeds(data, f - 1) \in Nat
        BY <2>3, <1>2, FeedsStep
      <3> QED
        BY <3>1, <3>2
    <2>6. Feeds(data, (f - 1) + 1)
              = Feeds(data, f - 1) + (IF data[(f - 1) + 1] = "n" THEN 1 ELSE 0)
      BY <2>3, FeedsStep
    <2>7. Feeds(data, f) = i
      BY <2>3, <2>5, <2>6, <1>4, <1>1
    <2>8. t = f
      BY <2>3, <2>7, SkipAt DEF t
    <2>9. NextLine(data, s) = [line |-> SubSeq(data, s + 1, f - 1), next |-> f]
      BY <1>6 DEF NextLine, f
    <2>10. /\ [line |-> SubSeq(data, s + 1, f - 1), next |-> f].line = SubSeq(data, s + 1, f - 1)
          /\ [line |-> SubSeq(data, s + 1, f - 1), next |-> f].next = f
      OBVIOUS
    <2> QED
      BY <2>8, <2>9, <2>10
  <1>7. NextLine(data, s).line = SubSeq(data, s + 1, t - 1) /\ NextLine(data, s).next = t
    BY <1>5, <1>6
  <1>8. SubSeq(data, s + 1, t - 1) \in Seq(Chars)
    <2>1. t - 1 \in s .. Len(data)
      BY <1>1, <1>2, <1>3
    <2> QED
      BY <2>1, <1>2, SliceIs
  <1>9. Line(data, i) = NextLine(data, s).line
    BY DEF Line, s
  <1>10. s <= Len(data)
    BY <1>1, <1>2
  <1>11. Line(data, i) = SubSeq(data, s + 1, t - 1) /\ Line(data, i) \in Seq(Chars)
    BY <1>7, <1>8, <1>9
  <1> QED
    BY <1>1, <1>3, <1>7, <1>10, <1>11 DEF s, t

\* A slice that starts where a line does has the feeds of the file.
LEMMA SliceFeeds ==
    ASSUME NEW data \in Seq(Chars), NEW m \in Nat, Skip(data, m) <= Len(data),
           NEW e \in Skip(data, m) .. Len(data),
           NEW p \in 0 .. e - Skip(data, m)
    PROVE  Feeds(SubSeq(data, Skip(data, m) + 1, e), p) = Feeds(data, Skip(data, m) + p) - m
  <1> DEFINE s == Skip(data, m)
             t == SubSeq(data, s + 1, e)
             T == {q \in 0 .. e - s : Feeds(t, q) # Feeds(data, s + q) - m}
  <1>1. Len(data) \in Nat /\ s \in Nat /\ Feeds(data, s) = m
    BY LenProperties, SkipIs
  <1> HIDE DEF s
  <1>2. e \in s .. Len(data) /\ p \in 0 .. e - s
    BY DEF s
  <1>3. t \in Seq(Chars) /\ Len(t) = e - s /\ \A i \in 1 .. e - s : t[i] = data[s + i]
    BY <1>1, <1>2, SliceIs
  <1> HIDE DEF t
  <1>4. T = {}
    <2> SUFFICES ASSUME T # {} PROVE FALSE
      OBVIOUS
    <2>1. T \in SUBSET Nat
      BY <1>1, <1>2
    <2>2. PICK q \in T : \A y \in T : q <= y
      BY <2>1, Least
    <2> HIDE DEF T
    <2>3. q \in 0 .. e - s /\ Feeds(t, q) # Feeds(data, s + q) - m
      BY DEF T
    <2>4. CASE q = 0
      <3>1. Feeds(t, 0) = 0 /\ s + 0 = s
        BY <1>1, <1>3, FeedsStep
      <3> QED
        BY <2>3, <2>4, <3>1, <1>1
    <2>5. CASE q # 0
      <3>1. q - 1 \in 0 .. e - s /\ ~(q <= q - 1) /\ q - 1 \in 0 .. Len(t) - 1
            /\ (q - 1) + 1 = q /\ s + (q - 1) \in 0 .. Len(data) - 1
            /\ (s + (q - 1)) + 1 = s + q /\ q \in 1 .. e - s /\ q - 1 \in Nat
            /\ s + (q - 1) \in Nat
        BY <2>3, <2>5, <1>1, <1>2, <1>3
      <3>2. q - 1 \notin T
        BY <3>1, <2>2
      <3>3. Feeds(t, q - 1) = Feeds(data, s + (q - 1)) - m
        BY <3>1, <3>2 DEF T
      <3>4. Feeds(t, (q - 1) + 1) = Feeds(t, q - 1) + (IF t[(q - 1) + 1] = "n" THEN 1 ELSE 0)
        BY <3>1, <1>3, FeedsStep
      <3>5. Feeds(data, (s + (q - 1)) + 1) = Feeds(data, s + (q - 1))
                + (IF data[(s + (q - 1)) + 1] = "n" THEN 1 ELSE 0)
        BY <3>1, FeedsStep
      <3>6. t[q] = data[s + q]
        BY <3>1, <1>3
      <3>7. Feeds(data, s + (q - 1)) \in Nat
        BY <3>1, FeedsStep
      <3>8. Feeds(t, q) = Feeds(t, q - 1) + (IF data[s + q] = "n" THEN 1 ELSE 0)
            /\ Feeds(data, s + q) = Feeds(data, s + (q - 1)) + (IF data[s + q] = "n" THEN 1 ELSE 0)
        BY <3>1, <3>4, <3>5, <3>6
      <3> QED
        BY <3>3, <3>7, <3>8, <2>3
    <2> QED
      BY <2>4, <2>5
  <1>5. p \notin T
    BY <1>4
  <1>6. Feeds(t, p) = Feeds(data, s + p) - m
    BY <1>5, <1>2
  <1> QED
    BY <1>6 DEF t, s

\* And its lines start where those of the file do.
LEMMA SliceSkip ==
    ASSUME NEW data \in Seq(Chars), NEW m \in Nat, Skip(data, m) <= Len(data),
           NEW e \in Skip(data, m) .. Len(data), NEW k \in Nat
    PROVE  Skip(SubSeq(data, Skip(data, m) + 1, e), k)
             = IF Skip(data, m + k) <= e THEN Skip(data, m + k) - Skip(data, m)
               ELSE e - Skip(data, m) + 1
  <1> DEFINE s == Skip(data, m)
             t == SubSeq(data, s + 1, e)
             u == Skip(data, m + k)
  <1>1. Len(data) \in Nat /\ s \in Nat /\ Feeds(data, s) = m /\ m + k \in Nat
    BY LenProperties, SkipIs
  <1>2. u \in 0 .. Len(data) + 1 /\ s <= u
    <2>1. m <= m + k
      BY <1>1
    <2> QED
      BY <2>1, <1>1, SkipIs, SkipGrows
  <1>3. e \in s .. Len(data)
    OBVIOUS
  <1>4. t \in Seq(Chars) /\ Len(t) = e - s /\ \A i \in 1 .. e - s : t[i] = data[s + i]
    BY <1>1, <1>3, SliceIs
  <1>5. \A p \in 0 .. e - s : Feeds(t, p) = Feeds(data, s + p) - m
    BY <1>1, SliceFeeds
  <1> HIDE DEF s, t, u
  <1>6. ASSUME u <= e PROVE Skip(t, k) = u - s
    <2>1. Feeds(data, u) = m + k /\ (u # 0 => data[u] = "n")
      <3>1. u <= Len(data)
        BY <1>6, <1>1, <1>2, <1>3
      <3> QED
        BY <3>1, <1>1, SkipIs DEF u
    <2>2. u - s \in 0 .. e - s /\ s + (u - s) = u /\ u - s \in 0 .. Len(t)
      BY <1>1, <1>2, <1>3, <1>4, <1>6
    <2>3. Feeds(t, u - s) = k
      <3>1. Feeds(t, u - s) = (m + k) - m
        BY <2>1, <2>2, <1>5
      <3> QED
        BY <3>1
    <2>4. u - s = 0 \/ t[u - s] = "n"
      <3>1. CASE u - s # 0
        <4>1. u - s \in 1 .. e - s /\ u # 0
          BY <2>2, <3>1, <1>1, <1>2
        <4> QED
          BY <4>1, <2>1, <2>2, <1>4
      <3> QED
        BY <3>1
    <2>5. Skip(t, Feeds(t, u - s)) = u - s
      BY <2>2, <2>4, <1>4, SkipAt
    <2> QED
      BY <2>3, <2>5
  <1>7. ASSUME ~(u <= e) PROVE Skip(t, k) = e - s + 1
    <2>1. Feeds(data, e) < m + k
      <3>1. e \in 0 .. Len(data) /\ e < u
        BY <1>1, <1>2, <1>3, <1>7
      <3> QED
        BY <3>1, <1>1, SkipIs DEF u
    <2>2. e - s \in 0 .. e - s /\ s + (e - s) = e /\ e \in Nat /\ Len(t) \in Nat
      BY <1>1, <1>3, <1>4
    <2>3. Feeds(t, Len(t)) = Feeds(data, e) - m /\ Feeds(data, e) \in Nat
      BY <2>2, <1>4, <1>5, FeedsStep
    <2>4. Feeds(t, Len(t)) < k
      BY <2>1, <2>3
    <2>5. /\ Skip(t, k) \in 0 .. Len(t) + 1
          /\ Skip(t, k) <= Len(t) => Feeds(t, Skip(t, k)) = k
      BY <1>4, SkipIs
    <2>6. Skip(t, k) <= Len(t) => Feeds(t, Skip(t, k)) <= Feeds(t, Len(t))
      BY <2>2, <2>5, <1>4, FeedsGrow
    <2>7. Feeds(t, Len(t)) \in Nat
      BY <2>2, <1>4, FeedsStep
    <2>8. Skip(t, k) = Len(t) + 1
      BY <2>4, <2>5, <2>6, <2>7, <2>2
    <2> QED
      BY <2>8, <1>4
  <1> QED
    BY <1>6, <1>7 DEF s, t, u

\* The first lines of a text are those after line m.
SameLines(data, m, t, n) == \A j \in 1 .. n : Line(t, j) = Line(data, m + j)

\* The lines of a slice that starts with line m + 1 are those of the file, but
\* for the last if it is cut.
LEMMA SliceLines ==
    ASSUME NEW data \in Seq(Chars), NEW m \in Nat, Skip(data, m) <= Len(data),
           NEW e \in Skip(data, m) .. Len(data),
           NEW t, t = SubSeq(data, Skip(data, m) + 1, e)
    PROVE  /\ t \in Seq(Chars) /\ Len(t) = e - Skip(data, m)
           /\ CountLines(t) \in Nat \ {0}
           /\ CountLines(t) = Feeds(data, e) - m + 1
           /\ m + CountLines(t) <= CountLines(data)
           /\ e < Skip(data, m + CountLines(t))
           /\ SameLines(data, m, t, CountLines(t) - 1)
           /\ e = Len(data) \/ data[e + 1] = "n" => SameLines(data, m, t, CountLines(t))
  <1> DEFINE s == Skip(data, m)
             c == CountLines(t)
  <1>1. Len(data) \in Nat /\ s \in Nat /\ s <= Len(data)
    BY LenProperties, SkipIs
  <1>2. e \in s .. Len(data) /\ e \in Nat
    BY <1>1
  <1>3. t \in Seq(Chars) /\ Len(t) = e - s
    BY <1>1, <1>2, SliceIs
  <1>4. \A k \in Nat : Skip(t, k) = IF Skip(data, m + k) <= e THEN Skip(data, m + k) - s
                                    ELSE e - s + 1
    BY SliceSkip
  <1>5. c = Feeds(data, e) - m + 1 /\ c \in Nat \ {0}
    <2>1. e - s \in 0 .. e - s /\ s + (e - s) = e
      BY <1>1, <1>2
    <2>2. Feeds(t, e - s) = Feeds(data, s + (e - s)) - m
      BY <2>1, SliceFeeds
    <2>3. Feeds(t, Len(t)) = Feeds(data, e) - m
      BY <2>1, <2>2, <1>3
    <2> QED
      BY <2>3, <1>3, CountIs
  <1>6. m + c <= CountLines(data)
    <2>1. Feeds(data, e) <= Feeds(data, Len(data))
      BY <1>1, <1>2, FeedsGrow
    <2>2. CountLines(data) = Feeds(data, Len(data)) + 1
          /\ Feeds(data, Len(data)) \in Nat /\ Feeds(data, e) \in Nat
      BY <1>1, <1>2, CountIs, FeedsStep
    <2> QED
      BY <2>1, <2>2, <1>5
  <1> HIDE DEF s, c
  <1>7. m + c \in Nat /\ Feeds(data, e) = m + c - 1 /\ Feeds(data, e) \in Nat
    <2>1. Feeds(data, e) \in Nat
      BY <1>2, FeedsStep
    <2> QED
      BY <2>1, <1>5
  <1>8. e < Skip(data, m + c)
    <2> DEFINE u == Skip(data, m + c)
    <2>1. u \in 0 .. Len(data) + 1 /\ (u <= Len(data) => Feeds(data, u) = m + c)
      BY <1>7, SkipIs
    <2>2. u <= e => Feeds(data, u) <= Feeds(data, e)
      BY <2>1, <1>2, FeedsGrow
    <2> HIDE DEF u
    <2>3. ~(u <= e)
      <3> SUFFICES ASSUME u <= e PROVE FALSE
        OBVIOUS
      <3>1. u <= Len(data)
        BY <2>1, <1>1, <1>2
      <3>2. m + c <= m + c - 1
        BY <3>1, <2>1, <2>2, <1>7
      <3> QED
        BY <3>2, <1>5
    <2>4. e < u
      BY <2>1, <2>3, <1>2, <1>1
    <2> QED
      BY <2>4 DEF u
  <1>9. ASSUME NEW j \in 1 .. c, j < c \/ e = Len(data) \/ data[e + 1] = "n"
        PROVE  Line(t, j) = Line(data, m + j)
    <2> DEFINE a == Skip(data, m + (j - 1))
               b == Skip(data, m + j)
    <2>1. j \in Nat /\ j - 1 \in Nat /\ m + j \in 1 .. CountLines(data) /\ m + j \in Nat
          /\ (m + j) - 1 = m + (j - 1) /\ m + (j - 1) \in Nat /\ m <= m + (j - 1)
      BY <1>5, <1>6, CountIs
    <2>2. a < b /\ a <= Len(data) /\ Line(data, m + j) = SubSeq(data, a + 1, b - 1)
      BY <2>1, LineIs
    <2>3. a \in Nat /\ b \in Nat /\ s <= a /\ b <= Len(data) + 1
      <3>1. a \in 0 .. Len(data) + 1 /\ b \in 0 .. Len(data) + 1
        BY <2>1, SkipIs
      <3>2. s <= a
        BY <2>1, SkipGrows DEF s
      <3> QED
        BY <3>1, <3>2, <1>1
    <2>4. Line(t, j) = SubSeq(t, Skip(t, j - 1) + 1, Skip(t, j) - 1)
      BY <1>3, LineIs DEF c
    <2>5. /\ Skip(t, j - 1) = IF a <= e THEN a - s ELSE e - s + 1
          /\ Skip(t, j) = IF b <= e THEN b - s ELSE e - s + 1
      BY <1>4, <2>1
    <2>6. Feeds(data, a) = m + (j - 1) /\ (b <= Len(data) => Feeds(data, b) = m + j)
      BY <2>1, <2>2, SkipIs
    <2>7. a <= e
      <3>1. e < a => Feeds(data, e) < m + (j - 1)
        BY <2>1, <1>1, <1>2, SkipIs
      <3> QED
        BY <3>1, <1>7, <1>2, <2>3, <2>1, <1>5
    <2>8. b - 1 <= e => b <= e \/ b - 1 = e
      BY <2>3, <1>2
    <2>9. b - 1 <= e
      <3>1. CASE j < c
        <4>1. Feeds(data, e) >= m + j
          BY <3>1, <1>7, <2>1, <1>5
        <4>2. e < b => Feeds(data, e) < m + j
          BY <2>1, <1>1, <1>2, SkipIs
        <4> QED
          BY <4>1, <4>2, <1>7, <2>1, <2>3, <1>2
      <3>2. CASE e = Len(data)
        BY <3>2, <2>3, <1>1
      <3>3. CASE j = c /\ e # Len(data) /\ data[e + 1] = "n"
        <4>1. e \in 0 .. Len(data) - 1 /\ e + 1 \in 0 .. Len(data) /\ e + 1 \in Nat
          BY <1>1, <1>2, <3>3
        <4>2. Feeds(data, e + 1) = m + j
          <5>1. Feeds(data, e + 1)
                    = Feeds(data, e) + (IF data[e + 1] = "n" THEN 1 ELSE 0)
            BY <4>1, FeedsStep
          <5> QED
            BY <5>1, <3>3, <1>7, <1>5
        <4>3. Skip(data, Feeds(data, e + 1)) = e + 1
          BY <4>1, <3>3, SkipAt
        <4> QED
          BY <4>2, <4>3, <1>2
      <3> QED
        BY <3>1, <3>2, <3>3, <1>9, <1>5, <2>1
    <2> HIDE DEF a, b
    <2>10. CASE b <= e
      <3>1. a - s \in 0 .. e - s /\ (b - s) - 1 \in (a - s) .. (e - s)
            /\ s + (a - s) + 1 = a + 1 /\ s + ((b - s) - 1) = b - 1
        BY <2>2, <2>3, <2>7, <2>10, <1>1, <1>2
      <3>2. SubSeq(t, (a - s) + 1, (b - s) - 1) = SubSeq(data, s + (a - s) + 1, s + ((b - s) - 1))
        BY <3>1, <1>1, <1>2, SliceOfSlice DEF s
      <3> QED
        BY <3>1, <3>2, <2>2, <2>4, <2>5, <2>7, <2>10
    <2>11. CASE ~(b <= e)
      <3>1. b - 1 = e
        BY <2>8, <2>9, <2>11
      <3>2. a - s \in 0 .. e - s /\ (e - s + 1) - 1 \in (a - s) .. (e - s)
            /\ s + (a - s) + 1 = a + 1 /\ s + ((e - s + 1) - 1) = b - 1
        BY <3>1, <2>2, <2>3, <2>7, <1>1, <1>2
      <3>3. SubSeq(t, (a - s) + 1, (e - s + 1) - 1)
                = SubSeq(data, s + (a - s) + 1, s + ((e - s + 1) - 1))
        BY <3>2, <1>1, <1>2, SliceOfSlice DEF s
      <3> QED
        BY <3>2, <3>3, <2>2, <2>4, <2>5, <2>7, <2>11
    <2> QED
      BY <2>10, <2>11
  <1>10. SameLines(data, m, t, c - 1)
    <2>1. \A j \in 1 .. c - 1 : j \in 1 .. c /\ j < c
      BY <1>5
    <2> QED
      BY <2>1, <1>9 DEF SameLines
  <1>11. ASSUME e = Len(data) \/ data[e + 1] = "n" PROVE SameLines(data, m, t, c)
    BY <1>9, <1>11 DEF SameLines
  <1> QED
    BY <1>3, <1>5, <1>6, <1>8, <1>10, <1>11 DEF s, c

\* A line that starts in a row of feeds is blank.
LEMMA BlankIs ==
    ASSUME NEW data \in Seq(Chars), NEW i \in 1 .. CountLines(data),
           NEW e \in Nat, NEW l \in Nat, l <= Len(data), e <= Skip(data, i - 1),
           Skip(data, i) - 1 <= l, \A j \in e + 1 .. l : data[j] = "n"
    PROVE  Line(data, i) = <<>>
  <1> DEFINE a == Skip(data, i - 1)
             b == Skip(data, i)
  <1>1. i \in Nat /\ i - 1 \in Nat /\ a < b /\ a <= Len(data)
        /\ Line(data, i) = SubSeq(data, a + 1, b - 1)
    BY LineIs
  <1>2. a \in Nat /\ b \in Nat /\ Len(data) \in Nat /\ e <= a /\ b - 1 <= l
        /\ Feeds(data, a) = i - 1
    BY <1>1, SkipIs, LenProperties
  <1>3. \A p \in 0 .. Len(data) : p < b => Feeds(data, p) < i
    BY <1>1, SkipIs
  <1> HIDE DEF a, b
  <1>4. b = a + 1
    <2> SUFFICES ASSUME b # a + 1 PROVE FALSE
      OBVIOUS
    <2>1. a + 1 < b /\ a + 1 \in 0 .. Len(data) /\ a \in 0 .. Len(data) - 1
          /\ a + 1 \in e + 1 .. l
      BY <1>1, <1>2
    <2>2. Feeds(data, a + 1) = Feeds(data, a) + 1
      BY <2>1, FeedsStep
    <2> QED
      BY <2>1, <2>2, <1>2, <1>3, <1>1
  <1>5. a + 1 \in Int /\ b - 1 \in Int /\ b - 1 < a + 1
    BY <1>2, <1>4
  <1> QED
    BY <1>1, <1>5, SubSeqEmpty

-----------------------------------------------------------------------------
(* The window *)

\* What trimming leaves.
LEMMA TrimmedIs ==
    ASSUME NEW text \in Seq(Chars)
    PROVE  \E k \in 0 .. Len(text) :
              /\ Trimmed(text) = SubSeq(text, 1, k)
              /\ \A i \in k + 1 .. Len(text) : text[i] = "n"
              /\ k = 0 \/ text[k] # "n"
  <1> DEFINE K == {0} \cup {i \in DOMAIN text : text[i] # "n"}
  <1>1. Len(text) \in Nat /\ DOMAIN text = 1 .. Len(text)
    BY LenProperties
  <1>2. K \in SUBSET (0 .. Len(text)) /\ K # {}
    BY <1>1
  <1>3. Max(K) \in K /\ \A y \in K : Max(K) >= y
    BY <1>1, <1>2, MaxIs
  <1> DEFINE k == Max(K)
  <1> HIDE DEF k
  <1>4. k \in 0 .. Len(text) /\ (k = 0 \/ text[k] # "n")
    BY <1>1, <1>3 DEF k
  <1>5. ASSUME NEW i \in k + 1 .. Len(text) PROVE text[i] = "n"
    <2>1. i \in DOMAIN text /\ ~(k >= i)
      BY <1>1, <1>4
    <2>2. i \notin K
      BY <2>1, <1>3 DEF k
    <2> QED
      BY <2>1, <2>2
  <1>6. Trimmed(text) = SubSeq(text, 1, k)
    BY DEF Trimmed, k
  <1> QED
    BY <1>4, <1>5, <1>6

\* The lines that are collected exist, and one more would not fit.
LEMMA CollectedIs ==
    ASSUME NEW data \in Seq(Chars), NEW line \in Nat \ {0}, NEW count \in Nat \ {0},
           Skip(data, line - 1) <= Len(data)
    PROVE  /\ Collected(data, line, count) \in 0 .. count
           /\ Collected(data, line, count) > 0 =>
                 Skip(data, line + Collected(data, line, count) - 2) <= Len(data)
           /\ Collected(data, line, count) = 0 =>
                 Skip(data, line - 1) + MaxOutput <= Len(data)
  <1> DEFINE T == {k \in 0 .. count :
                     /\ Skip(data, line - 1 + k) - Skip(data, line - 1) <= MaxOutput
                     /\ k > 0 => Skip(data, line + k - 2) <= Len(data)}
             k == Collected(data, line, count)
  <1>1. Len(data) \in Nat /\ MaxOutput \in Nat /\ line - 1 \in Nat /\ count \in Nat
    BY LenProperties, Limits
  <1>2. Skip(data, line - 1) \in Nat
    BY <1>1, SkipIs
  <1>3. T \in SUBSET (0 .. count) /\ 0 \in T
    <2>1. line - 1 + 0 = line - 1 /\ Skip(data, line - 1) - Skip(data, line - 1) = 0 /\ ~(0 > 0)
      BY <1>1, <1>2
    <2> QED
      BY <2>1, <1>1
  <1>4. k \in T /\ \A y \in T : k >= y
    BY <1>1, <1>3, MaxIs DEF Collected
  <1>5. ASSUME k = 0 PROVE Skip(data, line - 1) + MaxOutput <= Len(data)
    <2>1. 1 \in 0 .. count /\ ~(0 >= 1) /\ line + 1 - 2 = line - 1 /\ line - 1 + 1 = line
          /\ line \in Nat
      BY <1>1
    <2>2. 1 \notin T
      BY <2>1, <1>4, <1>5
    <2>3. ~(Skip(data, line) - Skip(data, line - 1) <= MaxOutput)
      BY <2>1, <2>2
    <2>4. Skip(data, line) \in 0 .. Len(data) + 1
      BY <2>1, SkipIs
    <2> QED
      BY <2>3, <2>4, <1>1, <1>2
  <1> QED
    BY <1>4, <1>5


\* The first lines of a text are those after line m, as they are or blank.
Shows(data, m, text, whole) ==
    \A j \in 1 .. whole :
        m + j <= CountLines(data) =>
            Line(data, m + j) = IF j <= CountLines(text) THEN Line(text, j) ELSE <<>>

\* A window that ends before a feed, or with the file, shows its lines whole,
\* and what is trimmed is blank.
LEMMA WindowShows ==
    ASSUME NEW data \in Seq(Chars), NEW m \in Nat, Skip(data, m) <= Len(data),
           NEW e \in Skip(data, m) .. Len(data), NEW l \in e .. Len(data),
           \A i \in e + 1 .. l : data[i] = "n", e = Len(data) \/ data[e + 1] = "n",
           NEW whole \in Nat, Skip(data, m + whole) - 1 <= l,
           NEW t, t = SubSeq(data, Skip(data, m) + 1, e)
    PROVE  Shows(data, m, t, whole)
  <1> DEFINE c == CountLines(t)
  <1>1. Len(data) \in Nat /\ Skip(data, m) \in Nat /\ CountLines(data) \in Nat
    BY LenProperties, SkipIs, CountIs
  <1>2. /\ c \in Nat \ {0} /\ e < Skip(data, m + c)
        /\ \A j \in 1 .. c : Line(t, j) = Line(data, m + j)
    <2>1. c \in Nat \ {0} /\ e < Skip(data, m + c) /\ SameLines(data, m, t, c)
      BY SliceLines
    <2> QED
      BY <2>1 DEF SameLines
  <1> HIDE DEF c
  <1>3. ASSUME NEW j \in 1 .. whole, m + j <= CountLines(data), ~(j <= c)
        PROVE  Line(data, m + j) = <<>>
    <2>1. j \in Nat /\ m + j \in 1 .. CountLines(data) /\ m + j \in Nat /\ (m + j) - 1 \in Nat
          /\ m + c \in Nat /\ m + c <= (m + j) - 1 /\ m + j <= m + whole /\ m + whole \in Nat
      BY <1>1, <1>2, <1>3
    <2>2. /\ Skip(data, m + c) <= Skip(data, (m + j) - 1)
          /\ Skip(data, m + j) <= Skip(data, m + whole)
      BY <2>1, SkipGrows
    <2>3. /\ Skip(data, m + c) \in Nat /\ Skip(data, (m + j) - 1) \in Nat
          /\ Skip(data, m + j) \in Nat /\ Skip(data, m + whole) \in Nat
      BY <2>1, <1>1, SkipIs
    <2>4. e \in Nat /\ l \in Nat /\ l <= Len(data)
      BY <1>1
    <2>5. e <= Skip(data, (m + j) - 1)
      BY <2>2, <2>3, <2>4, <1>2
    <2>6. Skip(data, m + j) - 1 <= l
      BY <2>2, <2>3, <2>4
    <2> QED
      BY <2>1, <2>4, <2>5, <2>6, BlankIs
  <1>4. ASSUME NEW j \in 1 .. whole, m + j <= CountLines(data)
        PROVE  Line(data, m + j) = IF j <= c THEN Line(t, j) ELSE <<>>
    <2>1. CASE j <= c
      <3>1. j \in 1 .. c
        BY <2>1, <1>2
      <3> QED
        BY <3>1, <2>1, <1>2
    <2>2. CASE ~(j <= c)
      BY <2>2, <1>3, <1>4
    <2> QED
      BY <2>1, <2>2
  <1> QED
    BY <1>4 DEF Shows, c

\* What an answer of read shows: a slice that starts with the line asked for.
\* The lines it counts are there, and without a hint the rest is blank.
LEMMA ReadIs ==
    ASSUME NEW data \in Seq(Chars), NEW line \in Nat \ {0}, NEW count \in Nat \ {0},
           NEW m, m = line - 1, NEW a, a = Read(data, line, count)
    PROVE  /\ m < CountLines(data) => a.ok
           /\ ~(m < CountLines(data)) => a = Nothing
           /\ m < CountLines(data) =>
                 /\ a.hint \in {"none", "more", "partial"} /\ a.at \in Nat
                 /\ a = [ok |-> a.ok, text |-> a.text, hint |-> a.hint, at |-> a.at,
                         truncated |-> a.truncated]
                 /\ Skip(data, m) <= Len(data)
                 /\ \E e \in Skip(data, m) .. Len(data) :
                       a.text = SubSeq(data, Skip(data, m) + 1, e)
                 /\ a.hint = "more" => /\ a.at - line \in Nat \ {0}
                                       /\ Shows(data, m, a.text, a.at - line)
                 /\ a.hint = "none" => \A w \in Nat : Shows(data, m, a.text, w)
  <1> DEFINE s     == Skip(data, m)
             taken == Collected(data, line, count)
             end   == Skip(data, m + taken)
             left  == end <= Len(data)
             hit   == left /\ taken < count
             part  == hit /\ taken = 0
             last  == IF part THEN s + MaxOutput ELSE Min({end, Len(data)})
             text  == Trimmed(SubSeq(data, s + 1, last))
             hint  == IF part THEN "partial" ELSE IF left THEN "more" ELSE "none"
             at    == IF left THEN line + taken ELSE 0
  <1>1. m \in Nat /\ Len(data) \in Nat /\ s \in 0 .. Len(data) + 1 /\ s \in Nat
        /\ MaxOutput \in Nat /\ count \in Nat
    <2>1. m \in Nat /\ MaxOutput \in Nat
      BY Limits
    <2>2. Skip(data, m) \in 0 .. Len(data) + 1
      BY <2>1, SkipIs
    <2> QED
      BY <2>1, <2>2, LenProperties
  <1>2. s <= Len(data) <=> m < CountLines(data)
    BY <1>1, SkipPast
  <1>3. a = IF s > Len(data) THEN Nothing
            ELSE [ok |-> TRUE, text |-> text, truncated |-> hit, hint |-> hint, at |-> at]
    BY DEF Read, After
  <1>4. CASE ~(m < CountLines(data))
    <2>1. s > Len(data)
      BY <1>1, <1>2, <1>4
    <2> QED
      BY <2>1, <1>3, <1>4
  <1>5. CASE m < CountLines(data)
    <2>1. s <= Len(data) /\ ~(s > Len(data))
      BY <1>1, <1>2, <1>5
    <2>2. /\ taken \in 0 .. count /\ taken \in Nat
          /\ taken = 0 => s + MaxOutput <= Len(data)
      BY <2>1, CollectedIs
    <2>3. end \in 0 .. Len(data) + 1 /\ s <= end
          /\ (taken > 0 => s < end) /\ (left /\ end # 0 => data[end] = "n")
      <3>1. m + taken \in Nat /\ m <= m + taken /\ (taken > 0 => m < m + taken)
        BY <1>1, <2>2
      <3>2. end \in 0 .. Len(data) + 1 /\ (end <= Len(data) /\ end # 0 => data[end] = "n")
        BY <3>1, SkipIs
      <3> QED
        BY <3>1, <3>2, <2>1, <1>1, SkipGrows
    <2>4. ~part => last = Min({end, Len(data)}) /\ last \in {end, Len(data)}
                   /\ last <= end /\ last <= Len(data)
      <3>1. {end, Len(data)} \in SUBSET Nat /\ {end, Len(data)} # {}
        BY <2>3, <1>1
      <3>2. /\ Min({end, Len(data)}) \in {end, Len(data)}
            /\ \A y \in {end, Len(data)} : Min({end, Len(data)}) <= y
        BY <3>1, MinIs
      <3> QED
        BY <3>2
    <2>5. last \in s .. Len(data) /\ last \in Nat
      <3>1. CASE part
        BY <3>1, <2>2, <1>1
      <3>2. CASE ~part
        <4> HIDE DEF last
        <4> QED
          BY <3>2, <2>4, <2>3, <2>1, <1>1
      <3> QED
        BY <3>1, <3>2
    <2> HIDE DEF last
    <2> DEFINE raw == SubSeq(data, s + 1, last)
    <2>6. /\ raw \in Seq(Chars) /\ Len(raw) = last - s
          /\ \A i \in 1 .. last - s : raw[i] = data[s + i]
      BY <1>1, <2>5, SliceIs
    <2> HIDE DEF raw
    <2>7. PICK k \in 0 .. Len(raw) : /\ Trimmed(raw) = SubSeq(raw, 1, k)
                                     /\ \A i \in k + 1 .. Len(raw) : raw[i] = "n"
                                     /\ k = 0 \/ raw[k] # "n"
      BY <2>6, TrimmedIs
    <2> DEFINE e == s + k
    <2>8. e \in s .. Len(data) /\ last \in e .. Len(data) /\ k \in 0 .. last - s /\ k \in Nat
      BY <2>5, <2>6, <2>7, <1>1
    <2>9. text = SubSeq(data, s + 1, e)
      <3>1. SubSeq(SubSeq(data, s + 1, last), 0 + 1, k) = SubSeq(data, s + 0 + 1, s + k)
        <4>1. 0 \in 0 .. last - s /\ k \in 0 .. last - s /\ last \in s .. Len(data)
          BY <2>5, <2>8, <1>1
        <4> QED
          BY <4>1, <1>1, SliceOfSlice
      <3>2. 0 + 1 = 1 /\ s + 0 + 1 = s + 1
        BY <1>1
      <3> QED
        BY <3>1, <3>2, <2>7 DEF raw
    <2>10. \A i \in e + 1 .. last : data[i] = "n"
      <3> SUFFICES ASSUME NEW i \in e + 1 .. last PROVE data[i] = "n"
        OBVIOUS
      <3>1. i - s \in k + 1 .. Len(raw) /\ i - s \in 1 .. last - s /\ s + (i - s) = i
        BY <1>1, <2>5, <2>6, <2>8
      <3> QED
        BY <3>1, <2>6, <2>7
    <2>11. e < last => data[e + 1] = "n"
      BY <2>10, <2>8, <2>5, <1>1
    <2>12. a.ok /\ a.text = text /\ a.hint = hint /\ a.at = at
           /\ a = [ok |-> a.ok, text |-> a.text, hint |-> a.hint, at |-> a.at,
                   truncated |-> a.truncated]
      <3> HIDE DEF text, hint, at, hit
      <3> QED
        BY <1>3, <2>1
    <2>13. hint \in {"none", "more", "partial"} /\ at \in Nat
      BY <2>2
    <2>14. a.text = SubSeq(data, s + 1, e)
      BY <2>9, <2>12
    <2> HIDE DEF text, at
    <2>15. ASSUME a.hint = "more"
           PROVE  a.at - line \in Nat \ {0} /\ Shows(data, m, a.text, a.at - line)
      <3>1. left /\ ~part
        BY <2>12, <2>15
      <3>2. taken \in Nat \ {0}
        BY <3>1, <2>2
      <3>3. a.at - line = taken
        BY <3>1, <2>12, <2>2 DEF at
      <3>4. last = end /\ data[last] = "n" /\ s < last
        BY <3>1, <3>2, <2>3, <2>4, <1>1
      <3>5. e < last
        <4> SUFFICES ASSUME ~(e < last) PROVE FALSE
          OBVIOUS
        <4>1. k = last - s /\ k \in 1 .. last - s /\ s + k = last
          BY <3>4, <2>8, <2>5, <1>1
        <4> QED
          BY <4>1, <3>4, <2>6, <2>7
      <3>6. Skip(data, m + taken) - 1 <= last
        BY <3>4, <2>5
      <3>7. data[e + 1] = "n"
        BY <3>5, <2>11
      <3> HIDE DEF e, taken, end, left, part
      <3>8. taken \in Nat
        BY <3>2
      <3>9. Shows(data, m, a.text, taken)
        BY <3>6, <3>7, <3>8, <2>1, <2>8, <2>10, <2>14, <1>1, WindowShows
      <3> QED
        BY <3>9, <3>2, <3>3
    <2>16. ASSUME a.hint = "none", NEW w \in Nat PROVE Shows(data, m, a.text, w)
      <3>1. ~left /\ ~part
        BY <2>12, <2>16
      <3>2. last = Len(data)
        BY <3>1, <2>3, <2>4, <1>1
      <3>3. e = Len(data) \/ data[e + 1] = "n"
        BY <3>2, <2>11, <2>8, <1>1
      <3>4. Skip(data, m + w) - 1 <= last
        <4>1. m + w \in Nat
          BY <1>1
        <4>2. Skip(data, m + w) \in 0 .. Len(data) + 1
          BY <4>1, SkipIs
        <4> QED
          BY <4>2, <3>2, <1>1
      <3> HIDE DEF e
      <3> QED
        BY <3>3, <3>4, <2>1, <2>8, <2>10, <2>14, <1>1, WindowShows
    <2>17. \E e1 \in s .. Len(data) : a.text = SubSeq(data, s + 1, e1)
      <3> HIDE DEF e
      <3> QED
        BY <2>8, <2>14
    <2>18. a.hint \in {"none", "more", "partial"} /\ a.at \in Nat
      BY <2>12, <2>13
    <2> QED
      BY <2>1, <2>12, <2>15, <2>16, <2>17, <2>18, <1>5
  <1> QED
    BY <1>4, <1>5

-----------------------------------------------------------------------------
(* The frame *)

\* The encoded length is a number, and nothing has none.
LEMMA EncodedLenIs ==
    /\ \A text \in Seq(Chars) : EncodedLen(text) \in Nat
    /\ <<>> \in Seq(Chars) /\ EncodedLen(<<>>) = 0
  <1>1. ASSUME NEW text \in Seq(Chars)
        PROVE  EncodedLen(text) \in Nat /\ (Len(text) = 0 => EncodedLen(text) = 0)
    <2> DEFINE E == {i \in DOMAIN text : text[i] \in Escaped}
    <2>1. Len(text) \in Nat /\ DOMAIN text = 1 .. Len(text)
      BY LenProperties
    <2>2. IsFiniteSet(1 .. Len(text)) /\ E \in SUBSET (1 .. Len(text))
      BY <2>1, FS_Interval
    <2>3. IsFiniteSet(E) /\ Cardinality(E) \in Nat
      BY <2>2, FS_Subset, FS_CardinalityType
    <2>4. Len(text) = 0 => Cardinality(E) = 0
      <3>1. Len(text) = 0 => E = {}
        BY <2>1
      <3> QED
        BY <3>1, FS_EmptySet
    <2> HIDE DEF E
    <2>5. EncodedLen(text) = Len(text) + Cardinality(E)
      BY DEF EncodedLen, E
    <2> QED
      BY <2>1, <2>3, <2>4, <2>5
  <1>2. <<>> \in Seq(Chars) /\ Len(<<>>) = 0
    BY EmptySeq
  <1> QED
    BY <1>1, <1>2

\* The frame has room for the marker, and the limit for the frame.
LEMMA FrameIs ==
    /\ MaxFrame \in Nat /\ Marker \in Nat /\ Marker < MaxFrame
    /\ {MaxResponse, Overhead, Fields, WireFields, Html} \subseteq Nat
    /\ MaxFrame + Overhead = MaxResponse /\ WireFields <= Fields /\ Fields <= Overhead
  BY ReviewAssumption DEF MaxFrame

\* An answer that is shortened fits the frame with its hint, and is the answer or
\* says that it is cut.
LEMMA ShortenIs ==
    ASSUME NEW a, a = [ok |-> a.ok, text |-> a.text, hint |-> a.hint, at |-> a.at,
                       truncated |-> a.truncated],
           a.text \in Seq(Chars), NEW b, b = Shorten(a)
    PROVE  /\ EncodedLen(b.text) + Hint(b) <= MaxFrame
           /\ \/ b = a
              \/ /\ b.ok = a.ok /\ b.hint = "frame" /\ b.at = 0
                 /\ \E k \in 0 .. Len(a.text) : b.text = SubSeq(a.text, 1, k)
  <1> DEFINE hint == Hint(a)
             cuts == {k \in 0 .. Len(a.text) : EncodedLen(SubSeq(a.text, 1, k)) <= Available}
             k == Max(cuts)
  <1>1. MaxFrame \in Nat /\ Marker \in Nat /\ Marker < MaxFrame
    BY FrameIs
  <1>2. CASE EncodedLen(a.text) + hint <= MaxFrame
    <2>1. b = a
      BY <1>2 DEF Shorten
    <2> QED
      BY <2>1, <1>2
  <1>3. CASE ~(EncodedLen(a.text) + hint <= MaxFrame)
    <2>1. Len(a.text) \in Nat
      BY LenProperties
    <2>2. 0 \in cuts
      <3>1. SubSeq(a.text, 1, 0) = <<>>
        BY SubSeqEmpty
      <3>2. EncodedLen(SubSeq(a.text, 1, 0)) <= Available
        <4>1. EncodedLen(SubSeq(a.text, 1, 0)) = 0
          BY <3>1, EncodedLenIs
        <4>2. 0 <= Available
          BY <1>1 DEF Available
        <4> QED
          BY <4>1, <4>2
      <3> QED
        BY <3>2, <2>1
    <2>3. cuts \in SUBSET (0 .. Len(a.text)) /\ cuts # {}
      BY <2>2
    <2>4. k \in cuts
      BY <2>1, <2>3, MaxIs
    <2> HIDE DEF k
    <2>5. k \in 0 .. Len(a.text) /\ EncodedLen(SubSeq(a.text, 1, k)) <= Available
      BY <2>4
    <2>6. b = [a EXCEPT !.text = SubSeq(a.text, 1, k), !.hint = "frame", !.at = 0,
                        !.truncated = TRUE]
      BY <1>3 DEF Shorten, k
    <2> DEFINE r == [ok |-> a.ok, text |-> SubSeq(a.text, 1, k), hint |-> "frame",
                     at |-> 0, truncated |-> TRUE]
    <2>7. b = r
      BY <2>6
    <2>8. b.ok = a.ok /\ b.hint = "frame" /\ b.at = 0 /\ b.text = SubSeq(a.text, 1, k)
      <3>1. r.ok = a.ok /\ r.hint = "frame" /\ r.at = 0 /\ r.text = SubSeq(a.text, 1, k)
        OBVIOUS
      <3> HIDE DEF r
      <3> QED
        BY <3>1, <2>7
    <2> HIDE DEF r
    <2>9. SubSeq(a.text, 1, k) \in Seq(Chars)
      <3>1. Len(a.text) \in Nat /\ \A i \in 1 .. Len(a.text) : a.text[i] \in Chars
        BY LenProperties, ElementOfSeq
      <3>2. 1 \in Int /\ k \in Int /\ \A i \in 1 .. k : a.text[i] \in Chars
        BY <3>1, <2>5
      <3> QED
        BY <3>2, SubSeqProperties
    <2>10. EncodedLen(b.text) + Marker <= MaxFrame
      <3>1. EncodedLen(SubSeq(a.text, 1, k)) \in Nat
        BY <2>9, EncodedLenIs
      <3> QED
        BY <3>1, <2>5, <2>8, <1>1 DEF Available, Hint
    <2>11. EncodedLen(b.text) + Hint(b) <= MaxFrame
      BY <2>8, <2>10 DEF Hint
    <2> QED
      BY <2>5, <2>8, <2>11
  <1> QED
    BY <1>2, <1>3

\* The overhead covers the other fields, so such a frame is never refused.
LEMMA EncodeIs ==
    ASSUME NEW a, a = [ok |-> a.ok, text |-> a.text, hint |-> a.hint, at |-> a.at,
                       truncated |-> a.truncated],
           a.text \in Seq(Chars), NEW b, b = Encode(a)
    PROVE  /\ b = Shorten(a)
           /\ EncodedLen(b.text) + Hint(b) <= MaxFrame
           /\ \/ b = a
              \/ /\ b.ok = a.ok /\ b.hint = "frame" /\ b.at = 0
                 /\ \E k \in 0 .. Len(a.text) : b.text = SubSeq(a.text, 1, k)
  <1> DEFINE c == Shorten(a)
  <1>1. /\ EncodedLen(c.text) + Hint(c) <= MaxFrame
        /\ \/ c = a
           \/ /\ c.ok = a.ok /\ c.hint = "frame" /\ c.at = 0
              /\ \E k \in 0 .. Len(a.text) : c.text = SubSeq(a.text, 1, k)
    BY ShortenIs
  <1>2. Fields + JSON(c.text) + Hint(c) <= MaxResponse
    <2>1. JSON(c.text) = EncodedLen(c.text)
      BY DEF JSON, EncodedLen
    <2>2. EncodedLen(c.text) \in Int /\ Hint(c) \in Nat
      <3>1. Hint(c) \in Nat
        BY FrameIs DEF Hint
      <3>2. c.text \in Seq(Chars)
        <4>1. CASE c = a
          BY <4>1
        <4>2. CASE \E k \in 0 .. Len(a.text) : c.text = SubSeq(a.text, 1, k)
          <5>1. PICK k \in 0 .. Len(a.text) : c.text = SubSeq(a.text, 1, k)
            BY <4>2
          <5>2. Len(a.text) \in Nat /\ \A i \in 1 .. Len(a.text) : a.text[i] \in Chars
            BY LenProperties, ElementOfSeq
          <5>3. 1 \in Int /\ k \in Int /\ \A i \in 1 .. k : a.text[i] \in Chars
            BY <5>2
          <5> QED
            BY <5>1, <5>3, SubSeqProperties
        <4> QED
          BY <1>1, <4>1, <4>2
      <3> QED
        BY <3>1, <3>2, EncodedLenIs
    <2> HIDE DEF c
    <2> QED
      BY <1>1, <2>1, <2>2, FrameIs
  <1>3. b = c
    BY <1>2 DEF Encode
  <1> QED
    BY <1>1, <1>3

\* What fits the frame fits the bridge as well, unless there is something in it
\* that HTML escapes.
LEMMA FitsIs ==
    ASSUME NEW a, a.text \in Seq(Chars), EncodedLen(a.text) + Hint(a) <= MaxFrame,
           ~Fits(a)
    PROVE  \E i \in DOMAIN a.text : a.text[i] = "h"
  <1> SUFFICES ASSUME {i \in DOMAIN a.text : a.text[i] = "h"} = {} PROVE FALSE
    OBVIOUS
  <1>1. Cardinality({i \in DOMAIN a.text : a.text[i] = "h"}) = 0
    BY FS_EmptySet
  <1>2. (Html - 1) * 0 = 0 /\ EncodedLen(a.text) \in Nat /\ Hint(a) \in Nat
    BY FrameIs, EncodedLenIs DEF Hint
  <1>3. JSON(a.text) = EncodedLen(a.text)
    BY DEF JSON, EncodedLen
  <1>4. Wire(a.text) = EncodedLen(a.text)
    BY <1>1, <1>2, <1>3 DEF Wire
  <1> QED
    BY <1>2, <1>4, FrameIs DEF Fits

\* What a review_read shows of a file, through the window and the frame.
LEMMA AnswerIs ==
    ASSUME NEW data \in Seq(Chars), NEW line \in Nat \ {0}, NEW count \in Nat \ {0},
           NEW m, m = line - 1, NEW b, b = Encode(Read(data, line, count))
    PROVE  /\ b.hint \in {"none", "more", "partial", "frame"} /\ b.at \in Nat
           /\ b.text \in Seq(Chars)
           /\ EncodedLen(b.text) + Hint(b) <= MaxFrame
           /\ ~(m < CountLines(data)) => b = Nothing
           /\ m < CountLines(data) =>
                 /\ b.ok
                 /\ b.hint = "more" => /\ b.at - line \in Nat \ {0}
                                       /\ Shows(data, m, b.text, b.at - line)
                 /\ b.hint = "none" => \A w \in Nat : Shows(data, m, b.text, w)
                 /\ b.hint = "frame" => Shows(data, m, b.text, CountLines(b.text) - 1)
  <1> DEFINE a == Read(data, line, count)
             s == Skip(data, m)
  <1>1. /\ m < CountLines(data) => a.ok
        /\ ~(m < CountLines(data)) => a = Nothing
        /\ m < CountLines(data) =>
              /\ a.hint \in {"none", "more", "partial"} /\ a.at \in Nat
              /\ a = [ok |-> a.ok, text |-> a.text, hint |-> a.hint, at |-> a.at,
                      truncated |-> a.truncated]
              /\ s <= Len(data)
              /\ \E e \in s .. Len(data) : a.text = SubSeq(data, s + 1, e)
              /\ a.hint = "more" => /\ a.at - line \in Nat \ {0}
                                    /\ Shows(data, m, a.text, a.at - line)
              /\ a.hint = "none" => \A w \in Nat : Shows(data, m, a.text, w)
    BY ReadIs
  <1>2. b = Encode(a) /\ m \in Nat /\ Len(data) \in Nat
    BY LenProperties
  <1> HIDE DEF a
  <1>3. CASE ~(m < CountLines(data))
    <2>1. a = Nothing
      BY <1>1, <1>3
    <2>2. a.text = <<>> /\ a.hint = "none" /\ a.at = 0
      BY <2>1 DEF Nothing
    <2>3. EncodedLen(a.text) + Hint(a) <= MaxFrame
      BY <2>2, EncodedLenIs, FrameIs DEF Hint
    <2>4. b = a
      <3>1. a.text \in Seq(Chars)
        BY <2>2, EncodedLenIs
      <3>2. a = [ok |-> a.ok, text |-> a.text, hint |-> a.hint, at |-> a.at,
                 truncated |-> a.truncated]
        BY <2>1 DEF Nothing
      <3>3. Shorten(a) = a
        BY <2>3 DEF Shorten
      <3> QED
        BY <3>1, <3>2, <3>3, <1>2, EncodeIs
    <2>5. b.hint = "none" /\ b.at = 0 /\ b.text = <<>>
      BY <2>2, <2>4
    <2> QED
      BY <2>1, <2>2, <2>3, <2>4, <2>5, <1>3, EncodedLenIs
  <1>4. CASE m < CountLines(data)
    <2>1. PICK e \in s .. Len(data) : a.text = SubSeq(data, s + 1, e)
      BY <1>1, <1>4
    <2>2. s \in Nat /\ s <= Len(data) /\ e \in s .. Len(data)
      BY <1>1, <1>2, <1>4, SkipIs
    <2>3. a.text \in Seq(Chars) /\ Len(a.text) = e - s
      BY <2>1, <2>2, SliceIs
    <2>4. a = [ok |-> a.ok, text |-> a.text, hint |-> a.hint, at |-> a.at,
               truncated |-> a.truncated]
      BY <1>1, <1>4
    <2>5. /\ EncodedLen(b.text) + Hint(b) <= MaxFrame
          /\ \/ b = a
             \/ /\ b.ok = a.ok /\ b.hint = "frame" /\ b.at = 0
                /\ \E k \in 0 .. Len(a.text) : b.text = SubSeq(a.text, 1, k)
      BY <2>3, <2>4, <1>2, EncodeIs
    <2>6. CASE b = a
      <3>1. /\ b.hint \in {"none", "more", "partial"} /\ b.at \in Nat /\ b.ok
            /\ b.hint = "more" => /\ b.at - line \in Nat \ {0}
                                  /\ Shows(data, m, b.text, b.at - line)
            /\ b.hint = "none" => \A w \in Nat : Shows(data, m, b.text, w)
        BY <2>6, <1>1, <1>4
      <3>2. b.text \in Seq(Chars)
        BY <2>3, <2>6
      <3> QED
        BY <3>1, <3>2, <2>5, <1>4
    <2>7. CASE b # a
      <3>1. b.ok = a.ok /\ b.hint = "frame" /\ b.at = 0
        BY <2>5, <2>7
      <3>2. PICK k \in 0 .. Len(a.text) : b.text = SubSeq(a.text, 1, k)
        BY <2>5, <2>7
      <3>3. s + k \in s .. Len(data) /\ 0 \in 0 .. e - s /\ k \in 0 .. e - s
            /\ s + 0 + 1 = s + 1 /\ 0 + 1 = 1
        BY <3>2, <2>2, <2>3, <1>2
      <3>4. b.text = SubSeq(data, s + 1, s + k)
        <4>1. SubSeq(SubSeq(data, s + 1, e), 0 + 1, k) = SubSeq(data, s + 0 + 1, s + k)
          BY <2>2, <3>3, SliceOfSlice
        <4> QED
          BY <4>1, <3>2, <3>3, <2>1
      <3>5. b.text \in Seq(Chars) /\ CountLines(b.text) \in Nat \ {0}
            /\ SameLines(data, m, b.text, CountLines(b.text) - 1)
        <4> DEFINE f == s + k
        <4>1. f \in s .. Len(data) /\ b.text = SubSeq(data, s + 1, f)
          BY <3>3, <3>4
        <4> DEFINE t == b.text
        <4>2. t = SubSeq(data, Skip(data, m) + 1, f) /\ f \in Skip(data, m) .. Len(data)
              /\ Skip(data, m) <= Len(data) /\ m \in Nat
          BY <4>1, <2>2, <1>2
        <4> HIDE DEF f, t
        <4>3. t \in Seq(Chars) /\ CountLines(t) \in Nat \ {0}
              /\ SameLines(data, m, t, CountLines(t) - 1)
          BY <4>2, SliceLines
        <4> QED
          BY <4>3 DEF t
      <3>6. Shows(data, m, b.text, CountLines(b.text) - 1)
        <4>1. \A j \in 1 .. CountLines(b.text) - 1 : j <= CountLines(b.text)
          BY <3>5
        <4> QED
          BY <4>1, <3>5 DEF SameLines, Shows
      <3>7. b.ok
        BY <3>1, <1>1, <1>4
      <3> QED
        BY <3>1, <3>5, <3>6, <3>7, <2>5, <1>4
    <2> QED
      BY <2>6, <2>7
  <1> QED
    BY <1>3, <1>4

-----------------------------------------------------------------------------
(* Listings *)

\* A function on 1 .. n is a sequence of that length.
LEMMA TableIsSeq ==
    ASSUME NEW S, NEW n \in Nat
    PROVE  [1 .. n -> S] \subseteq Seq(S) /\ \A f \in Seq(S) : DOMAIN f = 1 .. n => Len(f) = n
  <1>1. [1 .. n -> S] \subseteq Seq(S)
    BY SeqDef
  <1>2. ASSUME NEW f \in Seq(S), DOMAIN f = 1 .. n PROVE Len(f) = n
    <2> DEFINE l == Len(f)
    <2>1. l \in Nat /\ 1 .. l = 1 .. n
      BY <1>2, LenProperties
    <2> HIDE DEF l
    <2>2. \A i \in Nat : i \in 1 .. l <=> i \in 1 .. n
      BY <2>1
    <2>3. l = n
      BY <2>1, <2>2
    <2> QED
      BY <2>3 DEF l
  <1> QED
    BY <1>1, <1>2

\* The inputs are sequences of a bounded length.
LEMMA UpToIs ==
    ASSUME NEW S, NEW n \in Nat, NEW f \in UpTo(S, n)
    PROVE  f \in Seq(S) /\ Len(f) \in 0 .. n
  <1>1. PICK k \in 0 .. n : f \in [1 .. k -> S]
    BY DEF UpTo
  <1>2. k \in Nat /\ k \in 0 .. n
    OBVIOUS
  <1> HIDE DEF UpTo
  <1>3. f \in Seq(S) /\ Len(f) = k
    <2>1. [1 .. k -> S] \subseteq Seq(S) /\ \A h \in Seq(S) : DOMAIN h = 1 .. k => Len(h) = k
      BY <1>2, TableIsSeq
    <2>2. f \in Seq(S)
      BY <2>1, <1>1
    <2>3. DOMAIN f = 1 .. k
      BY <1>1
    <2> QED
      BY <2>1, <2>2, <2>3
  <1> QED
    BY <1>2, <1>3

\* No more entries fit than there are.
LEMMA FittingIs ==
    ASSUME NEW ends \in Seq(Nat), NEW offset \in 0 .. Len(ends), NEW most \in Nat,
           NEW room \in Nat
    PROVE  Fitting(ends, offset, most, room) \in 0 .. Len(ends) - offset
  <1> DEFINE T == {k \in 0 .. Len(ends) - offset :
                     k <= most /\ End(ends, offset + k) - End(ends, offset) <= room}
  <1>1. Len(ends) \in Nat /\ offset \in Nat /\ Len(ends) - offset \in Nat
    BY LenProperties
  <1>2. End(ends, offset) \in Nat
    <2>1. offset # 0 => offset \in 1 .. Len(ends)
      BY <1>1
    <2>2. offset # 0 => ends[offset] \in Nat
      BY <2>1, ElementOfSeq
    <2> QED
      BY <2>2 DEF End
  <1>3. 0 \in T
    <2>1. offset + 0 = offset /\ End(ends, offset) - End(ends, offset) = 0
      BY <1>1, <1>2
    <2> QED
      BY <2>1, <1>1
  <1>4. T \in SUBSET (0 .. Len(ends) - offset) /\ T # {}
    BY <1>3
  <1>5. Max(T) \in T
    <2> HIDE DEF T
    <2> QED
      BY <1>1, <1>4, MaxIs
  <1> QED
    BY <1>5 DEF Fitting

\* A page that continues a listing from an offset up to entry n.
Continues(names, offset, a, n) ==
    /\ SubSeq(names, 1, offset) \o a.text = SubSeq(names, 1, n)
    /\ a.hint = "more" => n < Len(names) /\ a.at = n
    /\ a.hint = "none" => n = Len(names)

\* A page continues what has been shown of a listing, and offers to go on
\* unless that is all.
LEMMA PageIs ==
    ASSUME NEW names \in Seq(Nat), NEW offset \in 0 .. Len(names),
           offset < Len(names) \/ names = <<>>, NEW a, a = Page(names, offset)
    PROVE  /\ a.hint \in {"none", "more"}
           /\ \E n \in offset .. Len(names) : Continues(names, offset, a, n)
           /\ a.at \in Nat
  <1> DEFINE shown == Fitting(names, offset, MaxEntries, MaxOutput)
             more  == offset + shown < Len(names)
             n == offset + shown
  <1>1. Len(names) \in Nat /\ offset \in Nat
    BY LenProperties
  <1>2. CASE names = <<>>
    <2>1. a = [Nothing EXCEPT !.ok = TRUE]
      BY <1>2 DEF Page
    <2>2. a.text = <<>> /\ a.hint = "none" /\ a.at = 0
      BY <2>1 DEF Nothing
    <2>3. Len(names) = 0 /\ offset = 0
      BY <1>2, EmptySeq
    <2>4. SubSeq(names, 1, 0) = <<>>
      BY SubSeqEmpty
    <2>5. SubSeq(names, 1, offset) \o a.text = SubSeq(names, 1, 0)
      <3>1. <<>> \o <<>> = <<>>
        BY EmptySeq, ConcatEmptySeq
      <3> QED
        BY <3>1, <2>2, <2>3, <2>4
    <2>6. 0 \in offset .. Len(names) /\ Continues(names, offset, a, 0)
      BY <2>2, <2>3, <2>5 DEF Continues
    <2> QED
      BY <2>2, <2>6
  <1>3. CASE names # <<>>
    <2>1. shown \in 0 .. Len(names) - offset /\ shown \in Nat
      <3>1. MaxEntries \in Nat /\ MaxOutput \in Nat
        BY Limits
      <3>2. shown \in 0 .. Len(names) - offset
        BY <3>1, FittingIs
      <3> QED
        BY <3>2, <1>1
    <2>2. n \in offset .. Len(names) /\ n \in Nat
      BY <2>1, <1>1
    <2>3. ~(offset >= Len(names))
      BY <1>1, <1>3
    <2>4. a = [ok |-> TRUE, text |-> SubSeq(names, offset + 1, n), truncated |-> more,
               hint |-> IF more THEN "more" ELSE "none", at |-> n]
      BY <2>3, <1>3 DEF Page, After
    <2>5. a.text = SubSeq(names, offset + 1, n) /\ a.at = n
          /\ a.hint = IF more THEN "more" ELSE "none"
      <3> DEFINE r == [ok |-> TRUE, text |-> SubSeq(names, offset + 1, n), truncated |-> more,
                       hint |-> IF more THEN "more" ELSE "none", at |-> n]
      <3>1. r.text = SubSeq(names, offset + 1, n) /\ r.at = n
            /\ r.hint = IF more THEN "more" ELSE "none"
        <4> HIDE DEF n, more
        <4> QED
          OBVIOUS
      <3>2. a = r
        BY <2>4
      <3> HIDE DEF r, n, more
      <3> QED
        BY <3>1, <3>2
    <2>6. SubSeq(names, 1, offset) \o SubSeq(names, offset + 1, n) = SubSeq(names, 1, n)
      <3>1. 1 \in 1 .. Len(names) + 1 /\ offset \in 1 - 1 .. Len(names)
            /\ n \in offset .. Len(names)
        BY <1>1, <2>2
      <3> HIDE DEF n
      <3> QED
        BY <3>1, ConcatAdjacentSubSeq
    <2>7. /\ more <=> n < Len(names)
          /\ ~more => n = Len(names)
      BY <2>2, <1>1
    <2> HIDE DEF more, n
    <2>8. Continues(names, offset, a, n)
      BY <2>5, <2>6, <2>7 DEF Continues
    <2> QED
      BY <2>2, <2>5, <2>8
  <1> QED
    BY <1>2, <1>3

\* The list of changed files has its flag set when it is cut.
LEMMA ChangeListIs ==
    ASSUME NEW changes \in Seq(Nat), NEW a, a = ChangeList(changes)
    PROVE  /\ Len(a.text) < Len(changes) => a.truncated
           /\ a.hint = "none" /\ a.at = 0
  <1> DEFINE shown == Fitting(changes, 0, Len(changes), MaxOutput)
  <1>1. Len(changes) \in Nat
    BY LenProperties
  <1>2. shown \in 0 .. Len(changes)
    <2>1. MaxOutput \in Nat /\ 0 \in 0 .. Len(changes) /\ Len(changes) - 0 = Len(changes)
      BY <1>1, Limits
    <2>2. shown \in 0 .. Len(changes) - 0
      BY <2>1, <1>1, FittingIs
    <2> QED
      BY <2>1, <2>2
  <1> HIDE DEF shown
  <1> DEFINE r == [ok |-> TRUE, text |-> SubSeq(changes, 1, shown),
                   truncated |-> shown < Len(changes), hint |-> "none", at |-> 0]
  <1>3. a = r
    BY DEF ChangeList, shown
  <1>4. a.text = SubSeq(changes, 1, shown) /\ a.truncated = (shown < Len(changes))
        /\ a.hint = "none" /\ a.at = 0
    <2>1. r.text = SubSeq(changes, 1, shown) /\ r.hint = "none" /\ r.at = 0
      OBVIOUS
    <2>2. r.truncated = (shown < Len(changes))
      BY Zenon
    <2> HIDE DEF r
    <2> QED
      BY <1>3, <2>1, <2>2, Zenon
  <1> HIDE DEF r
  <1>5. Len(SubSeq(changes, 1, shown)) = shown
    <2>1. 1 \in Int /\ shown \in Int /\ \A i \in 1 .. shown : changes[i] \in Nat
      <3>1. \A i \in 1 .. Len(changes) : changes[i] \in Nat
        BY ElementOfSeq
      <3> QED
        BY <3>1, <1>1, <1>2
    <2>2. Len(SubSeq(changes, 1, shown)) = IF 1 <= shown THEN shown - 1 + 1 ELSE 0
      BY <2>1, SubSeqProperties
    <2> QED
      BY <2>2, <1>2
  <1> QED
    BY <1>4, <1>5

-----------------------------------------------------------------------------
(* The walk over a tree *)

\* The values that a table of steps goes through.
Follows(f, W, n, a, g) ==
    f \in [0 .. n -> W] /\ f[0] = a /\ \A i \in 1 .. n : f[i] = g[i][f[i - 1]]

\* A table of steps can be followed from any start.
LEMMA Iterates ==
    ASSUME NEW W, NEW n \in Nat, NEW a \in W, NEW g \in [1 .. n -> [W -> W]]
    PROVE  \E f : Follows(f, W, n, a, g)
  <1> DEFINE P(k) == \E f \in [0 .. k -> W] :
                        \A i \in 0 .. k : f[i] = IF i = 0 THEN a ELSE g[i][f[i - 1]]
             T == {k \in 0 .. n : ~P(k)}
  <1>1. P(0)
    <2> DEFINE f == [i \in 0 .. 0 |-> a]
    <2>1. f \in [0 .. 0 -> W] /\ \A i \in 0 .. 0 : f[i] = IF i = 0 THEN a ELSE g[i][f[i - 1]]
      OBVIOUS
    <2> HIDE DEF f
    <2> QED
      BY <2>1
  <1>2. ASSUME NEW k \in 0 .. n, k # 0, P(k - 1) PROVE P(k)
    <2>1. PICK h \in [0 .. k - 1 -> W] :
             \A i \in 0 .. k - 1 : h[i] = IF i = 0 THEN a ELSE g[i][h[i - 1]]
      BY <1>2
    <2>2. k \in 1 .. n /\ k - 1 \in 0 .. k - 1
      BY <1>2
    <2> DEFINE f == [i \in 0 .. k |-> IF i = k THEN g[k][h[k - 1]] ELSE h[i]]
    <2>3. g[k] \in [W -> W] /\ h[k - 1] \in W
      BY <2>1, <2>2
    <2>4. g[k][h[k - 1]] \in W
      BY <2>3
    <2>5. \A i \in 0 .. k : i # k => i \in 0 .. k - 1
      BY <1>2
    <2>6. f \in [0 .. k -> W]
      BY <2>1, <2>4, <2>5
    <2>7. f[k] = g[k][h[k - 1]] /\ \A i \in 0 .. k - 1 : f[i] = h[i]
      BY <2>2
    <2> HIDE DEF f
    <2>8. ASSUME NEW i \in 0 .. k PROVE f[i] = IF i = 0 THEN a ELSE g[i][f[i - 1]]
      <3>1. CASE i = k
        BY <3>1, <2>7, <2>2, <1>2
      <3>2. CASE i # k
        <4>1. i \in 0 .. k - 1 /\ (i # 0 => i - 1 \in 0 .. k - 1)
          BY <3>2, <2>5
        <4>2. f[i] = h[i] /\ (i # 0 => f[i - 1] = h[i - 1])
          BY <4>1, <2>7
        <4>3. h[i] = IF i = 0 THEN a ELSE g[i][h[i - 1]]
          BY <4>1, <2>1
        <4> QED
          BY <4>2, <4>3
      <3> QED
        BY <3>1, <3>2
    <2> QED
      BY <2>6, <2>8
  <1> HIDE DEF P
  <1>3. T = {}
    <2> SUFFICES ASSUME T # {} PROVE FALSE
      OBVIOUS
    <2>1. T \in SUBSET Nat
      OBVIOUS
    <2>2. PICK k \in T : \A y \in T : k <= y
      BY <2>1, Least
    <2>3. k \in 0 .. n /\ ~P(k) /\ k # 0
      BY <2>2, <1>1
    <2>4. k - 1 \in 0 .. n /\ ~(k <= k - 1)
      BY <2>3
    <2>5. P(k - 1)
      BY <2>2, <2>4
    <2> QED
      BY <2>3, <2>5, <1>2
  <1>4. P(n)
    BY <1>3
  <1>5. PICK f \in [0 .. n -> W] : \A i \in 0 .. n : f[i] = IF i = 0 THEN a ELSE g[i][f[i - 1]]
    BY <1>4 DEF P
  <1>6. f[0] = a
    BY <1>5
  <1>7. ASSUME NEW i \in 1 .. n PROVE f[i] = g[i][f[i - 1]]
    BY <1>5
  <1> QED
    BY <1>6, <1>7 DEF Follows

\* How far a walk over a tree is.
Walks == [scanned : Nat, shown : Nat, truncated : BOOLEAN, stop : BOOLEAN]

\* A visit adds what it shows, unless it sets the flag; it stops only with it.
LEMMA VisitIs ==
    ASSUME NEW w \in Walks, NEW f \in [size : Nat, hits : Nat], NEW v, v = Visit(w, f)
    PROVE  /\ v \in Walks
           /\ (w.stop => w.truncated) => /\ v.stop => v.truncated
                                         /\ ~v.truncated => /\ ~w.truncated
                                                            /\ v.shown = w.shown + f.hits
  <1>1. MostMatches \in Nat /\ MaxScan \in Nat
    <2>1. {MaxMatches, MaxOutput} \in SUBSET Nat /\ {MaxMatches, MaxOutput} # {}
      BY Limits
    <2>2. MostMatches \in {MaxMatches, MaxOutput}
      BY <2>1, MinIs DEF MostMatches
    <2> QED
      BY <2>1, <2>2, Limits
  <1>2. f.size \in Nat /\ f.hits \in Nat /\ w.scanned \in Nat /\ w.shown \in Nat
        /\ w.truncated \in BOOLEAN /\ w.stop \in BOOLEAN
    BY DEF Walks
  <1>3. CASE w.stop
    <2>1. v = w
      BY <1>3 DEF Visit
    <2> QED
      BY <2>1, <1>3
  <1>4. CASE ~w.stop /\ f.size > MaxScan
    <2>1. v = [w EXCEPT !.truncated = TRUE]
      BY <1>4 DEF Visit, Oversized
    <2>2. v \in Walks /\ v.truncated
      BY <2>1 DEF Walks
    <2> QED
      BY <2>2
  <1>5. CASE ~w.stop /\ ~(f.size > MaxScan) /\ w.scanned + f.size > MaxScan
    <2>1. v = [w EXCEPT !.truncated = TRUE, !.stop = TRUE]
      BY <1>5 DEF Visit
    <2>2. v \in Walks /\ v.truncated
      BY <2>1 DEF Walks
    <2> QED
      BY <2>2
  <1>6. CASE /\ ~w.stop /\ ~(f.size > MaxScan) /\ ~(w.scanned + f.size > MaxScan)
             /\ w.shown + f.hits > MostMatches
    <2>1. v = [w EXCEPT !.shown = MostMatches, !.truncated = TRUE, !.stop = TRUE]
      BY <1>6 DEF Visit
    <2>2. v \in Walks /\ v.truncated
      BY <2>1, <1>1 DEF Walks
    <2> QED
      BY <2>2
  <1>7. CASE /\ ~w.stop /\ ~(f.size > MaxScan) /\ ~(w.scanned + f.size > MaxScan)
             /\ ~(w.shown + f.hits > MostMatches)
    <2>1. v = [w EXCEPT !.scanned = @ + f.size, !.shown = @ + f.hits]
      BY <1>7 DEF Visit
    <2>2. w.scanned + f.size \in Nat /\ w.shown + f.hits \in Nat
      BY <1>2
    <2>3. v \in Walks /\ v.truncated = w.truncated /\ v.stop = w.stop
          /\ v.shown = w.shown + f.hits
      BY <2>1, <2>2 DEF Walks
    <2> QED
      BY <2>3
  <1> QED
    BY <1>3, <1>4, <1>5, <1>6, <1>7

\* A search without the flag has shown every match.
LEMMA SearchIs ==
    ASSUME NEW tree \in Seq([size : Nat, hits : Nat]), NEW a, a = Search(tree)
    PROVE  /\ Len(a.text) < Matches(tree) => a.truncated
           /\ a.hint \in {"none", "some"} /\ a.at = 0
  <1> DEFINE n == Len(tree)
             none == [scanned |-> 0, shown |-> 0, truncated |-> FALSE, stop |-> FALSE]
             w[i \in 0 .. Len(tree)] == IF i = 0 THEN none ELSE Visit(w[i - 1], tree[i])
             m[i \in 0 .. Len(tree)] == IF i = 0 THEN 0 ELSE m[i - 1] + tree[i].hits
  <1>1. n \in Nat /\ \A i \in 1 .. n : tree[i] \in [size : Nat, hits : Nat]
    BY LenProperties, ElementOfSeq
  <1>2. Walk(tree) = w[n] /\ Matches(tree) = m[n]
    BY DEF Walk, Matches
  <1>3. w = [i \in 0 .. n |-> IF i = 0 THEN none ELSE Visit(w[i - 1], tree[i])]
    <2> DEFINE g == [i \in 1 .. n |-> [x \in Walks |-> Visit(x, tree[i])]]
    <2>1. none \in Walks
      BY DEF Walks
    <2>2. \A i \in 1 .. n, x \in Walks : Visit(x, tree[i]) \in Walks
      BY <1>1, VisitIs
    <2>3. g \in [1 .. n -> [Walks -> Walks]]
      BY <2>2
    <2> HIDE DEF n, none
    <2>4. PICK f : Follows(f, Walks, n, none, g)
      <3> HIDE DEF g
      <3> QED
        BY <2>1, <2>3, <1>1, Iterates
    <2>5. ASSUME NEW i \in 0 .. n
          PROVE  f[i] = IF i = 0 THEN none ELSE Visit(f[i - 1], tree[i])
      <3>1. CASE i = 0
        BY <3>1, <2>4 DEF Follows
      <3>2. CASE i # 0
        <4>1. i \in 1 .. n /\ i - 1 \in 0 .. n
          BY <3>2, <1>1
        <4>2. f[i - 1] \in Walks /\ f[i] = g[i][f[i - 1]]
          <5> HIDE DEF g
          <5> QED
            BY <4>1, <2>4 DEF Follows
        <4>3. g[i][f[i - 1]] = Visit(f[i - 1], tree[i])
          BY <4>1, <4>2
        <4> HIDE DEF g
        <4> QED
          BY <4>2, <4>3, <3>2
      <3> QED
        BY <3>1, <3>2
    <2>6. f = [i \in 0 .. n |-> IF i = 0 THEN none ELSE Visit(f[i - 1], tree[i])]
      <3>1. f \in [0 .. n -> Walks]
        BY <2>4 DEF Follows
      <3> QED
        BY <2>5, <3>1
    <2> QED
      BY <2>6 DEF n, none
  <1>4. m = [i \in 0 .. n |-> IF i = 0 THEN 0 ELSE m[i - 1] + tree[i].hits]
    <2> DEFINE g == [i \in 1 .. n |-> [x \in Nat |-> x + tree[i].hits]]
    <2>1. \A i \in 1 .. n : tree[i].hits \in Nat
      BY <1>1
    <2>2. g \in [1 .. n -> [Nat -> Nat]]
      BY <2>1
    <2> HIDE DEF n
    <2>3. PICK f : Follows(f, Nat, n, 0, g)
      <3> HIDE DEF g
      <3> QED
        BY <2>2, <1>1, Iterates
    <2>4. ASSUME NEW i \in 0 .. n
          PROVE  f[i] = IF i = 0 THEN 0 ELSE f[i - 1] + tree[i].hits
      <3>1. CASE i = 0
        BY <3>1, <2>3 DEF Follows
      <3>2. CASE i # 0
        <4>1. i \in 1 .. n /\ i - 1 \in 0 .. n
          BY <3>2, <1>1
        <4>2. f[i - 1] \in Nat /\ f[i] = g[i][f[i - 1]]
          <5> HIDE DEF g
          <5> QED
            BY <4>1, <2>3 DEF Follows
        <4>3. g[i][f[i - 1]] = f[i - 1] + tree[i].hits
          BY <4>1, <4>2
        <4> HIDE DEF g
        <4> QED
          BY <4>2, <4>3, <3>2
      <3> QED
        BY <3>1, <3>2
    <2>5. f = [i \in 0 .. n |-> IF i = 0 THEN 0 ELSE f[i - 1] + tree[i].hits]
      <3>1. f \in [0 .. n -> Nat]
        BY <2>3 DEF Follows
      <3> QED
        BY <2>4, <3>1
    <2> QED
      BY <2>5 DEF n
  <1> HIDE DEF w, m, n
  <1> DEFINE P(i) == /\ w[i] \in Walks /\ m[i] \in Nat
                     /\ w[i].stop => w[i].truncated
                     /\ ~w[i].truncated => w[i].shown = m[i]
             T == {i \in 0 .. n : ~P(i)}
  <1>5. P(0)
    <2>1. 0 \in 0 .. n
      BY <1>1
    <2>2. w[0] = none /\ m[0] = 0
      BY <2>1, <1>3, <1>4
    <2>3. none \in Walks /\ none.truncated = FALSE /\ none.stop = FALSE /\ none.shown = 0
      BY DEF Walks
    <2> HIDE DEF none
    <2> QED
      BY <2>2, <2>3
  <1>6. ASSUME NEW i \in 0 .. n, i # 0, P(i - 1) PROVE P(i)
    <2>1. i \in 1 .. n /\ i - 1 \in 0 .. n
      BY <1>1, <1>6
    <2>2. w[i] = Visit(w[i - 1], tree[i])
      BY <1>3, <1>6
    <2>3. m[i] = m[i - 1] + tree[i].hits
      BY <1>4, <1>6
    <2>4. tree[i] \in [size : Nat, hits : Nat]
      BY <2>1, <1>1
    <2>5. /\ w[i] \in Walks
          /\ (w[i - 1].stop => w[i - 1].truncated) =>
                /\ w[i].stop => w[i].truncated
                /\ ~w[i].truncated => /\ ~w[i - 1].truncated
                                      /\ w[i].shown = w[i - 1].shown + tree[i].hits
      BY <2>2, <2>4, <1>6, VisitIs
    <2>6. m[i] \in Nat
      <3>1. tree[i].hits \in Nat /\ m[i - 1] \in Nat
        BY <2>4, <1>6
      <3> QED
        BY <3>1, <2>3
    <2> QED
      BY <2>3, <2>5, <2>6, <1>6
  <1> HIDE DEF P
  <1>7. P(n)
    <2>1. T = {}
      <3> SUFFICES ASSUME T # {} PROVE FALSE
        OBVIOUS
      <3>1. T \in SUBSET Nat
        OBVIOUS
      <3>2. PICK k \in T : \A y \in T : k <= y
        BY <3>1, Least
      <3>3. k \in 0 .. n /\ ~P(k) /\ k # 0
        BY <3>2, <1>5
      <3>4. k - 1 \in 0 .. n /\ ~(k <= k - 1)
        BY <3>3, <1>1
      <3>5. P(k - 1)
        BY <3>2, <3>4
      <3> QED
        BY <3>3, <3>5, <1>6
    <2>2. n \in 0 .. n
      BY <1>1
    <2> QED
      BY <2>1, <2>2
  <1> DEFINE l == w[n]
  <1>8. l \in Walks /\ (~l.truncated => l.shown = Matches(tree)) /\ Walk(tree) = l
    BY <1>7, <1>2 DEF P
  <1> HIDE DEF l
  <1>9. l.shown \in Nat /\ l.truncated \in BOOLEAN
    BY <1>8 DEF Walks
  <1> DEFINE text == [i \in 1 .. l.shown |-> 1]
             hint == IF l.truncated /\ l.shown > 0 THEN "some" ELSE "none"
  <1>10. text \in Seq(Nat) /\ Len(text) = l.shown
    <2>1. text \in [1 .. l.shown -> Nat] /\ DOMAIN text = 1 .. l.shown
      OBVIOUS
    <2> HIDE DEF text
    <2> QED
      BY <2>1, <1>9, TableIsSeq
  <1>11. hint \in {"none", "some"}
    OBVIOUS
  <1> HIDE DEF text, hint
  <1>12. a = [ok |-> TRUE, text |-> text, truncated |-> l.truncated, at |-> 0, hint |-> hint]
    BY <1>8 DEF Search, text, hint
  <1>13. a.text = text /\ a.truncated = l.truncated /\ a.at = 0 /\ a.hint = hint
    BY <1>12
  <1>14. Len(a.text) < Matches(tree) => a.truncated
    <2> SUFFICES ASSUME ~l.truncated PROVE ~(Len(a.text) < Matches(tree))
      BY <1>13
    <2>1. Len(a.text) = Matches(tree) /\ Matches(tree) \in Nat
      BY <1>8, <1>9, <1>10, <1>13
    <2> QED
      BY <2>1
  <1> QED
    BY <1>11, <1>13, <1>14

-----------------------------------------------------------------------------
(* The reviewer *)

\* Up to the line it asks for next, a reviewer of a file has seen every line as
\* it is or knows that it has not.
Reading ==
    /\ next >= 1
    /\ known \in Seq({known[i] : i \in DOMAIN known})
    /\ state \in {"asking", "answered"} =>
          /\ Len(known) < next
          /\ \A i \in 1 .. CountLines(task.of) :
                i < next => i \in cut \/ (i \in DOMAIN known /\ known[i] = Line(task.of, i))
    /\ ReadsEveryLine

\* A reviewer of a directory has been shown it up to the offset it asks for.
Listing ==
    \E n \in 0 .. Len(task.of) :
        /\ known = SubSeq(task.of, 1, n)
        /\ state \in {"asking", "answered"} => /\ n = next
                                               /\ n < Len(task.of) \/ task.of = <<>>
        /\ state = "done" => n = Len(task.of)

\* The answer is what the request asks for and fits its frame, and the reviewer
\* is as far as it believes.
IInv == /\ TypeOK /\ FitsFrame
        /\ state = "answered" => answer = Execute
        /\ task.op = "read" => Reading
        /\ task.op = "list" => Listing

\* What the tasks are made of.
LEMMA TaskIs ==
    ASSUME task \in Tasks
    PROVE  /\ task.op \in {"read", "list", "diff", "search"}
           /\ task.op = "read" => /\ task.of \in Seq(Chars) /\ Len(task.of) \in 0 .. MaxFile
                                  /\ task.count \in Nat \ {0}
           /\ task.op \in {"list", "diff"} => task.of \in Seq(Nat)
           /\ task.op = "search" => task.of \in Seq([size : Nat, hits : Nat])
  <1>1. /\ task.op \in {"read", "list", "diff", "search"}
        /\ task.op = "read" => task.of \in Files /\ task.count \in 1 .. 3
        /\ task.op \in {"list", "diff"} => task.of \in Names
        /\ task.op = "search" => task.of \in Trees
    BY DEF Tasks
  <1>2. /\ MaxFile \in Nat /\ MaxNames \in Nat /\ MaxName \in Nat
        /\ MaxScan \in Nat /\ MaxHits \in Nat
    BY Limits
  <1>3. ASSUME task.of \in Files PROVE task.of \in Seq(Chars) /\ Len(task.of) \in 0 .. MaxFile
    BY <1>2, <1>3, UpToIs DEF Files, Chars
  <1>4. ASSUME task.of \in Names PROVE task.of \in Seq(Nat)
    <2>1. task.of \in UpTo(1 .. MaxName * MaxNames, MaxNames)
      BY <1>4 DEF Names
    <2>2. task.of \in Seq(1 .. MaxName * MaxNames)
      BY <2>1, <1>2, UpToIs
    <2>3. 1 .. MaxName * MaxNames \subseteq Nat
      BY <1>2
    <2> QED
      BY <2>2, <2>3, SeqMonotonic
  <1>5. ASSUME task.of \in Trees PROVE task.of \in Seq([size : Nat, hits : Nat])
    <2> DEFINE S == [size : 0 .. MaxScan + 1, hits : 0 .. MaxHits]
               T == [size : Nat, hits : Nat]
    <2>1. task.of \in Seq(S)
      BY <1>5, UpToIs DEF Trees
    <2>2. S \subseteq T
      BY <1>2
    <2> HIDE DEF S, T
    <2>3. task.of \in Seq(T)
      BY <2>1, <2>2, SeqMonotonic
    <2> QED
      BY <2>3 DEF T
  <1> QED
    BY <1>1, <1>3, <1>4, <1>5

\* The reviewer starts with nothing of a file or a directory.
LEMMA ReviewInit == Init => IInv
  <1> SUFFICES ASSUME Init PROVE IInv
    OBVIOUS
  <1>1. task \in Tasks /\ answer = Nothing /\ cut = {} /\ remaining = Budget /\ state = "asking"
        /\ next = IF task.op = "read" THEN 1 ELSE 0
    BY DEF Init
  <1>2. Budget \in Nat /\ MaxFrame \in Nat
    BY Limits, FrameIs
  <1>3. answer.text = <<>> /\ answer.hint = "none"
    BY <1>1 DEF Nothing
  <1>4. TypeOK
    BY <1>1, <1>2, <1>3 DEF TypeOK
  <1>5. FitsFrame
    <2>1. EncodedLen(answer.text) = 0
      BY <1>3, EncodedLenIs
    <2> QED
      BY <2>1, <1>1, <1>2, <1>3 DEF FitsFrame, Hint
  <1>6. ASSUME task.op = "read" PROVE Reading
    <2>1. known = <<>> /\ next = 1
      BY <1>6, <1>1 DEF Init
    <2>2. known \in Seq({known[i] : i \in DOMAIN known}) /\ Len(known) = 0
      BY <2>1, EmptySeq
    <2>3. CountLines(task.of) \in Nat
      BY <1>1, <1>6, TaskIs, CountIs
    <2> QED
      BY <1>1, <2>1, <2>2, <2>3 DEF Reading, ReadsEveryLine
  <1>7. ASSUME task.op = "list" PROVE Listing
    <2>1. known = <<>> /\ next = 0
      BY <1>7, <1>1 DEF Init
    <2>2. task.of \in Seq(Nat)
      BY <1>1, <1>7, TaskIs
    <2>3. SubSeq(task.of, 1, 0) = <<>>
      BY SubSeqEmpty
    <2>4. Len(task.of) \in Nat /\ (task.of # <<>> => Len(task.of) \in Nat \ {0})
      BY <2>2, LenProperties, EmptySeq
    <2>5. 0 \in 0 .. Len(task.of) /\ (0 < Len(task.of) \/ task.of = <<>>)
      BY <2>4
    <2> QED
      BY <1>1, <2>1, <2>3, <2>5 DEF Listing
  <1> QED
    BY <1>1, <1>4, <1>5, <1>6, <1>7 DEF IInv

\* An answer is of the type and of the size it should be.
LEMMA ExecuteIs ==
    ASSUME task \in Tasks, next \in Nat, task.op = "read" => next >= 1,
           task.op = "list" => Listing /\ state = "asking", NEW a, a = Execute
    PROVE  /\ a.hint \in {"none", "more", "partial", "some", "frame"}
           /\ task.op = "read" => /\ a.text \in Seq(Chars)
                                  /\ EncodedLen(a.text) + Hint(a) <= MaxFrame
  <1>1. CASE task.op = "read"
    <2> DEFINE line == next
    <2>1. line \in Nat \ {0} /\ task.of \in Seq(Chars) /\ task.count \in Nat \ {0}
      BY <1>1, TaskIs
    <2>2. a = Encode(Read(task.of, line, task.count))
      BY <1>1 DEF Execute
    <2> HIDE DEF line
    <2>3. \A m : m = line - 1 =>
             /\ a.hint \in {"none", "more", "partial", "frame"}
             /\ a.text \in Seq(Chars)
             /\ EncodedLen(a.text) + Hint(a) <= MaxFrame
      BY <2>1, <2>2, AnswerIs
    <2> QED
      BY <2>3
  <1>2. CASE task.op = "list"
    <2>1. task.of \in Seq(Nat) /\ a = Page(task.of, next)
      BY <1>2, TaskIs DEF Execute
    <2>2. next \in 0 .. Len(task.of) /\ (next < Len(task.of) \/ task.of = <<>>)
      BY <1>2 DEF Listing
    <2>3. a.hint \in {"none", "more"}
      BY <2>1, <2>2, PageIs
    <2> QED
      BY <2>3, <1>2
  <1>3. CASE task.op = "search"
    <2>1. task.of \in Seq([size : Nat, hits : Nat]) /\ a = Search(task.of)
      BY <1>3, TaskIs DEF Execute
    <2>2. a.hint \in {"none", "some"}
      BY <2>1, SearchIs
    <2> QED
      BY <2>2, <1>3
  <1>4. CASE task.op = "diff"
    <2>1. task.of \in Seq(Nat) /\ a = ChangeList(task.of)
      BY <1>4, TaskIs DEF Execute
    <2>2. a.hint = "none"
      BY <2>1, ChangeListIs
    <2> QED
      BY <2>2, <1>4
  <1> QED
    BY <1>1, <1>2, <1>3, <1>4, TaskIs

\* A request is answered from what it asks for, or not at all.
LEMMA HandleStep ==
    ASSUME IInv, Handle
    PROVE  IInv'
  <1>1. UNCHANGED <<task, next, known, cut>> /\ state = "asking"
    BY DEF Handle
  <1>2. TypeOK /\ (task.op = "read" => Reading) /\ (task.op = "list" => Listing) /\ FitsFrame
    BY DEF IInv
  <1>3. task \in Tasks /\ next \in Nat /\ remaining \in 0 .. Budget /\ Budget \in Nat
    BY <1>2, Limits DEF TypeOK
  <1>4. (task.op = "read" => Reading') /\ (task.op = "list" => Listing')
    <2>1. state' \in {"answered", "exhausted", "failed"}
      BY DEF Handle
    <2>2. task.op = "read" => Reading'
      BY <1>1, <1>2, <2>1 DEF Reading, ReadsEveryLine
    <2>3. task.op = "list" => Listing'
      BY <1>1, <1>2, <2>1 DEF Listing
    <2> QED
      BY <2>2, <2>3
  <1>5. CASE remaining = 0
    <2>1. state' = "exhausted" /\ UNCHANGED <<answer, remaining>>
      BY <1>5 DEF Handle
    <2>2. TypeOK' /\ FitsFrame'
      BY <1>1, <1>2, <2>1 DEF TypeOK, FitsFrame
    <2> QED
      BY <1>1, <1>4, <2>1, <2>2 DEF IInv
  <1>6. CASE remaining # 0
    <2>1. /\ answer' = Execute /\ remaining' = remaining - 1
          /\ state' = IF task.op = "read" => Fits(Execute) THEN "answered" ELSE "failed"
      BY <1>6 DEF Handle
    <2>2. /\ answer'.hint \in {"none", "more", "partial", "some", "frame"}
          /\ task.op = "read" => /\ answer'.text \in Seq(Chars)
                                 /\ EncodedLen(answer'.text) + Hint(answer') <= MaxFrame
      BY <1>1, <1>2, <1>3, <2>1, ExecuteIs DEF Reading
    <2>3. FitsFrame'
      <3>1. ASSUME task.op = "read", state' = "failed"
            PROVE  \E i \in DOMAIN answer'.text : answer'.text[i] = "h"
        <4> DEFINE a == answer'
        <4>1. ~Fits(a) /\ a.text \in Seq(Chars) /\ EncodedLen(a.text) + Hint(a) <= MaxFrame
          BY <2>1, <2>2, <3>1
        <4> HIDE DEF a
        <4>2. \E i \in DOMAIN a.text : a.text[i] = "h"
          BY <4>1, FitsIs
        <4> QED
          BY <4>2 DEF a
      <3>2. (EncodedLen(answer.text) + Hint(answer) <= MaxFrame)'
            <=> EncodedLen(answer'.text) + Hint(answer') <= MaxFrame
        BY DEF EncodedLen, Hint, MaxFrame
      <3> QED
        BY <1>1, <2>2, <3>1, <3>2 DEF FitsFrame
    <2>4. TypeOK'
      BY <1>1, <1>2, <1>3, <1>6, <2>1, <2>2 DEF TypeOK
    <2>5. Execute' = Execute
      BY <1>1 DEF Execute
    <2> QED
      BY <1>1, <1>4, <2>1, <2>3, <2>4, <2>5 DEF IInv
  <1> QED
    BY <1>5, <1>6

\* A line of a text that a reviewer counts on is of the file.
LEMMA LearnLinesStep ==
    ASSUME IInv, state = "answered", LearnLines, UNCHANGED <<task, answer, remaining>>
    PROVE  IInv'
  <1> DEFINE data  == task.of
             m     == next - 1
             text  == answer.text
             c     == CountLines(text)
             lines == Pieces(text)
             whole == Whole
             n     == Max({Len(known), next + whole - 1})
  <1>1. TypeOK /\ FitsFrame /\ task.op = "read" /\ Reading /\ answer = Execute
    BY DEF IInv, LearnLines
  <1>2. /\ next \in Nat \ {0} /\ data \in Seq(Chars) /\ Len(data) \in 0 .. MaxFile
        /\ task.count \in Nat \ {0} /\ m \in Nat /\ cut \subseteq 1 .. MaxFile + 2
        /\ MaxFile \in Nat
    BY <1>1, TaskIs, Limits DEF TypeOK, Reading
  <1>3. /\ answer.hint \in {"none", "more", "partial", "frame"} /\ answer.at \in Nat
        /\ text \in Seq(Chars)
        /\ ~(m < CountLines(data)) => answer = Nothing
        /\ m < CountLines(data) =>
              /\ answer.ok
              /\ answer.hint = "more" => /\ answer.at - next \in Nat \ {0}
                                         /\ Shows(data, m, text, answer.at - next)
              /\ answer.hint = "none" => \A w \in Nat : Shows(data, m, text, w)
              /\ answer.hint = "frame" => Shows(data, m, text, c - 1)
    <2> DEFINE line == next
               m0 == m
    <2>1. line \in Nat \ {0} /\ m0 = line - 1
      BY <1>2
    <2>2. answer = Encode(Read(data, line, task.count))
      BY <1>1 DEF Execute
    <2>3. /\ answer.hint \in {"none", "more", "partial", "frame"} /\ answer.at \in Nat
          /\ answer.text \in Seq(Chars)
          /\ ~(m0 < CountLines(data)) => answer = Nothing
          /\ m0 < CountLines(data) =>
                /\ answer.ok
                /\ answer.hint = "more" => /\ answer.at - line \in Nat \ {0}
                                           /\ Shows(data, m0, answer.text, answer.at - line)
                /\ answer.hint = "none" => \A w \in Nat : Shows(data, m0, answer.text, w)
                /\ answer.hint = "frame" =>
                      Shows(data, m0, answer.text, CountLines(answer.text) - 1)
      <3> HIDE DEF data, line, m0
      <3> QED
        BY <2>1, <2>2, <1>2, AnswerIs
    <2> QED
      BY <2>3
  <1>4. c \in Nat \ {0} /\ CountLines(data) \in Nat \ {0}
    BY <1>2, <1>3, CountIs
  <1>5. /\ known \in Seq({known[i] : i \in DOMAIN known}) /\ Len(known) < next
        /\ Len(known) \in Nat /\ DOMAIN known = 1 .. Len(known)
        /\ \A i \in 1 .. CountLines(data) :
              i < next => i \in cut \/ (i \in DOMAIN known /\ known[i] = Line(data, i))
    <2>1. known \in Seq({known[i] : i \in DOMAIN known})
      BY <1>1 DEF Reading
    <2>2. Len(known) \in Nat /\ DOMAIN known = 1 .. Len(known)
      BY <2>1, LenProperties
    <2> QED
      BY <1>1, <2>1, <2>2 DEF Reading
  <1>6. /\ known' = [i \in 1 .. n |->
                        CASE i \in next .. next + whole - 1 ->
                                IF i - next + 1 \in DOMAIN lines THEN lines[i - next + 1] ELSE <<>>
                          [] OTHER -> IF i \in DOMAIN known THEN known[i] ELSE <<"?">>]
        /\ cut' = IF whole = 0 THEN cut \cup {next} ELSE cut
        /\ next' = next + Max({1, whole})
        /\ state' = IF answer.hint = "none" \/ ~answer.ok THEN "done" ELSE "asking"
        /\ UNCHANGED <<task, answer, remaining>>
    BY DEF LearnLines
  <1>7. DOMAIN lines = 1 .. c /\ \A j \in 1 .. c : lines[j] = Line(text, j)
    BY DEF Pieces
  <1>8. ~(m < CountLines(data)) => ~answer.ok /\ answer.hint = "none"
    BY <1>3 DEF Nothing
  <1>9. /\ whole \in Nat
        /\ whole = 0 => m < CountLines(data)
        /\ answer.hint = "more" => whole = answer.at - next
        /\ answer.hint = "frame" => whole = c - 1
        /\ answer.hint = "partial" => whole = 0
        /\ answer.hint = "none" => whole = c
    BY <1>3, <1>4, <1>8 DEF Whole
  <1> HIDE DEF lines, c, whole, m, text
  <1>10. /\ n \in Nat /\ n >= Len(known) /\ n >= next + whole - 1
         /\ n <= next + whole - 1
    <2> DEFINE T == {Len(known), next + whole - 1}
    <2>1. T \in SUBSET (0 .. next + whole - 1) /\ T # {} /\ next + whole - 1 \in Nat
      BY <1>2, <1>5, <1>9
    <2>2. Max(T) \in T /\ \A y \in T : Max(T) >= y
      <3> HIDE DEF T
      <3> QED
        BY <2>1, MaxIs
    <2> QED
      BY <2>1, <2>2
  <1>11. Max({1, whole}) \in Nat \ {0} /\ Max({1, whole}) >= whole
         /\ (whole # 0 => Max({1, whole}) = whole) /\ (whole = 0 => Max({1, whole}) = 1)
    <2>1. {1, whole} \in SUBSET (0 .. whole + 1) /\ {1, whole} # {} /\ whole + 1 \in Nat
      BY <1>9
    <2>2. Max({1, whole}) \in {1, whole} /\ \A y \in {1, whole} : Max({1, whole}) >= y
      BY <2>1, MaxIs
    <2> QED
      BY <2>2, <1>9
  <1> HIDE DEF n
  <1>12. n = next + whole - 1
    BY <1>2, <1>9, <1>10
  <1>13. DOMAIN known' = 1 .. n /\ Len(known') = n
         /\ known' \in Seq({known'[i] : i \in DOMAIN known'})
    <2> DEFINE R == {known'[i] : i \in DOMAIN known'}
    <2>1. DOMAIN known' = 1 .. n
      BY <1>6
    <2>2. known' \in [1 .. n -> R]
      BY <1>6, <2>1
    <2> HIDE DEF R
    <2>3. known' \in Seq(R) /\ Len(known') = n
      BY <2>1, <2>2, <1>10, TableIsSeq
    <2> QED
      BY <2>1, <2>3 DEF R
  \* What has been known stays so.
  <1>14. ASSUME NEW i \in 1 .. CountLines(data), i < next
         PROVE  i \in cut' \/ (i \in DOMAIN known' /\ known'[i] = Line(data, i))
    <2>1. CASE i \in cut
      BY <2>1, <1>6
    <2>2. CASE i \in DOMAIN known /\ known[i] = Line(data, i)
      <3>1. i \in 1 .. n /\ ~(i \in next .. next + whole - 1)
        BY <2>2, <1>2, <1>5, <1>9, <1>10, <1>14
      <3>2. known'[i] = known[i]
        BY <3>1, <2>2, <1>6
      <3> QED
        BY <3>1, <3>2, <2>2, <1>13
    <2> QED
      BY <2>1, <2>2, <1>5, <1>14
  \* And the lines that are added are there.
  <1>15. ASSUME NEW i \in 1 .. CountLines(data), i >= next, i < next + whole,
                Shows(data, m, text, whole)
         PROVE  i \in DOMAIN known' /\ known'[i] = Line(data, i)
    <2> DEFINE j == i - m
    <2>1. j \in 1 .. whole /\ m + j = i /\ i - next + 1 = j /\ i \in 1 .. n
          /\ i \in next .. next + whole - 1
      BY <1>2, <1>4, <1>9, <1>12, <1>15 DEF m
    <2>2. known'[i] = IF j \in DOMAIN lines THEN lines[j] ELSE <<>>
      BY <2>1, <1>6
    <2> HIDE DEF j
    <2>3. Line(data, m + j) = IF j <= c THEN Line(text, j) ELSE <<>>
      BY <2>1, <1>15 DEF Shows, c
    <2>4. j <= c <=> j \in DOMAIN lines
      BY <2>1, <1>4, <1>7, <1>9
    <2>5. j \in DOMAIN lines => lines[j] = Line(text, j)
      BY <1>7
    <2> QED
      BY <2>1, <2>2, <2>3, <2>4, <2>5, <1>13
  <1>16. ASSUME m < CountLines(data), answer.hint # "partial" PROVE Shows(data, m, text, whole)
    BY <1>3, <1>9, <1>16 DEF c
  <1>17. cut' \subseteq 1 .. MaxFile + 2
    <2>1. CountLines(data) <= Len(data) + 1
      <3>1. CountLines(data) = Feeds(data, Len(data)) + 1
        BY <1>2, CountIs
      <3>2. Feeds(data, Len(data)) <= Len(data)
        <4>1. IsFiniteSet(1 .. Len(data)) /\ Cardinality(1 .. Len(data)) = Len(data)
          <5> DEFINE l == Len(data)
          <5>1. 1 \in Int /\ l \in Nat
            BY <1>2
          <5> HIDE DEF l
          <5>2. IsFiniteSet(1 .. l) /\ Cardinality(1 .. l) = IF 1 > l THEN 0 ELSE l - 1 + 1
            BY <5>1, FS_Interval
          <5>3. Cardinality(1 .. l) = l
            BY <5>1, <5>2
          <5> QED
            BY <5>2, <5>3 DEF l
        <4>2. {i \in DOMAIN data : i <= Len(data) /\ data[i] = "n"} \in SUBSET (1 .. Len(data))
          BY <1>2, LenProperties
        <4> QED
          BY <4>1, <4>2, FS_Subset DEF Feeds
      <3>3. Feeds(data, Len(data)) \in Nat
        BY <1>2, FeedsStep
      <3> QED
        BY <3>1, <3>2, <3>3, <1>2
    <2>2. whole = 0 => next \in 1 .. MaxFile + 2
      BY <2>1, <1>2, <1>4, <1>9 DEF m
    <2> QED
      BY <2>2, <1>2, <1>6
  <1>18. TypeOK' /\ FitsFrame'
    <2>1. next' \in Nat /\ state' \in {"asking", "answered", "done", "exhausted"}
      BY <1>2, <1>6, <1>11
    <2> QED
      BY <2>1, <1>1, <1>6, <1>17 DEF TypeOK, FitsFrame
  <1>19. CASE state' = "asking"
    <2>1. answer.hint # "none" /\ m < CountLines(data)
      BY <1>19, <1>6, <1>8
    <2>2. Len(known') < next' /\ next' >= 1
      BY <1>2, <1>6, <1>9, <1>11, <1>12, <1>13
    <2>3. ASSUME NEW i \in 1 .. CountLines(data), i < next'
          PROVE  i \in cut' \/ (i \in DOMAIN known' /\ known'[i] = Line(data, i))
      <3>1. CASE i < next
        BY <3>1, <1>14
      <3>2. CASE ~(i < next) /\ whole = 0
        <4>1. i = next
          BY <3>2, <2>3, <1>2, <1>4, <1>6, <1>11
        <4> QED
          BY <4>1, <3>2, <1>6
      <3>3. CASE ~(i < next) /\ whole # 0
        <4>1. i >= next /\ i < next + whole
          BY <3>3, <2>3, <1>2, <1>4, <1>6, <1>11
        <4>2. answer.hint # "partial"
          BY <3>3, <1>9
        <4> QED
          BY <4>1, <4>2, <2>1, <1>15, <1>16
      <3> QED
        BY <3>1, <3>2, <3>3
    <2>4. Reading'
      BY <2>2, <2>3, <1>6, <1>13, <1>19 DEF Reading, ReadsEveryLine
    <2> QED
      BY <2>4, <1>1, <1>6, <1>18, <1>19 DEF IInv
  <1>20. CASE state' = "done"
    <2>1. answer.hint = "none"
      BY <1>20, <1>3, <1>6, <1>8
    <2>2. whole = c
      BY <2>1, <1>9
    <2>3. next' >= 1
      BY <1>2, <1>6, <1>11
    <2>4. ASSUME NEW i \in 1 .. CountLines(data)
          PROVE  \/ i \in cut'
                 \/ IF i \in DOMAIN known' THEN known'[i] = Line(data, i)
                                           ELSE Line(data, i) = <<>>
      <3>1. CASE i < next
        BY <3>1, <1>14
      <3>2. CASE ~(i < next) /\ i < next + whole
        <4>1. m < CountLines(data) /\ i >= next
          BY <3>2, <1>2, <1>4 DEF m
        <4> QED
          BY <4>1, <3>2, <2>1, <1>15, <1>16
      <3>3. CASE ~(i < next) /\ ~(i < next + whole)
        <4> DEFINE j == i - m
        <4>1. m < CountLines(data) /\ j \in 1 .. j /\ j \in Nat /\ m + j = i /\ ~(j <= c)
              /\ ~(i \in 1 .. n)
          BY <3>3, <2>2, <1>2, <1>4, <1>9, <1>12 DEF m
        <4> HIDE DEF j
        <4>2. Shows(data, m, text, j)
          BY <4>1, <2>1, <1>3
        <4>3. Line(data, m + j) = <<>>
          BY <4>1, <4>2 DEF Shows, c
        <4> QED
          BY <4>1, <4>3, <1>13
      <3> QED
        BY <3>1, <3>2, <3>3
    <2>5. ReadsEveryLine'
      <3>1. \A i \in 1 .. CountLines(data) : LinesOf(data)[i] = Line(data, i)
        BY DEF LinesOf, Pieces
      <3> QED
        BY <2>4, <3>1, <1>6 DEF ReadsEveryLine
    <2>6. Reading'
      BY <2>3, <2>5, <1>13, <1>20 DEF Reading
    <2> QED
      BY <2>6, <1>1, <1>6, <1>18, <1>20 DEF IInv
  <1> QED
    BY <1>6, <1>19, <1>20

\* An entry that is shown is the next of the directory.
LEMMA LearnEntriesStep ==
    ASSUME IInv, state = "answered", LearnEntries, UNCHANGED <<task, answer, remaining>>
    PROVE  IInv'
  <1>1. TypeOK /\ FitsFrame /\ task.op # "read" /\ answer = Execute
        /\ (task.op = "list" => Listing)
    BY DEF IInv, LearnEntries
  <1>2. /\ UNCHANGED <<task, answer, remaining, cut>> /\ next' = answer.at
        /\ state' = IF answer.hint = "more" THEN "asking" ELSE "done"
    BY DEF LearnEntries
  <1>3. task \in Tasks /\ state' \in {"asking", "done"}
    BY <1>1, <1>2 DEF TypeOK
  <1>4. ASSUME task.op = "list" PROVE answer.at \in Nat /\ Listing'
    <2>1. task.of \in Seq(Nat) /\ answer = Page(task.of, next)
      BY <1>1, <1>3, <1>4, TaskIs DEF Execute
    <2>2. /\ next \in 0 .. Len(task.of) /\ known = SubSeq(task.of, 1, next)
          /\ next < Len(task.of) \/ task.of = <<>>
      BY <1>1, <1>4 DEF Listing
    <2>3. /\ answer.hint \in {"none", "more"}
          /\ \E n \in next .. Len(task.of) : Continues(task.of, next, answer, n)
          /\ answer.at \in Nat
      BY <2>1, <2>2, PageIs
    <2>4. PICK n \in next .. Len(task.of) :
             /\ SubSeq(task.of, 1, next) \o answer.text = SubSeq(task.of, 1, n)
             /\ answer.hint = "more" => n < Len(task.of) /\ answer.at = n
             /\ answer.hint = "none" => n = Len(task.of)
      BY <2>3 DEF Continues
    <2>5. known' = SubSeq(task.of, 1, n)
      BY <2>2, <2>4, <1>4 DEF LearnEntries
    <2>6. n \in 0 .. Len(task.of)
      BY <2>2
    <2>7. /\ state' \in {"asking", "answered"} =>
                n = next' /\ (n < Len(task.of) \/ task.of = <<>>)
          /\ state' = "done" => n = Len(task.of)
      BY <2>3, <2>4, <1>2
    <2>8. Listing'
      BY <2>5, <2>6, <2>7, <1>2 DEF Listing
    <2> QED
      BY <2>3, <2>8
  <1>5. answer.at \in Nat
    <2>1. CASE task.op = "list"
      BY <2>1, <1>4
    <2>2. CASE task.op = "search"
      <3>1. task.of \in Seq([size : Nat, hits : Nat]) /\ answer = Search(task.of)
        BY <2>2, <1>1, <1>3, TaskIs DEF Execute
      <3>2. answer.at = 0
        BY <3>1, SearchIs
      <3> QED
        BY <3>2
    <2>3. CASE task.op = "diff"
      <3>1. task.of \in Seq(Nat) /\ answer = ChangeList(task.of)
        BY <2>3, <1>1, <1>3, TaskIs DEF Execute
      <3>2. answer.at = 0
        BY <3>1, ChangeListIs
      <3> QED
        BY <3>2
    <2> QED
      BY <2>1, <2>2, <2>3, <1>1, <1>3, TaskIs
  <1>6. TypeOK' /\ FitsFrame'
    BY <1>1, <1>2, <1>3, <1>5 DEF TypeOK, FitsFrame
  <1> QED
    BY <1>1, <1>2, <1>3, <1>4, <1>6 DEF IInv

\* Every step keeps the invariant.
LEMMA ReviewStep == IInv /\ [Next]_vars => IInv'
  <1> SUFFICES ASSUME IInv, [Next]_vars PROVE IInv'
    OBVIOUS
  <1>1. CASE Handle
    BY <1>1, HandleStep
  <1>2. CASE Learn
    <2>1. state = "answered" /\ UNCHANGED <<task, answer, remaining>>
          /\ (LearnLines \/ LearnEntries)
      BY <1>2 DEF Learn
    <2> QED
      BY <2>1, LearnLinesStep, LearnEntriesStep
  <1>3. CASE UNCHANGED vars
    <2>1. UNCHANGED <<task, next, answer, known, cut, remaining, state>>
      BY <1>3 DEF vars
    <2>2. TypeOK' /\ FitsFrame' /\ Execute' = Execute
      BY <2>1 DEF IInv, TypeOK, FitsFrame, Execute
    <2>3. (task.op = "read" => Reading') /\ (task.op = "list" => Listing')
      BY <2>1 DEF IInv, Reading, ReadsEveryLine, Listing
    <2> QED
      BY <2>1, <2>2, <2>3 DEF IInv
  <1> QED
    BY <1>1, <1>2, <1>3 DEF Next

\* The invariant holds of every review.
THEOREM ReviewInvariant == Spec => []IInv
  BY ReviewInit, ReviewStep, PTL DEF Spec

\* What the invariant says of a listing is what a reviewer may rely on.
LEMMA ListedIs == IInv => ListsEveryEntry
  <1> SUFFICES ASSUME IInv, task.op = "list" PROVE ListsEveryEntry
    BY DEF ListsEveryEntry
  <1> DEFINE of == task.of
  <1>1. of \in Seq(Nat) /\ Len(of) \in Nat
    BY TaskIs, LenProperties DEF IInv, TypeOK
  <1>2. PICK n \in 0 .. Len(of) : known = SubSeq(of, 1, n) /\ (state = "done" => n = Len(of))
    BY DEF IInv, Listing
  <1> HIDE DEF of
  <1>3. known \in Seq(Nat) /\ Len(known) = n
    <2>1. 1 \in Int /\ n \in Int /\ \A i \in 1 .. n : of[i] \in Nat
      <3>1. \A i \in 1 .. Len(of) : of[i] \in Nat
        BY <1>1, ElementOfSeq
      <3> QED
        BY <3>1, <1>1, <1>2
    <2>2. /\ SubSeq(of, 1, n) \in Seq(Nat)
          /\ Len(SubSeq(of, 1, n)) = IF 1 <= n THEN n - 1 + 1 ELSE 0
      BY <2>1, SubSeqProperties
    <2> QED
      BY <2>2, <1>2, <1>1
  <1>4. SubSeq(known, 1, Len(known)) = known /\ SubSeq(of, 1, Len(of)) = of
    BY <1>1, <1>3, SubSeqFull
  <1>5. IsPrefix(known, of)
    <2>1. SubSeq(known, 1, Len(known)) = SubSeq(of, 1, Len(known)) /\ Len(known) <= Len(of)
      <3>1. SubSeq(of, 1, Len(known)) = SubSeq(of, 1, n)
        BY <1>3
      <3>2. SubSeq(known, 1, Len(known)) = SubSeq(of, 1, n)
        BY <1>2, <1>4
      <3> QED
        BY <3>1, <3>2, <1>1, <1>2, <1>3
    <2> QED
      BY <2>1 DEF IsPrefix
  <1>6. state = "done" => known = of
    BY <1>2, <1>4
  <1> QED
    BY <1>5, <1>6 DEF ListsEveryEntry, of

\* A line can be shown when it is one of those that are counted.
LEMMA CitedIs == TypeOK => CitesWhatIsReadable
  <1> SUFFICES ASSUME TypeOK, task.op = "read", NEW line \in 1 .. MaxFile + 2
               PROVE  Read(task.of, line, 1).ok <=> line <= CountLines(task.of)
    BY DEF CitesWhatIsReadable
  <1> DEFINE data == task.of
             a == Read(data, line, 1)
             m == line - 1
  <1>1. data \in Seq(Chars) /\ line \in Nat \ {0} /\ 1 \in Nat \ {0} /\ m \in Nat
    BY TaskIs, Limits DEF TypeOK
  <1> HIDE DEF data, a
  <1>2. (m < CountLines(data) => a.ok) /\ (~(m < CountLines(data)) => a = Nothing)
    <2>1. \A b : b = Read(data, line, 1) =>
             (m < CountLines(data) => b.ok) /\ (~(m < CountLines(data)) => b = Nothing)
      BY <1>1, ReadIs
    <2> QED
      BY <2>1 DEF a
  <1>3. Nothing.ok = FALSE
    BY DEF Nothing
  <1>4. CountLines(data) \in Nat
    BY <1>1, CountIs
  <1>5. m < CountLines(data) <=> line <= CountLines(data)
    BY <1>1, <1>4
  <1>6. a.ok <=> m < CountLines(data)
    BY <1>2, <1>3
  <1> QED
    BY <1>5, <1>6 DEF a, data

\* An answer without the flag leaves nothing out.
LEMMA FlaggedIs == IInv => FlagIsHonest
  <1> SUFFICES ASSUME IInv, state = "answered" PROVE FlagIsHonest
    BY DEF FlagIsHonest
  <1>1. task \in Tasks /\ answer = Execute
    BY DEF IInv, TypeOK
  <1>2. CASE task.op = "search"
    <2>1. task.of \in Seq([size : Nat, hits : Nat]) /\ answer = Search(task.of)
      BY <1>1, <1>2, TaskIs DEF Execute
    <2>2. Len(answer.text) < Matches(task.of) => answer.truncated
      BY <2>1, SearchIs
    <2> QED
      BY <2>2, <1>2 DEF FlagIsHonest
  <1>3. CASE task.op = "diff"
    <2>1. task.of \in Seq(Nat) /\ answer = ChangeList(task.of)
      BY <1>1, <1>3, TaskIs DEF Execute
    <2>2. Len(answer.text) < Len(task.of) => answer.truncated
      BY <2>1, ChangeListIs
    <2> QED
      BY <2>2, <1>3 DEF FlagIsHonest
  <1>4. CASE task.op \notin {"search", "diff"}
    BY <1>4 DEF FlagIsHonest
  <1> QED
    BY <1>2, <1>3, <1>4

\* A reviewer that follows the hints believes nothing of the snapshot that is
\* not so, and can know of what it was not shown: the lines of a file, the
\* entries of a directory, the matches of a search and the changes of a diff,
\* for every input and every limit.
THEOREM SnapshotIsShown == Spec => []ShowsTheSnapshot
  <1>1. IInv => ShowsTheSnapshot
    <2> SUFFICES ASSUME IInv PROVE ShowsTheSnapshot
      OBVIOUS
    <2>1. TypeOK
      BY DEF IInv
    <2>2. ReadsEveryLine
      BY DEF IInv, Reading, ReadsEveryLine
    <2> QED
      BY <2>1, <2>2, ListedIs, CitedIs, FlaggedIs DEF ShowsTheSnapshot
  <1> QED
    BY <1>1, ReviewInvariant, PTL

\* The window that a review_read shows fits the mediator's frame, whatever has to
\* be escaped and however long its first line is, and is never refused for its
\* size; only what the transport escapes for HTML makes it too large for the bridge.
THEOREM AnswerFitsFrame == Spec => []FitsFrame
  <1>1. IInv => FitsFrame
    BY DEF IInv
  <1> QED
    BY <1>1, ReviewInvariant, PTL
=============================================================================
