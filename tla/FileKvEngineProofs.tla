------------------------- MODULE FileKvEngineProofs -------------------------
(***************************************************************************)
(* Theorems about FileKvEngine, for every set of keys and values, every    *)
(* set of snapshot prefixes and logs of any length: as long as neither the *)
(* empty key nor a write the disk cut short spoiled it, kv.log replays, a  *)
(* snapshot is restored as it was saved or refused, and the engine         *)
(* implements the durable store of module KvStore.                         *)
(***************************************************************************)
EXTENDS FileKvEngine, FiniteSetTheorems, WellFoundedInduction, TLAPS

-----------------------------------------------------------------------------
\* The least and the greatest element of a set of numbers.

\* Min of a nonempty set of naturals is its least element.
LEMMA MinOfNats ==
  ASSUME NEW S \in SUBSET Nat, S # {}
  PROVE  Min(S) \in S /\ \A y \in S : Min(S) <= y
<1>1. IsWellFoundedOn({ss \in Nat \X Nat : ss[1] < ss[2]}, Nat)
  BY NatLessThanWellFounded DEF OpToRel
<1>2. PICK x \in S : \A y \in S : ~(<<y, x>> \in {ss \in Nat \X Nat : ss[1] < ss[2]})
  BY <1>1, WFMin, Zenon
<1>3. \A y \in S : x \in Nat /\ y \in Nat /\ ~(y < x)
  BY <1>2
<1>4. \A y \in S : x <= y
  BY <1>3
<1> QED
  BY <1>4 DEF Min

\* Max of a nonempty set of naturals with an upper bound is its greatest element.
LEMMA MaxOfBoundedNats ==
  ASSUME NEW S \in SUBSET Nat, S # {}, NEW b \in Nat, \A s \in S : s <= b
  PROVE  Max(S) \in S /\ \A y \in S : Max(S) >= y
<1> DEFINE D == {b - s : s \in S}
<1>1. \A s \in S : b - s \in Nat
  OBVIOUS
<1>2. D \in SUBSET Nat /\ D # {}
  BY <1>1
<1>3. Min(D) \in D /\ \A d \in D : Min(D) <= d
  BY <1>2, MinOfNats
<1>4. PICK x \in S : \A y \in S : b - x <= b - y
  BY <1>3
<1>5. \A y \in S : x >= y
  BY <1>4
<1> QED
  BY <1>5 DEF Max

-----------------------------------------------------------------------------
\* InOrder lists every element of a finite set of numbers, and nothing else.

\* How many elements of S are below x.
Rank(S, x) == Cardinality({y \in S : y < x})

LEMMA RankBounds ==
  ASSUME NEW S \in SUBSET Int, IsFiniteSet(S), NEW x \in S
  PROVE  Rank(S, x) \in 0 .. Cardinality(S) - 1
<1> DEFINE B == {y \in S : y < x}
<1>1. B \in SUBSET S /\ B # S
  OBVIOUS
<1>2. IsFiniteSet(B) /\ Cardinality(B) <= Cardinality(S) /\ Cardinality(B) # Cardinality(S)
  BY <1>1, FS_Subset
<1>3. Cardinality(B) \in Nat /\ Cardinality(S) \in Nat
  BY <1>2, FS_CardinalityType
<1> QED
  BY <1>2, <1>3 DEF Rank

LEMMA RankIncreases ==
  ASSUME NEW S \in SUBSET Int, IsFiniteSet(S), NEW x \in S, NEW z \in S, x < z
  PROVE  Rank(S, x) < Rank(S, z)
<1> DEFINE B == {y \in S : y < x}
           C == {y \in S : y < z}
<1>1. C \in SUBSET S /\ B \in SUBSET C /\ x \in C /\ x \notin B
  <2>1. x \in Int /\ z \in Int
    OBVIOUS
  <2>2. \A y \in S : y \in Int /\ (y < x => y < z)
    BY <2>1
  <2>3. B \in SUBSET C
    BY <2>2
  <2> QED
    BY <2>1, <2>3
<1>2. IsFiniteSet(C)
  BY <1>1, FS_Subset
<1>3. IsFiniteSet(B) /\ Cardinality(B) <= Cardinality(C) /\ Cardinality(B) # Cardinality(C)
  <2>1. B # C
    BY <1>1
  <2> QED
    BY <1>1, <1>2, <2>1, FS_Subset
<1>4. Cardinality(B) \in Nat /\ Cardinality(C) \in Nat
  BY <1>2, <1>3, FS_CardinalityType
<1> QED
  BY <1>3, <1>4 DEF Rank

LEMMA RankIsInjective ==
  ASSUME NEW S \in SUBSET Int, IsFiniteSet(S), NEW x \in S, NEW z \in S,
         Rank(S, x) = Rank(S, z)
  PROVE  x = z
<1>1. Rank(S, x) \in Int /\ x \in Int /\ z \in Int
  BY RankBounds, FS_CardinalityType
<1>2. ~(x < z)
  BY <1>1, RankIncreases
<1>3. ~(z < x)
  BY <1>1, RankIncreases
<1> QED
  BY <1>1, <1>2, <1>3

\* Every rank below the size of S is taken: there are as many ranks as elements.
LEMMA RankIsTaken ==
  ASSUME NEW S \in SUBSET Int, IsFiniteSet(S), NEW i \in 1 .. Cardinality(S)
  PROVE  \E x \in S : Rank(S, x) = i - 1
<1> DEFINE n == Cardinality(S)
           R == [x \in S |-> Rank(S, x)]
           D == 0 .. n - 1
           I == {R[x] : x \in S}
<1>1. n \in Nat
  BY FS_CardinalityType
<1>2. IsFiniteSet(D) /\ Cardinality(D) = n
  <2>1. /\ IsFiniteSet(0 .. n - 1)
        /\ Cardinality(0 .. n - 1) = IF 0 > n - 1 THEN 0 ELSE n - 1 - 0 + 1
    <3> HIDE DEF n
    <3>1. 0 \in Int /\ n - 1 \in Int
      BY <1>1
    <3> QED
      BY <3>1, FS_Interval
  <2> HIDE DEF n
  <2> QED
    BY <1>1, <2>1
<1>3. I \in SUBSET D
  BY RankBounds
<1>4. R \in Bijection(S, I)
  <2>1. R \in [S -> I] /\ \A y \in I : \E x \in S : R[x] = y
    OBVIOUS
  <2>2. \A x, z \in S : R[x] = R[z] => x = z
    BY RankIsInjective
  <2> QED
    BY <2>1, <2>2 DEF Bijection, Injection, Surjection, IsInjective
<1>5. Cardinality(I) = n
  BY <1>4, FS_Bijection DEF ExistsBijection
<1>6. I = D
  BY <1>2, <1>3, <1>5, FS_Subset
<1>7. i - 1 \in D
  BY <1>1
<1> QED
  BY <1>6, <1>7

LEMMA InOrderFacts ==
  ASSUME NEW S \in SUBSET Int, IsFiniteSet(S)
  PROVE  /\ DOMAIN InOrder(S) = 1 .. Cardinality(S)
         /\ {InOrder(S)[i] : i \in DOMAIN InOrder(S)} = S
         /\ InOrder(S) \in Seq(S)
         /\ Len(InOrder(S)) = Cardinality(S)
<1> DEFINE n == Cardinality(S)
           l == InOrder(S)
           at(i) == CHOOSE x \in S : Rank(S, x) = i - 1
<1>1. n \in Nat
  BY FS_CardinalityType
<1>2. l = [i \in 1 .. n |-> at(i)]
  BY DEF InOrder, Rank
<1>3. \A i \in 1 .. n : l[i] \in S /\ Rank(S, l[i]) = i - 1
  BY <1>2, RankIsTaken
<1>4. DOMAIN l = 1 .. n
  BY <1>2
<1>5. ASSUME NEW x \in S PROVE \E i \in 1 .. n : l[i] = x
  <2>1. Rank(S, x) \in 0 .. n - 1
    BY RankBounds
  <2> DEFINE i == Rank(S, x) + 1
  <2>2. i \in 1 .. n /\ i - 1 = Rank(S, x)
    BY <2>1, <1>1
  <2>3. l[i] \in S /\ Rank(S, l[i]) = Rank(S, x)
    <3> HIDE DEF i, l, n
    <3> QED
      BY <2>2, <1>3
  <2>4. PICK z \in S : z = l[i]
    BY <2>3
  <2>5. Rank(S, z) = Rank(S, x)
    BY <2>3, <2>4
  <2>6. z = x
    BY <2>5, RankIsInjective
  <2> QED
    BY <2>2, <2>4, <2>6
<1>6. {l[i] : i \in 1 .. n} = S
  BY <1>3, <1>5
<1>7. l \in Seq(S) /\ Len(l) = n
  <2>1. l \in [1 .. n -> S]
    BY <1>2, <1>3
  <2> QED
    BY <2>1, <1>1
<1> QED
  BY <1>4, <1>6, <1>7

\* An element stands in the order after those below it.
LEMMA InOrderAt ==
  ASSUME NEW S \in SUBSET Int, IsFiniteSet(S), NEW x \in S
  PROVE  Rank(S, x) + 1 \in 1 .. Cardinality(S) /\ InOrder(S)[Rank(S, x) + 1] = x
<1>1. Rank(S, x) \in 0 .. Cardinality(S) - 1 /\ Cardinality(S) \in Nat
  BY RankBounds, FS_CardinalityType
<1> DEFINE i == Rank(S, x) + 1
<1>2. i \in 1 .. Cardinality(S) /\ i - 1 = Rank(S, x)
  BY <1>1
<1>3. InOrder(S)[i] = CHOOSE z \in S : Rank(S, z) = i - 1
  BY <1>2 DEF InOrder, Rank
<1> HIDE DEF i
<1>4. InOrder(S)[i] \in S /\ Rank(S, InOrder(S)[i]) = Rank(S, x)
  BY <1>2, <1>3
<1>5. InOrder(S)[i] = x
  <2>1. PICK z \in S : z = InOrder(S)[i]
    BY <1>4
  <2>2. Rank(S, z) = Rank(S, x)
    BY <2>1, <1>4
  <2>3. z = x
    BY <2>2, RankIsInjective
  <2> QED
    BY <2>1, <2>3
<1> QED
  BY <1>2, <1>5 DEF i

-----------------------------------------------------------------------------

Content == Value \cup {NoValue}

\* The mutations that do not spoil the log.
Named  == Key \ {EmptyString}
Proper == [key : Named, value : Content]

-----------------------------------------------------------------------------
\* Reading a text.

There(text) == {i \in DOMAIN text : text[i] # EmptyString}

\* Nothing is dropped from a text without empty fields.
LEMMA ReadWhole ==
  ASSUME NEW text, \A i \in DOMAIN text : text[i] # EmptyString
  PROVE  Read(text) = text
BY DEF Read

\* From another one, the fields that are there move up.
LEMMA ReadOthers ==
  ASSUME NEW T, NEW text \in Seq(T), NEW e \in DOMAIN text, text[e] = EmptyString
  PROVE  /\ Read(text) \in Seq(T)
         /\ Len(Read(text)) = Cardinality(There(text))
         /\ \A i \in There(text) :
              /\ Rank(There(text), i) + 1 \in 1 .. Len(Read(text))
              /\ Read(text)[Rank(There(text), i) + 1] = text[i]
<1> DEFINE S == There(text)
           At == InOrder(S)
           f  == [j \in DOMAIN At |-> text[At[j]]]
<1>1. S \in SUBSET Int /\ IsFiniteSet(S) /\ S \in SUBSET DOMAIN text
  <2>1. DOMAIN text = 1 .. Len(text) /\ Len(text) \in Nat
    OBVIOUS
  <2>2. IsFiniteSet(1 .. Len(text))
    BY <2>1, FS_Interval
  <2>3. S \in SUBSET (1 .. Len(text))
    BY <2>1 DEF There
  <2> QED
    BY <2>1, <2>2, <2>3, FS_Subset
<1>2. Read(text) = f
  BY DEF Read, There
<1>3. /\ DOMAIN At = 1 .. Cardinality(S) /\ Cardinality(S) \in Nat
      /\ \A j \in DOMAIN At : At[j] \in S
  BY <1>1, InOrderFacts, FS_CardinalityType
<1>4. f \in [1 .. Cardinality(S) -> T]
  <2>1. ASSUME NEW j \in DOMAIN At PROVE text[At[j]] \in T
    BY <1>1, <1>3
  <2> QED
    BY <2>1, <1>3
<1>5. f \in Seq(T) /\ Len(f) = Cardinality(S)
  <2> HIDE DEF f
  <2> QED BY <1>3, <1>4
<1>6. ASSUME NEW i \in S
      PROVE  Rank(S, i) + 1 \in 1 .. Cardinality(S) /\ f[Rank(S, i) + 1] = text[i]
  <2>1. Rank(S, i) + 1 \in 1 .. Cardinality(S) /\ At[Rank(S, i) + 1] = i
    BY <1>1, InOrderAt
  <2> QED
    BY <2>1, <1>3
<1> QED
  <2> HIDE DEF f, S
  <2> QED BY <1>2, <1>5, <1>6 DEF S

-----------------------------------------------------------------------------
\* The lines of kv.log.

\* The line of a mutation says its key and its value.
LEMMA LineFacts ==
  ASSUME NEW m \in Proper
  PROVE  /\ LineKey(Line(m)) = m.key /\ LineValue(Line(m)) = m.value
         /\ Field(Read(Line(m)), 1) \in {"P", "D"}
<1> DEFINE l == Line(m)
<1>1. /\ m.key \in Key /\ m.value \in Value \cup {NoValue}
      /\ m.key # EmptyString /\ m.value # "-" /\ NoValue # EmptyString
      /\ "-" # EmptyString /\ "P" # EmptyString /\ "D" # EmptyString
  BY EngineAssumption DEF Proper, Named, Content
<1>2. l = <<Letter(m), m.key, ValueHex(m)>>
  BY DEF Line
<1>3. Letter(m) # EmptyString /\ ValueHex(m) # EmptyString
  BY <1>1 DEF Letter, ValueHex
<1>4. Read(l) = l
  <2> HIDE DEF l
  <2>1. DOMAIN l = 1 .. 3 /\ l[1] = Letter(m) /\ l[2] = m.key /\ l[3] = ValueHex(m)
    BY <1>2
  <2> QED
    BY <2>1, <1>1, <1>3, ReadWhole
<1>5. /\ Field(Read(l), 2) = m.key /\ Field(Read(l), 3) = ValueHex(m) /\ Read(l)[1] = Letter(m)
      /\ Field(Read(l), 1) = Letter(m) /\ Letter(m) \in {"P", "D"}
  BY <1>4, <1>2 DEF Field, Letter
<1>6. FromHex(ValueHex(m)) = IF m.value = NoValue THEN EmptyString ELSE m.value
  BY <1>1 DEF FromHex, ValueHex
<1> HIDE DEF l
<1>7. LineKey(l) = m.key
  BY <1>5 DEF LineKey
<1>8. LineValue(l) = IF Letter(m) = "D" THEN NoValue ELSE FromHex(ValueHex(m))
  BY <1>3, <1>5 DEF LineValue
<1>9. LineValue(l) = m.value
  BY <1>6, <1>8 DEF Letter
<1> QED
  BY <1>5, <1>7, <1>9 DEF l

\* Every line is that of a mutation.
LogLines(lines) == lines \in Seq({Line(m) : m \in Proper})

LEMMA LogLine ==
  ASSUME NEW lines, LogLines(lines), NEW i \in DOMAIN lines
  PROVE  /\ LineKey(lines[i]) \in Named /\ LineValue(lines[i]) \in Content
         /\ Field(Read(lines[i]), 1) \in {"P", "D"}
<1>1. lines[i] \in {Line(m) : m \in Proper}
  BY DEF LogLines
<1>2. PICK m \in Proper : lines[i] = Line(m)
  BY <1>1
<1>3. m.key \in Named /\ m.value \in Content
  BY DEF Proper, Named, Content
<1> QED
  BY <1>2, <1>3, LineFacts

LEMMA LinesReplay ==
  ASSUME NEW lines, LogLines(lines)
  PROVE  Replays(lines)
BY LogLine DEF Replays, HexDecodes, String, Content, Named

\* What the last line about a key says is its value.
LEMMA ReplayedLast ==
  ASSUME NEW lines, LogLines(lines), NEW k \in Key, NEW i \in DOMAIN lines,
         LastAbout(lines, k, i)
  PROVE  Replayed(lines)[k] = LineValue(lines[i])
<1>1. DOMAIN lines \in SUBSET Nat
  BY DEF LogLines
<1>2. ASSUME NEW j \in DOMAIN lines, LastAbout(lines, k, j) PROVE j = i
  BY <1>1, <1>2 DEF LastAbout
<1>3. (CHOOSE j \in DOMAIN lines : LastAbout(lines, k, j)) = i
  BY <1>2
<1>4. k \in String /\ LineKey(lines[i]) = k
  BY DEF String, LastAbout
<1> QED
  BY <1>3, <1>4 DEF Replayed

\* A key with a line has a last one.
LEMMA HasLast ==
  ASSUME NEW lines, LogLines(lines), NEW k, NEW i \in DOMAIN lines, LineKey(lines[i]) = k
  PROVE  \E j \in DOMAIN lines : LastAbout(lines, k, j)
<1> DEFINE on == {j \in DOMAIN lines : LineKey(lines[j]) = k}
<1>1. DOMAIN lines = 1 .. Len(lines) /\ Len(lines) \in Nat
  BY DEF LogLines
<1>2. on \in SUBSET Nat /\ on # {} /\ \A s \in on : s <= Len(lines)
  BY <1>1
<1>3. Max(on) \in on /\ \A y \in on : Max(on) >= y
  <2> HIDE DEF on
  <2> QED BY <1>1, <1>2, MaxOfBoundedNats
<1> DEFINE x == Max(on)
<1> HIDE DEF x
<1>4. x \in DOMAIN lines /\ LineKey(lines[x]) = k
      /\ \A j \in DOMAIN lines : LineKey(lines[j]) = k => x >= j
  BY <1>3 DEF x
<1>5. LastAbout(lines, k, x)
  BY <1>1, <1>4 DEF LastAbout
<1> QED
  BY <1>4, <1>5

LEMMA ReplayedNone ==
  ASSUME NEW lines, NEW k \in Key, \A i \in DOMAIN lines : LineKey(lines[i]) # k
  PROVE  Replayed(lines)[k] = NoValue
BY DEF Replayed, String

LEMMA ReplayedType ==
  ASSUME NEW lines, LogLines(lines)
  PROVE  /\ Replayed(lines) \in [String -> Content]
         /\ \A k \in String : Replayed(lines)[k] # NoValue =>
              \E i \in DOMAIN lines : LineKey(lines[i]) = k
<1>1. ASSUME NEW k \in String, NEW i \in DOMAIN lines, LineKey(lines[i]) = k
      PROVE  Replayed(lines)[k] \in Content
  <2>1. PICK j \in DOMAIN lines : LastAbout(lines, k, j)
    BY <1>1, HasLast
  <2>2. k \in Key
    BY <1>1, LogLine DEF Named
  <2> QED
    BY <2>1, <2>2, ReplayedLast, LogLine
<1>2. ASSUME NEW k \in String, \A i \in DOMAIN lines : LineKey(lines[i]) # k
      PROVE  Replayed(lines)[k] = NoValue
  BY <1>2 DEF Replayed
<1>3. Replayed(lines) = [k \in String |-> Replayed(lines)[k]]
  BY DEF Replayed
<1> QED
  BY <1>1, <1>2, <1>3 DEF Content

-----------------------------------------------------------------------------
\* One line more.

LEMMA AppendedLine ==
  ASSUME NEW lines, LogLines(lines), NEW m \in Proper
  PROVE  /\ LogLines(Append(lines, Line(m)))
         /\ Replayed(Append(lines, Line(m)))[m.key] = m.value
         /\ \A k \in Key : k # m.key =>
              Replayed(Append(lines, Line(m)))[k] = Replayed(lines)[k]
<1> DEFINE new == Append(lines, Line(m))
           n   == Len(lines)
<1>1. LogLines(new)
  BY DEF LogLines
<1>2. /\ n \in Nat /\ DOMAIN lines = 1 .. n /\ DOMAIN new = 1 .. n + 1
      /\ new[n + 1] = Line(m) /\ \A i \in 1 .. n : new[i] = lines[i]
  BY DEF LogLines
<1>3. m.key \in Key /\ LineKey(Line(m)) = m.key /\ LineValue(Line(m)) = m.value
  BY LineFacts DEF Proper, Named
<1> HIDE DEF new, n
<1>4. Replayed(new)[m.key] = m.value
  <2>1. LastAbout(new, m.key, n + 1) /\ n + 1 \in DOMAIN new
    BY <1>2, <1>3 DEF LastAbout
  <2> QED
    BY <2>1, <1>1, <1>2, <1>3, ReplayedLast
<1>5. ASSUME NEW k \in Key, k # m.key PROVE Replayed(new)[k] = Replayed(lines)[k]
  <2>1. CASE \A i \in DOMAIN lines : LineKey(lines[i]) # k
    <3>1. \A i \in DOMAIN new : LineKey(new[i]) # k
      BY <2>1, <1>2, <1>3, <1>5
    <3> QED
      BY <2>1, <3>1, ReplayedNone
  <2>2. ASSUME NEW i \in DOMAIN lines, LineKey(lines[i]) = k
        PROVE  Replayed(new)[k] = Replayed(lines)[k]
    <3>1. PICK j \in DOMAIN lines : LastAbout(lines, k, j)
      BY <2>2, HasLast
    <3>2. j \in DOMAIN new /\ new[j] = lines[j] /\ j \in Nat
      BY <1>2
    <3>3. LineKey(new[j]) = k
      BY <3>1, <3>2 DEF LastAbout
    <3>4. ASSUME NEW h \in DOMAIN new, h > j PROVE LineKey(new[h]) # k
      <4>1. CASE h = n + 1
        BY <4>1, <1>2, <1>3, <1>5
      <4>2. CASE h # n + 1
        <5>1. h \in DOMAIN lines /\ new[h] = lines[h]
          BY <4>2, <1>2
        <5> QED
          BY <5>1, <3>1, <3>4 DEF LastAbout
      <4> QED
        BY <4>1, <4>2
    <3>5. LastAbout(new, k, j)
      BY <3>3, <3>4 DEF LastAbout
    <3> QED
      BY <3>1, <3>2, <3>5, <1>1, ReplayedLast
  <2> QED
    BY <2>1, <2>2
<1> QED
  BY <1>1, <1>4, <1>5 DEF new

\* The last lines are those of the first d mutations of ms.
Ends(lines, ms, d) ==
  /\ d \in 0 .. Len(ms) /\ d <= Len(lines)
  /\ \A i \in 1 .. d : lines[Len(lines) - d + i] = Line(ms[i])

LEMMA AppendedEnds ==
  ASSUME NEW lines, LogLines(lines), NEW ms \in Seq(Proper), NEW d,
         Ends(lines, ms, d), d < Len(ms)
  PROVE  Ends(Append(lines, Line(ms[d + 1])), ms, d + 1)
<1> DEFINE new == Append(lines, Line(ms[d + 1]))
           n   == Len(lines)
<1>1. /\ n \in Nat /\ DOMAIN lines = 1 .. n /\ Len(new) = n + 1
      /\ new[n + 1] = Line(ms[d + 1]) /\ \A i \in 1 .. n : new[i] = lines[i]
  BY DEF LogLines
<1>2. d \in Nat /\ d + 1 \in 0 .. Len(ms) /\ d + 1 <= n + 1
  BY <1>1 DEF Ends
<1> HIDE DEF new
<1>3. ASSUME NEW i \in 1 .. d + 1 PROVE new[Len(new) - (d + 1) + i] = Line(ms[i])
  <2>1. CASE i = d + 1
    <3>1. Len(new) - (d + 1) + i = n + 1
      BY <2>1, <1>1, <1>2
    <3> QED
      BY <3>1, <2>1, <1>1
  <2>2. CASE i # d + 1
    <3>1. i \in 1 .. d /\ Len(new) - (d + 1) + i = n - d + i /\ n - d + i \in 1 .. n
      BY <2>2, <1>1, <1>2
    <3> QED
      BY <3>1, <1>1 DEF Ends
  <2> QED
    BY <2>1, <2>2
<1> QED
  BY <1>1, <1>2, <1>3 DEF Ends, new

\* When all the lines of ms are there, they decide about the keys of ms.
LEMMA EndsDecide ==
  ASSUME NEW lines, LogLines(lines), NEW ms \in Seq(Proper), Ends(lines, ms, Len(ms)),
         NEW d, NEW k \in Key, k \in DOMAIN d, NEW i \in DOMAIN ms, ms[i].key = k
  PROVE  Replayed(lines)[k] = Written(ms, d)[k]
<1> DEFINE on == {j \in DOMAIN ms : ms[j].key = k}
           x  == Max(on)
           n  == Len(lines)
           b  == n - Len(ms)
<1>1. /\ n \in Nat /\ Len(ms) \in Nat /\ Len(ms) <= n /\ b \in Nat
      /\ DOMAIN lines = 1 .. n /\ DOMAIN ms = 1 .. Len(ms)
      /\ \A j \in DOMAIN ms : ms[j] \in Proper /\ lines[b + j] = Line(ms[j])
  BY DEF LogLines, Ends
<1>2. x \in on /\ \A y \in on : x >= y
  <2>1. on \in SUBSET Nat /\ on # {} /\ \A s \in on : s <= Len(ms)
    BY <1>1
  <2> HIDE DEF on
  <2> QED BY <1>1, <2>1, MaxOfBoundedNats
<1>3. Written(ms, d)[k] = ms[x].value
  BY DEF Written
<1> HIDE DEF x, b, n
<1>4. x \in DOMAIN ms /\ ms[x].key = k /\ \A j \in DOMAIN ms : ms[j].key = k => x >= j
  BY <1>2
<1>5. b + x \in DOMAIN lines /\ lines[b + x] = Line(ms[x]) /\ ms[x] \in Proper
  BY <1>1, <1>4 DEF b
<1>6. LineKey(lines[b + x]) = k /\ LineValue(lines[b + x]) = ms[x].value
  BY <1>4, <1>5, LineFacts
<1>7. ASSUME NEW h \in DOMAIN lines, h > b + x PROVE LineKey(lines[h]) # k
  <2> DEFINE j == h - b
  <2>1. j \in DOMAIN ms /\ h = b + j /\ j > x
    BY <1>1, <1>4, <1>7 DEF b
  <2> HIDE DEF j
  <2>2. LineKey(lines[h]) = ms[j].key
    BY <2>1, <1>1, LineFacts
  <2>3. ms[j].key # k
    BY <2>1, <1>1, <1>4
  <2> QED
    BY <2>2, <2>3
<1>8. LastAbout(lines, k, b + x)
  BY <1>6, <1>7 DEF LastAbout
<1> QED
  BY <1>3, <1>5, <1>6, <1>8, ReplayedLast

\* Written leaves the other keys alone.
LEMMA WrittenOthers ==
  ASSUME NEW ms, NEW d, NEW k \in DOMAIN d, \A i \in DOMAIN ms : ms[i].key # k
  PROVE  Written(ms, d)[k] = d[k]
<1>1. {i \in DOMAIN ms : ms[i].key = k} = {}
  OBVIOUS
<1> QED
  BY <1>1 DEF Written

LEMMA WrittenType ==
  ASSUME NEW ms \in Seq(Proper), NEW D, NEW d \in [D -> Content]
  PROVE  Written(ms, d) \in [D -> Content]
<1>1. ASSUME NEW k \in D, NEW i \in DOMAIN ms, ms[i].key = k
      PROVE  Written(ms, d)[k] \in Content
  <2> DEFINE on == {j \in DOMAIN ms : ms[j].key = k}
  <2>1. on \in SUBSET Nat /\ on # {} /\ Len(ms) \in Nat /\ \A s \in on : s <= Len(ms)
    BY <1>1
  <2>2. Written(ms, d)[k] = ms[Max(on)].value
    BY <2>1 DEF Written
  <2>3. Max(on) \in on
    <3> HIDE DEF on
    <3> QED BY <2>1, MaxOfBoundedNats
  <2>4. ms[Max(on)] \in Proper
    BY <2>3
  <2>5. ms[Max(on)].value \in Content
    BY <2>4 DEF Proper, Named, Content
  <2> QED
    BY <2>2, <2>5
<1>2. ASSUME NEW k \in D, \A i \in DOMAIN ms : ms[i].key # k
      PROVE  Written(ms, d)[k] \in Content
  <2>1. Written(ms, d)[k] = d[k]
    BY <1>2, WrittenOthers
  <2> QED
    BY <2>1
<1>3. Written(ms, d) = [k \in D |-> Written(ms, d)[k]]
  BY DEF Written
<1> QED
  BY <1>1, <1>2, <1>3

-----------------------------------------------------------------------------
\* The commands come back as they were meant, empty values too.

LEMMA PutDecodes ==
  ASSUME NEW m \in Proper, m.value # NoValue
  PROVE  DecodeCommand(EncodeCommand("PUT", <<m>>)) = <<m>>
<1> DEFINE t == <<"PUT", m.key, m.value>>
           f == Read(t)
<1>1. EncodeCommand("PUT", <<m>>) = t
  BY DEF EncodeCommand
<1>2. /\ m.key # EmptyString /\ "PUT" # EmptyString
      /\ m = [key |-> m.key, value |-> m.value]
  BY EngineAssumption DEF Proper, Named, Content
<1>3. f[1] = "PUT" /\ Field(f, 2) = m.key /\ Field(f, 3) = m.value
  <2>1. CASE m.value # EmptyString
    <3>1. f = t
      BY <2>1, <1>2, ReadWhole
    <3> QED
      BY <3>1 DEF Field
  <2>2. CASE m.value = EmptyString
    <3> DEFINE S == There(t)
               T == {"PUT", m.key, m.value}
    <3>1. t \in Seq(T) /\ 3 \in DOMAIN t /\ t[3] = EmptyString /\ t[1] = "PUT" /\ t[2] = m.key
      BY <2>2
    <3>2. S = {1, 2}
      BY <3>1, <1>2 DEF There
    <3>3. Rank(S, 1) = 0 /\ Rank(S, 2) = 1 /\ Cardinality(S) = 2
      <4>1. {y \in S : y < 1} = {} /\ {y \in S : y < 2} = {1}
        BY <3>2
      <4>2. Cardinality({}) = 0 /\ IsFiniteSet({})
        BY FS_EmptySet
      <4>3. Cardinality({1}) = 1 /\ IsFiniteSet({1})
        BY FS_Singleton
      <4>4. {1, 2} = {1} \cup {2}
        OBVIOUS
      <4>5. Cardinality({1} \cup {2}) = 2
        BY <4>3, FS_AddElement
      <4> QED
        BY <3>2, <4>1, <4>2, <4>3, <4>4, <4>5 DEF Rank
    <3> HIDE DEF t, S
    <3>4. /\ f \in Seq(T) /\ Len(f) = Cardinality(There(t))
          /\ \A i \in There(t) : f[Rank(There(t), i) + 1] = t[i]
      BY <3>1, ReadOthers
    <3>5. /\ DOMAIN f = 1 .. 2 /\ f[1] = t[1] /\ f[2] = t[2]
      <4>1. Len(f) = 2 /\ DOMAIN f = 1 .. Len(f)
        BY <3>4, <3>3 DEF S
      <4>2. f[0 + 1] = t[1] /\ f[1 + 1] = t[2]
        BY <3>2, <3>3, <3>4 DEF S
      <4> QED
        BY <4>1, <4>2
    <3> HIDE DEF f
    <3> QED
      BY <3>1, <3>5, <2>2 DEF Field
  <2> QED
    BY <2>1, <2>2
<1> HIDE DEF f
<1>4. DecodeCommand(t) = [i \in 1 .. 1 |-> [key |-> m.key, value |-> m.value]]
  BY <1>3 DEF DecodeCommand, f
<1> HIDE DEF t
<1>5. DecodeCommand(t) = [i \in 1 .. 1 |-> m]
  BY <1>2, <1>4
<1> QED
  BY <1>1, <1>5

LEMMA DeleteDecodes ==
  ASSUME NEW m \in Proper, m.value = NoValue
  PROVE  DecodeCommand(EncodeCommand("DELETE", <<m>>)) = <<m>>
<1> DEFINE t == <<"DELETE", m.key>>
<1>1. EncodeCommand("DELETE", <<m>>) = t
  BY DEF EncodeCommand
<1>2. /\ m.key # EmptyString /\ "DELETE" # EmptyString
      /\ m = [key |-> m.key, value |-> NoValue]
  BY EngineAssumption DEF Proper, Named, Content
<1>3. Read(t) = t
  BY <1>2, ReadWhole
<1>4. Read(t)[1] = "DELETE" /\ Field(Read(t), 2) = m.key
  BY <1>3 DEF Field
<1> HIDE DEF t
<1>5. DecodeCommand(t) = [i \in 1 .. 1 |-> [key |-> m.key, value |-> NoValue]]
  BY <1>4 DEF DecodeCommand
<1>6. DecodeCommand(t) = [i \in 1 .. 1 |-> m]
  BY <1>2, <1>5
<1> QED
  BY <1>1, <1>6

LEMMA Concatenation ==
  ASSUME NEW T, NEW h \in Seq(T), NEW b \in Seq(T)
  PROVE  /\ h \o b \in Seq(T) /\ Len(h \o b) = Len(b) + Len(h)
         /\ \A i \in 1 .. Len(h) : (h \o b)[i] = h[i]
         /\ \A i \in 1 .. Len(b) : (h \o b)[i + Len(h)] = b[i]
<1>1. /\ h \o b \in Seq(T) /\ Len(h \o b) = Len(b) + Len(h)
      /\ \A i \in 1 .. Len(h) : (h \o b)[i] = h[i]
      /\ Len(h) \in Nat /\ Len(b) \in Nat
  OBVIOUS
<1>2. \A i \in (Len(h) + 1) .. (Len(h) + Len(b)) : (h \o b)[i] = b[i - Len(h)]
  OBVIOUS
<1>3. ASSUME NEW i \in 1 .. Len(b) PROVE (h \o b)[i + Len(h)] = b[i]
  <2>1. i + Len(h) \in (Len(h) + 1) .. (Len(h) + Len(b)) /\ (i + Len(h)) - Len(h) = i
    BY <1>1
  <2> QED
    BY <2>1, <1>2
<1> QED
  BY <1>1, <1>3

LEMMA BatchDecodes ==
  ASSUME NEW ms \in Seq(Proper)
  PROVE  DecodeCommand(EncodeCommand("BATCH", ms)) = ms
<1> DEFINE n == Len(ms)
           b == [i \in 1 .. 3 * n |->
                   LET m == ms[(i + 2) \div 3]
                   IN  CASE i % 3 = 1 -> Letter(m) [] i % 3 = 2 -> m.key
                         [] OTHER -> ValueHex(m)]
           h == <<"BATCH", n>>
           t == h \o b
           T == {"BATCH", n, "P", "D", "-"} \cup Key \cup Value
<1>1. EncodeCommand("BATCH", ms) = t
  BY DEF EncodeCommand
<1>2. n \in Nat /\ DOMAIN ms = 1 .. n /\ \A i \in 1 .. n : ms[i] \in Proper
  OBVIOUS
<1>3. ASSUME NEW m \in Proper
      PROVE  /\ Letter(m) # EmptyString /\ m.key # EmptyString /\ ValueHex(m) # EmptyString
             /\ m = [key |-> m.key, value |-> IF Letter(m) = "P" THEN FromHex(ValueHex(m))
                                              ELSE NoValue]
             /\ Letter(m) \in T /\ m.key \in T /\ ValueHex(m) \in T
  BY EngineAssumption DEF Proper, Named, Content, Letter, ValueHex, FromHex
<1>4. ASSUME NEW r \in 1 .. n
      PROVE  /\ 3 * r - 2 \in 1 .. 3 * n /\ 3 * r - 1 \in 1 .. 3 * n /\ 3 * r \in 1 .. 3 * n
             /\ b[3 * r - 2] = Letter(ms[r]) /\ b[3 * r - 1] = ms[r].key
             /\ b[3 * r] = ValueHex(ms[r])
  <2>1. /\ 3 * r - 2 \in 1 .. 3 * n /\ 3 * r - 1 \in 1 .. 3 * n /\ 3 * r \in 1 .. 3 * n
        /\ (3 * r - 2 + 2) \div 3 = r /\ (3 * r - 1 + 2) \div 3 = r /\ (3 * r + 2) \div 3 = r
        /\ (3 * r - 2) % 3 = 1 /\ (3 * r - 1) % 3 = 2 /\ (3 * r) % 3 = 0
    BY <1>2
  <2> DEFINE B(i) == LET m == ms[(i + 2) \div 3]
                     IN  CASE i % 3 = 1 -> Letter(m) [] i % 3 = 2 -> m.key
                           [] OTHER -> ValueHex(m)
  <2>2. \A i \in 1 .. 3 * n : b[i] = B(i)
    OBVIOUS
  <2>3. B(3 * r - 2) = Letter(ms[r])
    BY <2>1
  <2>4. B(3 * r - 1) = ms[r].key
    BY <2>1
  <2>5. B(3 * r) = ValueHex(ms[r])
    <3> DEFINE j == 3 * r
    <3>1. j % 3 # 1 /\ j % 3 # 2 /\ (j + 2) \div 3 = r
      BY <2>1
    <3> HIDE DEF j
    <3>2. B(j) = ValueHex(ms[r])
      BY <3>1
    <3> QED
      BY <3>2 DEF j
  <2> HIDE DEF b, B
  <2> QED
    BY <2>1, <2>2, <2>3, <2>4, <2>5
<1>5. ASSUME NEW i \in 1 .. 3 * n
      PROVE  b[i] # EmptyString /\ b[i] \in T
  <2>1. (i + 2) \div 3 \in 1 .. n
    BY <1>2
  <2>2. PICK m \in Proper : m = ms[(i + 2) \div 3]
    BY <2>1, <1>2
  <2>3. b[i] = CASE i % 3 = 1 -> Letter(m) [] i % 3 = 2 -> m.key [] OTHER -> ValueHex(m)
    BY <2>2
  <2>4. b[i] \in {Letter(m), m.key, ValueHex(m)}
    <3> HIDE DEF b
    <3> QED BY <2>3
  <2> HIDE DEF b, T
  <2> QED
    BY <2>4, <1>3
<1>6. b \in [1 .. 3 * n -> T]
  BY <1>5
<1>7. b \in Seq(T) /\ Len(b) = 3 * n
  <2>1. 3 * n \in Nat
    BY <1>2
  <2> HIDE DEF b, T
  <2> QED BY <2>1, <1>6
<1>8. h \in Seq(T) /\ Len(h) = 2 /\ h[1] = "BATCH" /\ h[2] = n
  OBVIOUS
<1> HIDE DEF b, h, T
<1>9. /\ t \in Seq(T) /\ Len(t) = 3 * n + 2 /\ t[1] = "BATCH" /\ t[2] = n
      /\ \A i \in 1 .. 3 * n : t[i + 2] = b[i]
  <2>1. /\ h \o b \in Seq(T) /\ Len(h \o b) = Len(b) + Len(h)
        /\ \A i \in 1 .. Len(h) : (h \o b)[i] = h[i]
        /\ \A i \in 1 .. Len(b) : (h \o b)[i + Len(h)] = b[i]
    <3>1. h \in Seq(T) /\ b \in Seq(T)
      BY <1>7, <1>8
    <3> HIDE DEF t, n
    <3> QED
      BY ONLY <3>1, Concatenation, Zenon
  <2>2. /\ t \in Seq(T) /\ Len(t) = Len(b) + Len(h)
        /\ \A i \in 1 .. Len(h) : t[i] = h[i]
        /\ \A i \in 1 .. Len(b) : t[i + Len(h)] = b[i]
    BY <2>1
  <2> HIDE DEF t
  <2> QED
    BY <2>2, <1>2, <1>7, <1>8
<1> HIDE DEF t
<1>10. \A i \in DOMAIN t : t[i] # EmptyString
  <2>1. "BATCH" # EmptyString /\ n # EmptyString
    BY <1>2, EngineAssumption
  <2>2. ASSUME NEW i \in DOMAIN t PROVE t[i] # EmptyString
    <3>1. DOMAIN t = 1 .. 3 * n + 2
      BY <1>9
    <3>2. CASE i \in 3 .. 3 * n + 2
      <4> DEFINE j == i - 2
      <4>1. j \in 1 .. 3 * n /\ i = j + 2
        BY <3>2, <1>2
      <4> HIDE DEF j
      <4> QED
        BY <4>1, <1>9, <1>5
    <3>3. CASE i \notin 3 .. 3 * n + 2
      <4>1. i = 1 \/ i = 2
        BY <3>1, <3>3, <1>2
      <4> QED
        BY <4>1, <1>9, <2>1
    <3> QED
      BY <3>2, <3>3
  <2> QED
    BY <2>2
<1>11. Read(t) = t
  BY <1>10, ReadWhole
<1> DEFINE Of(i) == [key |-> Field(t, 3 * i + 1),
                     value |-> IF Field(t, 3 * i) = "P"
                               THEN FromHex(Field(t, 3 * i + 2)) ELSE NoValue]
<1>12. DecodeCommand(t) = [i \in 1 .. n |-> Of(i)]
  BY <1>9, <1>11 DEF DecodeCommand
<1>13. ASSUME NEW i \in 1 .. n PROVE Of(i) = ms[i]
  <2>1. /\ 3 * i \in DOMAIN t /\ 3 * i + 1 \in DOMAIN t /\ 3 * i + 2 \in DOMAIN t
        /\ 3 * i = (3 * i - 2) + 2 /\ 3 * i + 1 = (3 * i - 1) + 2
    BY <1>2, <1>9
  <2>2. t[3 * i] = Letter(ms[i]) /\ t[3 * i + 1] = ms[i].key /\ t[3 * i + 2] = ValueHex(ms[i])
    BY <2>1, <1>4, <1>9
  <2>3. /\ Field(t, 3 * i) = Letter(ms[i]) /\ Field(t, 3 * i + 1) = ms[i].key
        /\ Field(t, 3 * i + 2) = ValueHex(ms[i])
    BY <2>1, <2>2 DEF Field
  <2>4. ms[i] \in Proper
    BY <1>2
  <2>5. Of(i) = [key |-> ms[i].key, value |-> IF Letter(ms[i]) = "P"
                   THEN FromHex(ValueHex(ms[i])) ELSE NoValue]
    BY <2>3
  <2> QED
    BY <2>4, <2>5, <1>3
<1> HIDE DEF Of
<1>14. DecodeCommand(t) = [i \in 1 .. n |-> ms[i]]
  BY <1>12, <1>13
<1>15. ms = [i \in 1 .. n |-> ms[i]]
  BY <1>2
<1> QED
  BY <1>1, <1>14, <1>15

-----------------------------------------------------------------------------
\* Snapshots.

\* t is the text of a snapshot of the keys ks with the values vs.
IsSnapshot(t, ks, vs) ==
  /\ ks \in Seq(Named) /\ vs \in Seq(Value) /\ Len(vs) = Len(ks)
  /\ t = [i \in 1 .. 3 * Len(ks) + 3 |-> t[i]]
  /\ t[1] = "META" /\ t[2] = "ids"
  /\ \A r \in 1 .. Len(ks) : t[3 * r + 1] = "KV" /\ t[3 * r + 2] = ks[r] /\ t[3 * r + 3] = vs[r]

LEMMA RankOfInterval ==
  ASSUME NEW S, NEW i, NEW j \in Nat, {y \in S : y < i} = 1 .. j
  PROVE  Rank(S, i) = j
<1>1. Rank(S, i) = Cardinality(1 .. j)
  BY DEF Rank
<1>2. Cardinality(1 .. j) = j
  BY FS_Interval
<1> QED
  BY <1>1, <1>2

LEMMA Thirds ==
  ASSUME NEW e \in Nat
  PROVE  e \div 3 \in Nat /\ e % 3 \in 0 .. 2 /\ e = 3 * (e \div 3) + (e % 3)
OBVIOUS

\* Only the third field of a record can be empty.
LEMMA SnapshotEmpty ==
  ASSUME NEW t, NEW ks, NEW vs, IsSnapshot(t, ks, vs),
         NEW e \in DOMAIN t, t[e] = EmptyString
  PROVE  \E r \in 1 .. Len(ks) + 1 : e = 3 * r
<1>1. /\ Len(ks) \in Nat /\ DOMAIN t = 1 .. 3 * Len(ks) + 3 /\ e \in Nat
      /\ \A r \in 1 .. Len(ks) : ks[r] \in Named
  BY DEF IsSnapshot
<1>2. "META" # EmptyString /\ "ids" # EmptyString /\ "KV" # EmptyString /\ EmptyString \notin Named
  BY EngineAssumption DEF Named
<1>3. ASSUME e % 3 # 0 PROVE FALSE
  <2> DEFINE r == e \div 3
  <2>1. r \in 0 .. Len(ks) /\ (e = 3 * r + 1 \/ e = 3 * r + 2)
    <3>1. r \in Nat /\ e % 3 \in 0 .. 2 /\ e = 3 * r + (e % 3)
      BY <1>1, Thirds
    <3> HIDE DEF r
    <3> QED
      BY <1>1, <1>3, <3>1
  <2> HIDE DEF r
  <2>2. CASE r = 0
    <3>1. e = 1 \/ e = 2
      BY <2>1, <2>2
    <3> QED
      BY <3>1, <1>2 DEF IsSnapshot
  <2>3. CASE r # 0
    <3>1. r \in 1 .. Len(ks)
      BY <2>1, <2>3, <1>1
    <3> QED
      BY <3>1, <2>1, <1>1, <1>2 DEF IsSnapshot
  <2> QED
    BY <2>2, <2>3
<1> DEFINE q == e \div 3
<1>4. q \in 1 .. Len(ks) + 1 /\ e = 3 * q
  BY <1>1, <1>3
<1> HIDE DEF q
<1> QED
  BY <1>4

\* A snapshot that parses has its fields where they were written.
LEMMA SnapshotRead ==
  ASSUME NEW t, NEW ks, NEW vs, IsSnapshot(t, ks, vs), Parses(Read(t))
  PROVE  /\ Records(Read(t)) = 1 .. Len(ks) + 1
         /\ \A i \in 1 .. 3 * Len(ks) + 3 : Field(Read(t), i) = t[i]
         /\ \A r \in 1 .. Len(ks) + 1 : 3 * r - 2 \in DOMAIN Read(t)
<1> DEFINE n == Len(ks)
           m == 3 * n + 3
           f == Read(t)
           S == There(t)
           T == {t[i] : i \in 1 .. m}
<1>1. n \in Nat /\ m \in Nat /\ t = [i \in 1 .. m |-> t[i]] /\ DOMAIN t = 1 .. m
  BY DEF IsSnapshot
<1>2. t \in Seq(T) /\ Len(t) = m
  <2>1. t \in [1 .. m -> T]
    BY <1>1
  <2> HIDE DEF T, m
  <2> QED BY <2>1, <1>1
<1>3. m = 3 * n + 3
  OBVIOUS
<1>4. ASSUME \A i \in DOMAIN t : t[i] # EmptyString
      PROVE  /\ Records(f) = 1 .. n + 1
             /\ \A i \in 1 .. m : Field(f, i) = t[i]
             /\ \A r \in 1 .. n + 1 : 3 * r - 2 \in DOMAIN f
  <2>1. f = t
    BY <1>4, ReadWhole
  <2>2. Records(t) = 1 .. n + 1
    <3>1. (Len(t) + 2) \div 3 = n + 1
      BY <1>1, <1>2
    <3> QED
      BY <3>1 DEF Records
  <2>3. \A i \in 1 .. m : Field(t, i) = t[i]
    BY <1>1 DEF Field
  <2>4. \A r \in 1 .. n + 1 : 3 * r - 2 \in 1 .. m
    BY <1>1
  <2> HIDE DEF f, m, n
  <2> QED
    BY <2>1, <2>2, <2>3, <2>4, <1>1
<1>5. ASSUME NEW x \in DOMAIN t, t[x] = EmptyString
      PROVE  /\ Records(f) = 1 .. n + 1
             /\ \A i \in 1 .. m : Field(f, i) = t[i]
             /\ \A r \in 1 .. n + 1 : 3 * r - 2 \in DOMAIN f
  <2> DEFINE E == {i \in DOMAIN t : t[i] = EmptyString}
             e == Min(E)
  <2>1. e \in E /\ \A y \in E : e <= y
    <3>1. E \in SUBSET Nat /\ E # {}
      BY <1>1, <1>5
    <3> HIDE DEF E
    <3> QED BY <3>1, MinOfNats
  <2> HIDE DEF e
  <2>2. /\ e \in 1 .. m /\ e \in DOMAIN t /\ t[e] = EmptyString
        /\ \A i \in 1 .. m : i < e => t[i] # EmptyString
    BY <2>1, <1>1
  <2>3. PICK r \in 1 .. n + 1 : e = 3 * r
    BY <2>2, SnapshotEmpty
  <2>4. /\ f \in Seq(T) /\ Len(f) = Cardinality(S)
        /\ \A i \in S : Rank(S, i) + 1 \in 1 .. Len(f) /\ f[Rank(S, i) + 1] = t[i]
    BY <1>2, <2>2, ReadOthers
  <2>5. S = {i \in 1 .. m : t[i] # EmptyString} /\ 1 .. e - 1 \subseteq S /\ e \notin S
    BY <1>1, <2>2 DEF There
  <2> HIDE DEF S, f, T, m, n
  <2>6. ASSUME NEW i \in 1 .. e - 1 PROVE i \in S /\ i \in 1 .. Len(f) /\ f[i] = t[i]
    <3>1. {y \in S : y < i} = 1 .. i - 1 /\ i \in Nat /\ i > 0 /\ i \in S
      BY <1>1, <2>2, <2>5
    <3>2. Rank(S, i) = i - 1 /\ i - 1 + 1 = i
      <4>1. i - 1 \in Nat
        BY <3>1
      <4> QED
        BY <3>1, <4>1, RankOfInterval
    <3> QED
      BY <3>1, <3>2, <2>4
  <2>7. CASE e = m
    <3>1. S = 1 .. m - 1
      BY <2>5, <2>7, <1>1
    <3>2. Cardinality(S) = m - 1 /\ DOMAIN f = 1 .. m - 1
      <4>1. m - 1 \in Nat /\ 1 \in Int
        BY <1>1, <1>3
      <4>2. Cardinality(S) = m - 1
        BY <3>1, <4>1, FS_Interval
      <4> QED
        BY <4>2, <2>4
    <3>3. Records(f) = 1 .. n + 1
      <4>1. Len(f) = m - 1
        BY <3>2, <2>4
      <4>2. (m - 1 + 2) \div 3 = n + 1
        <5>1. m - 1 + 2 = 3 * (n + 1) + 1
          BY <1>1, <1>3
        <5>2. (3 * (n + 1) + 1) \div 3 = n + 1
          BY <1>1
        <5> QED
          BY <5>1, <5>2
      <4> QED
        BY <4>1, <4>2 DEF Records
    <3>4. ASSUME NEW i \in 1 .. m PROVE Field(f, i) = t[i]
      <4>1. CASE i = m
        <5>1. i \notin DOMAIN f /\ t[i] = EmptyString
          BY <4>1, <3>2, <2>2, <2>7, <1>1
        <5> QED
          BY <5>1 DEF Field
      <4>2. CASE i # m
        <5>1. i \in 1 .. e - 1 /\ i \in DOMAIN f
          BY <4>2, <3>2, <2>7, <1>1
        <5> QED
          BY <5>1, <2>6 DEF Field
      <4> QED
        BY <4>1, <4>2
    <3>5. \A q \in 1 .. n + 1 : 3 * q - 2 \in 1 .. m - 1
      BY <1>1, <1>3
    <3> QED
      BY <3>2, <3>3, <3>4, <3>5
  <2>8. CASE e # m
    <3>1. r \in 1 .. n /\ e + 1 = 3 * r + 1 /\ e + 1 \in 1 .. m /\ e \in Nat
      BY <2>2, <2>3, <2>8, <1>1, <1>3
    <3>2. t[e + 1] = "KV"
      BY <3>1 DEF IsSnapshot, n
    <3>3. e + 1 \in S
      BY <3>1, <3>2, <2>5, EngineAssumption
    <3>4. Rank(S, e + 1) + 1 = e
      <4>1. {y \in S : y < e + 1} = 1 .. e - 1
        BY <2>5, <2>2, <1>1
      <4>2. e - 1 \in Nat /\ e - 1 + 1 = e
        BY <2>2, <1>1
      <4>3. Rank(S, e + 1) = e - 1
        BY <4>1, <4>2, RankOfInterval
      <4> QED
        BY <4>2, <4>3
    <3>5. e \in 1 .. Len(f) /\ f[e] = "KV"
      BY <3>2, <3>3, <3>4, <2>4
    <3>6. Len(f) \in Nat /\ DOMAIN f = 1 .. Len(f)
      BY <2>4
    <3>7. r \in Records(f)
      <4>1. r \in 1 .. (Len(f) + 2) \div 3
        BY <3>1, <3>5, <3>6, <2>3, <1>1
      <4> QED
        BY <4>1 DEF Records
    <3>8. ValueField(f, r) = "KV"
      BY <2>3, <3>5, <3>6 DEF ValueField, Field
    <3>9. ~HexDecodes(ValueField(f, r))
      BY <3>8, EngineAssumption DEF HexDecodes, String
    <3> QED
      BY <3>7, <3>9 DEF Parses, f
  <2> QED
    BY <2>7, <2>8
<1> QED
  <2> HIDE DEF f
  <2> QED BY <1>4, <1>5 DEF f

SnapshotPairs(ks, vs) == {<<ks[r], vs[r]>> : r \in 1 .. Len(ks)}

\* Then its pairs are the ones it was made of.
LEMMA SnapshotParse ==
  ASSUME NEW t, NEW ks, NEW vs, IsSnapshot(t, ks, vs), Parse(t).ok
  PROVE  /\ Parse(t).pairs \in Seq(Proper)
         /\ Pairs(Parse(t).pairs) = SnapshotPairs(ks, vs)
<1> DEFINE f  == Read(t)
           n  == Len(ks)
           KV == {r \in Records(f) : f[3 * r - 2] = "KV"}
           kv == InOrder(KV)
           At(r) == [key |-> KeyField(f, r), value |-> ValueField(f, r)]
           ps == [j \in DOMAIN kv |-> At(kv[j])]
<1>1. Parse(t).ok = Parses(f) /\ Parse(t).pairs = ps
  BY DEF Parse
<1>2. /\ n \in Nat /\ \A r \in 1 .. n : ks[r] \in Named /\ vs[r] \in Value
      /\ t[1] = "META" /\ \A r \in 1 .. n : t[3 * r + 1] = "KV"
      /\ \A r \in 1 .. n : t[3 * r + 2] = ks[r] /\ t[3 * r + 3] = vs[r]
  <2>1. ks \in Seq(Named) /\ vs \in Seq(Value) /\ Len(vs) = n
    BY DEF IsSnapshot
  <2>2. n \in Nat /\ \A r \in 1 .. n : ks[r] \in Named /\ vs[r] \in Value
    BY <2>1
  <2>3. /\ t[1] = "META" /\ \A r \in 1 .. n : t[3 * r + 1] = "KV"
        /\ \A r \in 1 .. n : t[3 * r + 2] = ks[r] /\ t[3 * r + 3] = vs[r]
    BY DEF IsSnapshot
  <2> QED
    BY <2>2, <2>3
<1>3. /\ Records(f) = 1 .. n + 1
      /\ \A i \in 1 .. 3 * n + 3 : Field(f, i) = t[i]
      /\ \A r \in 1 .. n + 1 : 3 * r - 2 \in DOMAIN f
  BY <1>1, SnapshotRead
<1> HIDE DEF f
<1>4. ASSUME NEW r \in 1 .. n + 1 PROVE f[3 * r - 2] = t[3 * r - 2]
  <2>1. 3 * r - 2 \in 1 .. 3 * n + 3
    BY <1>2
  <2> QED
    BY <2>1, <1>3 DEF Field
<1>5. KV = 2 .. n + 1
  <2>1. 3 * 1 - 2 = 1 /\ "META" # "KV"
    OBVIOUS
  <2>2. f[3 * 1 - 2] = "META" /\ 1 \in 1 .. n + 1
    BY <1>2, <1>4, <2>1
  <2>3. ASSUME NEW r \in 2 .. n + 1 PROVE f[3 * r - 2] = "KV"
    <3> DEFINE q == r - 1
    <3>1. q \in 1 .. n /\ 3 * r - 2 = 3 * q + 1 /\ r \in 1 .. n + 1
      BY <1>2
    <3> HIDE DEF q
    <3> QED
      BY <3>1, <1>2, <1>4
  <2>4. ASSUME NEW r \in KV PROVE r \in 2 .. n + 1
    <3>1. r \in 1 .. n + 1 /\ r # 1
      BY <1>3, <2>1, <2>2
    <3> QED
      BY <3>1, <1>2
  <2>5. 2 .. n + 1 \subseteq 1 .. n + 1
    BY <1>2
  <2> QED
    BY <2>3, <2>4, <2>5, <1>3
<1>6. KV \in SUBSET Int /\ IsFiniteSet(KV)
  <2>1. n + 1 \in Int /\ 2 \in Int
    BY <1>2
  <2>2. IsFiniteSet(2 .. n + 1) /\ 2 .. n + 1 \in SUBSET Int
    BY <2>1, FS_Interval
  <2> HIDE DEF KV
  <2> QED
    BY <2>2, <1>5
<1> HIDE DEF KV
<1>7. /\ DOMAIN kv = 1 .. Cardinality(KV) /\ Cardinality(KV) \in Nat
      /\ {kv[j] : j \in DOMAIN kv} = KV
  BY <1>6, InOrderFacts, FS_CardinalityType
<1> HIDE DEF kv
<1>8. ASSUME NEW q \in 1 .. n PROVE At(q + 1) = [key |-> ks[q], value |-> vs[q]]
  <2>1. /\ 3 * (q + 1) - 1 = 3 * q + 2 /\ 3 * (q + 1) = 3 * q + 3
        /\ 3 * q + 2 \in 1 .. 3 * n + 3 /\ 3 * q + 3 \in 1 .. 3 * n + 3
    BY <1>2
  <2>2. KeyField(f, q + 1) = ks[q]
    BY <2>1, <1>2, <1>3 DEF KeyField
  <2>3. ValueField(f, q + 1) = vs[q]
    BY <2>1, <1>2, <1>3 DEF ValueField
  <2> QED
    BY <2>2, <2>3
<1> HIDE DEF At
<1>9. ASSUME NEW j \in DOMAIN kv
      PROVE  \E q \in 1 .. n : ps[j] = [key |-> ks[q], value |-> vs[q]]
  <2>1. kv[j] \in 2 .. n + 1
    BY <1>5, <1>7
  <2> DEFINE q == kv[j] - 1
  <2>2. q \in 1 .. n /\ kv[j] = q + 1
    BY <2>1, <1>2
  <2> HIDE DEF q
  <2>3. ps[j] = At(q + 1)
    BY <2>2
  <2> QED
    BY <2>2, <2>3, <1>8
<1>10. ASSUME NEW q \in 1 .. n
       PROVE  \E j \in DOMAIN kv : ps[j] = [key |-> ks[q], value |-> vs[q]]
  <2>1. q + 1 \in KV
    BY <1>2, <1>5
  <2>2. PICK j \in DOMAIN kv : kv[j] = q + 1
    BY <2>1, <1>7
  <2>3. ps[j] = At(q + 1)
    BY <2>2
  <2> QED
    BY <2>3, <1>8
<1>11. DOMAIN ps = DOMAIN kv
  OBVIOUS
<1>12. ps \in Seq(Proper)
  <2>1. ASSUME NEW j \in DOMAIN kv PROVE ps[j] \in Proper
    <3>1. PICK q \in 1 .. n : ps[j] = [key |-> ks[q], value |-> vs[q]]
      BY <1>9
    <3> HIDE DEF ps
    <3> QED
      BY <3>1, <1>2 DEF Proper, Named, Content
  <2>2. ps \in [1 .. Cardinality(KV) -> Proper]
    BY <2>1, <1>7
  <2> HIDE DEF ps
  <2> QED
    BY <2>2, <1>7
<1>13. Pairs(ps) = SnapshotPairs(ks, vs)
  <2> HIDE DEF ps
  <2>1. Range(ps) = {ps[j] : j \in DOMAIN kv}
    BY <1>11 DEF Range
  <2>2. ASSUME NEW x \in Pairs(ps) PROVE x \in SnapshotPairs(ks, vs)
    <3>1. PICK j \in DOMAIN kv : x = <<ps[j].key, ps[j].value>>
      BY <2>1 DEF Pairs
    <3>2. PICK q \in 1 .. n : ps[j] = [key |-> ks[q], value |-> vs[q]]
      BY <1>9
    <3>3. x = <<ks[q], vs[q]>>
      BY <3>1, <3>2
    <3> QED
      BY <3>3 DEF SnapshotPairs
  <2>3. ASSUME NEW x \in SnapshotPairs(ks, vs) PROVE x \in Pairs(ps)
    <3>1. PICK q \in 1 .. n : x = <<ks[q], vs[q]>>
      BY DEF SnapshotPairs
    <3>2. PICK j \in DOMAIN kv : ps[j] = [key |-> ks[q], value |-> vs[q]]
      BY <1>10
    <3>3. x = <<ps[j].key, ps[j].value>> /\ ps[j] \in Range(ps)
      BY <3>1, <3>2, <2>1
    <3> QED
      BY <3>3 DEF Pairs
  <2> QED
    BY <2>2, <2>3
<1> HIDE DEF ps
<1> QED
  BY <1>1, <1>12, <1>13

\* What Create writes is a snapshot of the keys it scanned.
LEMMA CreatedText ==
  ASSUME NEW ks \in Seq(Named), NEW vs \in Seq(Value), Len(vs) = Len(ks), NEW x, NEW d,
         \A r \in 1 .. Len(ks) : vs[r] = d[ks[r]],
         NEW t, t = <<"META", "ids", x>> \o
                      [i \in 1 .. 3 * Len(ks) |->
                         LET k == ks[(i + 2) \div 3]
                         IN  CASE i % 3 = 1 -> "KV" [] i % 3 = 2 -> k [] OTHER -> d[k]]
  PROVE  IsSnapshot(t, ks, vs)
<1> DEFINE n == Len(ks)
           B(i) == LET k == ks[(i + 2) \div 3]
                   IN  CASE i % 3 = 1 -> "KV" [] i % 3 = 2 -> k [] OTHER -> d[k]
           b == [i \in 1 .. 3 * n |-> B(i)]
           h == <<"META", "ids", x>>
           T == {"META", "ids", x} \cup {B(i) : i \in 1 .. 3 * n}
<1>1. n \in Nat /\ 3 * n \in Nat /\ t = h \o b
  OBVIOUS
<1>2. h \in Seq(T) /\ Len(h) = 3 /\ h[1] = "META" /\ h[2] = "ids"
  OBVIOUS
<1>3. b \in Seq(T) /\ Len(b) = 3 * n
  <2> HIDE DEF B
  <2>1. b \in [1 .. 3 * n -> T]
    OBVIOUS
  <2> HIDE DEF b, T, n
  <2> QED
    BY <2>1, <1>1
<1>4. ASSUME NEW r \in 1 .. n
      PROVE  /\ 3 * r - 2 \in 1 .. 3 * n /\ 3 * r - 1 \in 1 .. 3 * n /\ 3 * r \in 1 .. 3 * n
             /\ b[3 * r - 2] = "KV" /\ b[3 * r - 1] = ks[r] /\ b[3 * r] = vs[r]
  <2>1. /\ 3 * r - 2 \in 1 .. 3 * n /\ 3 * r - 1 \in 1 .. 3 * n /\ 3 * r \in 1 .. 3 * n
        /\ (3 * r - 2 + 2) \div 3 = r /\ (3 * r - 1 + 2) \div 3 = r /\ (3 * r + 2) \div 3 = r
        /\ (3 * r - 2) % 3 = 1 /\ (3 * r - 1) % 3 = 2 /\ (3 * r) % 3 = 0
    BY <1>1
  <2>2. \A i \in 1 .. 3 * n : b[i] = B(i)
    OBVIOUS
  <2>3. B(3 * r - 2) = "KV"
    BY <2>1
  <2>4. B(3 * r - 1) = ks[r]
    BY <2>1
  <2>5. B(3 * r) = d[ks[r]]
    <3> DEFINE j == 3 * r
    <3>1. j % 3 # 1 /\ j % 3 # 2 /\ (j + 2) \div 3 = r
      BY <2>1
    <3> HIDE DEF j
    <3>2. B(j) = d[ks[r]]
      BY <3>1
    <3> QED
      BY <3>2 DEF j
  <2>6. vs[r] = d[ks[r]]
    OBVIOUS
  <2> HIDE DEF b, B
  <2> QED
    BY <2>1, <2>2, <2>3, <2>4, <2>5, <2>6
<1> HIDE DEF h, b, T
<1>5. /\ h \o b \in Seq(T) /\ Len(h \o b) = Len(b) + Len(h)
      /\ \A i \in 1 .. Len(h) : (h \o b)[i] = h[i]
      /\ \A i \in 1 .. Len(b) : (h \o b)[i + Len(h)] = b[i]
  <2>1. h \in Seq(T) /\ b \in Seq(T)
    BY <1>2, <1>3
  <2> QED
    BY ONLY <2>1, Concatenation, Zenon
<1>6. /\ t \in Seq(T) /\ Len(t) = 3 * n + 3 /\ t[1] = "META" /\ t[2] = "ids"
      /\ \A i \in 1 .. 3 * n : t[i + 3] = b[i]
  <2>1. /\ t \in Seq(T) /\ Len(t) = Len(b) + Len(h)
        /\ \A i \in 1 .. Len(h) : t[i] = h[i]
        /\ \A i \in 1 .. Len(b) : t[i + Len(h)] = b[i]
    <3>1. t = h \o b
      BY <1>1
    <3> QED
      BY ONLY <3>1, <1>5, Zenon
  <2> HIDE DEF n, B
  <2>2. Len(h) = 3 /\ Len(b) = 3 * n /\ h[1] = "META" /\ h[2] = "ids" /\ n \in Nat
    BY <1>1, <1>2, <1>3
  <2>3. t[1] = h[1] /\ t[2] = h[2] /\ Len(t) = 3 * n + 3
    BY ONLY <2>1, <2>2
  <2>4. \A i \in 1 .. 3 * n : t[i + 3] = b[i]
    BY ONLY <2>1, <2>2
  <2> QED
    BY ONLY <2>1, <2>2, <2>3, <2>4
<1>7. ASSUME NEW r \in 1 .. n
      PROVE  t[3 * r + 1] = "KV" /\ t[3 * r + 2] = ks[r] /\ t[3 * r + 3] = vs[r]
  <2>1. 3 * r + 1 = (3 * r - 2) + 3 /\ 3 * r + 2 = (3 * r - 1) + 3
    BY <1>1
  <2>2. t[(3 * r - 2) + 3] = "KV" /\ t[(3 * r - 1) + 3] = ks[r] /\ t[3 * r + 3] = vs[r]
    BY <1>4, <1>6
  <2> QED
    BY <2>1, <2>2
<1>8. t = [i \in 1 .. 3 * n + 3 |-> t[i]]
  BY <1>6
<1> QED
  BY <1>6, <1>7, <1>8 DEF IsSnapshot

-----------------------------------------------------------------------------
\* The inductive invariant.

\* The file ends with the lines of the batch in progress, which is what its
\* caller meant and may come to nothing.
Writing ==
  /\ up \in BOOLEAN /\ data \in [String -> Content] /\ acked \in [Key -> Content]
  /\ LogLines(log) /\ cut = FALSE
  /\ batch \in Seq(Proper) /\ meant = batch /\ (batch # <<>> => up)
  /\ Ends(log, batch, done)
  /\ Pairs(meant) \subseteq maybe /\ maybe \subseteq Key \X Content

\* The map holds what the file says, except for mutations of unknown outcome.
Behind == up => \A k \in Key :
  Replayed(log)[k] = data[k] \/ <<k, Replayed(log)[k]>> \in maybe

\* Every key of the map is in the file.
Kept == \A k \in String : data[k] # NoValue => \E i \in DOMAIN log : LineKey(log[i]) = k

\* The snapshot is a text of the pairs it was made of.
Snapshots == snapshot = NoFile \/
  \E ks \in Seq(Named), vs \in Seq(Value) :
    IsSnapshot(snapshot, ks, vs) /\ saved = SnapshotPairs(ks, vs)

EngineInv == Writing /\ Behind /\ Kept /\ Snapshots

\* It holds as long as nothing spoiled the log.
Unspoiled == cuts \in Nat /\ (~Spoiled => EngineInv)

LEMMA EngineInit == Init => EngineInv
<1> SUFFICES ASSUME Init PROVE EngineInv
  OBVIOUS
<1>1. Absent \in [String -> Content]
  BY DEF Absent, Content
<1>2. Writing
  <2>1. LogLines(log) /\ Len(log) = 0
    BY DEF Init, LogLines
  <2>2. batch \in Seq(Proper) /\ Len(batch) = 0 /\ done = 0 /\ meant = batch
    BY DEF Init
  <2>3. Ends(log, batch, done)
    BY <2>1, <2>2 DEF Ends
  <2>4. Pairs(meant) = {}
    <3>1. Range(meant) = {}
      BY DEF Init, Range
    <3> QED
      BY <3>1 DEF Pairs
  <2>5. /\ up \in BOOLEAN /\ data \in [String -> Content] /\ acked \in [Key -> Content]
        /\ batch = <<>> /\ maybe = {} /\ cut = FALSE
    BY <1>1 DEF Init, Content
  <2> QED
    BY <2>1, <2>2, <2>3, <2>4, <2>5 DEF Writing
<1>3. Behind /\ Kept /\ Snapshots
  BY DEF Init, Behind, Kept, Snapshots, Absent
<1> QED
  BY <1>2, <1>3 DEF EngineInv

LEMMA PairsOf ==
  ASSUME NEW ms \in Seq(Proper)
  PROVE  /\ Pairs(ms) \subseteq Key \X Content
         /\ \A i \in DOMAIN ms : <<ms[i].key, ms[i].value>> \in Pairs(ms)
         /\ Pairs(<<>>) = {}
<1>1. Range(ms) = {ms[i] : i \in DOMAIN ms} /\ Range(ms) \subseteq Proper
  BY DEF Range
<1>2. Range(<<>>) = {}
  BY DEF Range
<1>3. ASSUME NEW m \in Range(ms) PROVE <<m.key, m.value>> \in Key \X Content
  BY <1>1 DEF Proper, Named
<1>4. Pairs(ms) \subseteq Key \X Content
  BY <1>3 DEF Pairs
<1>5. ASSUME NEW i \in DOMAIN ms PROVE <<ms[i].key, ms[i].value>> \in Pairs(ms)
  BY <1>1 DEF Pairs
<1> QED
  BY <1>2, <1>4, <1>5 DEF Pairs

\* A batch that begins with what its caller meant.
LEMMA BeginKeeps ==
  ASSUME EngineInv, NEW ms \in Seq(Proper), Begin(ms, ms)
  PROVE  EngineInv'
<1>1. /\ up /\ batch' = ms /\ done' = 0 /\ meant' = ms /\ maybe' = maybe \cup Pairs(ms)
      /\ UNCHANGED <<up, data, log, cut, snapshot, acked, saved>>
  BY DEF Begin, Idle
<1>2. Writing'
  <2>1. Ends(log, ms, 0)
    BY DEF EngineInv, Writing, LogLines, Ends
  <2>2. Pairs(ms) \subseteq Key \X Content
    BY PairsOf
  <2>3. /\ Pairs(meant)' \subseteq maybe' /\ maybe' \subseteq Key \X Content
    <3>1. Pairs(meant)' = Pairs(ms)
      BY <1>1 DEF Pairs, Range
    <3> QED
      BY <3>1, <1>1, <2>2 DEF EngineInv, Writing
  <2>4. Ends(log, batch, done)' /\ LogLines(log)'
    BY <1>1, <2>1 DEF EngineInv, Writing, LogLines, Ends
  <2> QED
    BY <1>1, <2>3, <2>4 DEF EngineInv, Writing
<1>3. Behind'
  <2>1. Replayed(log)' = Replayed(log)
    BY <1>1
  <2> QED
    BY <1>1, <2>1 DEF EngineInv, Behind
<1>4. Kept' /\ Snapshots'
  BY <1>1 DEF EngineInv, Kept, Snapshots
<1> QED
  BY <1>2, <1>3, <1>4 DEF EngineInv

LEMMA RestoreBegins ==
  ASSUME EngineInv, Restore
  PROVE  \E ms \in Seq(Proper) : Begin(ms, ms)
<1>1. Parse(snapshot).ok /\ Begin(Parse(snapshot).pairs, Parse(snapshot).pairs)
  BY DEF Restore
<1>2. PICK ks \in Seq(Named), vs \in Seq(Value) : IsSnapshot(snapshot, ks, vs)
  BY DEF EngineInv, Snapshots, Restore
<1>3. Parse(snapshot).pairs \in Seq(Proper)
  BY <1>1, <1>2, SnapshotParse
<1> QED
  BY <1>1, <1>3

LEMMA CommandBegins ==
  ASSUME NEW ms \in Seq(Proper), NEW kind,
         DecodeCommand(EncodeCommand(kind, ms)) = ms, ApplyKvCommand(kind, ms)
  PROVE  Begin(ms, ms)
BY DEF ApplyKvCommand

LEMMA NamedCommand ==
  ASSUME ~nameless', NEW ms, NEW kind, ApplyKvCommand(kind, ms)
  PROVE  \A i \in DOMAIN ms : ms[i].key # EmptyString
BY DEF ApplyKvCommand, Begin

LEMMA CommandsBegin ==
  ASSUME ~nameless',
         \/ \E m \in Mutation :
              ApplyKvCommand(IF m.value = NoValue THEN "DELETE" ELSE "PUT", <<m>>)
         \/ \E m, n \in Mutation : ApplyKvCommand("BATCH", <<m, n>>)
  PROVE  \E ms \in Seq(Proper) : Begin(ms, ms)
<1>0. ASSUME NEW m \in Mutation, m.key # EmptyString PROVE m \in Proper
  BY <1>0 DEF Mutation, Proper, Named, Content
<1>1. ASSUME NEW m \in Mutation,
             ApplyKvCommand(IF m.value = NoValue THEN "DELETE" ELSE "PUT", <<m>>)
      PROVE  \E ms \in Seq(Proper) : Begin(ms, ms)
  <2>0. m.key # EmptyString
    <3>1. \A i \in DOMAIN <<m>> : <<m>>[i].key # EmptyString
      BY <1>1, NamedCommand
    <3> QED
      BY <3>1
  <2>1. m \in Proper /\ <<m>> \in Seq(Proper)
    BY <1>0, <2>0
  <2>2. CASE m.value = NoValue
    <3>1. ApplyKvCommand("DELETE", <<m>>)
      BY <1>1, <2>2
    <3> QED
      BY <2>1, <2>2, <3>1, DeleteDecodes, CommandBegins
  <2>3. CASE m.value # NoValue
    <3>1. ApplyKvCommand("PUT", <<m>>)
      BY <1>1, <2>3
    <3> QED
      BY <2>1, <2>3, <3>1, PutDecodes, CommandBegins
  <2> QED
    BY <2>2, <2>3
<1>2. ASSUME NEW m \in Mutation, NEW n \in Mutation, ApplyKvCommand("BATCH", <<m, n>>)
      PROVE  \E ms \in Seq(Proper) : Begin(ms, ms)
  <2>0. m.key # EmptyString /\ n.key # EmptyString
    <3>1. \A i \in DOMAIN <<m, n>> : <<m, n>>[i].key # EmptyString
      BY <1>2, NamedCommand
    <3>2. <<m, n>>[1].key # EmptyString /\ <<m, n>>[2].key # EmptyString
      BY <3>1
    <3> QED
      BY <3>2
  <2>1. <<m, n>> \in Seq(Proper)
    BY <1>0, <2>0
  <2>2. DecodeCommand(EncodeCommand("BATCH", <<m, n>>)) = <<m, n>>
    BY <2>1, BatchDecodes
  <2> QED
    BY <2>1, <2>2, <1>2, CommandBegins
<1> QED
  BY <1>1, <1>2

LEMMA OpenKeeps ==
  ASSUME EngineInv, Open
  PROVE  EngineInv'
<1>1. /\ ~up /\ up' = TRUE /\ data' = Replayed(log)
      /\ UNCHANGED <<log, cut, batch, done, snapshot, acked, meant, maybe, saved>>
  BY DEF Open
<1>2. /\ Replayed(log) \in [String -> Content]
      /\ \A k \in String : Replayed(log)[k] # NoValue =>
           \E i \in DOMAIN log : LineKey(log[i]) = k
  BY ReplayedType DEF EngineInv, Writing
<1>3. Writing'
  BY <1>1, <1>2 DEF EngineInv, Writing, LogLines, Ends
<1>4. Behind'
  <2>1. Replayed(log)' = Replayed(log)
    BY <1>1
  <2> QED
    BY <1>1, <2>1 DEF Behind
<1>5. Kept'
  BY <1>1, <1>2 DEF Kept
<1>6. Snapshots'
  BY <1>1 DEF EngineInv, Snapshots
<1> QED
  BY <1>3, <1>4, <1>5, <1>6 DEF EngineInv

LEMMA EmptyBatch ==
  ASSUME NEW lines, LogLines(lines)
  PROVE  <<>> \in Seq(Proper) /\ Ends(lines, <<>>, 0) /\ Pairs(<<>>) = {}
<1>1. Len(lines) \in Nat /\ <<>> \in Seq(Proper) /\ Len(<<>>) = 0
  BY DEF LogLines
<1> QED
  <2>1. Ends(lines, <<>>, 0)
    BY <1>1 DEF Ends
  <2>2. Pairs(<<>>) = {}
    BY <1>1, PairsOf
  <2> QED
    BY <1>1, <2>1, <2>2

LEMMA CrashKeeps ==
  ASSUME EngineInv, Crash
  PROVE  EngineInv'
<1>1. /\ up' = FALSE /\ data' = Absent
      /\ batch' = <<>> /\ done' = 0 /\ meant' = <<>> /\ maybe' = {}
      /\ UNCHANGED <<log, cut, snapshot, acked, saved>>
  BY DEF Crash
<1>2. Absent \in [String -> Content] /\ \A k \in String : Absent[k] = NoValue
  BY DEF Absent, Content
<1>3. LogLines(log)
  BY DEF EngineInv, Writing
<1>4. Writing'
  <2>1. LogLines(log') /\ Ends(log', batch', done') /\ batch' \in Seq(Proper)
    BY <1>1, <1>3, EmptyBatch
  <2>2. Pairs(meant') = {}
    BY <1>1, <1>3, EmptyBatch
  <2> QED
    BY <1>1, <1>2, <2>1, <2>2 DEF EngineInv, Writing
<1>5. Behind' /\ Kept' /\ Snapshots'
  BY <1>1, <1>2 DEF EngineInv, Behind, Kept, Snapshots
<1> QED
  BY <1>4, <1>5 DEF EngineInv

LEMMA AppendFailsKeeps ==
  ASSUME EngineInv, AppendFails
  PROVE  EngineInv'
<1>1. /\ batch' = <<>> /\ done' = 0 /\ meant' = <<>>
      /\ UNCHANGED <<up, data, log, cut, snapshot, acked, maybe, saved>>
  BY DEF AppendFails
<1>2. LogLines(log)
  BY DEF EngineInv, Writing
<1>3. Writing'
  <2>1. LogLines(log') /\ Ends(log', batch', done') /\ batch' \in Seq(Proper)
    BY <1>1, <1>2, EmptyBatch
  <2>2. Pairs(meant') = {}
    BY <1>1, <1>2, EmptyBatch
  <2> QED
    BY <1>1, <2>1, <2>2 DEF EngineInv, Writing
<1>4. Replayed(log)' = Replayed(log)
  BY <1>1
<1>5. Behind' /\ Kept' /\ Snapshots'
  BY <1>1, <1>4 DEF EngineInv, Behind, Kept, Snapshots
<1> QED
  BY <1>3, <1>5 DEF EngineInv

LEMMA AppendMutationKeeps ==
  ASSUME EngineInv, AppendMutation
  PROVE  EngineInv'
<1> DEFINE m == batch[done + 1]
<1>1. /\ done < Len(batch) /\ log' = Append(log, Line(m)) /\ done' = done + 1
      /\ UNCHANGED <<up, data, cut, batch, snapshot, acked, meant, maybe, saved>>
  <2>1. cut = FALSE /\ Line(m) # <<>>
    BY DEF EngineInv, Writing, Line
  <2>2. LogWith(Line(m)) = {Append(log, Line(m))}
    BY <2>1 DEF LogWith
  <2>3. cut' = cut
    BY <2>1 DEF AppendMutation, EngineInv, Writing
  <2> QED
    BY <2>2, <2>3 DEF AppendMutation
<1>2. LogLines(log) /\ batch \in Seq(Proper) /\ Ends(log, batch, done) /\ meant = batch
  BY DEF EngineInv, Writing
<1>3. done + 1 \in DOMAIN batch /\ m \in Proper
  BY <1>1, <1>2 DEF Ends
<1>4. <<m.key, m.value>> \in maybe
  <2>1. <<m.key, m.value>> \in Pairs(batch)
    BY <1>2, <1>3, PairsOf
  <2> QED
    BY <2>1, <1>2 DEF EngineInv, Writing
<1>5. Ends(log', batch, done + 1)
  BY <1>1, <1>2, AppendedEnds
<1> HIDE DEF m
<1>6. /\ LogLines(log') /\ Replayed(log')[m.key] = m.value
      /\ \A k \in Key : k # m.key => Replayed(log')[k] = Replayed(log)[k]
  BY <1>1, <1>2, <1>3, AppendedLine
<1>7. Writing'
  <2>1. Pairs(meant)' = Pairs(meant)
    BY <1>1 DEF Pairs, Range
  <2> QED
    BY <1>1, <1>5, <1>6, <2>1 DEF EngineInv, Writing
<1>8. Behind'
  <2>1. ASSUME up, NEW k \in Key
        PROVE  Replayed(log')[k] = data[k] \/ <<k, Replayed(log')[k]>> \in maybe
    <3>1. CASE k = m.key
      BY <3>1, <1>4, <1>6
    <3>2. CASE k # m.key
      BY <3>2, <1>6, <2>1 DEF EngineInv, Behind
    <3> QED
      BY <3>1, <3>2
  <2> QED
    BY <1>1, <2>1 DEF Behind
<1>9. Kept'
  <2>1. ASSUME NEW i \in DOMAIN log PROVE i \in DOMAIN log' /\ log'[i] = log[i]
    BY <1>1, <1>2 DEF LogLines
  <2>2. ASSUME NEW k \in String, data[k] # NoValue
        PROVE  \E i \in DOMAIN log' : LineKey(log'[i]) = k
    <3>1. PICK i \in DOMAIN log : LineKey(log[i]) = k
      BY <2>2 DEF EngineInv, Kept
    <3> QED
      BY <3>1, <2>1
  <2> QED
    BY <1>1, <2>2 DEF Kept
<1>10. Snapshots'
  BY <1>1 DEF EngineInv, Snapshots
<1> QED
  BY <1>7, <1>8, <1>9, <1>10 DEF EngineInv

LEMMA FinishKeeps ==
  ASSUME EngineInv, Finish
  PROVE  EngineInv'
<1>1. /\ done = Len(batch) /\ batch # <<>>
      /\ data' = Written(batch, data) /\ acked' = Written(meant, acked)
      /\ maybe' = {m \in maybe : \A i \in DOMAIN meant : meant[i].key # m[1]}
      /\ batch' = <<>> /\ done' = 0 /\ meant' = <<>>
      /\ UNCHANGED <<up, log, cut, snapshot, saved>>
  BY DEF Finish
<1>2. /\ LogLines(log) /\ batch \in Seq(Proper) /\ Ends(log, batch, Len(batch))
      /\ meant = batch /\ data \in [String -> Content] /\ acked \in [Key -> Content]
      /\ maybe \subseteq Key \X Content
  BY <1>1 DEF EngineInv, Writing
<1>3. data' \in [String -> Content] /\ acked' \in [Key -> Content]
  BY <1>1, <1>2, WrittenType
<1>4. Writing'
  <2>1. LogLines(log') /\ Ends(log', batch', done') /\ batch' \in Seq(Proper)
    BY <1>1, <1>2, EmptyBatch
  <2>2. Pairs(meant') = {}
    BY <1>1, <1>2, EmptyBatch
  <2>3. maybe' \subseteq Key \X Content
    BY <1>1, <1>2
  <2> QED
    BY <1>1, <1>3, <2>1, <2>2, <2>3 DEF EngineInv, Writing
<1>5. ASSUME NEW k \in String, NEW i \in DOMAIN batch, batch[i].key = k
      PROVE  k \in Key /\ Replayed(log)[k] = data'[k]
  <2>1. k \in Key
    <3>1. batch[i] \in Proper
      BY <1>2
    <3> QED
      BY <3>1, <1>5 DEF Proper, Named, Content
  <2>2. k \in DOMAIN data
    BY <1>2
  <2> QED
    BY <2>1, <2>2, <1>1, <1>2, <1>5, EndsDecide
<1>6. ASSUME NEW k \in String, \A i \in DOMAIN batch : batch[i].key # k
      PROVE  data'[k] = data[k]
  BY <1>1, <1>2, <1>6, WrittenOthers
<1>7. Behind'
  <2>1. ASSUME up, NEW k \in Key
        PROVE  Replayed(log)[k] = data'[k] \/ <<k, Replayed(log)[k]>> \in maybe'
    <3>1. k \in String
      BY DEF String
    <3>2. CASE \E i \in DOMAIN batch : batch[i].key = k
      BY <3>1, <3>2, <1>5
    <3>3. CASE \A i \in DOMAIN batch : batch[i].key # k
      <4>1. data'[k] = data[k]
        BY <3>1, <3>3, <1>6
      <4>2. Replayed(log)[k] = data[k] \/ <<k, Replayed(log)[k]>> \in maybe
        BY <2>1 DEF EngineInv, Behind
      <4>3. <<k, Replayed(log)[k]>>[1] = k
        OBVIOUS
      <4> QED
        BY <4>1, <4>2, <4>3, <3>3, <1>1, <1>2
    <3> QED
      BY <3>2, <3>3
  <2>2. Replayed(log') = Replayed(log)
    BY <1>1
  <2> QED
    BY <1>1, <2>1, <2>2 DEF Behind
<1>8. Kept'
  <2>1. ASSUME NEW k \in String, data'[k] # NoValue
        PROVE  \E i \in DOMAIN log : LineKey(log[i]) = k
    <3>1. CASE \E i \in DOMAIN batch : batch[i].key = k
      <4>1. k \in Key /\ Replayed(log)[k] # NoValue
        BY <3>1, <2>1, <1>5
      <4> QED
        BY <4>1, <1>2, ReplayedNone
    <3>2. CASE \A i \in DOMAIN batch : batch[i].key # k
      BY <3>2, <2>1, <1>6 DEF EngineInv, Kept
    <3> QED
      BY <3>1, <3>2
  <2> QED
    BY <1>1, <2>1 DEF Kept
<1>9. Snapshots'
  BY <1>1 DEF EngineInv, Snapshots
<1> QED
  BY <1>4, <1>7, <1>8, <1>9 DEF EngineInv

\* The scanned keys, as a sequence.
LEMMA SetToSeqOf ==
  ASSUME NEW S, IsFiniteSet(S)
  PROVE  SetToSeq(S) \in Seq(S)
<1>1. Cardinality(S) \in Nat /\ \E f \in Bijection(1 .. Cardinality(S), S) : TRUE
  BY FS_CardinalityType DEF ExistsBijection
<1>2. PICK f \in Bijection(1 .. Cardinality(S), S) : TRUE
  BY <1>1
<1>3. f \in [1 .. Cardinality(S) -> S] /\ IsInjective(f)
  BY <1>2 DEF Bijection, Injection, IsInjective
<1>4. SetToSeq(S) \in [1 .. Cardinality(S) -> S]
  BY <1>3 DEF SetToSeq
<1> QED
  BY <1>1, <1>4

LEMMA ScanIsFinite ==
  ASSUME EngineInv, NEW p \in SnapshotPrefix
  PROVE  /\ ScanPrefix(p) \subseteq Named /\ IsFiniteSet(ScanPrefix(p))
         /\ \A k \in ScanPrefix(p) : data[k] \in Value
<1> DEFINE D == DOMAIN log
           g == [i \in D |-> LineKey(log[i])]
           R == {g[i] : i \in D}
<1>1. IsFiniteSet(D)
  <2>1. D = 1 .. Len(log) /\ Len(log) \in Nat
    BY DEF EngineInv, Writing, LogLines
  <2>2. IsFiniteSet(1 .. Len(log))
    BY <2>1, FS_Interval
  <2> QED
    BY <2>1, <2>2
<1>2. IsFiniteSet(R)
  <2>1. g \in Surjection(D, R)
    BY DEF Surjection
  <2> HIDE DEF D, R, g
  <2> QED
    BY <1>1, <2>1, FS_Surjection
<1>3. ASSUME NEW k \in ScanPrefix(p) PROVE k \in Named /\ k \in R /\ data[k] \in Value
  <2>1. k \in p[2] /\ data[k] # NoValue
    BY DEF ScanPrefix
  <2>3. k \in String
    <3>1. p[2] \subseteq Key \cup Value \cup {EmptyString}
      BY EngineAssumption
    <3> QED
      BY <2>1, <3>1 DEF String
  <2>4. \E i \in DOMAIN log : LineKey(log[i]) = k
    BY <2>1, <2>3 DEF EngineInv, Kept
  <2>2. k \in Named
    BY <2>4, LogLine DEF EngineInv, Writing
  <2>5. data[k] \in Content
    BY <2>3 DEF EngineInv, Writing
  <2> QED
    BY <2>1, <2>2, <2>4, <2>5 DEF Content
<1>4. IsFiniteSet(ScanPrefix(p))
  <2> HIDE DEF R
  <2>1. ScanPrefix(p) \in SUBSET R
    BY <1>3
  <2> QED
    BY <1>2, <2>1, FS_Subset
<1> QED
  BY <1>3, <1>4

LEMMA CreateKeeps ==
  ASSUME EngineInv, NEW p \in SnapshotPrefix, Create(p)
  PROVE  EngineInv'
<1> DEFINE ks == SetToSeq(ScanPrefix(p))
           vs == [r \in 1 .. Len(ks) |-> data[ks[r]]]
<1>1. /\ saved' = {<<k, data[k]>> : k \in Range(ks)}
      /\ snapshot' = <<"META", "ids", p[1]>> \o
           [i \in 1 .. 3 * Len(ks) |->
              LET k == ks[(i + 2) \div 3]
              IN  CASE i % 3 = 1 -> "KV" [] i % 3 = 2 -> k [] OTHER -> data[k]]
      /\ UNCHANGED <<up, data, log, cut, batch, done, acked, meant, maybe>>
  BY DEF Create
<1>2. ks \in Seq(ScanPrefix(p))
  BY ScanIsFinite, SetToSeqOf
<1> HIDE DEF ks
<1>3. /\ ks \in Seq(Named) /\ Len(ks) \in Nat /\ DOMAIN ks = 1 .. Len(ks)
      /\ \A r \in 1 .. Len(ks) : data[ks[r]] \in Value
  <2>1. DOMAIN ks = 1 .. Len(ks) /\ Len(ks) \in Nat /\ \A r \in 1 .. Len(ks) : ks[r] \in ScanPrefix(p)
    BY <1>2
  <2>2. \A r \in 1 .. Len(ks) : ks[r] \in Named /\ data[ks[r]] \in Value
    BY <2>1, ScanIsFinite
  <2>3. ScanPrefix(p) \subseteq Named
    BY ScanIsFinite
  <2> QED
    BY <1>2, <2>1, <2>2, <2>3
<1>4. vs \in Seq(Value) /\ Len(vs) = Len(ks)
  <2>1. vs \in [1 .. Len(ks) -> Value]
    BY <1>3
  <2> HIDE DEF vs
  <2> QED
    BY <2>1, <1>3
<1>5. \A r \in 1 .. Len(ks) : vs[r] = data[ks[r]]
  OBVIOUS
<1> HIDE DEF vs
<1>6. IsSnapshot(snapshot', ks, vs)
  BY <1>1, <1>3, <1>4, <1>5, CreatedText
<1>7. saved' = SnapshotPairs(ks, vs)
  <2>1. Range(ks) = {ks[r] : r \in 1 .. Len(ks)}
    BY <1>3 DEF Range
  <2> QED
    BY <1>1, <1>5, <2>1 DEF SnapshotPairs
<1>8. Snapshots'
  BY <1>3, <1>4, <1>6, <1>7 DEF Snapshots
<1>9. Writing'
  <2>1. Pairs(meant)' = Pairs(meant)
    BY <1>1 DEF Pairs, Range
  <2> QED
    BY <1>1, <2>1 DEF EngineInv, Writing, LogLines, Ends
<1>10. Behind' /\ Kept'
  <2>1. Replayed(log)' = Replayed(log)
    BY <1>1
  <2> QED
    BY <1>1, <2>1 DEF EngineInv, Behind, Kept
<1> QED
  BY <1>8, <1>9, <1>10 DEF EngineInv

\* What a step is as long as nothing spoiled the log.
LEMMA UnspoiledStep ==
  ASSUME Unspoiled, ~Spoiled', [Next]_vars
  PROVE  /\ EngineInv
         /\ \/ Open \/ Crash \/ AppendMutation \/ AppendFails \/ Finish
            \/ \E ms \in Seq(Proper) : Begin(ms, ms)
            \/ \E p \in SnapshotPrefix : Create(p)
            \/ UNCHANGED vars
<1>1. ~Spoiled
  <2> DEFINE Grows == (nameless => nameless') /\ (cuts' = cuts \/ cuts' = cuts + 1)
  <2>1. Grows
    <3>1. CASE Open \/ Crash \/ AppendMutation \/ AppendFails \/ WriteFails \/ Finish
      BY <3>1 DEF Open, Crash, AppendMutation, AppendFails, WriteFails, Finish
    <3>2. ASSUME NEW ms, NEW wanted, Begin(ms, wanted) PROVE Grows
      BY <3>2 DEF Begin
    <3>3. CASE Restore
      <4>1. Begin(Parse(snapshot).pairs, Parse(snapshot).pairs)
        BY <3>3 DEF Restore
      <4> QED
        BY <3>2, <4>1
    <3>4. ASSUME NEW kind, NEW ms, ApplyKvCommand(kind, ms) PROVE Grows
      BY <3>2, <3>4 DEF ApplyKvCommand
    <3>5. CASE \E p \in SnapshotPrefix : Create(p)
      BY <3>5 DEF Create
    <3>6. CASE UNCHANGED vars
      BY <3>6 DEF vars
    <3> HIDE DEF Grows
    <3> QED
      BY <3>1, <3>3, <3>4, <3>5, <3>6 DEF Next
  <2> QED
    BY <2>1 DEF Unspoiled, Spoiled
<1>2. EngineInv
  BY <1>1 DEF Unspoiled
<1>3. ~WriteFails /\ ~nameless'
  BY DEF Unspoiled, Spoiled, WriteFails
<1>4. Restore => \E ms \in Seq(Proper) : Begin(ms, ms)
  BY <1>2, RestoreBegins
<1>5. (\/ \E m \in Mutation :
             ApplyKvCommand(IF m.value = NoValue THEN "DELETE" ELSE "PUT", <<m>>)
       \/ \E m, n \in Mutation : ApplyKvCommand("BATCH", <<m, n>>))
        => \E ms \in Seq(Proper) : Begin(ms, ms)
  BY <1>3, CommandsBegin
<1> QED
  BY <1>2, <1>3, <1>4, <1>5 DEF Next

LEMMA EngineNext ==
  ASSUME Unspoiled, ~Spoiled', [Next]_vars
  PROVE  EngineInv'
<1>0. EngineInv
  BY UnspoiledStep
<1>1. CASE Open
  BY <1>0, <1>1, OpenKeeps
<1>2. CASE Crash
  BY <1>0, <1>2, CrashKeeps
<1>3. CASE AppendMutation
  BY <1>0, <1>3, AppendMutationKeeps
<1>4. CASE AppendFails
  BY <1>0, <1>4, AppendFailsKeeps
<1>5. CASE Finish
  BY <1>0, <1>5, FinishKeeps
<1>6. CASE \E ms \in Seq(Proper) : Begin(ms, ms)
  BY <1>0, <1>6, BeginKeeps
<1>7. CASE \E p \in SnapshotPrefix : Create(p)
  BY <1>0, <1>7, CreateKeeps
<1>8. CASE UNCHANGED vars
  <2>1. UNCHANGED <<up, data, log, cut, batch, done, snapshot, acked, meant, maybe, saved>>
    BY <1>8 DEF vars
  <2>2. Pairs(meant)' = Pairs(meant) /\ Replayed(log)' = Replayed(log)
    BY <2>1 DEF Pairs, Range
  <2>3. Writing' /\ Behind' /\ Kept' /\ Snapshots'
    BY <1>0, <2>1, <2>2 DEF EngineInv, Writing, LogLines, Ends, Behind, Kept, Snapshots
  <2> QED
    BY <2>3 DEF EngineInv
<1> QED
  BY <1>1, <1>2, <1>3, <1>4, <1>5, <1>6, <1>7, <1>8, UnspoiledStep

LEMMA Engine == Spec => []Unspoiled
<1>1. Init => Unspoiled
  BY EngineInit DEF Unspoiled, Init
<1>2. Unspoiled /\ [Next]_vars => Unspoiled'
  <2> SUFFICES ASSUME Unspoiled, [Next]_vars PROVE Unspoiled'
    OBVIOUS
  <2>1. cuts' \in Nat
    <3>0. cuts \in Nat
      BY DEF Unspoiled
    <3>1. CASE Open \/ Crash \/ AppendMutation \/ AppendFails \/ WriteFails \/ Finish
      BY <3>0, <3>1 DEF Open, Crash, AppendMutation, AppendFails, WriteFails, Finish
    <3>2. ASSUME NEW ms, NEW wanted, Begin(ms, wanted) PROVE cuts' \in Nat
      BY <3>0, <3>2 DEF Begin
    <3>3. CASE Restore
      <4>1. Begin(Parse(snapshot).pairs, Parse(snapshot).pairs)
        BY <3>3 DEF Restore
      <4> QED
        BY <3>2, <4>1
    <3>4. ASSUME NEW kind, NEW ms, ApplyKvCommand(kind, ms) PROVE cuts' \in Nat
      BY <3>2, <3>4 DEF ApplyKvCommand
    <3>5. CASE \E p \in SnapshotPrefix : Create(p)
      BY <3>0, <3>5 DEF Create
    <3>6. CASE UNCHANGED vars
      BY <3>0, <3>6 DEF vars
    <3> QED
      BY <3>1, <3>3, <3>4, <3>5, <3>6 DEF Next
  <2>2. ~Spoiled' => EngineInv'
    BY EngineNext
  <2> QED
    BY <2>1, <2>2 DEF Unspoiled
<1> QED
  BY <1>1, <1>2, PTL DEF Spec

-----------------------------------------------------------------------------
\* Replay accepts every line of a log that neither the empty key nor a write cut
\* short spoiled, whatever batches failed to open the file, died half-way or
\* restored a snapshot: the next FileKvEngine::Open succeeds.  In the two cases
\* it leaves out Open does fail, as empty_key.cfg and cut_line.cfg show.
THEOREM LogAlwaysReplays == Spec => []CanReopen
<1>1. Unspoiled => CanReopen
  BY LinesReplay DEF Unspoiled, EngineInv, Writing, CanReopen
<1> QED
  BY <1>1, Engine, PTL

\* What Snapshotter::Restore accepts of a file that Create wrote is exactly the
\* pairs it was made of: a record whose empty value disappears in the middle of
\* the file is noticed, and at its end it is read as the empty value it was.
THEOREM SnapshotsExact == Spec => [](~Spoiled => SnapshotExactOrRefused)
<1>1. Unspoiled => (~Spoiled => SnapshotExactOrRefused)
  <2> SUFFICES ASSUME EngineInv, snapshot # NoFile, Parse(snapshot).ok
               PROVE  Pairs(Parse(snapshot).pairs) = saved
    BY DEF Unspoiled, SnapshotExactOrRefused
  <2>1. PICK ks \in Seq(Named), vs \in Seq(Value) :
               IsSnapshot(snapshot, ks, vs) /\ saved = SnapshotPairs(ks, vs)
    BY DEF EngineInv, Snapshots
  <2> QED
    BY <2>1, SnapshotParse
<1> QED
  BY <1>1, Engine, PTL

-----------------------------------------------------------------------------
\* The refinement of KvStore.

\* What a Get answers; while the process is down, what it will answer.
Kv == [k \in Key |-> IF up THEN data[k] ELSE Replayed(log)[k]]

LEMMA KvAsData ==
  ASSUME up
  PROVE  Kv = [k \in Key |-> data[k]]
BY DEF Kv

LEMMA KvAsLog ==
  ASSUME ~up
  PROVE  Kv = [k \in Key |-> Replayed(log)[k]]
BY DEF Kv

LEMMA RefinesInit == Init => Durable!Init
<1> SUFFICES ASSUME Init PROVE Durable!Init
  OBVIOUS
<1>1. ~up /\ log = <<>> /\ acked = [k \in Key |-> NoValue] /\ maybe = {} /\ up = FALSE
  BY DEF Init
<1>2. ASSUME NEW k \in Key PROVE Replayed(log)[k] = NoValue
  <2>1. \A i \in DOMAIN log : LineKey(log[i]) # k
    BY <1>1
  <2> QED
    BY <2>1, ReplayedNone
<1>3. Kv = [k \in Key |-> NoValue]
  BY <1>1, <1>2 DEF Kv
<1> QED
  BY <1>1, <1>3 DEF Durable!Init, Kv

\* A batch that begins is submitted.
LEMMA RefinesBegin ==
  ASSUME EngineInv, EngineInv', NEW ms \in Seq(Proper), Begin(ms, ms)
  PROVE  Durable!Submit
<1>1. /\ up /\ maybe' = maybe \cup Pairs(ms)
      /\ UNCHANGED <<up, data, log, acked>>
  BY DEF Begin, Idle
<1>2. maybe' \subseteq Key \X Content
  BY DEF EngineInv, Writing
<1>3. Kv' = Kv
  BY <1>1 DEF Kv
<1> QED
  BY <1>1, <1>2, <1>3 DEF Durable!Submit, Durable!Content, Content, Kv

LEMMA RefinesOpen ==
  ASSUME Open
  PROVE  Durable!Start
<1>1. ~up /\ up' = TRUE /\ data' = Replayed(log) /\ UNCHANGED <<acked, maybe>>
  BY DEF Open
<1>2. Kv' = Kv
  BY <1>1 DEF Kv
<1> QED
  BY <1>1, <1>2 DEF Durable!Start, Kv

LEMMA RefinesCrash ==
  ASSUME EngineInv, Crash
  PROVE  Durable!Stop
<1>1. up /\ up' = FALSE /\ maybe' = {} /\ UNCHANGED <<log, acked>>
  BY DEF Crash
<1>2. ASSUME NEW k \in Key PROVE Kv'[k] = Kv[k] \/ <<k, Kv'[k]>> \in maybe
  <2>1. Kv[k] = data[k]
    BY <1>1 DEF Kv
  <2>2. Kv'[k] = Replayed(log)[k]
    BY <1>1 DEF Kv
  <2>3. Replayed(log)[k] = data[k] \/ <<k, Replayed(log)[k]>> \in maybe
    BY <1>1 DEF EngineInv, Behind
  <2> QED
    BY <2>1, <2>2, <2>3
<1>3. DOMAIN Kv' = Key
  BY DEF Kv
<1> QED
  BY <1>1, <1>2, <1>3 DEF Durable!Stop, Kv

\* The end of a batch acknowledges the last value it gave each of its keys.
LEMMA RefinesFinish ==
  ASSUME EngineInv, EngineInv', Finish
  PROVE  Durable!Next
<1> DEFINE keys == {meant[i].key : i \in DOMAIN meant}
           cmd  == [k \in keys |-> Written(meant, acked)[k]]
<1>1. /\ data' = Written(batch, data) /\ acked' = Written(meant, acked)
      /\ maybe' = {m \in maybe : \A i \in DOMAIN meant : meant[i].key # m[1]}
      /\ UNCHANGED <<up, log>> /\ batch # <<>>
  BY DEF Finish
<1>2. /\ meant \in Seq(Proper) /\ meant = batch /\ up
      /\ data \in [String -> Content] /\ acked \in [Key -> Content]
      /\ acked' \in [Key -> Content]
  BY <1>1 DEF EngineInv, Writing
<1>3. keys \in SUBSET Key
  <2>1. ASSUME NEW i \in DOMAIN meant PROVE meant[i].key \in Key
    <3>1. meant[i] \in Proper
      BY <1>2
    <3> QED
      BY <3>1 DEF Proper, Named, Content
  <2> QED
    BY <2>1
<1>4. cmd \in [keys -> Content]
  BY <1>1, <1>2, <1>3
<1>5. ASSUME NEW k \in Key, k \in keys
      PROVE  Written(meant, data)[k] = Written(meant, acked)[k]
  <2>1. {i \in DOMAIN meant : meant[i].key = k} # {}
    BY <1>5
  <2>2. k \in DOMAIN data /\ k \in DOMAIN acked
    BY <1>2 DEF String
  <2> QED
    BY <2>1, <2>2 DEF Written
<1>6. ASSUME NEW k \in Key, k \notin keys
      PROVE  Written(meant, data)[k] = data[k] /\ Written(meant, acked)[k] = acked[k]
  <2>1. \A i \in DOMAIN meant : meant[i].key # k
    BY <1>6
  <2>2. k \in DOMAIN data /\ k \in DOMAIN acked
    BY <1>2 DEF String
  <2> QED
    BY <2>1, <2>2, WrittenOthers
<1>7. acked' = [k \in Key |-> IF k \in keys THEN cmd[k] ELSE acked[k]]
  <2> HIDE DEF keys
  <2>1. ASSUME NEW k \in Key PROVE acked'[k] = IF k \in keys THEN cmd[k] ELSE acked[k]
    BY <1>1, <1>6
  <2> QED
    BY <2>1, <1>2
<1>8. Kv' = [k \in Key |-> IF k \in keys THEN cmd[k] ELSE Kv[k]]
  <2> HIDE DEF keys
  <2>1. ASSUME NEW k \in Key PROVE Kv'[k] = IF k \in keys THEN cmd[k] ELSE Kv[k]
    <3>1. Kv'[k] = Written(meant, data)[k] /\ Kv[k] = data[k]
      BY <1>1, <1>2 DEF Kv
    <3> QED
      BY <3>1, <1>5, <1>6
  <2>2. Kv' = [k \in Key |-> Kv'[k]]
    BY DEF Kv
  <2> QED
    BY <2>1, <2>2
<1>9. maybe' = {m \in maybe : m[1] \notin keys}
  BY <1>1
<1>10. DOMAIN cmd = keys
  OBVIOUS
<1> HIDE DEF cmd, keys
<1>11. Durable!Acknowledge(cmd)
  BY <1>1, <1>2, <1>7, <1>8, <1>9, <1>10 DEF Durable!Acknowledge, Durable!Overwrite, Kv
<1>12. cmd \in [keys -> Durable!Content]
  BY <1>4 DEF Durable!Content, Content
<1>13. \E K \in SUBSET Key : \E c \in [K -> Durable!Content] : Durable!Acknowledge(c)
  <2>1. \E c \in [keys -> Durable!Content] : Durable!Acknowledge(c)
    BY <1>11, <1>12 DEF Durable!Acknowledge, Durable!Overwrite
  <2> QED
    BY <1>3, <2>1, Zenon
<1> QED
  BY <1>13, Zenon DEF Durable!Next

LEMMA RefinesNext ==
  ASSUME Unspoiled, ~Spoiled', [Next]_vars
  PROVE  Durable!Next \/ UNCHANGED Durable!vars
<1>0. EngineInv /\ EngineInv'
  BY UnspoiledStep, EngineNext
<1>1. CASE Open
  BY <1>1, RefinesOpen DEF Durable!Next
<1>2. CASE Crash
  BY <1>0, <1>2, RefinesCrash DEF Durable!Next
<1>3. CASE AppendMutation \/ AppendFails \/ \E p \in SnapshotPrefix : Create(p)
  <2>1. up /\ UNCHANGED <<up, data, acked, maybe>>
    <3>1. CASE AppendMutation \/ AppendFails
      <4>1. done < Len(batch) /\ UNCHANGED <<up, data, acked, maybe>>
        BY <3>1 DEF AppendMutation, AppendFails
      <4>2. batch # <<>>
        BY <1>0, <4>1 DEF EngineInv, Writing, Ends
      <4> QED
        BY <1>0, <4>1, <4>2 DEF EngineInv, Writing
    <3>2. CASE \E p \in SnapshotPrefix : Create(p)
      BY <3>2 DEF Create, Idle
    <3> QED
      BY <1>3, <3>1, <3>2
  <2>2. Kv' = Kv
    BY <2>1 DEF Kv
  <2> QED
    BY <2>1, <2>2 DEF Durable!vars, Kv
<1>4. CASE Finish
  BY <1>0, <1>4, RefinesFinish
<1>5. CASE \E ms \in Seq(Proper) : Begin(ms, ms)
  BY <1>0, <1>5, RefinesBegin DEF Durable!Next
<1>6. CASE UNCHANGED vars
  <2>1. UNCHANGED <<up, data, log, acked, maybe>>
    BY <1>6 DEF vars
  <2>2. Kv' = Kv
    BY <2>1 DEF Kv
  <2> QED
    BY <2>1, <2>2 DEF Durable!vars, Kv
<1> QED
  BY <1>1, <1>2, <1>3, <1>4, <1>5, <1>6, UnspoiledStep

\* As long as neither the empty key nor a write cut short spoiled kv.log,
\* FileKvEngine is the durable store that module KvStore specifies: its batches,
\* crashes, failed appends, restarts and restored snapshots lose no acknowledged
\* write, and an unacknowledged one turns up at most until its key is written
\* again.
THEOREM EngineImplementsKvStore == Spec => ImplementsKvStore
<1>1. Init => Durable!Init
  BY RefinesInit
<1>2. Unspoiled /\ [Next]_vars
        => [~Spoiled' => Durable!Next \/ UNCHANGED Durable!vars]_vars
  BY RefinesNext
<1> QED
  BY <1>1, <1>2, Engine, PTL DEF Spec, ImplementsKvStore
=============================================================================
