---------------------------- MODULE IntakeProofs ----------------------------
(***************************************************************************)
(* What is found in texts of any length: the command in the last envelope  *)
(* of the newest message that has one, the report that was begun last, and *)
(* that neither changes once it is whole.  Induction over texts is done    *)
(* with least and greatest positions.                                      *)
(***************************************************************************)
EXTENDS ReportIntake, Integers, FiniteSetTheorems, WellFoundedInduction, TLAPS

-----------------------------------------------------------------------------
(* Least and greatest positions.                                           *)

LEMMA LeastExists ==
    ASSUME NEW S \in SUBSET Nat, S # {}
    PROVE  Lowest(S) \in S /\ \A j \in S : Lowest(S) <= j
  <1>1. PICK x \in S : \A y \in S : ~(<<y, x>> \in OpToRel(<, Nat))
    BY NatLessThanWellFounded, WFMin
  <1>2. \A y \in S : ~(y < x)
    <2>1. \A y \in S : y \in Nat /\ x \in Nat
      OBVIOUS
    <2> QED BY <1>1, <2>1, Zenon DEF OpToRel
  <1>3. \A y \in S : x <= y
    BY <1>2
  <1> QED BY <1>3 DEF Lowest

LEMMA GreatestExists ==
    ASSUME NEW n \in Nat, NEW S \in SUBSET (0..n), S # {}
    PROVE  Highest(S) \in S /\ \A j \in S : Highest(S) >= j
  <1> DEFINE T == {n - i : i \in S}
  <1>1. T \in SUBSET Nat /\ T # {}
    <2>1. \A i \in S : n - i \in Nat
      OBVIOUS
    <2> QED BY <2>1
  <1>2. PICK x \in T : \A y \in T : x <= y
    BY <1>1, LeastExists
  <1>3. PICK i \in S : x = n - i
    BY <1>2
  <1>4. \A j \in S : i >= j
    BY <1>2, <1>3
  <1> QED BY <1>4 DEF Highest

-----------------------------------------------------------------------------
(* Texts.                                                                  *)

Text == Seq(Token)

\* Marks are where they are, and their number is counted.
LEMMA AtFacts ==
    ASSUME NEW text \in Text, NEW t
    PROVE  /\ At(text, t) \in SUBSET (1..Len(text))
           /\ IsFiniteSet(At(text, t))
           /\ Cardinality(At(text, t)) \in Nat
           /\ Cardinality(At(text, t)) = 0 <=> At(text, t) = {}
  <1>1. At(text, t) \in SUBSET (1..Len(text)) /\ Len(text) \in Nat
    BY DEF At, Text
  <1>2. IsFiniteSet(At(text, t))
    <2>1. IsFiniteSet(1..Len(text))
      BY <1>1, FS_Interval
    <2> QED BY <1>1, <2>1, FS_Subset
  <1> QED BY <1>1, <1>2, FS_EmptySet, FS_CardinalityType

\* One token more is found at the end and nowhere else.
LEMMA AtAppend ==
    ASSUME NEW text \in Text, NEW token \in Token, NEW t
    PROVE  /\ Append(text, token) \in Text
           /\ Len(Append(text, token)) = Len(text) + 1
           /\ \A i \in 1..Len(text) : Append(text, token)[i] = text[i]
           /\ token # t => At(Append(text, token), t) = At(text, t)
           /\ token = t => /\ At(Append(text, token), t) = At(text, t) \cup {Len(text) + 1}
                           /\ Cardinality(At(Append(text, token), t)) = Cardinality(At(text, t)) + 1
  <1>1. /\ Append(text, token) \in Text
        /\ Len(Append(text, token)) = Len(text) + 1 /\ Len(text) \in Nat
        /\ \A i \in 1..Len(text) : Append(text, token)[i] = text[i]
        /\ Append(text, token)[Len(text) + 1] = token
    BY DEF Text
  <1>2. DOMAIN text = 1..Len(text) /\ DOMAIN Append(text, token) = 1..(Len(text) + 1)
    BY <1>1 DEF Text
  <1>3. token # t => At(Append(text, token), t) = At(text, t)
    BY <1>1, <1>2 DEF At
  <1>4. token = t => At(Append(text, token), t) = At(text, t) \cup {Len(text) + 1}
    BY <1>1, <1>2 DEF At
  <1>5. Len(text) + 1 \notin At(text, t)
    BY <1>1, AtFacts
  <1> QED BY <1>1, <1>3, <1>4, <1>5, AtFacts, FS_AddElement

-----------------------------------------------------------------------------
(* The search for the last envelope.                                       *)

\* One round of the search, f being the search from the positions behind.
Round(text, f, pos) ==
    LET starts == {i \in At(text, "START") : i >= pos}
        start  == Lowest(starts)
        ends   == {i \in At(text, "END") : i > start}
        more   == {i \in At(text, "START") : i > Lowest(ends)}
    IN  IF starts = {} \/ ends = {} THEN <<0, 0>>
        ELSE IF more = {} THEN <<start, Lowest(ends)>>
        ELSE f[Lowest(ends) + 1]

IsSearch(text, f) == f = [pos \in 1..(Len(text) + 1) |-> Round(text, f, pos)]

LEMMA Unfolded == ASSUME NEW text PROVE LastEnvelope(text) = (CHOOSE f : IsSearch(text, f))[1]
  BY DEF LastEnvelope, IsSearch, Round

\* A round finds its pair from its position on and goes on behind it.
LEMMA RoundFinds ==
    ASSUME NEW text \in Text, NEW pos \in 1..(Len(text) + 1),
           NEW starts, starts = {i \in At(text, "START") : i >= pos}, starts # {},
           NEW ends, ends = {i \in At(text, "END") : i > Lowest(starts)}, ends # {}
    PROVE  /\ Lowest(starts) \in starts
           /\ Lowest(ends) \in ends /\ \A i \in ends : Lowest(ends) <= i
           /\ Lowest(ends) + 1 \in (pos + 1)..(Len(text) + 1)
  <1>1. Len(text) \in Nat /\ At(text, "START") \in SUBSET (1..Len(text)) /\ At(text, "END") \in SUBSET (1..Len(text))
    BY AtFacts DEF Text
  <1>2. Lowest(starts) \in starts
    <2>1. starts \in SUBSET Nat
      BY <1>1
    <2> QED BY <2>1, LeastExists
  <1>3. Lowest(ends) \in ends /\ \A i \in ends : Lowest(ends) <= i
    <2>1. ends \in SUBSET Nat
      BY <1>1
    <2> QED BY <2>1, LeastExists
  <1> QED BY <1>1, <1>2, <1>3

\* A round asks for nothing but later positions.
LEMMA RoundAhead ==
    ASSUME NEW text \in Text, NEW pos \in 1..(Len(text) + 1), NEW f, NEW g,
           \A q \in (pos + 1)..(Len(text) + 1) : f[q] = g[q]
    PROVE  Round(text, f, pos) = Round(text, g, pos)
  <1> DEFINE starts == {i \in At(text, "START") : i >= pos}
             ends   == {i \in At(text, "END") : i > Lowest(starts)}
  <1>1. CASE starts = {} \/ ends = {}
    BY <1>1 DEF Round
  <1>2. CASE starts # {} /\ ends # {}
    <2>1. f[Lowest(ends) + 1] = g[Lowest(ends) + 1]
      BY <1>2, RoundFinds
    <2> QED BY <1>2, <2>1 DEF Round
  <1> QED BY <1>1, <1>2

\* The search from position k on.
SearchesFrom(text, k, g) == g = [pos \in k..(Len(text) + 1) |-> Round(text, g, pos)]

\* The search is well founded, so it is what its definition says.
LEMMA SearchExists ==
    ASSUME NEW text \in Text
    PROVE  \E f : IsSearch(text, f) /\ LastEnvelope(text) = f[1]
  <1> DEFINE n == Len(text)
             Missing == {m \in 0..n : ~ \E g : SearchesFrom(text, n + 1 - m, g)}
  <1>1. n \in Nat
    BY DEF Text
  <1>2. Missing = {}
    <2> SUFFICES ASSUME Missing # {} PROVE FALSE
      OBVIOUS
    <2>1. PICK m \in Missing : \A j \in Missing : m <= j
      <3>1. Missing \in SUBSET Nat
        BY <1>1
      <3> QED BY <3>1, LeastExists
    <2> DEFINE k == n + 1 - m
    <2>2. m \in 0..n /\ k \in 1..(n + 1) /\ ~ \E g : SearchesFrom(text, k, g)
      BY <1>1, <2>1
    <2>3. CASE m = 0
      <3>1. k = n + 1 /\ k..(n + 1) = {n + 1}
        BY <1>1, <2>3
      <3>2. {i \in At(text, "START") : i >= n + 1} = {}
        BY <1>1, AtFacts
      <3>3. \A g : Round(text, g, n + 1) = <<0, 0>>
        BY <3>2 DEF Round
      <3>4. SearchesFrom(text, k, [pos \in k..(n + 1) |-> <<0, 0>>])
        BY <3>1, <3>3 DEF SearchesFrom
      <3> QED BY <2>2, <3>4
    <2>4. CASE m # 0
      <3>1. m - 1 \in 0..n /\ ~(m <= m - 1) /\ n + 1 - (m - 1) = k + 1
        BY <1>1, <2>2, <2>4
      <3>2. PICK g : SearchesFrom(text, k + 1, g)
        <4>1. m - 1 \notin Missing
          BY <2>1, <3>1
        <4>2. \E g : SearchesFrom(text, n + 1 - (m - 1), g)
          BY <3>1, <4>1
        <4> QED BY <3>1, <4>2
      <3> HIDE DEF k
      <3> DEFINE h == [pos \in k..(n + 1) |-> IF pos = k THEN Round(text, g, k) ELSE g[pos]]
      <3>3. \A q \in (k + 1)..(n + 1) : h[q] = g[q] /\ g[q] = Round(text, g, q)
        BY <1>1, <2>2, <3>2 DEF SearchesFrom
      <3>4. \A pos \in k..(n + 1) : Round(text, h, pos) = Round(text, g, pos)
        <4> TAKE pos \in k..(n + 1)
        <4>1. pos \in 1..(n + 1) /\ \A q \in (pos + 1)..(n + 1) : q \in (k + 1)..(n + 1)
          BY <1>1, <2>2
        <4> HIDE DEF h
        <4> QED BY <3>3, <4>1, RoundAhead
      <3>5. \A pos \in k..(n + 1) : h[pos] = Round(text, g, pos)
        <4>1. \A pos \in k..(n + 1) : pos = k \/ pos \in (k + 1)..(n + 1)
          BY <1>1, <2>2
        <4> QED BY <3>3, <4>1
      <3>6. SearchesFrom(text, k, h)
        BY <3>4, <3>5 DEF SearchesFrom
      <3> QED BY <2>2, <3>6
    <2> QED BY <2>3, <2>4
  <1>3. \E f : IsSearch(text, f)
    <2>1. n \in 0..n /\ n + 1 - n = 1
      BY <1>1
    <2> QED BY <1>2, <2>1 DEF IsSearch, SearchesFrom
  <1> QED BY <1>3, Unfolded

\* A pair of marks: the first end behind a start, and no start behind both.
Pairs(text, s, e) ==
    /\ s \in At(text, "START") /\ e \in At(text, "END") /\ s < e
    /\ \A i \in At(text, "END") : i > s => e <= i
    /\ \A i \in At(text, "START") : i <= e

LEMMA SearchFinds ==
    ASSUME NEW text \in Text, LastEnvelope(text) # <<0, 0>>
    PROVE  \E s, e : LastEnvelope(text) = <<s, e>> /\ Pairs(text, s, e)
  <1> DEFINE n == Len(text)
  <1>1. n \in Nat
    BY DEF Text
  <1>2. PICK f : IsSearch(text, f) /\ LastEnvelope(text) = f[1]
    BY SearchExists
  <1> DEFINE Wrong(pos) == f[pos] # <<0, 0>> /\ ~ \E s, e : f[pos] = <<s, e>> /\ Pairs(text, s, e)
             Misses == {m \in 0..n : Wrong(n + 1 - m)}
  <1>3. Misses = {}
    <2> SUFFICES ASSUME Misses # {} PROVE FALSE
      OBVIOUS
    <2>1. PICK m \in Misses : \A j \in Misses : m <= j
      <3>1. Misses \in SUBSET Nat
        BY <1>1
      <3> QED BY <3>1, LeastExists
    <2> DEFINE pos == n + 1 - m
    <2>2. m \in 0..n /\ pos \in 1..(n + 1) /\ Wrong(pos)
      BY <1>1, <2>1
    <2>3. \A q \in (pos + 1)..(n + 1) : ~Wrong(q)
      <3> TAKE q \in (pos + 1)..(n + 1)
      <3>1. n + 1 - q \in 0..n /\ ~(m <= n + 1 - q) /\ n + 1 - (n + 1 - q) = q
        BY <1>1, <2>2
      <3> QED BY <2>1, <3>1
    <2>4. f[pos] = Round(text, f, pos)
      BY <1>2, <2>2 DEF IsSearch
    <2> DEFINE starts == {i \in At(text, "START") : i >= pos}
               ends   == {i \in At(text, "END") : i > Lowest(starts)}
               more   == {i \in At(text, "START") : i > Lowest(ends)}
    <2>5. starts # {} /\ ends # {}
      BY <2>2, <2>4 DEF Round
    <2>6. /\ Lowest(starts) \in starts
          /\ Lowest(ends) \in ends /\ \A i \in ends : Lowest(ends) <= i
          /\ Lowest(ends) + 1 \in (pos + 1)..(n + 1)
      BY <2>2, <2>5, RoundFinds
    <2>7. CASE more = {}
      <3>1. f[pos] = <<Lowest(starts), Lowest(ends)>>
        BY <2>4, <2>5, <2>7 DEF Round
      <3>2. Pairs(text, Lowest(starts), Lowest(ends))
        <4>1. At(text, "START") \in SUBSET (1..n) /\ At(text, "END") \in SUBSET (1..n)
          BY AtFacts
        <4>2. Lowest(starts) \in 1..n /\ Lowest(ends) \in 1..n
          BY <2>6, <4>1
        <4>3. \A i \in At(text, "START") : i <= Lowest(ends)
          <5> TAKE i \in At(text, "START")
          <5>1. ~(i > Lowest(ends))
            BY <2>7
          <5> HIDE DEF ends
          <5> QED BY <4>1, <4>2, <5>1
        <4> QED BY <2>6, <4>1, <4>2, <4>3 DEF Pairs
      <3> QED BY <2>2, <3>1, <3>2
    <2>8. CASE more # {}
      <3>1. f[pos] = f[Lowest(ends) + 1]
        BY <2>4, <2>5, <2>8 DEF Round
      <3> QED BY <2>2, <2>3, <2>6, <3>1
    <2> QED BY <2>7, <2>8
  <1>4. n \in 0..n /\ n + 1 - n = 1
    BY <1>1
  <1>5. ~Wrong(1)
    BY <1>3, <1>4
  <1> QED BY <1>2, <1>5

\* A token that is no mark does not change what the search finds.
LEMMA SearchStays ==
    ASSUME NEW text \in Text, NEW token \in Token \ {"START", "END"}
    PROVE  LastEnvelope(Append(text, token)) = LastEnvelope(text)
  <1> DEFINE n == Len(text)
             longer == Append(text, token)
  <1>1. /\ n \in Nat /\ longer \in Text /\ Len(longer) = n + 1
        /\ At(longer, "START") = At(text, "START") /\ At(longer, "END") = At(text, "END")
    BY AtAppend DEF Text
  <1>2. PICK f : IsSearch(text, f) /\ LastEnvelope(text) = f[1]
    BY SearchExists
  <1>3. PICK g : IsSearch(longer, g) /\ LastEnvelope(longer) = g[1]
    BY <1>1, SearchExists
  <1> DEFINE Differ == {m \in 0..n : f[n + 1 - m] # g[n + 1 - m]}
  <1>4. Differ = {}
    <2> SUFFICES ASSUME Differ # {} PROVE FALSE
      OBVIOUS
    <2>1. PICK m \in Differ : \A j \in Differ : m <= j
      <3>1. Differ \in SUBSET Nat
        BY <1>1
      <3> QED BY <3>1, LeastExists
    <2> DEFINE pos == n + 1 - m
    <2>2. m \in 0..n /\ pos \in 1..(n + 1) /\ f[pos] # g[pos]
      BY <1>1, <2>1
    <2>3. \A q \in (pos + 1)..(n + 1) : f[q] = g[q]
      <3> TAKE q \in (pos + 1)..(n + 1)
      <3>1. n + 1 - q \in 0..n /\ ~(m <= n + 1 - q) /\ n + 1 - (n + 1 - q) = q
        BY <1>1, <2>2
      <3> QED BY <2>1, <3>1
    <2>4. f[pos] = Round(text, f, pos)
      BY <1>2, <2>2 DEF IsSearch
    <2>5. g[pos] = Round(longer, g, pos)
      <3>1. pos \in 1..(Len(longer) + 1)
        BY <1>1, <2>2
      <3> QED BY <1>3, <3>1 DEF IsSearch
    <2>6. Round(longer, g, pos) = Round(text, g, pos)
      BY <1>1 DEF Round
    <2>7. Round(text, f, pos) = Round(text, g, pos)
      BY <2>2, <2>3, RoundAhead
    <2> QED BY <2>2, <2>4, <2>5, <2>6, <2>7
  <1>5. n \in 0..n /\ n + 1 - n = 1
    BY <1>1
  <1> QED BY <1>2, <1>3, <1>4, <1>5

-----------------------------------------------------------------------------
(* The command in a text.                                                  *)

\* What Extract has made sure of when it returns a command.
LEMMA ExtractForm ==
    ASSUME NEW text \in Text, Executable(text)
    PROVE  \E s, e :
              /\ LastEnvelope(text) = <<s, e>>
              /\ Pairs(text, s, e)
              /\ \A i \in At(text, "START") : i <= s
              /\ Extract(text) = CanonicalBlock(text, s, e)
              /\ Extract(text) # Malformed
  <1>1. /\ Extract(text) # None /\ Extract(text) # Malformed
        /\ LastEnvelope(text) # <<0, 0>>
    BY DEF Executable, Extract
  <1>2. PICK s, e : LastEnvelope(text) = <<s, e>> /\ Pairs(text, s, e)
    BY <1>1, SearchFinds
  <1>3. LastEnvelope(text)[1] = s /\ LastEnvelope(text)[2] = e
    BY <1>2
  <1>4. /\ ~ \E i \in (s + 1)..e : text[i] = "START"
        /\ Extract(text) = CanonicalBlock(text, s, e)
    BY <1>1, <1>3 DEF Extract
  <1>5. \A i \in At(text, "START") : i <= s
    <2> TAKE i \in At(text, "START")
    <2>1. i \in Nat /\ s \in Nat /\ e \in Nat /\ text[i] = "START"
      BY <1>2, AtFacts DEF Pairs, At
    <2>2. i <= e /\ i \notin (s + 1)..e
      BY <1>2, <1>4, <2>1 DEF Pairs
    <2> QED BY <2>1, <2>2
  <1> QED BY <1>1, <1>2, <1>4, <1>5

LEMMA BlockForm ==
    ASSUME NEW text \in Text, NEW s \in 1..Len(text), NEW e \in 1..Len(text),
           CanonicalBlock(text, s, e) # Malformed
    PROVE  \E i, j \in (s + 1)..(e - 1) :
              /\ {text[i], text[j]} \subseteq Blocks /\ text[i] \in Good
              /\ \A k \in (s + 1)..(e - 1) : text[k] \in Blocks => k \in i..j
              /\ CanonicalBlock(text, s, e) = SubSeq(text, i, j)
  <1> DEFINE found == {i \in (s + 1)..(e - 1) : text[i] \in Blocks}
  <1>1. Len(text) \in Nat
    BY DEF Text
  <1>2. found # {} /\ text[Lowest(found)] \notin Bad
        /\ CanonicalBlock(text, s, e) = SubSeq(text, Lowest(found), Highest(found))
    BY DEF CanonicalBlock
  <1>3. found \in SUBSET Nat /\ found \in SUBSET (0..Len(text))
    BY <1>1
  <1>4. Lowest(found) \in found /\ \A k \in found : Lowest(found) <= k
    BY <1>2, <1>3, LeastExists
  <1>5. Highest(found) \in found /\ \A k \in found : Highest(found) >= k
    BY <1>1, <1>2, <1>3, GreatestExists
  <1>6. text[Lowest(found)] \in Blocks /\ text[Highest(found)] \in Blocks /\ text[Lowest(found)] \in Good
    BY <1>2, <1>4, <1>5 DEF Blocks
  <1>7. \A k \in (s + 1)..(e - 1) : text[k] \in Blocks => k \in Lowest(found)..Highest(found)
    <2> TAKE k \in (s + 1)..(e - 1)
    <2> SUFFICES ASSUME text[k] \in Blocks PROVE k \in Lowest(found)..Highest(found)
      OBVIOUS
    <2>1. Lowest(found) <= k /\ Highest(found) >= k /\ Lowest(found) \in Nat /\ Highest(found) \in Nat
      BY <1>3, <1>4, <1>5
    <2> HIDE DEF found
    <2> QED BY <2>1
  <1> QED BY <1>2, <1>4, <1>5, <1>6, <1>7

\* The search of the code finds the command of the last envelope.
LEMMA CommandFound ==
    ASSUME NEW text \in Text, Executable(text)
    PROVE  IsCommandOf(text, Extract(text))
  <1>1. PICK s, e : /\ Pairs(text, s, e)
                    /\ \A i \in At(text, "START") : i <= s
                    /\ Extract(text) = CanonicalBlock(text, s, e)
                    /\ Extract(text) # Malformed
    BY ExtractForm
  <1>2. /\ s \in At(text, "START") /\ e \in At(text, "END") /\ s < e
        /\ s \in 1..Len(text) /\ e \in 1..Len(text) /\ Len(text) \in Nat
    BY <1>1, AtFacts DEF Pairs, Text
  <1>3. \A i \in DOMAIN text : i > s => text[i] # "START" /\ (i < e => text[i] # "END")
    <2> SUFFICES ASSUME NEW i \in DOMAIN text, i > s
                 PROVE  text[i] # "START" /\ (i < e => text[i] # "END")
      OBVIOUS
    <2>1. i \in Nat
      BY DEF Text
    <2>2. text[i] # "START"
      BY <1>1, <1>2, <2>1 DEF At
    <2>3. i < e => text[i] # "END"
      BY <1>1, <1>2, <2>1 DEF Pairs, At
    <2> QED BY <2>2, <2>3
  <1>4. \E i, j \in (s + 1)..(e - 1) :
           /\ {text[i], text[j]} \subseteq Blocks /\ text[i] \in Good
           /\ \A k \in (s + 1)..(e - 1) : text[k] \in Blocks => k \in i..j
           /\ Extract(text) = SubSeq(text, i, j)
    BY <1>1, <1>2, BlockForm
  <1> QED BY <1>2, <1>3, <1>4 DEF IsCommandOf

\* A token behind the envelope leaves the command as it is.
LEMMA CommandStays ==
    ASSUME NEW text \in Text, NEW token \in Token \ {"START", "END"}, Executable(text)
    PROVE  Extract(Append(text, token)) = Extract(text)
  <1> DEFINE longer == Append(text, token)
  <1>1. PICK s, e : /\ LastEnvelope(text) = <<s, e>>
                    /\ Pairs(text, s, e)
                    /\ \A i \in At(text, "START") : i <= s
                    /\ Extract(text) = CanonicalBlock(text, s, e)
                    /\ Extract(text) # Malformed
    BY ExtractForm
  <1>2. /\ Len(text) \in Nat /\ s \in 1..Len(text) /\ e \in 1..Len(text) /\ s < e
    BY <1>1, AtFacts DEF Pairs, Text
  <1>3. /\ longer \in Text /\ Len(longer) = Len(text) + 1
        /\ \A i \in 1..Len(text) : longer[i] = text[i]
        /\ At(longer, "START") = At(text, "START") /\ At(longer, "END") = At(text, "END")
    BY AtAppend
  <1>4. \A i \in (s + 1)..e : longer[i] = text[i]
    BY <1>2, <1>3
  <1>5. LastEnvelope(longer) = <<s, e>>
    BY <1>1, SearchStays
  <1>6. CanonicalBlock(longer, s, e) = CanonicalBlock(text, s, e)
    <2> DEFINE found == {i \in (s + 1)..(e - 1) : text[i] \in Blocks}
    <2>1. {i \in (s + 1)..(e - 1) : longer[i] \in Blocks} = found
      BY <1>2, <1>4
    <2>2. found # {}
      BY <1>1 DEF CanonicalBlock
    <2>3. found \in SUBSET Nat /\ found \in SUBSET (0..Len(text))
      BY <1>2
    <2>4. Lowest(found) \in found /\ Highest(found) \in found
      BY <1>2, <2>2, <2>3, LeastExists, GreatestExists
    <2>5. Lowest(found) \in 1..Len(text) /\ Highest(found) \in 1..Len(text)
      BY <1>2, <2>4
    <2>6. longer[Lowest(found)] = text[Lowest(found)]
      BY <1>3, <2>5
    <2>7. SubSeq(longer, Lowest(found), Highest(found)) = SubSeq(text, Lowest(found), Highest(found))
      <3> HIDE DEF found
      <3> QED BY <1>3, <2>5 DEF Text
    <2> QED BY <2>1, <2>6, <2>7 DEF CanonicalBlock
  <1>7. /\ At(text, "START") \cup At(text, "END") # {}
        /\ Cardinality(At(text, "START")) = Cardinality(At(text, "END"))
        /\ <<s, e>> # <<0, 0>>
        /\ ~ \E i \in (s + 1)..e : text[i] = "START"
    <2>1. Extract(text) # None
      BY DEF Executable
    <2> QED BY <1>1, <1>2, <2>1 DEF Extract
  <1>8. ~ \E i \in (s + 1)..e : longer[i] = "START"
    BY <1>4, <1>7
  <1>9. LastEnvelope(longer)[1] = s /\ LastEnvelope(longer)[2] = e /\ LastEnvelope(longer) # <<0, 0>>
    BY <1>5, <1>7
  <1>10. Extract(longer) = CanonicalBlock(longer, s, e)
    <2> HIDE DEF longer
    <2> QED BY <1>3, <1>7, <1>8, <1>9 DEF Extract
  <1> QED BY <1>1, <1>6, <1>10

-----------------------------------------------------------------------------
(* The conversation.                                                       *)

\* The messages are texts, and there is one.
ConversationOK == conversation \in Seq(Text) /\ Len(conversation) > 0

LEMMA ConversationInit == Init => ConversationOK
  <1> SUFFICES ASSUME Init PROVE ConversationOK
    OBVIOUS
  <1>1. << >> \in Text
    BY DEF Text
  <1>2. conversation = << << >> >>
    BY DEF Init
  <1> QED BY <1>1, <1>2 DEF ConversationOK

\* What a new token does to the message that is being written.
LEMMA NewestWritten ==
    ASSUME ConversationOK, NEW token \in Token, WriteToken(token)
    PROVE  /\ Newest \in Text
           /\ Newest' = Append(Newest, token)
           /\ ConversationOK'
  <1>1. Len(conversation) \in 1..Len(conversation) /\ Newest \in Text
    BY DEF ConversationOK, Newest
  <1>2. Append(Newest, token) \in Text
    BY <1>1, AtAppend
  <1>3. conversation' = [conversation EXCEPT ![Len(conversation)] = Append(Newest, token)]
    BY DEF WriteToken, Newest
  <1>4. conversation' \in Seq(Text) /\ Len(conversation') = Len(conversation)
    BY <1>2, <1>3 DEF ConversationOK
  <1>5. conversation'[Len(conversation)] = Append(Newest, token)
    BY <1>1, <1>3 DEF ConversationOK
  <1> QED BY <1>1, <1>4, <1>5 DEF ConversationOK, Newest

LEMMA ConversationStep == ConversationOK /\ [Next]_conversation => ConversationOK'
  <1> SUFFICES ASSUME ConversationOK, [Next]_conversation PROVE ConversationOK'
    OBVIOUS
  <1>1. CASE NewMessage
    <2>1. << >> \in Text
      BY DEF Text
    <2> QED BY <1>1, <2>1 DEF NewMessage, ConversationOK
  <1>2. ASSUME NEW token \in Token, WriteToken(token) PROVE ConversationOK'
    BY <1>2, NewestWritten
  <1>3. CASE UNCHANGED conversation
    BY <1>3 DEF ConversationOK
  <1> QED BY <1>1, <1>2, <1>3 DEF Next

\* Of a text of any length, a command is taken only as the block of its last
\* envelope, which is well formed.
THEOREM OnlyTheLastEnvelope == Spec => []LastEnvelopeDecides
  <1>1. ConversationOK => LastEnvelopeDecides
    BY CommandFound DEF ConversationOK, Newest, LastEnvelopeDecides
  <1> QED BY <1>1, ConversationInit, ConversationStep, PTL DEF Spec

\* A marked text holds a command or is malformed.
LEMMA MarkedForm ==
    ASSUME NEW text \in Text
    PROVE  Extract(text) = None <=> At(text, "START") \cup At(text, "END") = {}
  <1>1. SUFFICES ASSUME At(text, "START") \cup At(text, "END") # {}, Extract(text) = None PROVE FALSE
    BY DEF Extract
  <1>2. None # Malformed
    BY DEF None, Malformed
  <1>3. CanonicalBlock(text, LastEnvelope(text)[1], LastEnvelope(text)[2]) = None /\ LastEnvelope(text) # <<0, 0>>
    BY <1>1, <1>2 DEF Extract
  <1>4. PICK s, e : LastEnvelope(text) = <<s, e>> /\ Pairs(text, s, e)
    BY <1>3, SearchFinds
  <1>5. CanonicalBlock(text, s, e) = None /\ s \in 1..Len(text) /\ e \in 1..Len(text) /\ Len(text) \in Nat
    BY <1>3, <1>4, AtFacts DEF Pairs, Text
  <1>6. PICK i, j \in (s + 1)..(e - 1) :
           /\ text[i] \in Good
           /\ \A k \in (s + 1)..(e - 1) : text[k] \in Blocks => k \in i..j
           /\ CanonicalBlock(text, s, e) = SubSeq(text, i, j)
    BY <1>2, <1>5, BlockForm
  <1>7. SubSeq(text, i, j)[1] = text[i]
    <2>1. i \in i..j
      BY <1>6 DEF Blocks
    <2> QED BY <1>5, <1>6, <2>1 DEF Text
  <1>8. text[i] = "none"
    BY <1>5, <1>6, <1>7 DEF None
  <1> QED BY <1>6, <1>8, IntakeAssumption

\* A command is never taken from an older message than the newest with an
\* envelope.
THEOREM OnlyTheNewestMessage == Spec => []NoOlderCommand
  <1>1. ConversationOK => NoOlderCommand
    <2> DEFINE marked == {m \in DOMAIN conversation :
                            At(conversation[m], "START") \cup At(conversation[m], "END") # {}}
               commands == {m \in DOMAIN conversation : Executable(conversation[m])}
    <2> SUFFICES ASSUME ConversationOK, Parse(conversation) \notin {None, Malformed}
                 PROVE  IsCommandOf(conversation[Highest(marked)], Parse(conversation))
      BY DEF NoOlderCommand
    <2>1. /\ \A m \in DOMAIN conversation : Extract(conversation[m]) # Malformed
          /\ commands # {}
          /\ Parse(conversation) = Extract(conversation[Highest(commands)])
      BY DEF Parse
    <2>2. \A m \in DOMAIN conversation : conversation[m] \in Text
      BY DEF ConversationOK
    <2>3. marked = commands
      BY <2>1, <2>2, MarkedForm DEF Executable
    <2>4. Highest(commands) \in commands
      <3>1. Len(conversation) \in Nat /\ commands \in SUBSET (0..Len(conversation))
        BY DEF ConversationOK
      <3> QED BY <2>1, <3>1, GreatestExists
    <2>5. IsCommandOf(conversation[Highest(commands)], Extract(conversation[Highest(commands)]))
      BY <2>2, <2>4, CommandFound
    <2> QED BY <2>1, <2>3, <2>5
  <1> QED BY <1>1, ConversationInit, ConversationStep, PTL DEF Spec

\* A command that was found stays what it is while more is written behind it.
THEOREM FoundCommandStays == Spec => CommandIsFinal
  <1>1. ConversationOK /\ [Next]_conversation =>
          [\A token \in Token \ {"START", "END"} :
               WriteToken(token) /\ Executable(Newest) => Extract(Newest') = Extract(Newest)]_conversation
    BY NewestWritten, CommandStays
  <1> QED BY <1>1, ConversationInit, ConversationStep, PTL DEF Spec, CommandIsFinal

-----------------------------------------------------------------------------
(* The report in a turn.                                                   *)

\* What ExtractReport has made sure of when it returns a report.
LEMMA ReportForm ==
    ASSUME NEW text \in Text, Reported(text)
    PROVE  LET s    == Highest(At(text, "START"))
               ends == {i \in At(text, "END") : i > s}
               e    == Lowest(ends)
           IN  /\ s \in At(text, "START") /\ \A i \in At(text, "START") : i <= s
               /\ ends # {} /\ e \in ends /\ \A i \in ends : e <= i
               /\ Cardinality(At(text, "START")) = Cardinality(At(text, "END"))
               /\ text[s + 1] \in Good
               /\ ExtractReport(text) = SubSeq(text, s + 1, e - 1)
  <1> DEFINE s    == Highest(At(text, "START"))
             ends == {i \in At(text, "END") : i > s}
             e    == Lowest(ends)
  <1>1. /\ At(text, "START") \cup At(text, "END") # {}
        /\ Cardinality(At(text, "START")) = Cardinality(At(text, "END"))
        /\ ends # {}
        /\ ExtractReport(text) = Headed(SubSeq(text, s + 1, e - 1))
        /\ ExtractReport(text) # Malformed
    BY DEF Reported, ExtractReport
  <1>2. Len(text) \in Nat /\ At(text, "START") # {}
        /\ At(text, "START") \in SUBSET (0..Len(text)) /\ At(text, "END") \in SUBSET (1..Len(text))
    BY <1>1, AtFacts DEF Text
  <1>3. s \in At(text, "START") /\ \A i \in At(text, "START") : s >= i
    BY <1>2, GreatestExists
  <1>4. s \in 1..Len(text) /\ \A i \in At(text, "START") : i <= s
    BY <1>2, <1>3, AtFacts
  <1>5. e \in ends /\ \A i \in ends : e <= i
    <2>1. ends \in SUBSET Nat
      BY <1>2
    <2> QED BY <1>1, <2>1, LeastExists
  <1>6. e \in 1..Len(text) /\ e > s
    BY <1>2, <1>5
  <1>7. /\ SubSeq(text, s + 1, e - 1) # << >>
        /\ Head(SubSeq(text, s + 1, e - 1)) \in Good
        /\ ExtractReport(text) = SubSeq(text, s + 1, e - 1)
    BY <1>1 DEF Headed
  <1>8. text[s + 1] \in Good
    <2> HIDE DEF s, e
    <2>1. Len(SubSeq(text, s + 1, e - 1)) > 0
      BY <1>2, <1>4, <1>6, <1>7 DEF Text
    <2>2. Head(SubSeq(text, s + 1, e - 1)) = text[s + 1]
      BY <1>2, <1>4, <1>6, <2>1 DEF Text
    <2> QED BY <1>7, <2>2
  <1> QED BY <1>1, <1>3, <1>4, <1>5, <1>7, <1>8

\* A report of a turn of any length is the one that was begun last, and whole.
THEOREM OnlyTheLastReport == Spec => []LastReportOnly
  <1>1. ASSUME NEW text \in Text, Reported(text)
        PROVE  \E s \in At(text, "START"), e \in At(text, "END") :
                  /\ \A i \in DOMAIN text : i > s => text[i] # "START" /\ (i < e => text[i] # "END")
                  /\ text[s + 1] \in Good
                  /\ ExtractReport(text) = SubSeq(text, s + 1, e - 1)
    <2> DEFINE s    == Highest(At(text, "START"))
               ends == {i \in At(text, "END") : i > s}
               e    == Lowest(ends)
    <2>1. /\ s \in At(text, "START") /\ \A i \in At(text, "START") : i <= s
          /\ e \in ends /\ \A i \in ends : e <= i
          /\ text[s + 1] \in Good
          /\ ExtractReport(text) = SubSeq(text, s + 1, e - 1)
      BY <1>1, ReportForm
    <2>2. \A i \in DOMAIN text : i > s => text[i] # "START" /\ (i < e => text[i] # "END")
      <3> SUFFICES ASSUME NEW i \in DOMAIN text, i > s
                   PROVE  text[i] # "START" /\ (i < e => text[i] # "END")
        OBVIOUS
      <3>1. i \in Nat /\ s \in Nat /\ e \in Nat
        BY <2>1, AtFacts DEF Text
      <3>2. i \in At(text, "START") => i <= s
        BY <2>1
      <3>3. i \in At(text, "END") => e <= i
        BY <2>1
      <3> HIDE DEF s, e
      <3> QED BY <3>1, <3>2, <3>3 DEF At
    <2> QED BY <2>1, <2>2
  <1>2. ConversationOK => LastReportOnly
    <2> SUFFICES ASSUME ConversationOK, Reported(Newest) PROVE LastReportOnly
      BY DEF LastReportOnly
    <2>1. Newest \in Text
      BY DEF ConversationOK, Newest
    <2> QED BY <1>1, <2>1 DEF LastReportOnly
  <1> QED BY <1>2, ConversationInit, ConversationStep, PTL DEF Spec

\* What is written behind a report leaves it or makes the turn malformed.
LEMMA ReportStays ==
    ASSUME NEW text \in Text, NEW token \in Token, Reported(text)
    PROVE  ExtractReport(Append(text, token)) \in {ExtractReport(text), Malformed}
  <1> DEFINE longer == Append(text, token)
             s    == Highest(At(text, "START"))
             ends == {i \in At(text, "END") : i > s}
             e    == Lowest(ends)
  <1>1. /\ s \in At(text, "START") /\ ends # {} /\ e \in ends
        /\ Cardinality(At(text, "START")) = Cardinality(At(text, "END"))
        /\ text[s + 1] \in Good
        /\ ExtractReport(text) = SubSeq(text, s + 1, e - 1)
    BY ReportForm
  <1>2. /\ Cardinality(At(text, "START")) \in Nat
        /\ s \in 1..Len(text) /\ e \in 1..Len(text) /\ e > s
    BY <1>1, AtFacts
  <1>3. CASE token \in {"START", "END"}
    <2>1. Cardinality(At(longer, "START")) # Cardinality(At(longer, "END"))
      BY <1>1, <1>2, <1>3, AtAppend
    <2>2. At(longer, "START") \cup At(longer, "END") # {}
      BY <1>1, <1>3, AtAppend
    <2> QED BY <2>1, <2>2 DEF ExtractReport
  <1>4. CASE token \notin {"START", "END"}
    <2>1. /\ At(longer, "START") = At(text, "START") /\ At(longer, "END") = At(text, "END")
          /\ Len(longer) = Len(text) + 1 /\ longer \in Text
          /\ \A i \in 1..Len(text) : longer[i] = text[i]
      BY <1>4, AtAppend
    <2>2. SubSeq(longer, s + 1, e - 1) = SubSeq(text, s + 1, e - 1)
      <3>1. Len(text) \in Nat
        BY DEF Text
      <3> HIDE DEF longer, s, e
      <3> QED BY <1>2, <2>1, <3>1 DEF Text
    <2>3. ExtractReport(longer) = Headed(SubSeq(longer, s + 1, e - 1))
          /\ ExtractReport(text) = Headed(SubSeq(text, s + 1, e - 1))
      BY <1>1, <2>1 DEF ExtractReport
    <2> QED BY <2>2, <2>3
  <1> QED BY <1>3, <1>4

\* A report that was taken is not exchanged for another by what follows.
THEOREM TakenReportStays == Spec => ReportIsFinal
  <1>1. ConversationOK /\ [Next]_conversation =>
          [\A token \in Token :
               WriteToken(token) /\ Reported(Newest)
                   => ExtractReport(Newest') \in {ExtractReport(Newest), Malformed}]_conversation
    BY NewestWritten, ReportStays
  <1> QED BY <1>1, ConversationInit, ConversationStep, PTL DEF Spec, ReportIsFinal

=============================================================================
