------------------------ MODULE ConfigChangesProofs ------------------------
(***************************************************************************)
(* Proofs about ConfigChanges, for any documents that follow the schema.   *)
(*                                                                         *)
(* - Lists: what Chosen and ByName make of one, by induction over the      *)
(*   entries looked at so far.                                             *)
(* - Documents: what FromJSON returns is IsConfig, and of such a           *)
(*   configuration FromJSON reads what ToJSON wrote (ReadAgain).           *)
(* - The inductive invariant IInv, in parts.  Places, Channels and Casting *)
(*   say where everyone is; they do not depend on what a configuration     *)
(*   says.  Sources says that every configuration anyone holds is an       *)
(*   accepted one or the static one, as it was.  Globs, Matched and Going  *)
(*   are about the watchers and the coordinator on its way through them.   *)
(* - Files: what mergeConfigs has gathered after n file types, and, from   *)
(*   that, that a file nothing can be read by is IllFile (FileIs).         *)
(* - The theorems: one for each safety property of the run Config.         *)
(***************************************************************************)
EXTENDS ConfigChanges, FiniteSetTheorems, WellFoundedInduction, TLAPS

-----------------------------------------------------------------------------
(* Lists                                                                   *)

LEMMA LeastNumber ==
  ASSUME NEW S \in SUBSET Nat, S # {}
  PROVE  \E n \in S : \A m \in S : n <= m
<1>1. PICK R : IsWellFoundedOn(R, Nat) /\ \A m, n \in Nat : m < n => << m, n >> \in R
  <2>1. \A m, n \in Nat : m < n => << m, n >> \in OpToRel(<, Nat)
    BY DEF OpToRel
  <2>2. QED
    BY <2>1, NatLessThanWellFounded
<1>2. PICK n \in S : \A m \in S : ~ (<< m, n >> \in R)
  <2>1. IsWellFoundedOn(R, Nat) /\ S \subseteq Nat
    BY <1>1
  <2>2. QED
    BY <2>1, WFMin, Zenon
<1>3. ASSUME NEW m \in S PROVE n <= m
  <2>1. n \in Nat /\ m \in Nat
    OBVIOUS
  <2>2. ~ (m < n)
    BY <1>1, <1>2, <2>1, Zenon
  <2>3. QED
    BY <2>1, <2>2
<1>4. QED
  BY <1>3

\* Induction over the natural numbers, for the set of those that have a property.
LEMMA Induction ==
  ASSUME NEW S \in SUBSET Nat, 0 \in S, \A n \in S : n + 1 \in S
  PROVE  S = Nat
<1> SUFFICES ASSUME S # Nat PROVE FALSE
  OBVIOUS
<1>1. PICK n \in Nat \ S : \A m \in Nat \ S : n <= m
  BY LeastNumber
<1>2. n # 0 /\ n - 1 \in Nat /\ n - 1 < n /\ (n - 1) + 1 = n
  BY <1>1
<1>3. n - 1 \in S
  BY <1>1, <1>2
<1>4. QED
  BY <1>1, <1>2, <1>3

\* What Chosen computes its result with, for the first n entries.
Choosing(f, list, S, n) ==
  f = [ i \in 0 .. n |->
          IF i = 0 THEN << >>
          ELSE IF list[i] \in S THEN Append(f[i - 1], list[i]) ELSE f[i - 1] ]

LEMMA ChoosingAt ==
  ASSUME NEW f, NEW list, NEW S, NEW n, Choosing(f, list, S, n), NEW i \in 0 .. n
  PROVE  f[i] = IF i = 0 THEN << >>
                ELSE IF list[i] \in S THEN Append(f[i - 1], list[i]) ELSE f[i - 1]
<1> DEFINE g == [ j \in 0 .. n |->
                    IF j = 0 THEN << >>
                    ELSE IF list[j] \in S THEN Append(f[j - 1], list[j]) ELSE f[j - 1] ]
<1>1. f = g
  BY DEF Choosing
<1>2. g[i] = IF i = 0 THEN << >>
             ELSE IF list[i] \in S THEN Append(f[i - 1], list[i]) ELSE f[i - 1]
  OBVIOUS
<1> HIDE DEF g
<1>3. QED
  BY <1>1, <1>2

LEMMA ChoosingExists ==
  ASSUME NEW list, NEW S, NEW n \in Nat
  PROVE  \E f : Choosing(f, list, S, n)
<1> DEFINE N == { m \in Nat : \E f : Choosing(f, list, S, m) }
<1>1. 0 \in N
  <2>1. Choosing([ i \in 0 .. 0 |-> << >> ], list, S, 0)
    BY DEF Choosing
  <2>2. QED
    BY <2>1
<1>2. ASSUME NEW m \in N PROVE m + 1 \in N
  <2>1. m \in Nat /\ m + 1 \in Nat
    OBVIOUS
  <2>2. PICK f : Choosing(f, list, S, m)
    OBVIOUS
  <2> DEFINE next == IF list[m + 1] \in S THEN Append(f[m], list[m + 1]) ELSE f[m]
             g == [ i \in 0 .. m + 1 |-> IF i = m + 1 THEN next ELSE f[i] ]
             h == [ i \in 0 .. m + 1 |->
                      IF i = 0 THEN << >>
                      ELSE IF list[i] \in S THEN Append(g[i - 1], list[i]) ELSE g[i - 1] ]
  <2>3. ASSUME NEW i \in 0 .. m + 1
        PROVE  g[i] = h[i]
    <3>1. CASE i = m + 1
      <4>1. i # 0 /\ i - 1 = m /\ m \in 0 .. m + 1 /\ m # m + 1
        BY <2>1, <3>1
      <4>2. g[i - 1] = f[m] /\ g[i] = next
        BY <3>1, <4>1
      <4>3. h[i] = IF list[i] \in S THEN Append(g[i - 1], list[i]) ELSE g[i - 1]
        BY <4>1
      <4>4. QED
        BY <3>1, <4>2, <4>3
    <3>2. CASE i # m + 1
      <4>1. i \in 0 .. m
        BY <2>1, <3>2
      <4>2. g[i] = f[i]
        BY <3>2
      <4>3. f[i] = IF i = 0 THEN << >>
                   ELSE IF list[i] \in S THEN Append(f[i - 1], list[i]) ELSE f[i - 1]
        BY <2>2, <4>1, ChoosingAt
      <4>4. i # 0 => g[i - 1] = f[i - 1]
        BY <2>1, <4>1
      <4>5. h[i] = IF i = 0 THEN << >>
                   ELSE IF list[i] \in S THEN Append(g[i - 1], list[i]) ELSE g[i - 1]
        OBVIOUS
      <4> HIDE DEF g, h, next
      <4>6. QED
        BY <4>2, <4>3, <4>4, <4>5
    <3>3. QED
      BY <3>1, <3>2
  <2>4. g = h
    BY <2>3
  <2>5. Choosing(g, list, S, m + 1)
    BY <2>4 DEF Choosing
  <2>6. QED
    BY <2>1, <2>5
<1>3. N = Nat
  <2> HIDE DEF N
  <2>1. N \in SUBSET Nat
    BY DEF N
  <2>2. QED
    BY <1>1, <1>2, <2>1, Induction
<1>4. QED
  BY <1>3

LEMMA ChosenBy ==
  ASSUME NEW list, Len(list) \in Nat, NEW S
  PROVE  \E f : Choosing(f, list, S, Len(list)) /\ Chosen(list, S) = f[Len(list)]
<1> DEFINE f == CHOOSE f : Choosing(f, list, S, Len(list))
<1>1. Choosing(f, list, S, Len(list))
  BY ChoosingExists
<1>2. Chosen(list, S) = f[Len(list)]
  BY DEF Chosen, Choosing
<1>3. QED
  BY <1>1, <1>2

LEMMA RangeOneMore ==
  ASSUME NEW q, NEW r, NEW e, NEW n \in Nat, DOMAIN q = 1 .. n, DOMAIN r = 1 .. (n + 1),
         \A j \in 1 .. n : r[j] = q[j], r[n + 1] = e
  PROVE  Range(r) = Range(q) \cup {e}
<1>1. 1 .. (n + 1) = (1 .. n) \cup {n + 1}
  OBVIOUS
<1>2. QED
  BY <1>1 DEF Range

\* The entries of a list before its last one.
Before(list) == { list[j] : j \in 1 .. (Len(list) - 1) }

\* The entries of a list that are in S, and no others; all of it if all are.
LEMMA ChosenIs ==
  ASSUME NEW list, IsList(list), NEW S
  PROVE  /\ IsList(Chosen(list, S))
         /\ Range(Chosen(list, S)) = Range(list) \cap S
         /\ Range(list) \subseteq S => Chosen(list, S) = list
         /\ Len(list) > 0 /\ list[Len(list)] \in S =>
              \E q : /\ IsList(q) /\ Chosen(list, S) = Append(q, list[Len(list)])
                    /\ Range(q) = Before(list) \cap S
<1> DEFINE n == Len(list)
<1>1. list \in Seq(Range(list)) /\ n \in Nat /\ DOMAIN list = 1 .. n
  BY DEF IsList
<1>2. PICK f : Choosing(f, list, S, n) /\ Chosen(list, S) = f[n]
  BY <1>1, ChosenBy
<1> DEFINE Good(i) == /\ f[i] \in Seq(Range(list))
                      /\ Range(f[i]) = { list[j] : j \in 1 .. i } \cap S
                      /\ Range(list) \subseteq S =>
                           Len(f[i]) = i /\ \A j \in 1 .. i : f[i][j] = list[j]
           N == { i \in Nat : i <= n => Good(i) }
<1>3. 0 \in N
  <2>1. 0 \in 0 .. n
    BY <1>1
  <2>2. f[0] = << >>
    BY <1>2, <2>1, ChoosingAt
  <2>3. Range(f[0]) = {} /\ { list[j] : j \in 1 .. 0 } = {}
    BY <2>2 DEF Range
  <2>4. Range(f[0]) = { list[j] : j \in 1 .. 0 } \cap S
    BY <2>3
  <2>5. f[0] \in Seq(Range(list)) /\ Len(f[0]) = 0
    BY <2>2
  <2>6. Good(0)
    BY <2>4, <2>5
  <2> HIDE DEF Good
  <2>7. QED
    BY <2>6
<1>4. ASSUME NEW i \in N PROVE i + 1 \in N
  <2> SUFFICES ASSUME i + 1 <= n PROVE Good(i + 1)
    OBVIOUS
  <2>1. i \in Nat /\ i + 1 \in 0 .. n /\ i + 1 # 0 /\ i <= n /\ (i + 1) - 1 = i
    BY <1>1
  <2>2. Good(i)
    BY <2>1
  <2>3. f[i + 1] = IF list[i + 1] \in S THEN Append(f[i], list[i + 1]) ELSE f[i]
    <3>1. f[i + 1] = IF i + 1 = 0 THEN << >>
                     ELSE IF list[i + 1] \in S THEN Append(f[(i + 1) - 1], list[i + 1])
                                               ELSE f[(i + 1) - 1]
      BY <1>2, <2>1, ChoosingAt
    <3>2. QED
      BY <2>1, <3>1
  <2>4. list[i + 1] \in Range(list) /\ i + 1 \in DOMAIN list
    BY <1>1, <2>1 DEF Range
  <2>5. { list[j] : j \in 1 .. (i + 1) } = { list[j] : j \in 1 .. i } \cup {list[i + 1]}
    BY <2>1
  <2>6. CASE list[i + 1] \in S
    <3> DEFINE q == f[i]
               e == list[i + 1]
    <3>1. f[i + 1] = Append(q, e)
      BY <2>3, <2>6
    <3>2. q \in Seq(Range(list)) /\ e \in Range(list)
      BY <2>2, <2>4
    <3> HIDE DEF q, e
    <3>3. /\ Append(q, e) \in Seq(Range(list))
          /\ Len(Append(q, e)) = Len(q) + 1 /\ Len(q) \in Nat
          /\ DOMAIN q = 1 .. Len(q) /\ DOMAIN Append(q, e) = 1 .. (Len(q) + 1)
          /\ \A j \in 1 .. Len(q) : Append(q, e)[j] = q[j]
          /\ Append(q, e)[Len(q) + 1] = e
      BY <3>2
    <3>4. Range(f[i + 1]) = Range(q) \cup {e}
      <4> DEFINE r == f[i + 1]
                 k == Len(q)
      <4>1. /\ DOMAIN q = 1 .. k /\ DOMAIN r = 1 .. (k + 1) /\ k \in Nat
            /\ \A j \in 1 .. k : r[j] = q[j]
            /\ r[k + 1] = e
        BY <3>1, <3>3
      <4> HIDE DEF r, k
      <4>2. Range(r) = Range(q) \cup {e}
        BY <4>1, RangeOneMore, SMTT(30)
      <4>3. QED
        BY <4>2 DEF r
    <3>5. Range(f[i + 1]) = { list[j] : j \in 1 .. (i + 1) } \cap S
      BY <2>2, <2>5, <2>6, <3>4 DEF q, e
    <3>6. ASSUME Range(list) \subseteq S
          PROVE  Len(f[i + 1]) = i + 1 /\ \A j \in 1 .. (i + 1) : f[i + 1][j] = list[j]
      <4>1. Len(q) = i /\ \A j \in 1 .. i : q[j] = list[j]
        BY <2>2, <3>6 DEF q
      <4>2. \A j \in 1 .. (i + 1) : j \in 1 .. i \/ j = i + 1
        BY <2>1
      <4>3. QED
        <5>1. Len(f[i + 1]) = i + 1
          BY <3>1, <3>3, <4>1
        <5>2. ASSUME NEW j \in 1 .. (i + 1) PROVE f[i + 1][j] = list[j]
          <6>1. CASE j \in 1 .. i
            BY <3>1, <3>3, <4>1, <6>1
          <6>2. CASE j = i + 1
            BY <3>1, <3>3, <4>1, <6>2 DEF e
          <6>3. QED
            BY <4>2, <6>1, <6>2
        <5>3. QED
          BY <5>1, <5>2
    <3>7. QED
      BY <3>1, <3>3, <3>5, <3>6
  <2>7. CASE list[i + 1] \notin S
    BY <2>2, <2>3, <2>4, <2>5, <2>7
  <2>8. QED
    BY <2>6, <2>7
<1>5. \A i \in 0 .. n : Good(i)
  <2> HIDE DEF Good
  <2>1. N \in SUBSET Nat
    OBVIOUS
  <2> HIDE DEF N
  <2>2. N = Nat
    BY <1>3, <1>4, <2>1, Induction
  <2>3. QED
    BY <1>1, <2>2 DEF N
<1>6. f[n] \in Seq(Range(list)) /\ Range(f[n]) = Range(list) \cap S
  <2>1. Good(n)
    <3> HIDE DEF Good
    <3>1. n \in 0 .. n
      BY <1>1
    <3>2. QED
      BY <1>5, <3>1
  <2>2. QED
    BY <1>1, <2>1 DEF Range
<1>7. IsList(f[n])
  <2>1. f[n] \in Seq(Range(f[n]))
    BY <1>6 DEF Range
  <2>2. QED
    BY <2>1 DEF IsList
<1>8. ASSUME Range(list) \subseteq S PROVE f[n] = list
  <2>1. Good(n)
    <3> HIDE DEF Good
    <3>1. n \in 0 .. n
      BY <1>1
    <3>2. QED
      BY <1>5, <3>1
  <2>2. QED
    BY <1>1, <1>6, <1>8, <2>1
<1>9. ASSUME n > 0, list[n] \in S
      PROVE  \E q : /\ IsList(q) /\ f[n] = Append(q, list[n])
                    /\ Range(q) = Before(list) \cap S
  <2>1. n \in 0 .. n /\ n # 0 /\ n - 1 \in 0 .. n
    BY <1>1, <1>9
  <2>2. f[n] = Append(f[n - 1], list[n])
    <3>1. f[n] = IF n = 0 THEN << >>
                 ELSE IF list[n] \in S THEN Append(f[n - 1], list[n]) ELSE f[n - 1]
      BY <1>2, <2>1, ChoosingAt
    <3>2. QED
      BY <1>9, <2>1, <3>1
  <2>3. f[n - 1] \in Seq(Range(list)) /\ Range(f[n - 1]) = Before(list) \cap S
    BY <1>5, <2>1 DEF Before
  <2>4. IsList(f[n - 1])
    <3>1. f[n - 1] \in Seq(Range(f[n - 1]))
      BY <2>3 DEF Range
    <3>2. QED
      BY <3>1 DEF IsList
  <2>5. QED
    BY <2>2, <2>3, <2>4
<1>10. QED
  BY <1>2, <1>6, <1>7, <1>8, <1>9

LEMMA GreatestNumber ==
  ASSUME NEW n \in Nat, NEW S \in SUBSET (1 .. n), S # {}
  PROVE  Max(S) \in S /\ \A m \in S : m <= Max(S)
<1> DEFINE T == { k \in Nat : n - k \in S }
<1>1. T # {}
  <2>1. PICK m \in S : TRUE
    OBVIOUS
  <2>2. n - m \in Nat /\ n - (n - m) = m
    OBVIOUS
  <2>3. QED
    BY <2>2
<1>2. PICK k \in T : \A j \in T : k <= j
  BY <1>1, LeastNumber
<1>3. n - k \in S
  BY <1>2
<1>4. ASSUME NEW m \in S PROVE n - k >= m
  <2>1. n - m \in T
    <3>1. n - m \in Nat /\ n - (n - m) = m
      OBVIOUS
    <3>2. QED
      BY <3>1
  <2>2. k <= n - m /\ k \in Nat
    BY <1>2, <2>1
  <2>3. QED
    BY <2>2
<1> HIDE DEF T
<1>5. Max(S) \in S /\ \A m \in S : Max(S) >= m
  BY <1>3, <1>4 DEF Max
<1>6. QED
  BY <1>5

\* An entry of each name, under its name.
LEMMA ByNameIs ==
  ASSUME NEW list, IsList(list)
  PROVE  /\ DOMAIN ByName(list) = { list[i].name : i \in DOMAIN list }
         /\ IsFiniteSet(DOMAIN ByName(list))
         /\ \A n \in DOMAIN ByName(list) :
              ByName(list)[n] \in Range(list) /\ ByName(list)[n].name = n
<1> DEFINE D == { list[i].name : i \in DOMAIN list }
<1>1. DOMAIN list = 1 .. Len(list) /\ Len(list) \in Nat
  BY DEF IsList
<1>2. DOMAIN ByName(list) = D
  BY DEF ByName
<1>3. IsFiniteSet(D)
  <2> DEFINE f == [ i \in 1 .. Len(list) |-> list[i].name ]
  <2>1. f \in Surjection(1 .. Len(list), D)
    BY <1>1 DEF Surjection
  <2>2. IsFiniteSet(1 .. Len(list))
    BY <1>1, FS_Interval
  <2> HIDE DEF f, D
  <2>3. QED
    BY <2>1, <2>2, FS_Surjection
<1>4. ASSUME NEW n \in D
      PROVE  ByName(list)[n] \in Range(list) /\ ByName(list)[n].name = n
  <2> DEFINE I == { i \in 1 .. Len(list) : list[i].name = n }
  <2>1. I # {} /\ I \in SUBSET (1 .. Len(list))
    BY <1>1
  <2>2. ByName(list)[n] = list[Max(I)]
    <3>1. SelectLastInSeq(list, LAMBDA e : e.name = n) = Max(I)
      BY <2>1 DEF SelectLastInSeq
    <3>2. QED
      BY <3>1 DEF ByName
  <2>3. Max(I) \in I
    BY <1>1, <2>1, GreatestNumber
  <2>4. Max(I) \in DOMAIN list /\ list[Max(I)].name = n
    BY <1>1, <2>3
  <2> HIDE DEF I
  <2>5. QED
    BY <2>2, <2>4 DEF Range
<1>5. QED
  BY <1>2, <1>3, <1>4

\* A finite set as a list: each element once.
LEMMA SetToSeqIs ==
  ASSUME NEW S, IsFiniteSet(S)
  PROVE  /\ SetToSeq(S) \in [ 1 .. Cardinality(S) -> S ]
         /\ IsInjective(SetToSeq(S))
         /\ Range(SetToSeq(S)) = S
         /\ Cardinality(S) \in Nat
<1> DEFINE n == Cardinality(S)
           f == SetToSeq(S)
<1>1. n \in Nat /\ ExistsBijection(1 .. n, S)
  BY FS_CardinalityType
<1>2. \E g \in [ 1 .. n -> S ] : IsInjective(g)
  BY <1>1 DEF ExistsBijection, Bijection, Injection
<1>3. f \in [ 1 .. n -> S ] /\ IsInjective(f)
  BY <1>2 DEF SetToSeq
<1> HIDE DEF f
<1>4. f \in Injection(1 .. n, S)
  BY <1>3 DEF Injection
<1>5. Cardinality(1 .. n) = n
  BY <1>1, FS_Interval
<1>6. f \in Surjection(1 .. n, S)
  BY <1>4, <1>5, FS_Injection
<1>7. Range(f) = S
  BY <1>3, <1>6 DEF Surjection, Range
<1>8. QED
  BY <1>1, <1>3, <1>7 DEF f

LEMMA RangeFinite ==
  ASSUME NEW m, IsFiniteSet(DOMAIN m), m = [ n \in DOMAIN m |-> m[n] ]
  PROVE  IsFiniteSet(Range(m))
<1>1. m \in Surjection(DOMAIN m, Range(m))
  BY DEF Surjection, Range
<1>2. QED
  BY <1>1, FS_Surjection

\* A map of named entries that is made a list is read as the same map.
LEMMA ByNameAsList ==
  ASSUME NEW m, IsFiniteSet(DOMAIN m), m = [ n \in DOMAIN m |-> m[n] ],
         \A n \in DOMAIN m : m[n].name = n
  PROVE  /\ IsList(AsList(m)) /\ Range(AsList(m)) = Range(m)
         /\ ByName(AsList(m)) = m
<1> DEFINE list == AsList(m)
           c == Cardinality(Range(m))
<1>1. /\ list \in [ 1 .. c -> Range(m) ] /\ Range(list) = Range(m)
      /\ c \in Nat
  BY RangeFinite, SetToSeqIs DEF AsList
<1> HIDE DEF list
<1>2. IsList(list)
  <2>1. list \in Seq(Range(m))
    BY <1>1
  <2>2. QED
    BY <1>1, <2>1 DEF IsList
<1>3. /\ DOMAIN ByName(list) = { list[i].name : i \in DOMAIN list }
      /\ \A n \in DOMAIN ByName(list) :
           ByName(list)[n] \in Range(list) /\ ByName(list)[n].name = n
  BY <1>2, ByNameIs
<1>4. DOMAIN ByName(list) = DOMAIN m
  <2>1. ASSUME NEW n \in DOMAIN m PROVE n \in DOMAIN ByName(list)
    <3>1. m[n] \in Range(list)
      <4>1. m[n] \in Range(m)
        BY DEF Range
      <4>2. QED
        BY <1>1, <4>1
    <3>2. PICK i \in DOMAIN list : m[n] = list[i]
      BY <3>1 DEF Range
    <3>3. QED
      BY <1>3, <3>2
  <2>2. ASSUME NEW i \in DOMAIN list PROVE list[i].name \in DOMAIN m
    <3>1. PICK n \in DOMAIN m : list[i] = m[n]
      BY <1>1 DEF Range
    <3>2. QED
      BY <3>1
  <2>3. DOMAIN ByName(list) \subseteq DOMAIN m
    BY <1>3, <2>2
  <2>4. QED
    BY <2>1, <2>3
<1>5. ASSUME NEW n \in DOMAIN m PROVE ByName(list)[n] = m[n]
  <2>1. ByName(list)[n] \in Range(m) /\ ByName(list)[n].name = n
    BY <1>1, <1>3, <1>4
  <2>2. PICK k \in DOMAIN m : ByName(list)[n] = m[k]
    BY <2>1 DEF Range
  <2>3. QED
    BY <2>1, <2>2
<1>6. ByName(list) = [ n \in DOMAIN m |-> ByName(list)[n] ]
  <2>1. ByName(list) = [ n \in DOMAIN ByName(list) |-> ByName(list)[n] ]
    BY DEF ByName
  <2>2. QED
    BY <1>4, <2>1
<1>7. QED
  BY <1>1, <1>2, <1>5, <1>6 DEF list

-----------------------------------------------------------------------------
(* From documents to configurations and back                               *)

IsMap(m) ==
  /\ IsFiniteSet(DOMAIN m) /\ m = [ n \in DOMAIN m |-> m[n] ]
  /\ \A n \in DOMAIN m : m[n].name = n

IsParser(p) ==
  /\ p = [kind |-> p.kind, delimiter |-> p.delimiter, timeField |-> p.timeField,
          extractors |-> p.extractors]
  /\ p.kind \in {"JSON", "Regex"}
  /\ p.delimiter # "invalid"
  /\ p.kind = "Regex" => p.timeField # ""
  /\ IsList(p.extractors) /\ "invalid" \notin Range(p.extractors)

IsFileType(ft) ==
  /\ ft = [name |-> ft.name, timeLayout |-> ft.timeLayout, readInterval |-> ft.readInterval,
           parser |-> ft.parser]
  /\ ft.readInterval # "" /\ Parses(ft.readInterval)
  /\ IsParser(ft.parser)

\* The core plugins have one configuration between them, and with it there are plugins.
IsPlugins(plugins) ==
  \/ \A ps \in plugins :
       ps = [ p \in DOMAIN ps |-> ps[p] ] /\ DOMAIN ps \cap CorePlugins = {}
  \/ \E ps : /\ plugins = {ps} /\ ps = [ p \in DOMAIN ps |-> ps[p] ]
             /\ CorePlugins \subseteq DOMAIN ps
             /\ ps["sqlite_common"] = ps["sqlite_events"]

\* What FromJSON makes of a document, in as much as ToJSON depends on it.
IsConfig(c) ==
  /\ c = [force |-> c.force, hostType |-> c.hostType, forwarder |-> c.forwarder,
          recipient |-> c.recipient, web |-> c.web, files |-> c.files,
          fileTypes |-> c.fileTypes, hostTypes |-> c.hostTypes, tasks |-> c.tasks,
          plugins |-> c.plugins]
  /\ c.hostType # ""
  /\ c.forwarder = [ key \in DOMAIN DefaultForwarder |-> c.forwarder[key] ]
  /\ Parses(c.forwarder.configPollInterval)
  /\ c.recipient = [ key \in DOMAIN DefaultRecipient |-> c.recipient[key] ]
  /\ c.web = [ key \in DOMAIN DefaultWeb |-> c.web[key] ]
  /\ IsMap(c.files) /\ IsMap(c.fileTypes) /\ IsMap(c.hostTypes)
  /\ \A f \in DOMAIN c.files : IsList(c.files[f].fileTypes)
  /\ \A h \in DOMAIN c.hostTypes : IsList(c.hostTypes[h].files)
  /\ DEFAULT \in DOMAIN c.fileTypes
  /\ \A n \in DOMAIN c.fileTypes : IsFileType(c.fileTypes[n])
  /\ c.tasks = [ t \in DOMAIN c.tasks |-> c.tasks[t] ]
  /\ \A t \in DOMAIN c.tasks : Parses(c.tasks[t].interval)
  /\ IsPlugins(c.plugins)

LEMMA OrOne ==
  ASSUME NEW v, NEW default
  PROVE  Or({v}, default) = v
<1>1. (CHOOSE w \in {v} : TRUE) = v
  OBVIOUS
<1>2. QED
  BY <1>1 DEF Or

LEMMA OrIn ==
  ASSUME NEW S, S # {}, NEW default
  PROVE  Or(S, default) \in S
BY DEF Or

LEMMA DefaultFileTypeIs == IsFileType(DefaultFileType) /\ DefaultFileType.name = DEFAULT
<1>1. IsList(<< "keyvalue", "date" >>) /\ "invalid" \notin Range(<< "keyvalue", "date" >>)
  BY DEF IsList, Range
<1>2. IsParser(DefaultParser)
  BY <1>1 DEF IsParser, DefaultParser
<1>3. QED
  BY <1>2 DEF IsFileType, DefaultFileType, Parses

\* A file type that is not turned down is made one that can be written again.
LEMMA FileTypeIs ==
  ASSUME NEW ft, ~RejectedFileType(ft),
         \A p \in ft.parser : \A c \in p.config : IsList(c.extractors)
  PROVE  IsFileType(FileTypeFromJSON(ft)) /\ FileTypeFromJSON(ft).name = ft.name
<1> DEFINE r == FileTypeFromJSON(ft)
<1>1. IsParser(r.parser)
  <2>1. CASE ft.parser = {}
    <3>1. r.parser = DefaultParser
      BY <2>1 DEF FileTypeFromJSON
    <3>2. IsParser(DefaultParser)
      BY DefaultFileTypeIs DEF IsFileType, DefaultFileType
    <3>3. QED
      BY <3>1, <3>2
  <2>2. CASE ft.parser # {}
    <3> DEFINE p == Or(ft.parser, {})
               c == Or(p.config, {})
               chosen == Chosen(c.extractors, Range(c.extractors) \ {"invalid"})
    <3>1. r.parser = CompiledParser(p)
      BY <2>2 DEF FileTypeFromJSON
    <3>2. p \in ft.parser
      BY <2>2, OrIn
    <3> HIDE DEF p
    <3>3. p.kind \in {"JSON", "Regex"} /\ p.config # {}
      BY <3>2 DEF RejectedFileType
    <3>4. c \in p.config
      BY <3>3, OrIn
    <3> HIDE DEF c
    <3>5. IsList(c.extractors)
      BY <3>2, <3>4
    <3>6. IsList(chosen) /\ Range(chosen) = Range(c.extractors) \cap (Range(c.extractors) \ {"invalid"})
      BY <3>5, ChosenIs
    <3> HIDE DEF chosen
    <3>7. CompiledParser(p) =
            [kind |-> p.kind,
             delimiter |-> IF c.delimiter = "invalid" THEN "nil" ELSE c.delimiter,
             timeField |-> IF p.kind = "Regex" /\ c.timeField = "" THEN "_time"
                           ELSE c.timeField,
             extractors |-> chosen]
      BY DEF CompiledParser, c, chosen
    <3> DEFINE q == CompiledParser(p)
           d == IF c.delimiter = "invalid" THEN "nil" ELSE c.delimiter
           t == IF p.kind = "Regex" /\ c.timeField = "" THEN "_time" ELSE c.timeField
    <3>8. d # "invalid" /\ (p.kind = "Regex" => t # "")
      OBVIOUS
    <3>9. "invalid" \notin Range(chosen)
      BY <3>6
    <3>10. q = [kind |-> p.kind, delimiter |-> d, timeField |-> t, extractors |-> chosen]
      BY <3>7
    <3> HIDE DEF q, d, t
    <3>11. q.kind = p.kind /\ q.delimiter = d /\ q.timeField = t /\ q.extractors = chosen
      BY <3>10
    <3>12. IsParser(q)
      BY <3>3, <3>6, <3>8, <3>9, <3>10, <3>11 DEF IsParser
    <3>13. QED
      BY <3>1, <3>12 DEF q
  <2>3. QED
    BY <2>1, <2>2
<1>2. /\ r = [name |-> r.name, timeLayout |-> r.timeLayout, readInterval |-> r.readInterval,
              parser |-> r.parser]
      /\ r.name = ft.name
      /\ r.readInterval = IF ft.readInterval = "" THEN "1s" ELSE ft.readInterval
  BY DEF FileTypeFromJSON
<1>3. Parses(ft.readInterval)
  BY DEF RejectedFileType
<1> HIDE DEF r
<1>4. QED
  BY <1>1, <1>2, <1>3 DEF IsFileType, Parses, r

\* Such a file type is read as what was written.
LEMMA FileTypeAgain ==
  ASSUME NEW ft, IsFileType(ft)
  PROVE  /\ ~RejectedFileType(FileTypeToJSON(ft))
         /\ FileTypeToJSON(ft).name = ft.name
         /\ FileTypeFromJSON(FileTypeToJSON(ft)) = ft
<1> DEFINE p == ft.parser
           written == [delimiter |-> p.delimiter, timeField |-> p.timeField,
                       extractors |-> p.extractors]
           parser == [kind |-> p.kind, config |-> {written}]
           doc == FileTypeToJSON(ft)
<1>1. doc = [name |-> ft.name, timeLayout |-> ft.timeLayout,
             readInterval |-> ft.readInterval, parser |-> {parser}]
  <2>1. doc = [ft EXCEPT !.parser = {parser}]
    BY DEF FileTypeToJSON
  <2>2. PICK n, t, r : ft = [name |-> n, timeLayout |-> t, readInterval |-> r, parser |-> p]
    BY DEF IsFileType
  <2> HIDE DEF doc, parser, p
  <2>3. doc = [name |-> n, timeLayout |-> t, readInterval |-> r, parser |-> {parser}]
    BY <2>1, <2>2
  <2>4. ft.name = n /\ ft.timeLayout = t /\ ft.readInterval = r
    BY <2>2
  <2>5. QED
    BY <2>3, <2>4
<1>2. IsParser(p)
  BY DEF IsFileType
<1>3. ~RejectedFileType(doc)
  <2>1. /\ parser.kind \in {"JSON", "Regex"} /\ parser.config # {}
        /\ \A c \in parser.config : c.delimiter # "invalid"
    <3>1. /\ parser.kind = p.kind /\ parser.config = {written}
          /\ written.delimiter = p.delimiter
      OBVIOUS
    <3> HIDE DEF parser, written
    <3>2. QED
      BY <1>2, <3>1 DEF IsParser
  <2> HIDE DEF doc, parser
  <2>2. doc.parser = {parser} /\ Parses(doc.readInterval)
    BY <1>1 DEF IsFileType
  <2>3. QED
    BY <2>1, <2>2 DEF RejectedFileType
<1>4. CompiledParser(parser) = p
  <2>1. Or(parser.config, {}) = written
    BY OrOne
  <2>2. Chosen(p.extractors, Range(p.extractors) \ {"invalid"}) = p.extractors
    <3>1. IsList(p.extractors) /\ Range(p.extractors) \subseteq Range(p.extractors) \ {"invalid"}
      BY <1>2 DEF IsParser
    <3>2. QED
      BY <3>1, ChosenIs
  <2>3. CompiledParser(parser) =
          [kind |-> parser.kind,
           delimiter |-> IF written.delimiter = "invalid" THEN "nil" ELSE written.delimiter,
           timeField |-> IF parser.kind = "Regex" /\ written.timeField = "" THEN "_time"
                         ELSE written.timeField,
           extractors |-> Chosen(written.extractors, Range(written.extractors) \ {"invalid"})]
    BY <2>1 DEF CompiledParser
  <2>4. /\ parser.kind = p.kind /\ written.delimiter = p.delimiter
        /\ written.timeField = p.timeField /\ written.extractors = p.extractors
    OBVIOUS
  <2> HIDE DEF parser, written
  <2>5. CompiledParser(parser) =
          [kind |-> p.kind,
           delimiter |-> IF p.delimiter = "invalid" THEN "nil" ELSE p.delimiter,
           timeField |-> IF p.kind = "Regex" /\ p.timeField = "" THEN "_time" ELSE p.timeField,
           extractors |-> p.extractors]
    BY <2>2, <2>3, <2>4
  <2>6. QED
    BY <1>2, <2>5 DEF IsParser
<1>5. FileTypeFromJSON(doc) = ft
  <2>1. Or(doc.parser, {}) = parser /\ doc.parser # {}
    <3>1. doc.parser = {parser}
      BY <1>1
    <3> HIDE DEF doc, parser
    <3>2. QED
      BY <3>1, OrOne
  <2>2. /\ doc.name = ft.name /\ doc.timeLayout = ft.timeLayout
        /\ doc.readInterval = ft.readInterval
    BY <1>1
  <2> HIDE DEF doc, parser
  <2>3. FileTypeFromJSON(doc) =
          [name |-> ft.name, timeLayout |-> ft.timeLayout,
           readInterval |-> IF ft.readInterval = "" THEN "1s" ELSE ft.readInterval,
           parser |-> ft.parser]
    BY <1>4, <2>1, <2>2 DEF FileTypeFromJSON
  <2>4. QED
    BY <2>3 DEF IsFileType
<1>6. QED
  BY <1>1, <1>3, <1>5

LEMMA FileTypesAre ==
  ASSUME NEW list, IsList(list),
         \A i \in DOMAIN list : ~RejectedFileType(list[i]),
         \A ft \in Range(list) : \A p \in ft.parser : \A c \in p.config : IsList(c.extractors)
  PROVE  /\ IsMap(FileTypesFromJSON(list))
         /\ DEFAULT \in DOMAIN FileTypesFromJSON(list)
         /\ \A n \in DOMAIN FileTypesFromJSON(list) : IsFileType(FileTypesFromJSON(list)[n])
<1> DEFINE listed == ByName(list)
           D == DOMAIN listed \cup {DEFAULT}
           types == FileTypesFromJSON(list)
<1>1. IsFiniteSet(D)
  BY ByNameIs, FS_AddElement
<1>2. types = [ n \in D |-> IF n \in DOMAIN listed THEN FileTypeFromJSON(listed[n])
                            ELSE DefaultFileType ]
  BY DEF FileTypesFromJSON
<1>3. ASSUME NEW n \in D
      PROVE  IsFileType(types[n]) /\ types[n].name = n
  <2>1. CASE n \in DOMAIN listed
    <3>1. listed[n] \in Range(list) /\ listed[n].name = n
      BY <2>1, ByNameIs
    <3>2. PICK i \in DOMAIN list : listed[n] = list[i]
      BY <3>1 DEF Range
    <3>3. ~RejectedFileType(listed[n])
      BY <3>2
    <3>4. types[n] = FileTypeFromJSON(listed[n])
      BY <1>2, <2>1
    <3> HIDE DEF listed, types
    <3>5. QED
      BY <3>1, <3>3, <3>4, FileTypeIs
  <2>2. CASE n \notin DOMAIN listed
    <3>1. types[n] = DefaultFileType /\ n = DEFAULT
      BY <1>2, <2>2
    <3>2. QED
      BY <3>1, DefaultFileTypeIs
  <2>3. QED
    BY <2>1, <2>2
<1>4. DOMAIN types = D /\ types = [ n \in D |-> types[n] ]
  BY <1>2
<1> HIDE DEF types, D
<1>5. IsMap(types)
  BY <1>1, <1>3, <1>4 DEF IsMap
<1>6. QED
  BY <1>3, <1>4, <1>5 DEF D, types

LEMMA ByNameIsMap ==
  ASSUME NEW list, IsList(list)
  PROVE  /\ IsMap(ByName(list))
         /\ \A n \in DOMAIN ByName(list) : ByName(list)[n] \in Range(list)
<1>1. ByName(list) = [ n \in DOMAIN ByName(list) |-> ByName(list)[n] ]
  BY DEF ByName
<1>2. QED
  BY <1>1, ByNameIs DEF IsMap

LEMMA FilledIs ==
  ASSUME NEW section, NEW defaults
  PROVE  Filled(section, defaults) = [ key \in DOMAIN defaults |-> Filled(section, defaults)[key] ]
BY DEF Filled

LEMMA ForwarderIs ==
  ASSUME NEW doc
  PROVE  LET f == ForwarderFromJSON(doc)
         IN  /\ f = [ key \in DOMAIN DefaultForwarder |-> f[key] ]
             /\ Parses(f.configPollInterval)
<1> DEFINE g == Filled(Or(doc.forwarder, {}), DefaultForwarder)
           D == DOMAIN DefaultForwarder
           f == ForwarderFromJSON(doc)
<1>1. "configPollInterval" \in D /\ DefaultForwarder.configPollInterval = "1m"
      /\ DefaultForwarder = [ key \in D |-> DefaultForwarder[key] ]
  BY DEF DefaultForwarder
<1>2. g = [ key \in D |-> g[key] ]
  BY FilledIs
<1>3. f = IF doc.forwarder = {} THEN DefaultForwarder
          ELSE IF Parses(g.configPollInterval) THEN g
               ELSE [g EXCEPT !.configPollInterval = "1m"]
  BY DEF ForwarderFromJSON
<1> HIDE DEF g, D, f
<1>4. CASE doc.forwarder = {}
  BY <1>1, <1>3, <1>4 DEF Parses, f, D
<1>5. CASE doc.forwarder # {} /\ Parses(g.configPollInterval)
  BY <1>2, <1>3, <1>5 DEF f, D
<1>6. CASE doc.forwarder # {} /\ ~Parses(g.configPollInterval)
  <2>1. f = [g EXCEPT !.configPollInterval = "1m"]
    BY <1>3, <1>6
  <2>2. DOMAIN g = D
    BY <1>2
  <2>3. f = [ key \in D |-> f[key] ] /\ f["configPollInterval"] = "1m"
    BY <1>1, <2>1, <2>2
  <2>4. QED
    BY <2>3 DEF Parses, f, D
<1>7. QED
  BY <1>4, <1>5, <1>6

IsWeb(web) == web = [ key \in DOMAIN DefaultWeb |-> web[key] ]

LEMMA WebIs ==
  ASSUME NEW doc, NEW w, IsWeb(w)
  PROVE  IsWeb(DefaultWebAfter(doc, w)) /\ IsWeb(WebFromJSON(doc, w))
<1>1. IsWeb(DefaultWebAfter(doc, w))
  BY DEF DefaultWebAfter, IsWeb, DefaultWeb
<1>2. ASSUME NEW b PROVE DOMAIN [enabled |-> b] = DOMAIN DefaultWeb
  BY DEF DefaultWeb
<1>3. IsWeb(WebFromJSON(doc, w))
  <2>1. CASE doc.web = {}
    BY <1>1, <2>1 DEF WebFromJSON
  <2>2. CASE doc.web # {}
    <3> DEFINE d == [enabled |-> ~ForwarderFromJSON(doc).enabled]
               r == Filled(Or(doc.web, {}), d)
    <3>1. WebFromJSON(doc, w) = r
      BY <2>2 DEF WebFromJSON
    <3>2. DOMAIN d = DOMAIN DefaultWeb
      BY <1>2
    <3>3. r = [ key \in DOMAIN d |-> r[key] ]
      BY FilledIs
    <3> HIDE DEF r, d
    <3>4. QED
      BY <3>1, <3>2, <3>3 DEF IsWeb
  <2>3. QED
    BY <2>1, <2>2
<1>4. QED
  BY <1>1, <1>3

LEMMA RecipientIs ==
  ASSUME NEW doc
  PROVE  RecipientFromJSON(doc) = [ key \in DOMAIN DefaultRecipient |-> RecipientFromJSON(doc)[key] ]
<1>1. CASE doc.recipient = {}
  BY <1>1 DEF RecipientFromJSON, DefaultRecipient
<1>2. CASE doc.recipient # {}
  <2> DEFINE r == Filled(Or(doc.recipient, {}), DefaultRecipient)
  <2>1. r = [ key \in DOMAIN DefaultRecipient |-> r[key] ]
    BY FilledIs
  <2>2. RecipientFromJSON(doc) = r
    BY <1>2 DEF RecipientFromJSON
  <2> HIDE DEF r
  <2>3. QED
    BY <2>1, <2>2
<1>3. QED
  BY <1>1, <1>2

LEMMA TaskParses ==
  ASSUME NEW task, "interval" \in DOMAIN task
  PROVE  Parses(TaskFromJSON(task).interval)
<1> DEFINE stopped == [task EXCEPT !.enabled = FALSE, !.interval = "0s"]
<1>1. CASE Parses(task.interval)
  BY <1>1 DEF TaskFromJSON
<1>2. CASE ~Parses(task.interval)
  <2>1. TaskFromJSON(task) = stopped
    BY <1>2 DEF TaskFromJSON
  <2>2. stopped["interval"] = "0s"
    OBVIOUS
  <2> HIDE DEF stopped
  <2>3. QED
    BY <2>1, <2>2 DEF Parses
<1>3. QED
  BY <1>1, <1>2

LEMMA PluginsAre ==
  ASSUME NEW doc, ~(doc.plugins = {} /\ doc.sqlite # {}),
         \A ps \in doc.plugins : ps \in [DOMAIN ps \ CorePlugins -> Range(ps)]
  PROVE  IsPlugins(PluginsFromJSON(doc))
<1>1. CASE doc.sqlite = {}
  <2>1. ASSUME NEW ps \in doc.plugins
        PROVE  ps = [ p \in DOMAIN ps |-> ps[p] ] /\ DOMAIN ps \cap CorePlugins = {}
    OBVIOUS
  <2>2. PluginsFromJSON(doc) = doc.plugins
    BY <1>1 DEF PluginsFromJSON
  <2>3. QED
    BY <2>1, <2>2 DEF IsPlugins
<1>2. CASE doc.sqlite # {}
  <2> DEFINE ps == [ p \in DOMAIN Or(doc.plugins, << >>) \cup CorePlugins |->
                       IF p \in CorePlugins THEN Or(doc.sqlite, {})
                       ELSE Or(doc.plugins, << >>)[p] ]
  <2>1. PluginsFromJSON(doc) = {ps}
    BY <1>2 DEF PluginsFromJSON
  <2>2. "sqlite_common" \in CorePlugins /\ "sqlite_events" \in CorePlugins
    BY DEF CorePlugins
  <2>3. ps = [ p \in DOMAIN ps |-> ps[p] ] /\ CorePlugins \subseteq DOMAIN ps
    OBVIOUS
  <2>4. ps["sqlite_common"] = Or(doc.sqlite, {}) /\ ps["sqlite_events"] = Or(doc.sqlite, {})
    BY <2>2
  <2> HIDE DEF ps
  <2>5. QED
    BY <2>1, <2>3, <2>4 DEF IsPlugins
<1>3. QED
  BY <1>1, <1>2

\* A document that is accepted is made a configuration that can be written.
LEMMA ReadIsConfig ==
  ASSUME NEW doc, IsDocument(doc), ~Rejects(doc), ~PanicsReading(doc),
         NEW w, IsWeb(w)
  PROVE  IsConfig(FromJSON(doc, w))
<1> DEFINE c == FromJSON(doc, w)
<1>1. /\ c = [force |-> c.force, hostType |-> c.hostType, forwarder |-> c.forwarder,
              recipient |-> c.recipient, web |-> c.web, files |-> c.files,
              fileTypes |-> c.fileTypes, hostTypes |-> c.hostTypes, tasks |-> c.tasks,
              plugins |-> c.plugins]
      /\ c.hostType = IF doc.hostType = "" THEN DEFAULT ELSE doc.hostType
      /\ c.forwarder = ForwarderFromJSON(doc)
      /\ c.recipient = RecipientFromJSON(doc)
      /\ c.web = WebFromJSON(doc, w)
      /\ c.files = ByName(doc.files)
      /\ c.fileTypes = FileTypesFromJSON(doc.fileTypes)
      /\ c.hostTypes = ByName(doc.hostTypes)
      /\ c.tasks = [ t \in DOMAIN doc.tasks |-> TaskFromJSON(doc.tasks[t]) ]
      /\ c.plugins = PluginsFromJSON(doc)
  BY DEF FromJSON
<1> HIDE DEF c
<1>2. c.hostType # ""
  BY <1>1 DEF DEFAULT
<1>3. /\ c.forwarder = [ key \in DOMAIN DefaultForwarder |-> c.forwarder[key] ]
      /\ Parses(c.forwarder.configPollInterval)
  BY <1>1, ForwarderIs
<1>4. c.recipient = [ key \in DOMAIN DefaultRecipient |-> c.recipient[key] ]
  BY <1>1, RecipientIs, ZenonT(30)
<1>5. c.web = [ key \in DOMAIN DefaultWeb |-> c.web[key] ]
  <2>1. IsWeb(WebFromJSON(doc, w))
    BY WebIs
  <2>2. c.web = WebFromJSON(doc, w)
    BY <1>1
  <2>3. QED
    BY <2>1, <2>2 DEF IsWeb
<1>6. /\ IsMap(c.files) /\ \A f \in DOMAIN c.files : IsList(c.files[f].fileTypes)
      /\ IsMap(c.hostTypes) /\ \A h \in DOMAIN c.hostTypes : IsList(c.hostTypes[h].files)
  <2>1. IsList(doc.files) /\ IsList(doc.hostTypes)
    BY DEF IsDocument
  <2>2. /\ IsMap(c.files) /\ \A f \in DOMAIN c.files : c.files[f] \in Range(doc.files)
        /\ IsMap(c.hostTypes) /\ \A h \in DOMAIN c.hostTypes : c.hostTypes[h] \in Range(doc.hostTypes)
    BY <1>1, <2>1, ByNameIsMap
  <2>3. /\ \A f \in Range(doc.files) : IsList(f.fileTypes)
        /\ \A h \in Range(doc.hostTypes) : IsList(h.files)
    BY DEF IsDocument
  <2>4. QED
    BY <2>2, <2>3
<1>7. /\ IsMap(c.fileTypes) /\ DEFAULT \in DOMAIN c.fileTypes
      /\ \A n \in DOMAIN c.fileTypes : IsFileType(c.fileTypes[n])
  <2>1. /\ IsList(doc.fileTypes)
        /\ \A ft \in Range(doc.fileTypes) :
             \A p \in ft.parser : \A k \in p.config : IsList(k.extractors)
    BY DEF IsDocument
  <2>2. \A i \in DOMAIN doc.fileTypes : ~RejectedFileType(doc.fileTypes[i])
    BY DEF Rejects
  <2>3. QED
    BY <1>1, <2>1, <2>2, FileTypesAre
<1>8. /\ c.tasks = [ t \in DOMAIN c.tasks |-> c.tasks[t] ]
      /\ \A t \in DOMAIN c.tasks : Parses(c.tasks[t].interval)
  <2>1. \A t \in DOMAIN doc.tasks : "interval" \in DOMAIN doc.tasks[t]
    BY DEF IsDocument
  <2>2. \A t \in DOMAIN doc.tasks : Parses(TaskFromJSON(doc.tasks[t]).interval)
    BY <2>1, TaskParses
  <2>3. DOMAIN c.tasks = DOMAIN doc.tasks
        /\ \A t \in DOMAIN doc.tasks : c.tasks[t] = TaskFromJSON(doc.tasks[t])
    BY <1>1
  <2>4. QED
    BY <1>1, <2>2, <2>3
<1>9. IsPlugins(c.plugins)
  <2>1. ~(doc.plugins = {} /\ doc.sqlite # {})
    BY DEF PanicsReading
  <2>2. \A ps \in doc.plugins : ps \in [DOMAIN ps \ CorePlugins -> Range(ps)]
    BY DEF IsDocument
  <2>3. IsPlugins(PluginsFromJSON(doc))
    BY <2>1, <2>2, PluginsAre
  <2>4. QED
    BY <1>1, <2>3
<1>10. IsConfig(c)
  BY <1>1, <1>2, <1>3, <1>4, <1>5, <1>6, <1>7, <1>8, <1>9 DEF IsConfig
<1>11. QED
  BY <1>10 DEF c

LEMMA PresentAgain ==
  ASSUME NEW D, NEW section, section = [ key \in D |-> section[key] ],
         NEW defaults, DOMAIN defaults = D
  PROVE  /\ Present(section) # {}
         /\ Filled(Or(Present(section), {}), defaults) = section
<1> DEFINE s == [ key \in DOMAIN section |-> {section[key]} ]
<1>1. Or(Present(section), {}) = s
  BY OrOne DEF Present
<1>2. DOMAIN section = D
  OBVIOUS
<1>3. ASSUME NEW key \in D PROVE Or(s[key], defaults[key]) = section[key]
  BY <1>2, OrOne
<1> HIDE DEF s
<1>4. Filled(s, defaults) = [ key \in D |-> section[key] ]
  BY <1>3 DEF Filled
<1>5. Present(section) # {}
  BY DEF Present
<1>6. QED
  BY <1>1, <1>4, <1>5

LEMMA PluginsAgain ==
  ASSUME NEW c, IsPlugins(c.plugins),
         ToJSON(c).plugins = { Restrict(ps, DOMAIN ps \ CorePlugins) : ps \in c.plugins },
         ToJSON(c).sqlite = { Or(c.plugins, << >>)[p] :
                                p \in { q \in CorePlugins : \E ps \in c.plugins : q \in DOMAIN ps } }
  PROVE  /\ PluginsFromJSON(ToJSON(c)) = c.plugins
         /\ ~(ToJSON(c).plugins = {} /\ ToJSON(c).sqlite # {})
<1> DEFINE d == ToJSON(c)
           core == { q \in CorePlugins : \E ps \in c.plugins : q \in DOMAIN ps }
<1> HIDE DEF d
<1>1. ASSUME \A ps \in c.plugins :
               ps = [ p \in DOMAIN ps |-> ps[p] ] /\ DOMAIN ps \cap CorePlugins = {}
      PROVE  PluginsFromJSON(d) = c.plugins /\ d.sqlite = {}
  <2>1. core = {}
    BY <1>1
  <2>2. d.sqlite = {}
    BY <2>1 DEF d
  <2>3. \A ps \in c.plugins : Restrict(ps, DOMAIN ps \ CorePlugins) = ps
    <3>1. ASSUME NEW ps \in c.plugins
          PROVE  Restrict(ps, DOMAIN ps \ CorePlugins) = ps
      <4>1. DOMAIN ps \ CorePlugins = DOMAIN ps /\ ps = [ p \in DOMAIN ps |-> ps[p] ]
        BY <1>1
      <4>2. QED
        BY <4>1 DEF Restrict
    <3>2. QED
      BY <3>1
  <2>4. d.plugins = c.plugins
    <3>1. { Restrict(ps, DOMAIN ps \ CorePlugins) : ps \in c.plugins } = c.plugins
      <4>1. ASSUME NEW ps \in c.plugins
            PROVE  /\ Restrict(ps, DOMAIN ps \ CorePlugins) \in c.plugins
                   /\ \E qs \in c.plugins : ps = Restrict(qs, DOMAIN qs \ CorePlugins)
        BY <2>3
      <4>2. QED
        BY <4>1
    <3>2. QED
      BY <3>1 DEF d
  <2>5. QED
    BY <2>2, <2>4 DEF PluginsFromJSON
<1>2. ASSUME NEW ps, c.plugins = {ps}, ps = [ p \in DOMAIN ps |-> ps[p] ],
             CorePlugins \subseteq DOMAIN ps, ps["sqlite_common"] = ps["sqlite_events"]
      PROVE  PluginsFromJSON(d) = c.plugins /\ d.plugins # {}
  <2> DEFINE rest == Restrict(ps, DOMAIN ps \ CorePlugins)
             v == ps["sqlite_common"]
  <2>1. d.plugins = {rest}
    BY <1>2 DEF d
  <2>2. core = CorePlugins
    BY <1>2
  <2>3. Or(c.plugins, << >>) = ps
    BY <1>2, OrOne
  <2>4. \A p \in CorePlugins : ps[p] = v
    BY <1>2 DEF CorePlugins
  <2>5. d.sqlite = {v}
    <3>1. d.sqlite = { ps[p] : p \in CorePlugins }
      BY <2>2, <2>3 DEF d
    <3>2. "sqlite_common" \in CorePlugins
      BY DEF CorePlugins
    <3>3. QED
      BY <2>4, <3>1, <3>2
  <2>6. Or(d.plugins, << >>) = rest /\ Or(d.sqlite, {}) = v
    BY <2>1, <2>5, OrOne
  <2>7. PluginsFromJSON(d) =
          { [ p \in DOMAIN rest \cup CorePlugins |-> IF p \in CorePlugins THEN v ELSE rest[p] ] }
    BY <2>5, <2>6 DEF PluginsFromJSON
  <2>8. DOMAIN rest = DOMAIN ps \ CorePlugins /\ \A p \in DOMAIN rest : rest[p] = ps[p]
    BY DEF Restrict
  <2> HIDE DEF rest
  <2>9. [ p \in DOMAIN rest \cup CorePlugins |-> IF p \in CorePlugins THEN v ELSE rest[p] ] = ps
    <3>1. DOMAIN rest \cup CorePlugins = DOMAIN ps
      BY <1>2, <2>8
    <3>2. \A p \in DOMAIN ps : (IF p \in CorePlugins THEN v ELSE rest[p]) = ps[p]
      BY <2>4, <2>8
    <3> HIDE DEF v
    <3>3. QED
      BY <1>2, <3>1, <3>2
  <2>10. QED
    BY <1>2, <2>1, <2>7, <2>9
<1>3. QED
  BY <1>1, <1>2 DEF IsPlugins, d

\* The round trip: what FromJSON made of a document that follows the schema it
\* makes again of the document ToJSON writes, to the last default it has filled
\* in; and that document is neither rejected nor able to make FromJSON panic.
THEOREM ReadAgain ==
  ASSUME NEW c, IsConfig(c)
  PROVE  /\ ~Rejects(ToJSON(c)) /\ ~PanicsReading(ToJSON(c))
         /\ FromJSON(ToJSON(c), DefaultWeb) = c
<1> DEFINE d == ToJSON(c)
           types == [ n \in DOMAIN c.fileTypes |-> FileTypeToJSON(c.fileTypes[n]) ]
<1>1. /\ d.force = c.force /\ d.hostType = c.hostType
      /\ d.forwarder = Present(c.forwarder)
      /\ d.recipient = Present(c.recipient)
      /\ d.web = Present(c.web)
      /\ d.files = AsList(c.files)
      /\ d.fileTypes = AsList(types)
      /\ d.hostTypes = AsList(c.hostTypes)
      /\ d.tasks = c.tasks
      /\ d.plugins = { Restrict(ps, DOMAIN ps \ CorePlugins) : ps \in c.plugins }
      /\ d.sqlite = { Or(c.plugins, << >>)[p] :
                        p \in { q \in CorePlugins : \E ps \in c.plugins : q \in DOMAIN ps } }
  BY DEF ToJSON
<1>2. ByName(d.files) = c.files /\ ByName(d.hostTypes) = c.hostTypes
  <2>1. IsMap(c.files) /\ IsMap(c.hostTypes)
    BY DEF IsConfig
  <2>2. ByName(AsList(c.files)) = c.files /\ ByName(AsList(c.hostTypes)) = c.hostTypes
    BY <2>1, ByNameAsList DEF IsMap
  <2>3. QED
    BY <1>1, <2>2
<1>3. \A n \in DOMAIN c.fileTypes :
        /\ c.fileTypes[n].name = n
        /\ ~RejectedFileType(FileTypeToJSON(c.fileTypes[n]))
        /\ FileTypeToJSON(c.fileTypes[n]).name = n
        /\ FileTypeFromJSON(FileTypeToJSON(c.fileTypes[n])) = c.fileTypes[n]
  <2>1. \A n \in DOMAIN c.fileTypes : IsFileType(c.fileTypes[n]) /\ c.fileTypes[n].name = n
    BY DEF IsConfig, IsMap
  <2>2. QED
    BY <2>1, FileTypeAgain
<1>4. /\ ByName(d.fileTypes) = types
      /\ Range(d.fileTypes) = Range(types)
  <2>1. /\ DOMAIN types = DOMAIN c.fileTypes
        /\ types = [ n \in DOMAIN types |-> types[n] ]
        /\ \A n \in DOMAIN types : types[n].name = n
    BY <1>3
  <2>2. IsFiniteSet(DOMAIN types)
    BY <2>1 DEF IsConfig, IsMap
  <2> HIDE DEF types
  <2>3. ByName(AsList(types)) = types /\ Range(AsList(types)) = Range(types)
    BY <2>1, <2>2, ByNameAsList
  <2>4. d.fileTypes = AsList(types)
    BY <1>1
  <2> HIDE DEF d
  <2>5. QED
    BY <2>3, <2>4
<1>5. ~Rejects(d)
  <2>1. ASSUME NEW i \in DOMAIN d.fileTypes PROVE ~RejectedFileType(d.fileTypes[i])
    <3>1. d.fileTypes[i] \in Range(d.fileTypes)
      BY DEF Range
    <3>2. d.fileTypes[i] \in Range(types)
      BY <1>4, <3>1
    <3>3. PICK n \in DOMAIN c.fileTypes : d.fileTypes[i] = FileTypeToJSON(c.fileTypes[n])
      BY <3>2 DEF Range
    <3>4. QED
      BY <1>3, <3>3
  <2>2. QED
    BY <2>1 DEF Rejects
<1>6. PluginsFromJSON(d) = c.plugins /\ ~(d.plugins = {} /\ d.sqlite # {})
  <2>1. IsPlugins(c.plugins)
    BY DEF IsConfig
  <2>2. QED
    BY <1>1, <2>1, PluginsAgain
<1>7. FileTypesFromJSON(d.fileTypes) = c.fileTypes
  <2>1. DEFAULT \in DOMAIN c.fileTypes /\ c.fileTypes = [ n \in DOMAIN c.fileTypes |-> c.fileTypes[n] ]
    BY DEF IsConfig, IsMap
  <2>2. /\ DOMAIN types = DOMAIN c.fileTypes
        /\ \A n \in DOMAIN c.fileTypes : FileTypeFromJSON(types[n]) = c.fileTypes[n]
    BY <1>3
  <2> HIDE DEF types
  <2>3. FileTypesFromJSON(d.fileTypes) =
          [ n \in DOMAIN types \cup {DEFAULT} |->
              IF n \in DOMAIN types THEN FileTypeFromJSON(types[n]) ELSE DefaultFileType ]
    BY <1>4 DEF FileTypesFromJSON
  <2>4. DOMAIN types \cup {DEFAULT} = DOMAIN c.fileTypes
    BY <2>1, <2>2
  <2>5. FileTypesFromJSON(d.fileTypes) = [ n \in DOMAIN c.fileTypes |-> c.fileTypes[n] ]
    BY <2>2, <2>3, <2>4
  <2>6. QED
    BY <2>1, <2>5
<1>8. ForwarderFromJSON(d) = c.forwarder
  <2>1. /\ c.forwarder = [ key \in DOMAIN DefaultForwarder |-> c.forwarder[key] ]
        /\ Parses(c.forwarder.configPollInterval)
    BY DEF IsConfig
  <2>2. /\ Present(c.forwarder) # {}
        /\ Filled(Or(Present(c.forwarder), {}), DefaultForwarder) = c.forwarder
    BY <2>1, PresentAgain
  <2>3. d.forwarder = Present(c.forwarder)
    BY <1>1
  <2> HIDE DEF d
  <2>4. QED
    BY <2>1, <2>2, <2>3 DEF ForwarderFromJSON
<1>9. RecipientFromJSON(d) = c.recipient
  <2>1. c.recipient = [ key \in DOMAIN DefaultRecipient |-> c.recipient[key] ]
    BY DEF IsConfig
  <2>2. /\ Present(c.recipient) # {}
        /\ Filled(Or(Present(c.recipient), {}), DefaultRecipient) = c.recipient
    BY <2>1, PresentAgain
  <2>3. d.recipient = Present(c.recipient)
    BY <1>1
  <2> HIDE DEF d
  <2>4. QED
    BY <2>2, <2>3 DEF RecipientFromJSON
<1>10. WebFromJSON(d, DefaultWeb) = c.web
  <2> DEFINE e == ~ForwarderFromJSON(d).enabled
             defaults == [enabled |-> e]
  <2>1. c.web = [ key \in DOMAIN DefaultWeb |-> c.web[key] ]
    BY DEF IsConfig
  <2>2. DOMAIN defaults = DOMAIN DefaultWeb
    BY DEF DefaultWeb
  <2>3. d.web = Present(c.web)
    BY <1>1
  <2>4. d.web # {} => WebFromJSON(d, DefaultWeb) = Filled(Or(d.web, {}), defaults)
    BY DEF WebFromJSON
  <2> HIDE DEF d, defaults
  <2>5. /\ Present(c.web) # {}
        /\ Filled(Or(Present(c.web), {}), defaults) = c.web
    BY <2>1, <2>2, PresentAgain
  <2>6. QED
    BY <2>3, <2>4, <2>5
<1>11. [ t \in DOMAIN d.tasks |-> TaskFromJSON(d.tasks[t]) ] = c.tasks
  <2>1. /\ c.tasks = [ t \in DOMAIN c.tasks |-> c.tasks[t] ]
        /\ \A t \in DOMAIN c.tasks : TaskFromJSON(c.tasks[t]) = c.tasks[t]
    BY DEF IsConfig, TaskFromJSON
  <2>2. d.tasks = c.tasks
    BY <1>1
  <2> HIDE DEF d
  <2>3. [ t \in DOMAIN c.tasks |-> TaskFromJSON(c.tasks[t]) ] = [ t \in DOMAIN c.tasks |-> c.tasks[t] ]
    BY <2>1
  <2>4. QED
    BY <2>1, <2>2, <2>3
<1>12. FromJSON(d, DefaultWeb) = c
  <2>1. c.hostType # ""
    BY DEF IsConfig
  <2> HIDE DEF d, types
  <2>2. (IF d.hostType = "" THEN DEFAULT ELSE d.hostType) = c.hostType
    BY <1>1, <2>1
  <2>3. d.force = c.force
    BY <1>1
  <2>4. FromJSON(d, DefaultWeb) =
          [force |-> c.force, hostType |-> c.hostType, forwarder |-> c.forwarder,
           recipient |-> c.recipient, web |-> c.web, files |-> c.files,
           fileTypes |-> c.fileTypes, hostTypes |-> c.hostTypes, tasks |-> c.tasks,
           plugins |-> c.plugins]
    BY <1>2, <1>6, <1>7, <1>8, <1>9, <1>10, <1>11, <2>2, <2>3 DEF FromJSON
  <2>5. QED
    BY <2>4 DEF IsConfig
<1>13. QED
  BY <1>5, <1>6, <1>12 DEF PanicsReading

-----------------------------------------------------------------------------
(* The inductive invariant                                                 *)

Orders ==
  {<< >>, << "tasks" >>, << "reader" >>, << "tasks", "reader" >>, << "reader", "tasks" >>}

\* Who is where.
Places ==
  /\ mode \in {"static", "local", "forwarder"}
  /\ row.number \in 0 .. MaxRows /\ IsList(accepted) /\ Len(accepted) = row.number
  /\ static.number = 0 /\ cached.number \in 0 .. row.number
  /\ IsWeb(defaultWeb) /\ defaultWeb.enabled \in BOOLEAN
  /\ DOMAIN reader = {"at", "applied", "todo", "target"}
  /\ reader.at \in {"off", "boot", "get", "old", "send", "subscribe", "wait"}
  /\ reader.applied \in 0 .. row.number
  /\ DOMAIN tasks = {"at", "initial"}
  /\ tasks.at \in {"off", "boot", "wait", "get"} /\ tasks.initial \in 0 .. row.number
  /\ crash \in {"no", "config", "race", "get"}
  /\ restarts \in 0 .. MaxRestarts /\ faults \in 0 .. MaxFaults

\* Each subscriber has one channel at most, and one that waits has it unless it was lost.
Channels ==
  /\ subs \in Orders
  /\ reader.at = "off" <=> tasks.at = "off"
  /\ tasks.at \in {"off", "boot"} => ~Contains(subs, "tasks")
  /\ reader.at \in {"off", "boot", "subscribe"} => ~Contains(subs, "reader")
  /\ reader.at = "get" => Contains(subs, "reader")

\* A broadcast has the channels there were when it began.
Casting ==
  /\ casts \subseteq [number : 1 .. row.number, at : 0 .. 2, last : 0 .. 2]
  /\ \A c \in casts : c.at <= c.last /\ c.last <= Len(subs)

IsVersion(v) ==
  /\ v.number \in 0 .. Len(accepted)
  /\ v.cfg = Config(v.number) /\ v.files = Indexed(v.cfg)

\* Every configuration that is read is the static one or one that was accepted.
Sources ==
  /\ \A n \in 1 .. Len(accepted) : IsConfig(accepted[n])
  /\ IsVersion(row) /\ IsVersion(cached)
  /\ mode = "static" \/ reader.at = "off" => static = Version(0, StaticConfig)
  /\ mode = "local" /\ (restarts > 0 \/ reader.at # "off") => row.number > 0
  /\ SavedIsRead /\ SettingsReachRepository

IsGlob(g) ==
  /\ DOMAIN g = {"file", "config", "since", "at", "cancelled", "fw"}
  /\ g.at \in {"start", "watching", "gone"}
  /\ g.cancelled \in BOOLEAN
  /\ g.fw \in {"none", "select", "ended"}
  /\ g.fw = "ended" => g.cancelled
  /\ g.since \in 0 .. Len(accepted)
  /\ g.file \in DOMAIN Indexed(Config(g.since))
  /\ g.config = Indexed(Config(g.since))[g.file]

Globs == IsList(globs) /\ \A i \in DOMAIN globs : IsGlob(globs[i])

\* The map of watchers and the watchers that are not cancelled are one to one.
Matched ==
  /\ watchers = [ f \in DOMAIN watchers |-> watchers[f] ]
  /\ \A f \in DOMAIN watchers :
       /\ watchers[f] \in DOMAIN globs
       /\ globs[watchers[f]].file = f /\ ~globs[watchers[f]].cancelled
  /\ \A i \in DOMAIN globs :
       ~globs[i].cancelled =>
         globs[i].file \in DOMAIN watchers /\ watchers[globs[i].file] = i

\* While the coordinator goes over the watchers, those it has been to are still wanted.
Going ==
  /\ reader.at \in {"off", "boot"} => DOMAIN watchers = {}
  /\ reader.at \notin {"off", "boot"} => files = Indexed(Config(reader.applied))
  /\ reader.at \in {"old", "send"} =>
       /\ reader.todo \subseteq DOMAIN watchers
       /\ DOMAIN watchers \ reader.todo \subseteq DOMAIN files
  /\ reader.at \in {"subscribe", "wait", "get"} => DOMAIN watchers = DOMAIN files
  /\ reader.target \in 0 .. Len(globs)
  /\ reader.at = "send" => reader.target > 0 /\ ~globs[reader.target].cancelled

LEMMA PostsAre ==
  /\ MaxRows \in Nat /\ MaxRows > 0
  /\ \A m \in {"static", "local", "forwarder"} :
       /\ DOMAIN Posts[m] \subseteq 1 .. (MaxRows - 1)
       /\ \A n \in DOMAIN Posts[m] : \A doc \in Posts[m][n] : IsDocument(doc)
<1>1. /\ DOMAIN Posts = {"static", "local", "forwarder"}
      /\ \A m \in DOMAIN Posts :
           /\ Posts[m] \in Seq(Range(Posts[m])) /\ Len(Posts[m]) <= Len(Posts["local"])
           /\ \A n \in DOMAIN Posts[m] : \A doc \in Posts[m][n] : IsDocument(doc)
  BY ConfigChangesAssumption DEF IsList
<1>2. \A m \in DOMAIN Posts : Len(Posts[m]) \in Nat /\ DOMAIN Posts[m] = 1 .. Len(Posts[m])
  BY <1>1
<1>3. Len(Posts["local"]) \in Nat
  BY <1>1, <1>2
<1>4. ASSUME NEW m \in DOMAIN Posts PROVE DOMAIN Posts[m] \subseteq 1 .. (MaxRows - 1)
  BY <1>1, <1>2, <1>3 DEF MaxRows
<1>5. QED
  BY <1>1, <1>3, <1>4 DEF MaxRows

LEMMA FunctionIsList ==
  ASSUME NEW n \in Nat, NEW f, f = [ i \in 1 .. n |-> f[i] ]
  PROVE  IsList(f) /\ Len(f) = n /\ DOMAIN f = 1 .. n
<1>1. \A i \in 1 .. n : f[i] \in Range(f)
  BY DEF Range
<1>2. f \in [ 1 .. n -> Range(f) ]
  BY <1>1
<1>3. QED
  BY <1>2 DEF IsList

LEMMA OneMore ==
  ASSUME NEW list, IsList(list), NEW e
  PROVE  LET more == Append(list, e)
         IN  /\ IsList(more) /\ Len(list) \in Nat /\ Len(more) = Len(list) + 1
             /\ \A i \in 1 .. Len(list) : more[i] = list[i]
             /\ more[Len(list) + 1] = e
<1> DEFINE S == Range(list) \cup {e}
           more == Append(list, e)
           n == Len(list)
<1>1. list \in Seq(S) /\ n \in Nat /\ DOMAIN list = 1 .. n
  BY DEF IsList, Range
<1>2. e \in S
  OBVIOUS
<1> HIDE DEF S, n
<1>3. /\ more \in Seq(S) /\ Len(more) = Len(list) + 1
      /\ \A i \in 1 .. Len(list) : more[i] = list[i]
      /\ more[Len(list) + 1] = e
  BY <1>1, <1>2 DEF n
<1> HIDE DEF more
<1>4. IsList(more)
  <2>1. DOMAIN more = 1 .. Len(more) /\ Len(more) \in Nat /\ \A i \in DOMAIN more : more[i] \in Range(more)
    BY <1>3 DEF Range
  <2>2. more = [ i \in 1 .. Len(more) |-> more[i] ]
    BY <1>3, <2>1
  <2>3. QED
    BY <2>1, <2>2 DEF IsList
<1>5. QED
  BY <1>1, <1>3, <1>4 DEF more, n

LEMMA TwoOf ==
  ASSUME NEW a \in {"reader", "tasks"}, NEW b \in {"reader", "tasks"}
  PROVE  Append(<< a >>, b) = << a, b >>
<1> DEFINE S == {"reader", "tasks"}
<1> HIDE DEF S
<1>1. a \in S /\ b \in S
  BY DEF S
<1>2. << a >> \in Seq(S) /\ << a, b >> \in Seq(S) /\ Len(<< a >>) = 1 /\ Len(<< a, b >>) = 2
  BY <1>1
<1>3. Append(<< a >>, b) \in Seq(S) /\ Len(Append(<< a >>, b)) = 2
  BY <1>1, <1>2
<1>4. Append(<< a >>, b)[1] = a /\ Append(<< a >>, b)[2] = b
  BY <1>1, <1>2
<1> DEFINE f == Append(<< a >>, b)
           g == << a, b >>
<1>5. g \in Seq(S) /\ Len(g) = 2 /\ g[1] = a /\ g[2] = b
  BY <1>2
<1>6. f \in Seq(S) /\ Len(f) = 2 /\ f[1] = a /\ f[2] = b
  BY <1>3, <1>4
<1> HIDE DEF f, g
<1>7. DOMAIN f = 1 .. 2 /\ DOMAIN g = 1 .. 2 /\ \A i \in 1 .. 2 : i = 1 \/ i = 2
  BY <1>5, <1>6
<1>8. f = [ i \in 1 .. 2 |-> f[i] ] /\ g = [ i \in 1 .. 2 |-> g[i] ]
  BY <1>5, <1>6
<1>9. f = g
  BY <1>5, <1>6, <1>7, <1>8
<1>10. QED
  BY <1>9 DEF f, g

LEMMA Subscribed ==
  ASSUME NEW list \in Orders, NEW who \in {"reader", "tasks"}, ~Contains(list, who)
  PROVE  /\ Append(list, who) \in Orders
         /\ Len(list) \in 0 .. 1 /\ Len(Append(list, who)) = Len(list) + 1
         /\ Contains(Append(list, who), who)
         /\ \A other \in {"reader", "tasks"} \ {who} :
              Contains(Append(list, who), other) <=> Contains(list, other)
<1>1. /\ Contains(<< "tasks" >>, "tasks") /\ Contains(<< "reader" >>, "reader")
      /\ ~Contains(<< "tasks" >>, "reader") /\ ~Contains(<< "reader" >>, "tasks")
      /\ ~Contains(<< >>, "reader") /\ ~Contains(<< >>, "tasks")
  BY DEF Contains
<1>2. /\ Contains(<< "tasks", "reader" >>, "tasks") /\ Contains(<< "tasks", "reader" >>, "reader")
      /\ Contains(<< "reader", "tasks" >>, "tasks") /\ Contains(<< "reader", "tasks" >>, "reader")
  BY DEF Contains
<1>3. CASE list = << >>
  <2>1. Append(list, who) = << who >>
    BY <1>3
  <2>2. Len(list) = 0 /\ Len(<< who >>) = 1 /\ << who >> \in Orders
    BY <1>3 DEF Orders
  <2>3. QED
    BY <1>1, <1>3, <2>1, <2>2
<1>4. CASE list = << "tasks" >>
  <2>1. who = "reader"
    BY <1>1, <1>4
  <2>2. Append(list, who) = << "tasks", "reader" >>
    BY <1>4, <2>1, TwoOf
  <2>3. Len(list) = 1 /\ Len(<< "tasks", "reader" >>) = 2 /\ << "tasks", "reader" >> \in Orders
    BY <1>4 DEF Orders
  <2>4. /\ Append(list, who) \in Orders /\ Len(list) \in 0 .. 1
        /\ Len(Append(list, who)) = Len(list) + 1
    BY <2>2, <2>3
  <2>5. Contains(Append(list, who), "tasks") /\ Contains(Append(list, who), "reader")
        /\ Contains(list, "tasks")
    BY <1>1, <1>2, <1>4, <2>2
  <2>6. QED
    BY <2>1, <2>4, <2>5
<1>5. CASE list = << "reader" >>
  <2>1. who = "tasks"
    BY <1>1, <1>5
  <2>2. Append(list, who) = << "reader", "tasks" >>
    BY <1>5, <2>1, TwoOf
  <2>3. Len(list) = 1 /\ Len(<< "reader", "tasks" >>) = 2 /\ << "reader", "tasks" >> \in Orders
    BY <1>5 DEF Orders
  <2>4. /\ Append(list, who) \in Orders /\ Len(list) \in 0 .. 1
        /\ Len(Append(list, who)) = Len(list) + 1
    BY <2>2, <2>3
  <2>5. Contains(Append(list, who), "tasks") /\ Contains(Append(list, who), "reader")
        /\ Contains(list, "reader")
    BY <1>1, <1>2, <1>5, <2>2
  <2>6. QED
    BY <2>1, <2>4, <2>5
<1>6. QED
  BY <1>2, <1>3, <1>4, <1>5 DEF Orders

LEMMA RowIs ==
  ASSUME NEW n, NEW c
  PROVE  LET read == FromJSON(ToJSON(c), DefaultWeb)
             cfg == IF mode = "forwarder" THEN FromJSON(ToJSON(read), DefaultWeb) ELSE read
         IN  /\ Row(n, c).doc = ToJSON(c)
             /\ Row(n, c).number = n
             /\ Row(n, c).cfg = cfg
             /\ Row(n, c).files = Indexed(cfg)
BY DEF Row, Stored

\* What Upsert does to the table and to the history.
LEMMA Upserted ==
  ASSUME Places, NEW c, Upsert(c)
  PROVE  /\ row'.number = row.number + 1
         /\ IsList(accepted') /\ Len(accepted') = row.number + 1
         /\ \A n \in 1 .. row.number : accepted'[n] = accepted[n]
         /\ accepted'[row.number + 1] = c
<1>1. row'.number = row.number + 1
  BY RowIs DEF Upsert
<1>2. IsList(accepted) /\ accepted' = Append(accepted, c) /\ Len(accepted) = row.number
  BY DEF Upsert, Places
<1>3. QED
  BY <1>1, <1>2, OneMore

LEMMA DefaultWebIs ==
  ASSUME NEW doc, NEW w, IsWeb(w), w.enabled \in BOOLEAN
  PROVE  IsWeb(DefaultWebAfter(doc, w)) /\ DefaultWebAfter(doc, w).enabled \in BOOLEAN
BY DEF DefaultWebAfter, IsWeb, DefaultWeb

LEMMA DefaultWebFirst == IsWeb(DefaultWeb) /\ DefaultWeb.enabled \in BOOLEAN
BY DEF IsWeb, DefaultWeb

LEMMA PlacesInit == Init => Places /\ Channels /\ Casting
<1> SUFFICES ASSUME Init PROVE Places /\ Channels /\ Casting
  OBVIOUS
<1>1. row.number \in 0 .. MaxRows /\ IsList(accepted) /\ Len(accepted) = row.number
  <2>1. CASE mode = "forwarder"
    <3>1. row.number = 1 /\ accepted = << StaticConfig >>
      BY <2>1, RowIs DEF Init
    <3> DEFINE s == StaticConfig
    <3> HIDE DEF s
    <3>2. IsList(<< s >>) /\ Len(<< s >>) = 1
      BY DEF IsList, Range
    <3>3. QED
      BY <3>1, <3>2, PostsAre DEF s
  <2>2. CASE mode # "forwarder"
    <3>1. row.number = 0 /\ accepted = << >>
      BY <2>2 DEF Init, Stored
    <3>2. IsList(<< >>) /\ Len(<< >>) = 0
      BY DEF IsList, Range
    <3>3. QED
      BY <3>1, <3>2, PostsAre
  <2>3. QED
    BY <2>1, <2>2
<1>2. IsWeb(defaultWeb) /\ defaultWeb.enabled \in BOOLEAN
  BY DefaultWebFirst, DefaultWebIs DEF Init
<1>3. static.number = 0 /\ cached.number = 0
  BY DEF Init, Version
<1>4. MaxRestarts \in Nat /\ MaxFaults \in Nat
  BY ConfigChangesAssumption
<1>5. Places
  BY <1>1, <1>2, <1>3, <1>4 DEF Init, Places, Idle
<1>6. subs \in Orders /\ ~Contains(subs, "tasks") /\ ~Contains(subs, "reader")
  BY DEF Init, Orders, Contains
<1>7. Channels
  BY <1>6 DEF Init, Channels, Idle
<1>8. Casting
  BY DEF Init, Casting
<1>9. QED
  BY <1>5, <1>7, <1>8

\* What Post is about, if it changes anything.
LEMMA PostIs ==
  ASSUME Places, NEW doc \in Offered, Post(doc)
  PROVE  /\ IsDocument(doc) /\ ~Rejects(doc) /\ row.number + 1 \in 1 .. MaxRows
         /\ defaultWeb' = DefaultWebAfter(doc, defaultWeb)
         /\ \/ UNCHANGED << row, accepted, casts >>
            \/ /\ ~PanicsReading(doc)
               /\ ~PanicsWriting(FromJSON(doc, defaultWeb))
               /\ Upsert(FromJSON(doc, defaultWeb))
               /\ IF mode = "local" THEN Broadcast(row.number + 1) ELSE UNCHANGED casts
         /\ UNCHANGED << start, subs, follower, tasks, fate >>
<1> DEFINE n == IF mode = "static" THEN row.number + 1 ELSE row.number
<1>1. /\ mode \in {"static", "local", "forwarder"} /\ row.number \in Nat
      /\ MaxRows \in Nat
  BY PostsAre DEF Places
<1>2. n \in DOMAIN Posts[mode] /\ doc \in Posts[mode][n]
  BY DEF Offered
<1>3. n \in 1 .. (MaxRows - 1)
  BY <1>1, <1>2, PostsAre
<1>4. row.number + 1 \in 1 .. MaxRows
  BY <1>1, <1>3
<1>5. IsDocument(doc)
  BY <1>1, <1>2, PostsAre
<1>6. QED
  BY <1>4, <1>5 DEF Post

\* What a Build does, whichever it is.
LEMMA BuildIs ==
  ASSUME Places, BuildAny
  PROVE  /\ reader.at = "off" /\ crash = "no"
         /\ DOMAIN reader' = DOMAIN reader /\ reader'.at = "boot" /\ reader'.applied = 0
         /\ reader'.todo = {} /\ reader'.target = 0
         /\ DOMAIN tasks' = DOMAIN tasks /\ tasks'.at = "boot"
         /\ tasks'.initial \in 0 .. row'.number
         /\ settings' = { ps["sqlite_events"] :
              ps \in { q \in static'.cfg.plugins : "sqlite_events" \in DOMAIN q } }
         /\ UNCHANGED << mode, defaultWeb, restarts, subs, casts, files, watchers, globs, missed >>
         /\ crash' = crash /\ faults' \in 0 .. MaxFaults
         /\ static'.number = static.number
         /\ \/ /\ mode = "local" /\ row.number = 0 /\ Upsert(static.cfg)
               /\ row'.number = 1 /\ UNCHANGED cached
            \/ /\ UNCHANGED << row, accepted, static >>
               /\ mode = "local" => row.number > 0
               /\ UNCHANGED cached \/ (mode = "forwarder" /\ cached' = row)
<1>1. /\ faults \in 0 .. MaxFaults /\ MaxFaults \in Nat /\ row.number \in Nat
      /\ cached.number \in 0 .. row.number
      /\ DOMAIN reader = {"at", "applied", "todo", "target"}
      /\ DOMAIN tasks = {"at", "initial"}
  BY ConfigChangesAssumption, PostsAre DEF Places
<1>2. ASSUME NEW n, Build(n)
      PROVE  /\ DOMAIN reader' = DOMAIN reader /\ reader'.at = "boot" /\ reader'.applied = 0
             /\ reader'.todo = {} /\ reader'.target = 0
             /\ DOMAIN tasks' = DOMAIN tasks /\ tasks'.at = "boot" /\ tasks'.initial = n
  <2>1. reader' = [Idle EXCEPT !.at = "boot"] /\ tasks' = [at |-> "boot", initial |-> n]
    BY <1>2 DEF Build
  <2>2. DOMAIN Idle = {"at", "applied", "todo", "target"}
        /\ Idle.applied = 0 /\ Idle.todo = {} /\ Idle.target = 0
    BY DEF Idle
  <2>3. DOMAIN tasks' = {"at", "initial"} /\ tasks'.at = "boot" /\ tasks'.initial = n
    BY <2>1
  <2>4. QED
    BY <1>1, <2>1, <2>2, <2>3
<1>3. CASE BuildAndSaveFirst
  <2>1. row'.number = 1
    BY <1>1, <1>3, Upserted DEF BuildAndSaveFirst
  <2>2. static'.number = static.number
    <3>1. static' = [static EXCEPT !.cfg = AfterToJSON(@)]
      BY <1>3 DEF BuildAndSaveFirst
    <3>2. QED
      BY <3>1
  <2>3. Build(1) /\ mode = "local" /\ row.number = 0 /\ Upsert(static.cfg) /\ UNCHANGED cached
        /\ Works
    BY <1>3 DEF BuildAndSaveFirst
  <2>5. QED
    BY <1>1, <1>2, <2>1, <2>2, <2>3 DEF Build, Works, fate
<1>4. CASE BuildOnStatic
  <2>1. Build(0)
    BY <1>4 DEF BuildOnStatic
  <2>2. QED
    BY <1>1, <1>4, <1>2, <2>1 DEF BuildOnStatic, Build, Works, fate
<1>5. CASE BuildOnTable
  <2>1. Build(row.number)
    BY <1>5 DEF BuildOnTable
  <2>2. QED
    BY <1>1, <1>5, <1>2, <2>1 DEF BuildOnTable, Build, Works, fate
<1>6. CASE BuildOnRemote
  <2>1. Build(cached'.number)
    BY <1>6 DEF BuildOnRemote
  <2>2. cached'.number \in 0 .. row'.number
    BY <1>1, <1>6 DEF BuildOnRemote
  <2>3. faults' \in 0 .. MaxFaults /\ crash' = crash
    BY <1>1, <1>6 DEF BuildOnRemote, Works, Fails, fate
  <2>4. QED
    BY <1>1, <1>6, <1>2, <2>1, <2>2, <2>3 DEF BuildOnRemote, Build
<1>7. QED
  BY <1>3, <1>4, <1>5, <1>6 DEF BuildAny

Races == crash' = "race" /\ UNCHANGED faults

LEMMA FateIs ==
  ASSUME Places, Works \/ Fails \/ FailsUnnoticed \/ Panics \/ Races
  PROVE  crash' \in {"no", "config", "race", "get"} /\ faults' \in 0 .. MaxFaults
<1>1. /\ MaxFaults \in Nat /\ faults \in 0 .. MaxFaults
      /\ crash \in {"no", "config", "race", "get"}
  BY ConfigChangesAssumption DEF Places
<1>2. QED
  BY <1>1 DEF Works, Fails, FailsUnnoticed, Panics, Races, fate

\* An action that moves the coordinator and the TaskManager only.
LEMMA PlacesMove ==
  ASSUME Places, UNCHANGED << repo, start >>,
         DOMAIN reader' = DOMAIN reader,
         reader'.at \in {"off", "boot", "get", "old", "send", "subscribe", "wait"},
         reader'.applied \in 0 .. row.number,
         DOMAIN tasks' = DOMAIN tasks,
         tasks'.at \in {"off", "boot", "wait", "get"}, tasks'.initial = tasks.initial,
         Works \/ Fails \/ FailsUnnoticed \/ Panics \/ Races
  PROVE  Places'
<1>1. crash' \in {"no", "config", "race", "get"} /\ faults' \in 0 .. MaxFaults
  BY FateIs
<1>2. UNCHANGED << mode, row, defaultWeb, accepted, static, restarts, cached >>
  BY DEF repo, start
<1>3. QED
  BY <1>1, <1>2 DEF Places

\* The record of the coordinator, after each of its steps.
Gets ==
  /\ reader.at \in {"boot", "get"} /\ reader'.at = "old"
  /\ reader'.applied = Current.number /\ reader'.todo = DOMAIN watchers
  /\ reader'.target = reader.target
  /\ files' = Current.files /\ UNCHANGED << watchers, globs, subs >> /\ Works
  /\ ~(\E f \in DOMAIN Current.files : Current.files[f].conflict)
GetsNothing ==
  /\ \/ reader.at \in {"boot", "get"} /\ Panics /\ UNCHANGED reader
        /\ \E f \in DOMAIN Current.files : Current.files[f].conflict
     \/ reader.at = "boot" /\ mode = "local" /\ FailsUnnoticed /\ UNCHANGED reader
     \/ /\ reader.at = "get" /\ reader'.at = "wait" /\ reader'.applied = reader.applied
        /\ reader'.todo = reader.todo /\ reader'.target = reader.target /\ Fails
  /\ UNCHANGED << files, watchers, globs, subs >>
Sends ==
  /\ reader.at = "send" /\ reader'.at = "old" /\ reader'.applied = reader.applied
  /\ reader'.todo = reader.todo /\ reader'.target = 0
  /\ UNCHANGED << files, watchers, globs, subs >> /\ Works
Adds ==
  /\ AddWatchers /\ reader.at = "old" /\ reader.todo = {}
  /\ reader'.at = (IF Contains(subs, "reader") THEN "wait" ELSE "subscribe")
  /\ reader'.applied = reader.applied
  /\ reader'.todo = reader.todo /\ reader'.target = reader.target
  /\ UNCHANGED << files, subs >> /\ Works
Parks ==
  /\ reader.at = "subscribe" /\ reader'.at = "wait" /\ reader'.applied = reader.applied
  /\ reader'.todo = reader.todo /\ reader'.target = reader.target
  /\ UNCHANGED << files, watchers, globs >> /\ Works
Subscribes == Parks /\ subs' = Append(subs, "reader")
Cancels(f) ==
  /\ f \in reader.todo /\ f \notin DOMAIN files
  /\ reader.at = "old" /\ reader'.at = "old" /\ reader'.applied = reader.applied
  /\ reader'.todo = reader.todo \ {f} /\ reader'.target = reader.target
  /\ globs' = [globs EXCEPT ![watchers[f]].cancelled = TRUE]
  /\ watchers' = Restrict(watchers, DOMAIN watchers \ {f})
  /\ UNCHANGED << files, subs >> /\ Works
Visits(f) ==
  /\ f \in reader.todo /\ f \in DOMAIN files
  /\ reader.at = "old" /\ reader'.applied = reader.applied /\ reader'.todo = reader.todo \ {f}
  /\ \/ reader'.at = "old" /\ reader'.target = 0
     \/ reader'.at = "send" /\ reader'.target = watchers[f] /\ globs[watchers[f]].fw # "none"
  /\ UNCHANGED << files, watchers, globs, subs >>
  /\ \/ Works
     \/ /\ Races /\ reader'.at = "old"
        /\ globs[watchers[f]].at # "gone" /\ globs[watchers[f]].fw = "none"

LEMMA ReaderSteps ==
  ASSUME Places, Reader
  PROVE  /\ Up /\ UNCHANGED << repo, start, casts, tasks >> /\ DOMAIN reader' = DOMAIN reader
         /\ \/ Gets \/ GetsNothing \/ Sends \/ Adds \/ Subscribes
            \/ \E f \in reader.todo : Cancels(f) \/ Visits(f)
<1>1. DOMAIN reader = {"at", "applied", "todo", "target"}
  BY DEF Places
<1>2. CASE ReaderGet
  <2>1. /\ Up /\ reader.at \in {"boot", "get"}
        /\ UNCHANGED << repo, start, casts, tasks, watchers, globs, subs >>
    BY <1>2 DEF ReaderGet, Elsewhere, Others
  <2>2. CASE /\ \E f \in DOMAIN Current.files : Current.files[f].conflict
             /\ Panics /\ UNCHANGED << reader, files >>
    BY <2>1, <2>2 DEF GetsNothing
  <2>3. CASE /\ ~(\E f \in DOMAIN Current.files : Current.files[f].conflict)
             /\ files' = Current.files /\ Works
             /\ reader' = [reader EXCEPT !.at = "old", !.applied = Current.number,
                                         !.todo = DOMAIN watchers]
    <3>1. /\ DOMAIN reader' = DOMAIN reader /\ reader'.at = "old"
          /\ reader'.applied = Current.number /\ reader'.todo = DOMAIN watchers
          /\ reader'.target = reader.target
      BY <1>1, <2>3
    <3>2. Gets
      BY <2>1, <2>3, <3>1 DEF Gets
    <3>3. QED
      BY <2>1, <3>1, <3>2
  <2>4. CASE reader.at = "get" /\ Fails /\ reader' = [reader EXCEPT !.at = "wait"] /\ UNCHANGED files
    <3>1. /\ DOMAIN reader' = DOMAIN reader /\ reader'.at = "wait"
          /\ reader'.applied = reader.applied /\ reader'.todo = reader.todo
          /\ reader'.target = reader.target
      BY <1>1, <2>4
    <3>2. GetsNothing
      BY <2>1, <2>4, <3>1 DEF GetsNothing
    <3>3. QED
      BY <2>1, <3>1, <3>2
  <2>5. CASE reader.at = "boot" /\ mode = "local" /\ FailsUnnoticed /\ UNCHANGED << reader, files >>
    BY <2>1, <2>5 DEF GetsNothing
  <2>6. QED
    BY <1>2, <2>2, <2>3, <2>4, <2>5 DEF ReaderGet
<1>3. CASE SendReload
  <2>1. /\ Up /\ reader.at = "send" /\ UNCHANGED << repo, start, casts, tasks >>
        /\ UNCHANGED << files, watchers, globs, subs >> /\ Works
    BY <1>3 DEF SendReload, Elsewhere, Others, Works
  <2>2. reader' = [reader EXCEPT !.at = "old", !.target = 0]
    BY <1>3 DEF SendReload
  <2>3. /\ DOMAIN reader' = DOMAIN reader /\ reader'.at = "old" /\ reader'.applied = reader.applied
        /\ reader'.todo = reader.todo /\ reader'.target = 0
    BY <1>1, <2>2
  <2>4. QED
    BY <2>1, <2>3 DEF Sends
<1>4. CASE AddWatchers
  <2>1. /\ Up /\ reader.at = "old" /\ reader.todo = {} /\ UNCHANGED << repo, start, casts, tasks >>
        /\ UNCHANGED << files, subs >> /\ Works
    BY <1>4 DEF AddWatchers, Elsewhere, Others, Works
  <2>2. reader' = [reader EXCEPT !.at = IF Contains(subs, "reader") THEN "wait" ELSE "subscribe"]
    BY <1>4 DEF AddWatchers
  <2>3. /\ DOMAIN reader' = DOMAIN reader /\ reader'.applied = reader.applied
        /\ reader'.at = (IF Contains(subs, "reader") THEN "wait" ELSE "subscribe")
        /\ reader'.todo = reader.todo /\ reader'.target = reader.target
    BY <1>1, <2>2
  <2>4. QED
    BY <1>4, <2>1, <2>3 DEF Adds
<1>5. CASE Subscribe
  <2>1. /\ Up /\ reader.at = "subscribe" /\ UNCHANGED << repo, start, casts, tasks >>
        /\ subs' = Append(subs, "reader") /\ UNCHANGED << files, watchers, globs >> /\ Works
    BY <1>5 DEF Subscribe, Others, Works
  <2>2. reader' = [reader EXCEPT !.at = "wait"]
    BY <1>5 DEF Subscribe
  <2>3. /\ DOMAIN reader' = DOMAIN reader /\ reader'.at = "wait" /\ reader'.applied = reader.applied
        /\ reader'.todo = reader.todo /\ reader'.target = reader.target
    BY <1>1, <2>2
  <2>4. QED
    BY <2>1, <2>3 DEF Subscribes, Parks
<1>6. ASSUME NEW f \in reader.todo, CancelWatcher(f)
      PROVE  /\ Up /\ UNCHANGED << repo, start, casts, tasks >> /\ DOMAIN reader' = DOMAIN reader
             /\ Cancels(f)
  <2>1. /\ Up /\ reader.at = "old" /\ f \notin DOMAIN files
        /\ UNCHANGED << repo, start, casts, tasks >> /\ UNCHANGED << files, subs >> /\ Works
        /\ globs' = [globs EXCEPT ![watchers[f]].cancelled = TRUE]
        /\ watchers' = Restrict(watchers, DOMAIN watchers \ {f})
    BY <1>6 DEF CancelWatcher, Elsewhere, Others, Works
  <2>2. reader' = [reader EXCEPT !.todo = @ \ {f}]
    BY <1>6 DEF CancelWatcher
  <2>3. /\ DOMAIN reader' = DOMAIN reader /\ reader'.at = reader.at
        /\ reader'.applied = reader.applied
        /\ reader'.todo = reader.todo \ {f} /\ reader'.target = reader.target
    BY <1>1, <2>2
  <2>4. QED
    BY <2>1, <2>3 DEF Cancels
<1>7. ASSUME NEW f \in reader.todo, VisitWatcher(f)
      PROVE  /\ Up /\ UNCHANGED << repo, start, casts, tasks >> /\ DOMAIN reader' = DOMAIN reader
             /\ Visits(f)
  <2>1. /\ Up /\ reader.at = "old" /\ f \in DOMAIN files
        /\ UNCHANGED << repo, start, casts, tasks >>
        /\ UNCHANGED << files, watchers, globs, subs >>
    BY <1>7 DEF VisitWatcher, Elsewhere, Others
  <2>2. \/ reader' = [reader EXCEPT !.todo = @ \ {f}, !.at = "old", !.target = 0]
        \/ /\ reader' = [reader EXCEPT !.todo = @ \ {f}, !.at = "send", !.target = watchers[f]]
           /\ globs[watchers[f]].fw # "none" /\ Works
    BY <1>7 DEF VisitWatcher
  <2>0. \/ Works
        \/ Races /\ globs[watchers[f]].at # "gone" /\ globs[watchers[f]].fw = "none"
    BY <1>7 DEF VisitWatcher, Races
  <2>3. /\ DOMAIN reader' = DOMAIN reader /\ reader'.applied = reader.applied
        /\ reader'.todo = reader.todo \ {f}
        /\ \/ reader'.at = "old" /\ reader'.target = 0
           \/ /\ reader'.at = "send" /\ reader'.target = watchers[f]
              /\ globs[watchers[f]].fw # "none" /\ Works
    BY <1>1, <2>2
  <2>4. QED
    BY <2>0, <2>1, <2>3 DEF Visits
<1>8. QED
  BY <1>2, <1>3, <1>4, <1>5, <1>6, <1>7 DEF Reader

LEMMA CurrentIs ==
  ASSUME Places
  PROVE  /\ Current.number \in 0 .. row.number
         /\ \/ mode = "static" /\ Current = static
            \/ mode = "local" /\ Current = row
            \/ mode = "forwarder" /\ Current = cached
<1>1. mode \in {"static", "local", "forwarder"} /\ row.number \in Nat /\ static.number = 0
      /\ cached.number \in 0 .. row.number
      /\ static.number \in 0 .. row.number /\ row.number \in 0 .. row.number
  BY PostsAre DEF Places
<1>2. CASE mode = "static"
  <2>1. Current = static
    BY <1>2 DEF Current
  <2>2. QED
    BY <1>1, <1>2, <2>1
<1>3. CASE mode = "local"
  <2>1. Current = row
    BY <1>3 DEF Current
  <2>2. QED
    BY <1>1, <1>3, <2>1
<1>4. CASE mode = "forwarder"
  <2>1. Current = cached
    BY <1>4 DEF Current
  <2>2. QED
    BY <1>1, <1>4, <2>1
<1>5. QED
  BY <1>1, <1>2, <1>3, <1>4

\* A step of a broadcast.
LEMMA CastSteps ==
  ASSUME Places, Channels, Casting,
         NEW c \in casts, CastStarts(c) \/ ReaderHears(c) \/ TasksHear(c)
  PROVE  /\ Up /\ UNCHANGED << repo, start, subs, files, watchers, globs, missed >>
         /\ Works \/ (Races /\ Subscribing /\ UNCHANGED << casts, reader, tasks >>)
         /\ DOMAIN reader' = DOMAIN reader /\ reader'.applied = reader.applied
         /\ reader'.todo = reader.todo /\ reader'.target = reader.target
         /\ reader'.at = reader.at \/ (reader.at = "wait" /\ reader'.at = "get")
         /\ DOMAIN tasks' = DOMAIN tasks /\ tasks'.initial = tasks.initial
         /\ tasks'.at = tasks.at \/ (tasks.at = "wait" /\ tasks'.at = "get")
         /\ Casting'
<1>1. /\ DOMAIN reader = {"at", "applied", "todo", "target"} /\ DOMAIN tasks = {"at", "initial"}
  BY DEF Places
<1> DEFINE R == [number : 1 .. row.number, at : 0 .. 2, last : 0 .. 2]
<1>2. /\ casts \subseteq R /\ c \in R
      /\ \A d \in casts : d.at <= d.last /\ d.last <= Len(subs)
  BY DEF Casting
<1>3. Len(subs) \in 0 .. 2
  BY DEF Channels, Orders
<1>4. ASSUME casts' \subseteq casts \cup {[c EXCEPT !.at = 1, !.last = Len(subs)]}, subs # << >>
             \/ casts' \subseteq casts,
             UNCHANGED << row, subs >>
      PROVE  Casting'
  <2> DEFINE d == [c EXCEPT !.at = 1, !.last = Len(subs)]
  <2>1. CASE subs # << >>
    <3>1. Len(subs) \in 1 .. 2
      BY <2>1 DEF Channels, Orders
    <3> DEFINE e == [c EXCEPT !.at = 1]
    <3>2. e \in R /\ e.at = 1
      BY <1>2
    <3>3. d = [e EXCEPT !.last = Len(subs)]
      BY <1>2
    <3> HIDE DEF e, d
    <3>4. d \in R /\ d.at = 1 /\ d.last = Len(subs)
      BY <3>1, <3>2, <3>3
    <3>5. d \in R /\ d.at <= d.last /\ d.last <= Len(subs)
      BY <3>1, <3>4
    <3>6. casts' \subseteq casts \cup {d}
      BY <1>4 DEF d
    <3>7. QED
      BY <1>2, <1>4, <3>5, <3>6 DEF Casting
  <2>2. CASE casts' \subseteq casts
    BY <1>2, <1>4, <2>2 DEF Casting
  <2>3. QED
    BY <1>4, <2>1, <2>2
<1>5. ASSUME Sent(c), UNCHANGED << row, subs >> PROVE Casting'
  <2> DEFINE d == [c EXCEPT !.at = @ + 1]
  <2>1. casts' = (casts \ {c}) \cup (IF c.at = c.last THEN {} ELSE {d})
    BY <1>5 DEF Sent
  <2>2. c.at # c.last => d \in R /\ d.at <= d.last /\ d.last <= Len(subs)
    <3>1. c.at \in 0 .. 2 /\ c.last \in 0 .. 2 /\ c.at <= c.last /\ c.last <= Len(subs)
      BY <1>2
    <3>2. c.at # c.last => c.at + 1 \in 0 .. 2 /\ c.at + 1 <= c.last
      BY <3>1
    <3>3. d.at = c.at + 1 /\ d.last = c.last
      BY <1>2
    <3>4. c.at + 1 \in 0 .. 2 => d \in R
      BY <1>2
    <3>5. QED
      BY <3>1, <3>2, <3>3, <3>4
  <2> HIDE DEF d
  <2>3. QED
    BY <1>2, <1>5, <2>1, <2>2 DEF Casting
<1>6. CASE CastStarts(c)
  <2>1. /\ Up /\ UNCHANGED << repo, start, subs, files, watchers, globs, missed, reader, tasks >>
    BY <1>6 DEF CastStarts, Others, follower
  <2>2. \/ Works /\ casts' = (casts \ {c}) \cup
             (IF subs = << >> THEN {} ELSE {[c EXCEPT !.at = 1, !.last = Len(subs)]})
        \/ Races /\ Subscribing /\ UNCHANGED casts
    BY <1>6 DEF CastStarts, Races
  <2>3. Casting'
    <3>1. UNCHANGED << row, subs >>
      BY <2>1 DEF repo
    <3>2. QED
      BY <1>4, <2>2, <3>1
  <2>4. QED
    BY <2>1, <2>2, <2>3
<1>7. CASE ReaderHears(c)
  <2>1. /\ Up /\ UNCHANGED << repo, start, subs, files, watchers, globs, missed, tasks >>
        /\ reader.at = "wait" /\ Sent(c) /\ Works
    BY <1>7 DEF ReaderHears, Others, Works
  <2>2. reader' = [reader EXCEPT !.at = "get"]
    BY <1>7 DEF ReaderHears
  <2>3. /\ DOMAIN reader' = DOMAIN reader /\ reader'.applied = reader.applied
        /\ reader'.todo = reader.todo /\ reader'.target = reader.target /\ reader'.at = "get"
    BY <1>1, <2>2
  <2>4. Casting'
    BY <1>5, <2>1 DEF repo
  <2>5. QED
    BY <2>1, <2>3, <2>4
<1>8. CASE TasksHear(c)
  <2>1. /\ Up /\ UNCHANGED << repo, start, subs, files, watchers, globs, missed, reader >>
        /\ tasks.at = "wait" /\ Sent(c) /\ Works
    BY <1>8 DEF TasksHear, Others, follower, Works
  <2>2. tasks' = [tasks EXCEPT !.at = "get"]
    BY <1>8 DEF TasksHear
  <2>3. DOMAIN tasks' = DOMAIN tasks /\ tasks'.initial = tasks.initial /\ tasks'.at = "get"
    BY <1>1, <2>2
  <2>4. Casting'
    BY <1>5, <2>1 DEF repo
  <2>5. QED
    BY <2>1, <2>3, <2>4
<1>9. QED
  BY <1>6, <1>7, <1>8

\* A step of the TaskManager.
LEMMA TaskSteps ==
  ASSUME Places, TasksStart \/ TasksUpdate
  PROVE  /\ Up /\ UNCHANGED << repo, start, casts, follower >>
         /\ DOMAIN tasks' = DOMAIN tasks /\ tasks'.initial = tasks.initial
         /\ \/ /\ tasks'.at = tasks.at /\ subs' = subs /\ Panics
               /\ BadTask(Config(tasks.initial)) \/ BadTask(Current.cfg)
            \/ tasks.at = "boot" /\ tasks'.at = "wait" /\ subs' = Append(subs, "tasks") /\ Works
            \/ tasks.at = "get" /\ tasks'.at = "wait" /\ subs' = subs /\ (Works \/ Fails)
<1>1. DOMAIN tasks = {"at", "initial"}
  BY DEF Places
<1>2. tasks' = [tasks EXCEPT !.at = "wait"] =>
        DOMAIN tasks' = DOMAIN tasks /\ tasks'.initial = tasks.initial /\ tasks'.at = "wait"
  BY <1>1
<1>3. CASE TasksStart
  <2>1. CASE BadTask(Config(tasks.initial))
    BY <1>3, <2>1 DEF TasksStart, Others, follower
  <2>2. CASE ~BadTask(Config(tasks.initial))
    BY <1>2, <1>3, <2>2 DEF TasksStart, Others, follower
  <2>3. QED
    BY <2>1, <2>2
<1>4. CASE TasksUpdate
  <2>1. /\ Up /\ UNCHANGED << repo, start, casts, follower, subs >> /\ tasks.at = "get"
    BY <1>4 DEF TasksUpdate, Others, follower
  <2>2. \/ BadTask(Current.cfg) /\ Panics /\ UNCHANGED tasks
        \/ tasks' = [tasks EXCEPT !.at = "wait"] /\ (Works \/ Fails)
    BY <1>4 DEF TasksUpdate
  <2>3. QED
    BY <1>2, <2>1, <2>2
<1>5. QED
  BY <1>3, <1>4

\* Coordinator and TaskManager subscribe at the same time.
LEMMA BothSteps ==
  ASSUME Places, Channels, SubscribeBoth
  PROVE  /\ Up /\ UNCHANGED << repo, start, casts, missed >> /\ Parks
         /\ DOMAIN reader' = DOMAIN reader
         /\ DOMAIN tasks' = DOMAIN tasks /\ tasks'.initial = tasks.initial
         /\ tasks'.at = "wait"
         /\ subs = << >> /\ subs' \in {<< "reader" >>, << "tasks" >>}
<1>1. DOMAIN reader = {"at", "applied", "todo", "target"} /\ DOMAIN tasks = {"at", "initial"}
  BY DEF Places
<1>2. /\ Up /\ UNCHANGED << repo, start, casts, missed, files, watchers, globs >> /\ Works
      /\ reader.at = "subscribe" /\ tasks.at = "boot"
      /\ reader' = [reader EXCEPT !.at = "wait"] /\ tasks' = [tasks EXCEPT !.at = "wait"]
      /\ \E kept \in {"reader", "tasks"} : subs' = Append(subs, kept)
  BY DEF SubscribeBoth, TasksSubscribe, Others, Works
<1>3. subs \in Orders /\ ~Contains(subs, "reader") /\ ~Contains(subs, "tasks")
  BY <1>2 DEF Channels
<1>4. subs = << >>
  BY <1>3 DEF Orders, Contains
<1>5. subs' \in {<< "reader" >>, << "tasks" >>}
  BY <1>2, <1>4
<1>6. /\ DOMAIN reader' = DOMAIN reader /\ reader'.at = "wait"
      /\ reader'.applied = reader.applied /\ reader'.todo = reader.todo
      /\ reader'.target = reader.target
  BY <1>1, <1>2
<1>7. DOMAIN tasks' = DOMAIN tasks /\ tasks'.initial = tasks.initial /\ tasks'.at = "wait"
  BY <1>1, <1>2
<1>8. QED
  BY <1>2, <1>4, <1>5, <1>6, <1>7 DEF Parks

\* A step of a glob watcher or of its file watcher.
GlobMoves(i) == GlobStarts(i) \/ FileAppears(i) \/ GlobDone(i) \/ FileWatcherSplits(i)

LEMMA GlobSteps ==
  ASSUME NEW i, GlobMoves(i)
  PROVE  /\ Up /\ UNCHANGED << repo, start, subs, casts, tasks, reader, files, watchers, missed >>
         /\ Works \/ Fails \/ Panics
<1>1. Glob(i) /\ (Works \/ Fails \/ Panics)
  BY DEF GlobMoves, GlobStarts, FileAppears, GlobDone, FileWatcherSplits, Watch
<1>2. QED
  BY <1>1 DEF Glob, Elsewhere, Others

LEMMA RefreshIs ==
  ASSUME Places, Refresh
  PROVE  /\ Up /\ mode = "forwarder" /\ row.number \in 1 .. row.number
         /\ cached' = row /\ Broadcast(row.number)
         /\ \/ Works
            \/ Panics /\ row.cfg.forwarder.configPollInterval = "0s"
         /\ UNCHANGED << repo, mode, static, settings, restarts, subs, follower, tasks >>
<1>1. row.number \in Nat /\ cached.number \in Nat
  BY PostsAre DEF Places
<1>2. row.number > cached.number
  BY DEF Refresh
<1>3. row.number \in 1 .. row.number
  BY <1>1, <1>2
<1>4. QED
  BY <1>3 DEF Refresh

LEMMA HearerSubscribed ==
  ASSUME Channels, Casting, NEW c \in casts, CastStarts(c) \/ ReaderHears(c) \/ TasksHear(c),
         reader'.at = "get"
  PROVE  Contains(subs, "reader")
<1>1. CASE ReaderHears(c)
  <2>1. c.at > 0 /\ subs[c.at] = "reader"
    BY <1>1 DEF ReaderHears
  <2>2. c.at \in 0 .. 2 /\ c.last \in 0 .. 2 /\ c.at <= c.last /\ c.last <= Len(subs)
    BY DEF Casting
  <2>3. Len(subs) \in Nat /\ DOMAIN subs = 1 .. Len(subs)
    BY DEF Channels, Orders
  <2>4. c.at \in DOMAIN subs
    BY <2>1, <2>2, <2>3
  <2>5. QED
    BY <2>1, <2>4 DEF Contains
<1>2. CASE CastStarts(c) \/ TasksHear(c)
  BY <1>2 DEF CastStarts, TasksHear, follower, Channels
<1>3. QED
  BY <1>1, <1>2

LEMMA Types ==
  ASSUME Places, Channels, Casting, [Next]_vars
  PROVE  Places' /\ Channels' /\ Casting'
<1>0. /\ MaxRows \in Nat /\ MaxFaults \in Nat /\ MaxRestarts \in Nat /\ row.number \in 0 .. MaxRows
      /\ DOMAIN reader = {"at", "applied", "todo", "target"} /\ DOMAIN tasks = {"at", "initial"}
      /\ reader.applied \in 0 .. row.number /\ tasks.initial \in 0 .. row.number
      /\ cached.number \in 0 .. row.number /\ static.number = 0
      /\ reader.at \in {"off", "boot", "get", "old", "send", "subscribe", "wait"}
      /\ tasks.at \in {"off", "boot", "wait", "get"}
      /\ IsWeb(defaultWeb) /\ defaultWeb.enabled \in BOOLEAN
      /\ IsList(accepted) /\ Len(accepted) = row.number
  BY PostsAre, ConfigChangesAssumption DEF Places
<1>1. CASE BuildAny
  <2>1. row'.number \in 0 .. MaxRows /\ IsList(accepted') /\ Len(accepted') = row'.number
        /\ row.number <= row'.number
    <3>1. CASE UNCHANGED << row, accepted >>
      BY <1>0, <3>1
    <3>2. CASE row.number = 0 /\ Upsert(static.cfg)
      <4>1. /\ row'.number = 0 + 1 /\ IsList(accepted') /\ Len(accepted') = 0 + 1
        BY <3>2, Upserted
      <4>2. MaxRows > 0
        BY PostsAre
      <4>3. QED
        BY <1>0, <3>2, <4>1, <4>2
    <3>3. QED
      BY <1>1, <3>1, <3>2, BuildIs
  <2>2. cached'.number \in 0 .. row'.number
    BY <1>0, <1>1, <2>1, BuildIs
  <2>3. Places'
    <3>1. /\ DOMAIN reader' = DOMAIN reader /\ reader'.at = "boot" /\ reader'.applied = 0
          /\ DOMAIN tasks' = DOMAIN tasks /\ tasks'.at = "boot" /\ tasks'.initial \in 0 .. row'.number
          /\ UNCHANGED << mode, defaultWeb, restarts, crash >> /\ faults' \in 0 .. MaxFaults
          /\ static'.number = static.number
      BY <1>1, BuildIs
    <3>2. 0 \in 0 .. row'.number
      BY <2>1
    <3>3. QED
      BY <1>0, <2>1, <2>2, <3>1, <3>2 DEF Places
  <2>4. Channels'
    <3>1. reader.at = "off" /\ reader'.at = "boot" /\ tasks'.at = "boot" /\ UNCHANGED subs
      BY <1>1, BuildIs
    <3>2. tasks.at \notin {"wait", "get"}
      BY <3>1 DEF Channels
    <3>3. QED
      BY <3>1, <3>2 DEF Channels
  <2>5. Casting'
    BY <1>0, <1>1, <2>1, BuildIs DEF Casting
  <2>6. QED
    BY <2>3, <2>4, <2>5
<1>2. ASSUME NEW doc \in Offered, Post(doc) PROVE Places' /\ Channels' /\ Casting'
  <2>1. /\ row'.number \in 0 .. MaxRows /\ IsList(accepted') /\ Len(accepted') = row'.number
        /\ row.number <= row'.number
    <3>1. CASE UNCHANGED << row, accepted >>
      BY <1>0, <3>1
    <3>2. CASE Upsert(FromJSON(doc, defaultWeb))
      <4>1. /\ row'.number = row.number + 1 /\ IsList(accepted')
            /\ Len(accepted') = row.number + 1
        BY <3>2, Upserted
      <4>2. row.number + 1 \in 1 .. MaxRows
        BY <1>2, PostIs
      <4>3. QED
        BY <1>0, <4>1, <4>2
    <3>3. QED
      BY <1>2, <3>1, <3>2, PostIs
  <2>2. UNCHANGED << start, subs, reader, tasks, fate >>
    BY <1>2, PostIs DEF follower
  <2>3. IsWeb(defaultWeb') /\ defaultWeb'.enabled \in BOOLEAN
    BY <1>0, <1>2, PostIs, DefaultWebIs
  <2>4. Places'
    <3>1. /\ cached.number \in 0 .. row'.number /\ reader.applied \in 0 .. row'.number
          /\ tasks.initial \in 0 .. row'.number
      BY <1>0, <2>1
    <3>2. UNCHANGED << mode, static, cached, restarts, crash, faults >>
      BY <2>2 DEF start, fate
    <3>3. QED
      BY <2>1, <2>2, <2>3, <3>1, <3>2 DEF Places
  <2>5. Channels'
    BY <2>2 DEF Channels
  <2>6. Casting'
    <3>1. CASE UNCHANGED casts
      BY <1>0, <2>1, <2>2, <3>1 DEF Casting
    <3>2. CASE Broadcast(row.number + 1) /\ row'.number = row.number + 1
      <4> DEFINE c == [number |-> row.number + 1, at |-> 0, last |-> 0]
      <4>1. c \in [number : 1 .. row'.number, at : 0 .. 2, last : 0 .. 2]
            /\ c.at = 0 /\ c.last = 0
        BY <1>0, <2>1, <3>2
      <4>2. casts' = casts \cup {c}
        BY <3>2 DEF Broadcast
      <4>3. Len(subs) \in 0 .. 2
        BY DEF Channels, Orders
      <4> HIDE DEF c
      <4>4. QED
        BY <1>0, <2>1, <2>2, <4>1, <4>2, <4>3 DEF Casting
    <3>3. QED
      BY <1>2, <3>1, <3>2, PostIs, Upserted
  <2>7. QED
    BY <2>4, <2>5, <2>6
<1>3. CASE Refresh
  <2>1. /\ cached' = row /\ UNCHANGED << repo, mode, static, restarts, subs, reader, tasks >>
        /\ row.number \in 1 .. row.number /\ Broadcast(row.number) /\ (Works \/ Panics)
    BY <1>3, RefreshIs DEF follower
  <2>2. crash' \in {"no", "config", "race", "get"} /\ faults' \in 0 .. MaxFaults
    BY <2>1, FateIs
  <2>3. Places'
    BY <1>0, <2>1, <2>2 DEF Places, repo
  <2>4. Channels'
    BY <2>1 DEF Channels
  <2>5. Casting'
    <3> DEFINE c == [number |-> row.number, at |-> 0, last |-> 0]
    <3>1. c \in [number : 1 .. row.number, at : 0 .. 2, last : 0 .. 2] /\ c.at = 0 /\ c.last = 0
      BY <2>1
    <3>2. casts' = casts \cup {c}
      BY <2>1 DEF Broadcast
    <3>3. Len(subs) \in 0 .. 2
      BY DEF Channels, Orders
    <3> HIDE DEF c
    <3>4. QED
      BY <2>1, <3>1, <3>2, <3>3 DEF Casting, repo
  <2>6. QED
    BY <2>3, <2>4, <2>5
<1>4. ASSUME NEW c \in casts, CastStarts(c) \/ ReaderHears(c) \/ TasksHear(c)
      PROVE  Places' /\ Channels' /\ Casting'
  <2>1. /\ UNCHANGED << repo, start, subs >> /\ (Works \/ Races)
        /\ DOMAIN reader' = DOMAIN reader /\ reader'.applied = reader.applied
        /\ \/ reader'.at = reader.at \/ (reader.at = "wait" /\ reader'.at = "get")
        /\ DOMAIN tasks' = DOMAIN tasks /\ tasks'.initial = tasks.initial
        /\ \/ tasks'.at = tasks.at \/ (tasks.at = "wait" /\ tasks'.at = "get")
        /\ Casting'
    BY <1>4, CastSteps
  <2>2. Places'
    BY <1>0, <2>1, PlacesMove
  <2>3. reader'.at = "get" => Contains(subs, "reader")
    BY <1>4, HearerSubscribed
  <2>4. Channels'
    BY <2>1, <2>3 DEF Channels
  <2>5. QED
    BY <2>1, <2>2, <2>4
<1>5. CASE TasksStart \/ TasksUpdate
  <2>1. /\ UNCHANGED << repo, start, casts, reader >>
        /\ DOMAIN tasks' = DOMAIN tasks /\ tasks'.initial = tasks.initial
        /\ tasks'.at \in {"off", "boot", "wait", "get"}
        /\ Works \/ Fails \/ Panics
    BY <1>0, <1>5, TaskSteps DEF follower
  <2>2. Places'
    BY <1>0, <2>1, PlacesMove
  <2>3. CASE subs' = subs /\ (tasks'.at = tasks.at \/ (tasks.at = "get" /\ tasks'.at = "wait"))
    <3>1. Channels'
      BY <2>1, <2>3 DEF Channels
    <3>2. Casting'
      BY <2>1, <2>3 DEF Casting, repo
    <3>3. QED
      BY <2>2, <3>1, <3>2
  <2>4. CASE tasks.at = "boot" /\ tasks'.at = "wait" /\ subs' = Append(subs, "tasks")
    <3>1. subs \in Orders /\ ~Contains(subs, "tasks")
      BY <2>4 DEF Channels
    <3>2. /\ subs' \in Orders /\ Contains(subs', "tasks")
          /\ Contains(subs', "reader") <=> Contains(subs, "reader")
          /\ Len(subs) \in 0 .. 1 /\ Len(subs') = Len(subs) + 1
      BY <2>4, <3>1, Subscribed
    <3>3. Channels'
      BY <2>1, <2>4, <3>2 DEF Channels
    <3>4. Casting'
      BY <2>1, <3>2 DEF Casting, repo
    <3>5. QED
      BY <2>2, <3>3, <3>4
  <2>5. QED
    BY <1>5, <2>3, <2>4, TaskSteps
<1>6. CASE Reader
  <2>1. /\ UNCHANGED << repo, start, casts, tasks >> /\ DOMAIN reader' = DOMAIN reader
    BY <1>6, ReaderSteps
  <2>2. /\ reader'.at \in {"off", "boot", "get", "old", "send", "subscribe", "wait"}
        /\ reader'.applied \in 0 .. row.number
        /\ Works \/ Fails \/ FailsUnnoticed \/ Panics \/ Races
    BY <1>0, <1>6, ReaderSteps, CurrentIs
       DEF Gets, GetsNothing, Sends, Adds, Subscribes, Parks, Cancels, Visits
  <2>3. Places'
    BY <1>0, <2>1, <2>2, PlacesMove
  <2>4. CASE Subscribes
    <3>1. subs \in Orders /\ ~Contains(subs, "reader") /\ subs' = Append(subs, "reader")
          /\ reader.at = "subscribe" /\ reader'.at = "wait"
      BY <2>4 DEF Channels, Subscribes, Parks
    <3>2. /\ subs' \in Orders /\ Contains(subs', "reader")
          /\ Contains(subs', "tasks") <=> Contains(subs, "tasks")
          /\ Len(subs) \in 0 .. 1 /\ Len(subs') = Len(subs) + 1
      BY <3>1, Subscribed
    <3>3. Channels'
      BY <2>1, <3>1, <3>2 DEF Channels
    <3>4. Casting'
      BY <2>1, <3>2 DEF Casting, repo
    <3>5. QED
      BY <2>3, <3>3, <3>4
  <2>5. CASE ~Subscribes
    <3>1. /\ subs' = subs
          /\ reader.at # "off" /\ reader'.at # "off"
          /\ reader'.at = "boot" => reader.at = "boot"
          /\ reader'.at = "subscribe" => ~Contains(subs, "reader")
          /\ reader'.at = "get" => reader.at = "get"
      BY <1>6, <2>5, ReaderSteps
         DEF Gets, GetsNothing, Sends, Adds, Cancels, Visits
    <3>2. Channels'
      BY <2>1, <3>1 DEF Channels
    <3>3. Casting'
      BY <2>1, <3>1 DEF Casting, repo
    <3>4. QED
      BY <2>3, <3>2, <3>3
  <2>6. QED
    BY <2>4, <2>5
<1>7. ASSUME NEW i, GlobMoves(i) PROVE Places' /\ Channels' /\ Casting'
  <2>1. /\ UNCHANGED << repo, start, subs, casts, tasks, reader >> /\ (Works \/ Fails \/ Panics)
    BY <1>7, GlobSteps
  <2>2. Places'
    BY <1>0, <2>1, PlacesMove
  <2>3. QED
    BY <2>1, <2>2 DEF Channels, Casting, repo
<1>8. CASE Restart
  <2>1. /\ UNCHANGED << mode, row, accepted, faults >>
        /\ static'.number = 0 /\ cached'.number = 0 /\ restarts' \in 0 .. MaxRestarts
        /\ subs' = << >> /\ casts' = {} /\ reader' = Idle /\ crash' = "no"
        /\ tasks' = [at |-> "off", initial |-> 0]
    <3>1. restarts \in 0 .. MaxRestarts /\ restarts < MaxRestarts /\ restarts' = restarts + 1
      BY <1>8 DEF Restart, Places
    <3>2. QED
      BY <1>0, <1>8, <3>1 DEF Restart, Version
  <2>2. IsWeb(defaultWeb') /\ defaultWeb'.enabled \in BOOLEAN
    BY <1>0, <1>8, DefaultWebFirst, DefaultWebIs DEF Restart
  <2>3. 0 \in 0 .. row.number
    BY <1>0
  <2>4. Places'
    BY <2>1, <2>2, <2>3 DEF Places, Idle
  <2>5. subs' \in Orders /\ ~Contains(subs', "tasks") /\ ~Contains(subs', "reader")
    BY <2>1 DEF Orders, Contains
  <2>6. Channels' /\ Casting'
    BY <2>1, <2>5 DEF Channels, Casting, Idle
  <2>7. QED
    BY <2>4, <2>6
<1>9. CASE UNCHANGED vars
  BY <1>9 DEF vars, repo, start, follower, fate, Places, Channels, Casting
<1>10. CASE SubscribeBoth
  <2>1. /\ UNCHANGED << repo, start, casts >> /\ Works
        /\ DOMAIN reader' = DOMAIN reader /\ reader'.applied = reader.applied
        /\ reader'.at = "wait" /\ tasks'.at = "wait"
        /\ DOMAIN tasks' = DOMAIN tasks /\ tasks'.initial = tasks.initial
        /\ subs = << >> /\ subs' \in {<< "reader" >>, << "tasks" >>}
    BY <1>10, BothSteps DEF Parks
  <2>2. Places'
    BY <1>0, <2>1, PlacesMove
  <2>3. Channels'
    BY <2>1 DEF Channels, Orders
  <2>4. casts' = casts /\ row' = row /\ Len(subs) = 0 /\ Len(subs') = 1
    BY <2>1 DEF repo
  <2>5. Casting'
    BY <2>4 DEF Casting
  <2>6. QED
    BY <2>2, <2>3, <2>5
<1>11. QED
  BY <1>1, <1>2, <1>3, <1>4, <1>5, <1>6, <1>7, <1>8, <1>9, <1>10 DEF Next, GlobMoves

LEMMA StaticIs ==
  ASSUME mode # "static"
  PROVE  /\ StaticConfig = FromJSON(Static, DefaultWeb) /\ IsConfig(StaticConfig)
         /\ ~PanicsWriting(StaticConfig)
<1>1. StaticConfig = FromJSON(Static, DefaultWeb)
  BY DEF StaticConfig
<1>2. /\ IsDocument(Static) /\ ~Rejects(Static) /\ ~PanicsReading(Static)
      /\ ~PanicsWriting(FromJSON(Static, DefaultWeb))
  BY ConfigChangesAssumption
<1>3. IsConfig(FromJSON(Static, DefaultWeb))
  BY <1>2, DefaultWebFirst, ReadIsConfig
<1>4. QED
  BY <1>1, <1>2, <1>3

\* The row of a configuration that can be written gives that configuration.
LEMMA RowOf ==
  ASSUME NEW n, NEW c, IsConfig(c)
  PROVE  /\ Row(n, c).number = n /\ Row(n, c).cfg = c /\ Row(n, c).files = Indexed(c)
         /\ ~Rejects(Row(n, c).doc) /\ ~PanicsReading(Row(n, c).doc)
<1>1. /\ ~Rejects(ToJSON(c)) /\ ~PanicsReading(ToJSON(c))
      /\ FromJSON(ToJSON(c), DefaultWeb) = c
  BY ReadAgain
<1>2. QED
  BY <1>1, RowIs

LEMMA SourcesInit == Init => Sources
<1> SUFFICES ASSUME Init PROVE Sources
  OBVIOUS
<1> DEFINE s == StaticConfig
<1> HIDE DEF s
<1>1. cached.number = 0 /\ cached.cfg = s /\ cached.files = Indexed(s) /\ Config(0) = s
  BY DEF Init, Version, Config, s
<1>2. reader.at = "off" /\ restarts = 0 /\ static = Version(0, StaticConfig)
  BY DEF Init, Idle
<1>3. CASE mode = "forwarder"
  <2>1. row = Row(1, s) /\ accepted = << s >>
    BY <1>3 DEF Init, s
  <2>2. IsConfig(s)
    BY <1>3, StaticIs DEF s
  <2>3. /\ row.number = 1 /\ row.cfg = s /\ row.files = Indexed(s)
        /\ ~Rejects(row.doc) /\ ~PanicsReading(row.doc)
    BY <2>1, <2>2, RowOf
  <2>4. Len(accepted) = 1 /\ accepted[1] = s /\ Config(1) = s
    BY <2>1 DEF Config
  <2>5. \A n \in 1 .. 1 : n = 1
    OBVIOUS
  <2>6. IsVersion(row) /\ IsVersion(cached)
    BY <1>1, <2>3, <2>4 DEF IsVersion
  <2>7. SavedIsRead /\ SettingsReachRepository
    BY <1>2, <2>3, <2>4 DEF SavedIsRead, SettingsReachRepository, Up
  <2>8. QED
    BY <1>2, <1>3, <2>2, <2>4, <2>5, <2>6, <2>7 DEF Sources
<1>4. CASE mode # "forwarder"
  <2>1. row = Stored(Static, 0, s) /\ accepted = << >>
    BY <1>4 DEF Init, s
  <2>2. row.number = 0 /\ row.cfg = s /\ row.files = Indexed(s)
    BY <2>1 DEF Stored
  <2>3. Len(accepted) = 0
    BY <2>1
  <2>4. IsVersion(row) /\ IsVersion(cached)
    BY <1>1, <2>2, <2>3 DEF IsVersion
  <2>5. SavedIsRead /\ SettingsReachRepository
    BY <1>2, <2>2 DEF SavedIsRead, SettingsReachRepository, Up
  <2>6. QED
    BY <1>2, <2>3, <2>4, <2>5 DEF Sources
<1>5. QED
  BY <1>3, <1>4

\* What was accepted stays what it was.
LEMMA ConfigKept ==
  ASSUME Places, UNCHANGED mode, accepted' = accepted \/ (\E c : Upsert(c))
  PROVE  /\ Len(accepted) \in Nat /\ Len(accepted) <= Len(accepted')
         /\ \A n \in 0 .. Len(accepted) : Config(n)' = Config(n)
         /\ StaticConfig' = StaticConfig
<1>1. Len(accepted) = row.number /\ row.number \in Nat
  BY PostsAre DEF Places
<1>2. StaticConfig' = StaticConfig
  BY DEF StaticConfig
<1>3. CASE accepted' = accepted
  BY <1>1, <1>2, <1>3 DEF Config
<1>4. ASSUME NEW c, Upsert(c)
      PROVE  /\ Len(accepted) <= Len(accepted')
             /\ \A n \in 0 .. Len(accepted) : Config(n)' = Config(n)
  <2>1. Len(accepted') = row.number + 1 /\ \A n \in 1 .. row.number : accepted'[n] = accepted[n]
    BY <1>4, Upserted
  <2>2. QED
    BY <1>1, <1>2, <2>1 DEF Config
<1>5. QED
  BY <1>1, <1>2, <1>3, <1>4

LEMMA VersionKept ==
  ASSUME Places, UNCHANGED mode, accepted' = accepted \/ (\E c : Upsert(c)),
         NEW v, IsVersion(v)
  PROVE  /\ v.number \in 0 .. Len(accepted')
         /\ v.cfg = Config(v.number)' /\ v.files = Indexed(v.cfg)
<1>1. /\ Len(accepted) \in Nat /\ Len(accepted) <= Len(accepted')
      /\ \A n \in 0 .. Len(accepted) : Config(n)' = Config(n)
  BY ConfigKept
<1>2. /\ v.number \in 0 .. Len(accepted)
      /\ v.cfg = Config(v.number) /\ v.files = Indexed(v.cfg)
  BY DEF IsVersion
<1>3. QED
  BY <1>1, <1>2

LEMMA SourcesUpsert ==
  ASSUME Places, Sources, NEW c, IsConfig(c), Upsert(c), UNCHANGED mode
  PROVE  /\ IsVersion(row)' /\ SavedIsRead' /\ row'.number > 0
         /\ \A n \in 1 .. Len(accepted') : IsConfig(accepted'[n])
<1>1. /\ row'.number = row.number + 1 /\ Len(accepted') = row.number + 1
      /\ \A n \in 1 .. row.number : accepted'[n] = accepted[n]
      /\ accepted'[row.number + 1] = c
      /\ row.number \in Nat /\ Len(accepted) = row.number
  BY Upserted, PostsAre DEF Places
<1>2. row' = Row(row.number + 1, c)
  BY DEF Upsert
<1> DEFINE r == Row(row.number + 1, c)
<1>3. /\ r.cfg = c /\ r.files = Indexed(c) /\ ~Rejects(r.doc) /\ ~PanicsReading(r.doc)
  BY RowOf
<1> HIDE DEF r
<1>4. /\ row'.cfg = c /\ row'.files = Indexed(c) /\ ~Rejects(row'.doc) /\ ~PanicsReading(row'.doc)
  BY <1>2, <1>3 DEF r
<1>5. Config(row.number)' = c
  BY <1>1 DEF Config
<1>6. IsVersion(row)'
  BY <1>1, <1>4, <1>5 DEF IsVersion
<1>7. SavedIsRead'
  BY <1>1, <1>4 DEF SavedIsRead
<1>8. ASSUME NEW n \in 1 .. Len(accepted') PROVE IsConfig(accepted'[n])
  <2>1. n \in 1 .. row.number \/ n = row.number + 1
    BY <1>1
  <2>2. \A m \in 1 .. row.number : IsConfig(accepted[m])
    BY <1>1 DEF Sources
  <2>3. QED
    BY <1>1, <2>1, <2>2
<1>9. QED
  BY <1>1, <1>6, <1>7, <1>8

\* Steps that change neither the table nor the sources do no harm.
LEMMA SourcesStay ==
  ASSUME Places, Sources, UNCHANGED << repo, start >>,
         reader'.at = "off" <=> reader.at = "off", Up' => Up
  PROVE  Sources'
<1>1. UNCHANGED << mode, row, accepted, static, settings, restarts, cached >>
  BY DEF repo, start
<1>2. StaticConfig' = StaticConfig /\ \A n : Config(n)' = Config(n)
  BY <1>1 DEF StaticConfig, Config
<1>3. IsVersion(row)' /\ IsVersion(cached)'
  BY <1>1, <1>2 DEF Sources, IsVersion
<1>4. SavedIsRead'
  BY <1>1 DEF Sources, SavedIsRead
<1>5. SettingsReachRepository'
  BY <1>1, <1>2 DEF Sources, SettingsReachRepository
<1>6. Version(0, StaticConfig)' = Version(0, StaticConfig)
  BY <1>2 DEF Version
<1>7. QED
  BY <1>1, <1>3, <1>4, <1>5, <1>6 DEF Sources

LEMMA SourcesBuild ==
  ASSUME Places, Sources, BuildAny
  PROVE  Sources'
<1>1. /\ reader.at = "off" /\ reader'.at = "boot" /\ crash' = crash
      /\ UNCHANGED << mode, restarts >>
      /\ settings' = { ps["sqlite_events"] :
              ps \in { q \in static'.cfg.plugins : "sqlite_events" \in DOMAIN q } }
  BY BuildIs
<1>2. static = Version(0, StaticConfig)
  BY <1>1 DEF Sources
<1>3. static.cfg = StaticConfig
  BY <1>2 DEF Version
<1>4. CASE /\ mode = "local" /\ row.number = 0 /\ Upsert(static.cfg)
           /\ row'.number = 1 /\ UNCHANGED cached
  <2>1. IsConfig(static.cfg)
    BY <1>3, <1>4, StaticIs
  <2>2. /\ IsVersion(row)' /\ SavedIsRead' /\ row'.number > 0
        /\ \A n \in 1 .. Len(accepted') : IsConfig(accepted'[n])
    BY <1>1, <1>4, <2>1, SourcesUpsert
  <2>3. IsVersion(cached)'
    <3>1. IsVersion(cached)
      BY DEF Sources
    <3>2. /\ cached.number \in 0 .. Len(accepted')
          /\ cached.cfg = Config(cached.number)' /\ cached.files = Indexed(cached.cfg)
      BY <1>1, <1>4, <3>1, VersionKept
    <3>3. QED
      BY <1>4, <3>2 DEF IsVersion
  <2>4. restarts = 0
    <3>1. restarts \in Nat /\ ~(restarts > 0)
      BY <1>4, ConfigChangesAssumption DEF Sources, Places
    <3>2. QED
      BY <3>1
  <2>5. SettingsReachRepository'
    BY <1>1, <1>4, <2>4 DEF SettingsReachRepository
  <2>6. QED
    BY <1>1, <1>4, <2>2, <2>3, <2>5 DEF Sources
<1>5. CASE /\ UNCHANGED << row, accepted, static >>
           /\ mode = "local" => row.number > 0
           /\ UNCHANGED cached \/ (mode = "forwarder" /\ cached' = row)
  <2>1. StaticConfig' = StaticConfig /\ \A n : Config(n)' = Config(n)
    BY <1>1, <1>5 DEF StaticConfig, Config
  <2>2. IsVersion(row)' /\ IsVersion(cached)'
    BY <1>5, <2>1 DEF Sources, IsVersion
  <2>3. SavedIsRead'
    BY <1>5 DEF Sources, SavedIsRead
  <2>4. SettingsReachRepository'
    BY <1>1, <1>3, <1>5, <2>1 DEF SettingsReachRepository
  <2>5. Version(0, StaticConfig)' = Version(0, StaticConfig)
    BY <2>1 DEF Version
  <2>6. QED
    BY <1>1, <1>2, <1>5, <2>2, <2>3, <2>4, <2>5 DEF Sources
<1>6. QED
  BY <1>4, <1>5, BuildIs

LEMMA SourcesPost ==
  ASSUME Places, Sources, NEW doc \in Offered, Post(doc)
  PROVE  Sources'
<1>1. UNCHANGED << mode, static, settings, restarts, cached, reader, crash >>
  BY PostIs DEF start, follower, fate
<1>2. Up' <=> Up
  BY <1>1 DEF Up
<1>3. CASE UNCHANGED << row, accepted >>
  <2>1. StaticConfig' = StaticConfig /\ \A n : Config(n)' = Config(n)
    BY <1>1, <1>3 DEF StaticConfig, Config
  <2>2. IsVersion(row)' /\ IsVersion(cached)'
    BY <1>1, <1>3, <2>1 DEF Sources, IsVersion
  <2>3. SavedIsRead' /\ SettingsReachRepository'
    BY <1>1, <1>2, <1>3, <2>1 DEF Sources, SavedIsRead, SettingsReachRepository
  <2>4. Version(0, StaticConfig)' = Version(0, StaticConfig)
    BY <2>1 DEF Version
  <2>5. QED
    BY <1>1, <1>3, <2>2, <2>3, <2>4 DEF Sources
<1>4. CASE /\ ~PanicsReading(doc) /\ Upsert(FromJSON(doc, defaultWeb))
  <2>1. IsDocument(doc) /\ ~Rejects(doc) /\ IsWeb(defaultWeb)
    BY PostIs DEF Places
  <2>2. IsConfig(FromJSON(doc, defaultWeb))
    BY <1>4, <2>1, ReadIsConfig
  <2>3. /\ IsVersion(row)' /\ SavedIsRead' /\ row'.number > 0
        /\ \A n \in 1 .. Len(accepted') : IsConfig(accepted'[n])
    BY <1>1, <1>4, <2>2, SourcesUpsert
  <2>4. IsVersion(cached)'
    <3>1. IsVersion(cached)
      BY DEF Sources
    <3>2. /\ cached.number \in 0 .. Len(accepted')
          /\ cached.cfg = Config(cached.number)' /\ cached.files = Indexed(cached.cfg)
      BY <1>1, <1>4, <3>1, VersionKept
    <3>3. QED
      BY <1>1, <3>2 DEF IsVersion
  <2>5. StaticConfig' = StaticConfig
    BY <1>1 DEF StaticConfig
  <2>6. SettingsReachRepository'
    BY <1>1, <1>2, <2>5 DEF Sources, SettingsReachRepository
  <2>7. Version(0, StaticConfig)' = Version(0, StaticConfig)
    BY <2>5 DEF Version
  <2>8. QED
    BY <1>1, <2>3, <2>4, <2>6, <2>7 DEF Sources
<1>5. QED
  BY <1>3, <1>4, PostIs

LEMMA SourcesNext ==
  ASSUME Places, Channels, Casting, Sources, [Next]_vars
  PROVE  Sources'
<1>1. CASE Refresh
  <2>1. /\ cached' = row
        /\ UNCHANGED << mode, row, accepted, static, settings, restarts, reader >>
        /\ Works \/ Panics
    BY <1>1, RefreshIs DEF repo, follower
  <2>2. StaticConfig' = StaticConfig /\ \A n : Config(n)' = Config(n)
    BY <2>1 DEF StaticConfig, Config
  <2>3. IsVersion(row)' /\ IsVersion(cached)'
    BY <2>1, <2>2 DEF Sources, IsVersion
  <2>4. Up' => Up
    BY <2>1 DEF Up, Works, Panics, fate
  <2>5. SavedIsRead' /\ SettingsReachRepository'
    BY <2>1, <2>2, <2>4 DEF Sources, SavedIsRead, SettingsReachRepository
  <2>6. Version(0, StaticConfig)' = Version(0, StaticConfig)
    BY <2>2 DEF Version
  <2>7. QED
    BY <2>1, <2>3, <2>5, <2>6 DEF Sources
<1>2. ASSUME NEW c \in casts, CastStarts(c) \/ ReaderHears(c) \/ TasksHear(c)
      PROVE  Sources'
  <2>1. /\ UNCHANGED << repo, start >> /\ Up
        /\ \/ reader'.at = reader.at \/ (reader.at = "wait" /\ reader'.at = "get")
    BY <1>2, CastSteps
  <2>2. QED
    BY <2>1, SourcesStay DEF Up
<1>3. CASE TasksStart \/ TasksUpdate
  <2>1. UNCHANGED << repo, start, reader >> /\ Up
    BY <1>3, TaskSteps DEF follower
  <2>2. QED
    BY <2>1, SourcesStay
<1>4. CASE Reader
  <2>1. Up /\ UNCHANGED << repo, start >>
    BY <1>4, ReaderSteps
  <2>2. reader'.at # "off"
    BY <1>4, <2>1, ReaderSteps
       DEF Gets, GetsNothing, Sends, Adds, Subscribes, Parks, Cancels, Visits, Up
  <2>3. QED
    BY <2>1, <2>2, SourcesStay DEF Up
<1>5. ASSUME NEW i, GlobMoves(i) PROVE Sources'
  <2>1. Up /\ UNCHANGED << repo, start, reader >>
    BY <1>5, GlobSteps
  <2>2. QED
    BY <2>1, SourcesStay
<1>6. CASE Restart
  <2>1. /\ UNCHANGED << mode, row, accepted >> /\ reader.at # "off"
        /\ static' = Version(0, StaticConfig) /\ cached' = Version(0, StaticConfig)
        /\ reader' = Idle
    BY <1>6 DEF Restart
  <2>2. StaticConfig' = StaticConfig /\ \A n : Config(n)' = Config(n)
    BY <2>1 DEF StaticConfig, Config
  <2>3. IsVersion(row)'
    BY <2>1, <2>2 DEF Sources, IsVersion
  <2>4. IsVersion(cached)'
    <3>1. cached'.number = 0 /\ cached'.cfg = StaticConfig /\ cached'.files = Indexed(StaticConfig)
      BY <2>1 DEF Version
    <3>2. Config(0) = StaticConfig
      BY DEF Config
    <3>3. Len(accepted) \in Nat
      BY PostsAre DEF Places
    <3>4. QED
      BY <2>1, <2>2, <3>1, <3>2, <3>3 DEF IsVersion
  <2>5. SavedIsRead' /\ SettingsReachRepository'
    BY <2>1 DEF Sources, SavedIsRead, SettingsReachRepository, Up, Idle
  <2>6. mode = "local" => row.number > 0
    BY <2>1 DEF Sources
  <2>7. Version(0, StaticConfig)' = Version(0, StaticConfig)
    BY <2>2 DEF Version
  <2>8. QED
    BY <2>1, <2>3, <2>4, <2>5, <2>6, <2>7 DEF Sources
<1>7. CASE UNCHANGED vars
  <2>1. UNCHANGED << repo, start, reader, crash >>
    BY <1>7 DEF vars, follower, fate
  <2>2. QED
    BY <2>1, SourcesStay DEF Up
<1>8. CASE SubscribeBoth
  BY <1>8, BothSteps, SourcesStay DEF Parks, Up
<1>9. QED
  BY <1>1, <1>2, <1>3, <1>4, <1>5, <1>6, <1>7, <1>8, SourcesBuild, SourcesPost
     DEF Next, GlobMoves

-----------------------------------------------------------------------------
(* The files of a configuration                                            *)

\* As much of a configuration as the file reader looks at.
IsReadable(c) ==
  /\ \A h \in DOMAIN c.hostTypes : IsList(c.hostTypes[h].files)
  /\ \A f \in DOMAIN c.files : IsList(c.files[f].fileTypes)
  /\ DEFAULT \in DOMAIN c.fileTypes
  /\ \A n \in DOMAIN c.fileTypes :
       c.fileTypes[n].name = n /\ c.fileTypes[n].parser.kind \in {"JSON", "Regex"}

LEMMA ConfigReadable ==
  ASSUME NEW c, IsConfig(c)
  PROVE  IsReadable(c)
<1>1. /\ \A h \in DOMAIN c.hostTypes : IsList(c.hostTypes[h].files)
      /\ \A f \in DOMAIN c.files : IsList(c.files[f].fileTypes)
      /\ DEFAULT \in DOMAIN c.fileTypes /\ IsMap(c.fileTypes)
      /\ \A n \in DOMAIN c.fileTypes : IsFileType(c.fileTypes[n])
  BY DEF IsConfig
<1>2. \A n \in DOMAIN c.fileTypes : c.fileTypes[n].parser.kind \in {"JSON", "Regex"}
  BY <1>1 DEF IsFileType, IsParser
<1>3. \A n \in DOMAIN c.fileTypes : c.fileTypes[n].name = n
  BY <1>1 DEF IsMap
<1>4. QED
  BY <1>1, <1>2, <1>3 DEF IsReadable

LEMMA FlagsReadable ==
  ASSUME NEW flags, IsList(flags.files)
  PROVE  IsReadable(FromFlags(flags))
<1> DEFINE c == FromFlags(flags)
           p == [kind |-> IF flags.json THEN "JSON" ELSE "Regex",
                 delimiter |-> flags.delimiter, timeField |-> "_time",
                 extractors |-> IF flags.json THEN << >> ELSE flags.extractors]
           t == [DefaultFileType EXCEPT !.parser = p]
<1>1. /\ c.files = [ f \in Range(flags.files) |-> [name |-> f, fileTypes |-> << DEFAULT >>] ]
      /\ c.hostTypes = [ n \in {DEFAULT} |-> [name |-> DEFAULT, files |-> flags.files] ]
      /\ c.fileTypes = [ n \in {DEFAULT} |-> t ]
  BY DEF FromFlags
<1>2. p.kind \in {"JSON", "Regex"}
  OBVIOUS
<1>3. t.name = DEFAULT /\ t.parser = p
  BY DEF DefaultFileType
<1>4. IsList(<< DEFAULT >>)
  BY DEF IsList, Range
<1> HIDE DEF c, t, p
<1>5. \A f \in DOMAIN c.files : IsList(c.files[f].fileTypes)
  BY <1>1, <1>4
<1>6. \A h \in DOMAIN c.hostTypes : IsList(c.hostTypes[h].files)
  BY <1>1
<1>7. /\ DEFAULT \in DOMAIN c.fileTypes
      /\ \A n \in DOMAIN c.fileTypes :
           c.fileTypes[n].name = n /\ c.fileTypes[n].parser.kind \in {"JSON", "Regex"}
  BY <1>1, <1>2, <1>3
<1>8. QED
  BY <1>5, <1>6, <1>7 DEF IsReadable, c

LEMMA Joined ==
  ASSUME NEW a, NEW b, IsList(a), IsList(b)
  PROVE  /\ IsList(a \o b) /\ Range(a \o b) = Range(a) \cup Range(b)
         /\ Len(a \o b) = Len(a) + Len(b) /\ Len(a) \in Nat /\ Len(b) \in Nat
         /\ \A i \in 1 .. Len(a) : (a \o b)[i] = a[i]
         /\ \A i \in 1 .. Len(b) : (a \o b)[Len(a) + i] = b[i]
<1> DEFINE S == Range(a) \cup Range(b)
           m == Len(a)
           n == Len(b)
           j == a \o b
<1>1. /\ a \in Seq(S) /\ b \in Seq(S) /\ m \in Nat /\ n \in Nat
      /\ DOMAIN a = 1 .. m /\ DOMAIN b = 1 .. n
  BY DEF IsList, Range
<1> HIDE DEF S, m, n
<1>2. /\ j \in Seq(S) /\ Len(j) = m + n /\ DOMAIN j = 1 .. m + n
      /\ \A i \in 1 .. m : j[i] = a[i]
      /\ \A i \in 1 .. n : j[m + i] = b[i]
  BY <1>1 DEF m, n
<1> HIDE DEF j
<1>3. \A i \in 1 .. m + n : i \in 1 .. m \/ (i - m \in 1 .. n /\ m + (i - m) = i)
  BY <1>1
<1>4. Range(j) = Range(a) \cup Range(b)
  <2>1. ASSUME NEW i \in DOMAIN j PROVE j[i] \in Range(a) \cup Range(b)
    BY <1>1, <1>2, <1>3, ZenonT(30) DEF Range
  <2>2. ASSUME NEW i \in DOMAIN a PROVE a[i] \in Range(j)
    <3>1. i \in DOMAIN j /\ j[i] = a[i]
      BY <1>1, <1>2
    <3>2. QED
      BY <3>1 DEF Range
  <2>3. ASSUME NEW i \in DOMAIN b PROVE b[i] \in Range(j)
    <3>1. m + i \in DOMAIN j /\ j[m + i] = b[i]
      BY <1>1, <1>2
    <3>2. QED
      BY <3>1 DEF Range
  <2>4. QED
    BY <2>1, <2>2, <2>3 DEF Range
<1>5. IsList(j)
  <2>1. j = [ i \in 1 .. m + n |-> j[i] ] /\ m + n \in Nat
    BY <1>1, <1>2
  <2>2. QED
    BY <2>1, FunctionIsList
<1>6. QED
  BY <1>1, <1>2, <1>4, <1>5 DEF j, m, n

LEMMA HostFilesIs ==
  ASSUME NEW c, IsReadable(c), NEW h
  PROVE  IsList(HostFiles(c, h))
<1>1. IsList(<< >>)
  BY DEF IsList, Range
<1>2. QED
  BY <1>1 DEF IsReadable, HostFiles

\* The files a configuration makes its host read, each with its own file types merged.
LEMMA IndexedIs ==
  ASSUME NEW c, IsReadable(c)
  PROVE  /\ DOMAIN Indexed(c) = Read(c) /\ IsFiniteSet(Read(c))
         /\ \A f \in DOMAIN Indexed(c) : Indexed(c)[f] = mergeConfigs(f, TypesOf(c, f))
<1> DEFINE both == HostFiles(c, c.hostType) \o HostFiles(c, DEFAULT)
           names == Chosen(both, DOMAIN c.files)
           list == ReadFileConfig(c)
           D == { list[i].filename : i \in DOMAIN list }
           n == Len(names)
<1>1. IsList(both) /\ Range(both) = Range(HostFiles(c, c.hostType)) \cup Range(HostFiles(c, DEFAULT))
  BY HostFilesIs, Joined
<1> HIDE DEF both
<1>2. IsList(names) /\ Range(names) = Range(both) \cap DOMAIN c.files
  BY <1>1, ChosenIs
<1>3. Range(names) = Read(c)
  BY <1>1, <1>2 DEF Read
<1>4. list = [ i \in DOMAIN names |-> mergeConfigs(names[i], TypesOf(c, names[i])) ]
  BY DEF ReadFileConfig, both
<1> HIDE DEF names, list
<1>5. DOMAIN names = 1 .. n /\ n \in Nat
  BY <1>2 DEF IsList
<1>6. Len(list) = n /\ DOMAIN list = 1 .. n
  BY <1>4, <1>5
<1>7. \A i \in 1 .. n : list[i] = mergeConfigs(names[i], TypesOf(c, names[i]))
  BY <1>4, <1>5
<1>8. \A i \in 1 .. n : list[i].filename = names[i]
  <2>1. \A f, types : mergeConfigs(f, types).filename = f
    BY DEF mergeConfigs
  <2>2. QED
    BY <1>7, <2>1
<1>9. D = Read(c)
  BY <1>3, <1>5, <1>6, <1>8 DEF Range
<1>10. DOMAIN Indexed(c) = D
  BY DEF Indexed, list
<1>11. IsFiniteSet(Read(c))
  <2>1. names \in Surjection(1 .. n, Range(names))
    BY <1>2, <1>5 DEF Surjection, Range, IsList
  <2>2. IsFiniteSet(1 .. n)
    BY <1>5, FS_Interval
  <2>3. QED
    BY <1>3, <2>1, <2>2, FS_Surjection
<1>12. ASSUME NEW f \in D
       PROVE  Indexed(c)[f] = mergeConfigs(f, TypesOf(c, f))
  <2> DEFINE I == { i \in 1 .. Len(list) : list[i].filename = f }
  <2>1. I # {} /\ I \in SUBSET (1 .. n)
    BY <1>6
  <2>2. Indexed(c)[f] = list[Max(I)]
    <3>1. SelectLastInSeq(list, LAMBDA e : e.filename = f) = Max(I)
      BY <2>1 DEF SelectLastInSeq
    <3>2. QED
      BY <3>1 DEF Indexed, list
  <2>3. Max(I) \in I
    BY <1>5, <2>1, GreatestNumber
  <2>4. Max(I) \in 1 .. n /\ list[Max(I)].filename = f
    BY <2>1, <2>3
  <2> HIDE DEF I
  <2>5. names[Max(I)] = f
    BY <1>8, <2>4
  <2>6. QED
    BY <1>7, <2>2, <2>4, <2>5
<1>13. QED
  BY <1>9, <1>10, <1>11, <1>12

\* What mergeConfigs has gathered after each of n file types.
Merging(f, types, n) ==
  f = [ i \in 0 .. n |-> IF i = 0 THEN Unmerged ELSE MergeType(f[i - 1], types[i]) ]

LEMMA MergingAt ==
  ASSUME NEW f, NEW types, NEW n, Merging(f, types, n), NEW i \in 0 .. n
  PROVE  f[i] = IF i = 0 THEN Unmerged ELSE MergeType(f[i - 1], types[i])
<1> DEFINE g == [ j \in 0 .. n |-> IF j = 0 THEN Unmerged ELSE MergeType(f[j - 1], types[j]) ]
<1>1. f = g
  BY DEF Merging
<1>2. g[i] = IF i = 0 THEN Unmerged ELSE MergeType(f[i - 1], types[i])
  OBVIOUS
<1> HIDE DEF g
<1>3. QED
  BY <1>1, <1>2

LEMMA MergingExists ==
  ASSUME NEW types, NEW n \in Nat
  PROVE  \E f : Merging(f, types, n)
<1> DEFINE N == { m \in Nat : \E f : Merging(f, types, m) }
<1>1. 0 \in N
  <2>1. Merging([ i \in 0 .. 0 |-> Unmerged ], types, 0)
    BY DEF Merging
  <2>2. QED
    BY <2>1
<1>2. ASSUME NEW m \in N PROVE m + 1 \in N
  <2>1. m \in Nat /\ m + 1 \in Nat
    OBVIOUS
  <2>2. PICK f : Merging(f, types, m)
    OBVIOUS
  <2> DEFINE g == [ i \in 0 .. m + 1 |-> IF i = m + 1 THEN MergeType(f[m], types[m + 1]) ELSE f[i] ]
             h == [ i \in 0 .. m + 1 |-> IF i = 0 THEN Unmerged ELSE MergeType(g[i - 1], types[i]) ]
  <2>3. ASSUME NEW i \in 0 .. m + 1
        PROVE  g[i] = h[i]
    <3>1. CASE i = m + 1
      <4>1. i # 0 /\ i - 1 = m /\ m \in 0 .. m + 1 /\ m # m + 1
        BY <2>1, <3>1
      <4>2. g[i - 1] = f[m] /\ g[i] = MergeType(f[m], types[i])
        BY <3>1, <4>1
      <4>3. h[i] = MergeType(g[i - 1], types[i])
        BY <4>1
      <4>4. QED
        BY <4>2, <4>3
    <3>2. CASE i # m + 1
      <4>1. i \in 0 .. m
        BY <2>1, <3>2
      <4>2. g[i] = f[i]
        BY <3>2
      <4>3. f[i] = IF i = 0 THEN Unmerged ELSE MergeType(f[i - 1], types[i])
        BY <2>2, <4>1, MergingAt
      <4>4. i # 0 => g[i - 1] = f[i - 1]
        BY <2>1, <4>1
      <4>5. h[i] = IF i = 0 THEN Unmerged ELSE MergeType(g[i - 1], types[i])
        OBVIOUS
      <4> HIDE DEF g, h
      <4>6. QED
        BY <4>2, <4>3, <4>4, <4>5
    <3>3. QED
      BY <3>1, <3>2
  <2>4. g = h
    BY <2>3
  <2>5. Merging(g, types, m + 1)
    BY <2>4 DEF Merging
  <2>6. QED
    BY <2>1, <2>5
<1>3. N = Nat
  <2> HIDE DEF N
  <2>1. N \in SUBSET Nat
    BY DEF N
  <2>2. QED
    BY <1>1, <1>2, <2>1, Induction
<1>4. QED
  BY <1>3

LEMMA MergedBy ==
  ASSUME NEW f, NEW types, Len(types) \in Nat
  PROVE  \E m : /\ Merging(m, types, Len(types))
                /\ LET last == m[Len(types)]
                   IN  mergeConfigs(f, types) =
                         [filename |-> f,
                          timeLayout |-> IF last.timeLayout = "" THEN "standard" ELSE last.timeLayout,
                          readInterval |-> last.readInterval,
                          parser |-> Or(last.JSON, Or(last.Regex, NoParser)),
                          conflict |-> last.conflict]
<1> DEFINE m == CHOOSE m : Merging(m, types, Len(types))
<1>1. Merging(m, types, Len(types))
  BY MergingExists
<1>2. m = CHOOSE g : g = [ i \in 0 .. Len(types) |->
                             IF i = 0 THEN Unmerged ELSE MergeType(g[i - 1], types[i]) ]
  BY DEF Merging
<1> HIDE DEF m
<1>3. QED
  BY <1>1, <1>2 DEF mergeConfigs

Kinds == {"JSON", "Regex"}
OtherOf(kind) == IF kind = "JSON" THEN "Regex" ELSE "JSON"
MergeFields == {"timeLayout", "readInterval", "JSON", "Regex", "conflict"}

\* One turn of the loop, field by field.
LEMMA MergeTypeIs ==
  ASSUME NEW m, DOMAIN m = MergeFields, NEW ft, ft.parser.kind \in Kinds
  PROVE  LET kind  == ft.parser.kind
             other == m[OtherOf(kind)]
             mine  == Or(m[kind], EmptyOf(kind))
             r     == MergeType(m, ft)
         IN  /\ DOMAIN r = MergeFields
             /\ r.readInterval = ft.readInterval
             /\ r[kind] = {IF other = {} THEN Absorb(mine, ft) ELSE mine}
             /\ r[OtherOf(kind)] = other
             /\ r.conflict =>
                  \/ m.conflict
                  \/ ft.name # DEFAULT /\ other # {}
                  \/ ft.parser.delimiter = "nil"
<1> DEFINE kind == ft.parser.kind
           other == IF kind = "JSON" THEN m.Regex ELSE m.JSON
           mine == Or(m[kind], EmptyOf(kind))
           fatal == ft.name # DEFAULT
                      /\ (other # {} \/ (mine.delimiter # "nil" /\ ft.parser.delimiter = "nil"))
           layout == IF m.timeLayout = "" THEN ft.timeLayout ELSE m.timeLayout
           new == {IF other = {} THEN Absorb(mine, ft) ELSE mine}
           r == MergeType(m, ft)
<1>1. r = [m EXCEPT !.timeLayout = layout, !.readInterval = ft.readInterval,
                    ![kind] = new, !.conflict = @ \/ fatal]
  BY DEF MergeType
<1>2. kind \in Kinds /\ other = m[OtherOf(kind)] /\ OtherOf(kind) \in Kinds /\ OtherOf(kind) # kind
  BY DEF Kinds, OtherOf
<1> HIDE DEF r, kind, layout, new, fatal
<1>3. /\ kind \in MergeFields /\ OtherOf(kind) \in MergeFields
      /\ "timeLayout" \in MergeFields /\ "readInterval" \in MergeFields /\ "conflict" \in MergeFields
      /\ \A k \in Kinds : k # "timeLayout" /\ k # "readInterval" /\ k # "conflict"
  BY <1>2 DEF Kinds, MergeFields
<1>4. /\ DOMAIN r = MergeFields /\ r["readInterval"] = ft.readInterval /\ r[kind] = new
      /\ r[OtherOf(kind)] = m[OtherOf(kind)] /\ r["conflict"] = (m["conflict"] \/ fatal)
  BY <1>1, <1>2, <1>3
<1>5. fatal => (ft.name # DEFAULT /\ other # {}) \/ ft.parser.delimiter = "nil"
  BY DEF fatal
<1>6. QED
  BY <1>2, <1>4, <1>5 DEF kind, new, r

\* Types k and j are of two kinds, and j is the later one.
Differ(types, k, j) == k < j /\ types[k].parser.kind # types[j].parser.kind

NilUpTo(types, n) == \E j \in 1 .. n : types[j].parser.delimiter = "nil"

\* What is known of the first n of these file types when they are merged.
Gathered(m, types, n) ==
  /\ DOMAIN m = MergeFields
  /\ n > 0 => m.readInterval = types[n].readInterval
  /\ \A kind \in Kinds : \A p \in m[kind] :
       /\ p.kind = kind
       /\ p.delimiter = "nil" =>
            \/ NilUpTo(types, n)
            \/ \E j \in 1 .. n, k \in 1 .. n :
                 types[j].parser.kind = kind /\ Differ(types, k, j)
  /\ \A kind \in Kinds : m[kind] = {} <=> ~(\E j \in 1 .. n : types[j].parser.kind = kind)
  /\ m.conflict =>
       \/ NilUpTo(types, n)
       \/ \E j \in 1 .. n, k \in 1 .. n : types[j].name # DEFAULT /\ Differ(types, k, j)

LEMMA GatheredNone ==
  ASSUME NEW types
  PROVE  Gathered(Unmerged, types, 0)
<1>1. /\ DOMAIN Unmerged = MergeFields /\ Unmerged.JSON = {} /\ Unmerged.Regex = {}
      /\ Unmerged.conflict = FALSE
  BY DEF Unmerged, MergeFields
<1>2. \A kind \in Kinds : Unmerged[kind] = {}
  BY <1>1 DEF Kinds
<1>3. QED
  BY <1>1, <1>2 DEF Gathered

LEMMA GatheredMore ==
  ASSUME NEW types, NEW n \in Nat, NEW m, Gathered(m, types, n),
         types[n + 1].parser.kind \in Kinds
  PROVE  Gathered(MergeType(m, types[n + 1]), types, n + 1)
<1> DEFINE ft == types[n + 1]
           r == MergeType(m, ft)
           kind == ft.parser.kind
           other == OtherOf(kind)
           mine == Or(m[kind], EmptyOf(kind))
<1> HIDE DEF ft, r, kind, mine
<1>1. /\ DOMAIN r = MergeFields /\ r.readInterval = ft.readInterval
      /\ r[kind] = {IF m[other] = {} THEN Absorb(mine, ft) ELSE mine}
      /\ r[other] = m[other]
      /\ r.conflict => \/ m.conflict
                       \/ ft.name # DEFAULT /\ m[other] # {}
                       \/ ft.parser.delimiter = "nil"
  <2>1. DOMAIN m = MergeFields
    BY DEF Gathered
  <2>2. ft.parser.kind \in Kinds
    BY DEF ft
  <2>3. QED
    BY <2>1, <2>2, MergeTypeIs DEF r, kind, mine
<1>2. /\ kind \in Kinds /\ other \in Kinds /\ other # kind /\ \A k \in Kinds : k = kind \/ k = other
      /\ types[n + 1] = ft /\ ft.parser.kind = kind
  BY DEF ft, kind, Kinds, OtherOf
<1> HIDE DEF other
<1>3. /\ \A j \in 1 .. n : j \in 1 .. (n + 1) /\ j < n + 1
      /\ n + 1 \in 1 .. (n + 1) /\ \A j \in 1 .. (n + 1) : j \in 1 .. n \/ j = n + 1
  OBVIOUS
<1>4. NilUpTo(types, n) => NilUpTo(types, n + 1)
  BY <1>3 DEF NilUpTo
<1>5. ft.parser.delimiter = "nil" => NilUpTo(types, n + 1)
  BY <1>2, <1>3 DEF NilUpTo
<1>6. m[other] # {} => \E k \in 1 .. n : Differ(types, k, n + 1)
  <2>1. ASSUME m[other] # {} PROVE \E k \in 1 .. n : types[k].parser.kind = other
    BY <1>2, <2>1 DEF Gathered
  <2>2. QED
    BY <1>2, <1>3, <2>1 DEF Differ
<1>7. mine.kind = kind /\ (mine.delimiter = "nil" \/ m[kind] # {}) /\ (m[kind] # {} => mine \in m[kind])
  <2>1. CASE m[kind] = {}
    <3>1. mine = EmptyOf(kind)
      BY <2>1 DEF mine, Or
    <3>2. EmptyOf(kind).kind = kind /\ EmptyOf(kind).delimiter = "nil"
      BY DEF EmptyOf, NoParser
    <3>3. QED
      BY <2>1, <3>1, <3>2
  <2>2. CASE m[kind] # {}
    <3>1. mine \in m[kind]
      BY <2>2, OrIn DEF mine
    <3>2. QED
      BY <1>2, <2>2, <3>1 DEF Gathered
  <2>3. QED
    BY <2>1, <2>2
<1> DEFINE Nil(k, i) ==
             \/ NilUpTo(types, i)
             \/ \E j \in 1 .. i, l \in 1 .. i : types[j].parser.kind = k /\ Differ(types, l, j)
<1>8. \A k : Nil(k, n) => Nil(k, n + 1)
  BY <1>3, <1>4
<1>9. ASSUME NEW p \in r[kind]
      PROVE  p.kind = kind /\ (p.delimiter = "nil" => Nil(kind, n + 1))
  <2>1. CASE m[other] = {}
    <3>1. p = Absorb(mine, ft)
      BY <1>1, <1>9, <2>1
    <3>2. p.kind = mine.kind /\ (p.delimiter = "nil" => ft.parser.delimiter = "nil")
      BY <3>1 DEF Absorb
    <3>3. QED
      BY <1>5, <1>7, <3>2
  <2>2. CASE m[other] # {}
    <3>1. Nil(kind, n + 1)
      <4>1. PICK k \in 1 .. n : Differ(types, k, n + 1)
        BY <1>6, <2>2
      <4>2. n + 1 \in 1 .. (n + 1) /\ k \in 1 .. (n + 1) /\ types[n + 1].parser.kind = kind
        BY <1>2, <1>3
      <4>3. QED
        BY <4>1, <4>2
    <3>2. p = mine
      BY <1>1, <1>9, <2>2
    <3>3. QED
      BY <1>7, <3>1, <3>2
  <2>3. QED
    BY <2>1, <2>2
<1>10. ASSUME NEW p \in r[other]
       PROVE  p.kind = other /\ (p.delimiter = "nil" => Nil(other, n + 1))
  <2>1. p \in m[other]
    BY <1>1
  <2>2. p.kind = other /\ (p.delimiter = "nil" => Nil(other, n))
    BY <1>2, <2>1 DEF Gathered
  <2>3. QED
    BY <1>8, <2>2
<1>11. \A k \in Kinds : \A p \in r[k] : p.kind = k /\ (p.delimiter = "nil" => Nil(k, n + 1))
  BY <1>2, <1>9, <1>10
<1>12. \A k \in Kinds : r[k] = {} <=> ~(\E j \in 1 .. (n + 1) : types[j].parser.kind = k)
  <2>1. r[kind] # {} /\ \E j \in 1 .. (n + 1) : types[j].parser.kind = kind
    BY <1>1, <1>2, <1>3
  <2>2. m[other] = {} <=> ~(\E j \in 1 .. n : types[j].parser.kind = other)
    BY <1>2 DEF Gathered
  <2>3. r[other] = {} <=> ~(\E j \in 1 .. (n + 1) : types[j].parser.kind = other)
    BY <1>1, <1>2, <1>3, <2>2
  <2>4. QED
    BY <1>2, <2>1, <2>3
<1>13. r.conflict =>
         \/ NilUpTo(types, n + 1)
         \/ \E j \in 1 .. (n + 1), k \in 1 .. (n + 1) : types[j].name # DEFAULT /\ Differ(types, k, j)
  <2>1. m.conflict =>
         \/ NilUpTo(types, n)
         \/ \E j \in 1 .. n, k \in 1 .. n : types[j].name # DEFAULT /\ Differ(types, k, j)
    BY DEF Gathered
  <2>2. CASE m.conflict
    BY <1>3, <1>4, <2>1, <2>2
  <2>3. CASE ft.name # DEFAULT /\ m[other] # {}
    BY <1>2, <1>3, <1>6, <2>3
  <2>4. QED
    BY <1>1, <1>5, <2>2, <2>3
<1>14. n + 1 > 0 /\ r.readInterval = types[n + 1].readInterval
  BY <1>1, <1>2
<1>15. Gathered(r, types, n + 1)
  BY <1>1, <1>11, <1>12, <1>13, <1>14 DEF Gathered
<1>16. QED
  BY <1>15 DEF r, ft

\* What comes of file types that are merged, in as much as the process can stop for it.
LEMMA MergedIs ==
  ASSUME NEW f, NEW types, Len(types) \in Nat, Len(types) > 0,
         \A i \in 1 .. Len(types) : types[i].parser.kind \in Kinds
  PROVE  LET r == mergeConfigs(f, types)
             n == Len(types)
         IN  /\ r.parser # NoParser
             /\ r.readInterval = types[n].readInterval
             /\ r.conflict =>
                  \/ NilUpTo(types, n)
                  \/ \E j \in 1 .. n, k \in 1 .. n : types[j].name # DEFAULT /\ Differ(types, k, j)
             /\ r.parser.delimiter = "nil" =>
                  \/ NilUpTo(types, n)
                  \/ \E j \in 1 .. n, k \in 1 .. n :
                       types[j].parser.kind = "JSON" /\ Differ(types, k, j)
<1> DEFINE n == Len(types)
           r == mergeConfigs(f, types)
<1>1. PICK m : /\ Merging(m, types, n)
               /\ r = [filename |-> f,
                       timeLayout |-> IF m[n].timeLayout = "" THEN "standard" ELSE m[n].timeLayout,
                       readInterval |-> m[n].readInterval,
                       parser |-> Or(m[n].JSON, Or(m[n].Regex, NoParser)),
                       conflict |-> m[n].conflict]
  BY MergedBy
<1>2. Merging(m, types, n) /\ n \in Nat
  BY <1>1
<1> DEFINE N == { i \in Nat : i <= n => Gathered(m[i], types, i) }
<1>3. 0 \in N
  <2>1. m[0] = Unmerged
    <3>1. 0 \in 0 .. n
      OBVIOUS
    <3>2. m[0] = IF 0 = 0 THEN Unmerged ELSE MergeType(m[0 - 1], types[0])
      BY <1>1, <3>1, MergingAt
    <3>3. QED
      BY <3>2
  <2>2. QED
    BY <2>1, GatheredNone
<1>4. ASSUME NEW i \in N PROVE i + 1 \in N
  <2> SUFFICES ASSUME i + 1 <= n PROVE Gathered(m[i + 1], types, i + 1)
    OBVIOUS
  <2>1. i \in Nat /\ i + 1 \in 0 .. n /\ i + 1 # 0 /\ (i + 1) - 1 = i /\ i <= n /\ i + 1 \in 1 .. n
    OBVIOUS
  <2>2. m[i + 1] = MergeType(m[i], types[i + 1])
    <3> HIDE DEF n, N
    <3>1. m[i + 1] = IF i + 1 = 0 THEN Unmerged ELSE MergeType(m[(i + 1) - 1], types[i + 1])
      BY <1>2, <2>1, MergingAt
    <3>2. QED
      BY <2>1, <3>1
  <2>3. Gathered(m[i], types, i)
    BY <2>1
  <2>4. QED
    BY <2>1, <2>2, <2>3, GatheredMore
<1>5. Gathered(m[n], types, n)
  <2>1. N \in SUBSET Nat
    OBVIOUS
  <2> HIDE DEF N
  <2>2. N = Nat
    BY <1>3, <1>4, <2>1, Induction
  <2>3. QED
    BY <2>2 DEF N
<1> HIDE DEF N, n
<1>6. n \in Nat /\ n > 0 /\ \A i \in 1 .. n : types[i].parser.kind \in Kinds
  BY DEF n
<1> DEFINE l == m[n]
<1> HIDE DEF l
<1>7. /\ r.readInterval = l.readInterval /\ r.conflict = l.conflict
      /\ r.parser = Or(l.JSON, Or(l.Regex, NoParser))
  <2>1. r = [filename |-> f,
             timeLayout |-> IF l.timeLayout = "" THEN "standard" ELSE l.timeLayout,
             readInterval |-> l.readInterval, parser |-> Or(l.JSON, Or(l.Regex, NoParser)),
             conflict |-> l.conflict]
    BY <1>1 DEF l
  <2> HIDE DEF r
  <2>2. QED
    BY <2>1
<1>8. "JSON" \in Kinds /\ "Regex" \in Kinds /\ Gathered(l, types, n)
  BY <1>5 DEF Kinds, l
<1> HIDE DEF r
<1>9. NoParser.kind = "none"
  BY DEF NoParser
<1>10. CASE l.JSON # {}
  <2>1. r.parser \in l["JSON"]
    BY <1>7, <1>10, OrIn
  <2>2. /\ r.parser.kind = "JSON"
        /\ r.parser.delimiter = "nil" =>
             \/ NilUpTo(types, n)
             \/ \E j \in 1 .. n, k \in 1 .. n :
                  types[j].parser.kind = "JSON" /\ Differ(types, k, j)
    BY <1>8, <2>1 DEF Gathered
  <2>3. r.parser # NoParser
    BY <1>9, <2>2
  <2>4. QED
    BY <1>6, <1>7, <1>8, <2>2, <2>3 DEF Gathered, r, n
<1>11. CASE l.JSON = {}
  <2>1. ~(\E j \in 1 .. n : types[j].parser.kind = "JSON")
    BY <1>8, <1>11 DEF Gathered
  <2>2. n \in 1 .. n /\ types[n].parser.kind = "Regex"
    BY <1>6, <2>1 DEF Kinds
  <2>3. l["Regex"] # {}
    BY <1>8, <2>2 DEF Gathered
  <2>4. r.parser \in l["Regex"]
    BY <1>7, <1>11, <2>3, OrIn DEF Or
  <2>5. /\ r.parser.kind = "Regex"
        /\ r.parser.delimiter = "nil" =>
             \/ NilUpTo(types, n)
             \/ \E j \in 1 .. n, k \in 1 .. n :
                  types[j].parser.kind = "Regex" /\ Differ(types, k, j)
    BY <1>8, <2>4 DEF Gathered
  <2>6. \A j \in 1 .. n, k \in 1 .. n : ~Differ(types, k, j)
    BY <1>6, <2>1 DEF Differ, Kinds
  <2>7. r.parser # NoParser
    BY <1>9, <2>5
  <2>8. QED
    BY <1>6, <1>7, <1>8, <2>5, <2>6, <2>7 DEF Gathered, r, n
<1>12. QED
  BY <1>10, <1>11 DEF r

LEMMA BothKinds ==
  ASSUME NEW kinds, kinds \subseteq Kinds, "JSON" \in kinds, "Regex" \in kinds
  PROVE  Cardinality(kinds) > 1
<1>1. kinds = {"JSON"} \cup {"Regex"}
  BY DEF Kinds
<1>2. IsFiniteSet({"JSON"}) /\ Cardinality({"JSON"}) = 1
  BY FS_Singleton
<1>3. Cardinality({"JSON"} \cup {"Regex"}) = Cardinality({"JSON"}) + 1
  BY <1>2, FS_AddElement
<1>4. QED
  BY <1>1, <1>2, <1>3

\* The file types of a file: some of its own, then DEFAULT.
LEMMA TypesOfIs ==
  ASSUME NEW c, IsReadable(c), NEW f \in DOMAIN c.files
  PROVE  LET types == TypesOf(c, f)
             n == Len(types)
             own == { c.fileTypes[m] : m \in Range(c.files[f].fileTypes) \cap DOMAIN c.fileTypes }
         IN  /\ n \in Nat /\ n > 0 /\ DOMAIN types = 1 .. n
             /\ types[n] = c.fileTypes[DEFAULT] /\ types[n].name = DEFAULT
             /\ \A i \in 1 .. (n - 1) : types[i] \in own
             /\ \A i \in 1 .. n : types[i].parser.kind \in Kinds
<1> DEFINE D == DOMAIN c.fileTypes
           list == c.files[f].fileTypes
           both == list \o << DEFAULT >>
           names == Chosen(both, D)
           types == TypesOf(c, f)
           n == Len(names)
<1>1. IsList(list) /\ DEFAULT \in D
  BY DEF IsReadable
<1> DEFINE d == DEFAULT
<1> HIDE DEF list, D, d
<1>2. IsList(<< d >>) /\ Len(<< d >>) = 1 /\ << d >>[1] = d
  BY DEF IsList, Range
<1>3. /\ IsList(both) /\ Len(both) = Len(list) + 1 /\ Len(list) \in Nat
      /\ \A i \in 1 .. Len(list) : both[i] = list[i]
      /\ both[Len(list) + 1] = d
  <2>1. /\ IsList(list \o << d >>) /\ Len(list \o << d >>) = Len(list) + 1 /\ Len(list) \in Nat
        /\ \A i \in 1 .. Len(list) : (list \o << d >>)[i] = list[i]
        /\ \A i \in 1 .. 1 : (list \o << d >>)[Len(list) + i] = << d >>[i]
    BY <1>1, <1>2, Joined
  <2>2. 1 \in 1 .. 1
    OBVIOUS
  <2>3. both = list \o << d >>
    BY DEF d
  <2> HIDE DEF both
  <2>4. QED
    BY <1>2, <2>1, <2>2, <2>3
<1> HIDE DEF both
<1>4. PICK q : /\ IsList(q) /\ names = Append(q, d)
               /\ Range(q) = Before(both) \cap D
  <2>1. Len(both) > 0 /\ both[Len(both)] = d /\ d \in D
    BY <1>1, <1>3 DEF d
  <2> HIDE DEF names
  <2>2. \E q : /\ IsList(q) /\ names = Append(q, both[Len(both)])
               /\ Range(q) = Before(both) \cap D
    <3>1. Len(both) > 0 /\ both[Len(both)] \in D
      BY <2>1
    <3>2. \E q : /\ IsList(q) /\ Chosen(both, D) = Append(q, both[Len(both)])
                 /\ Range(q) = Before(both) \cap D
      BY <1>3, <3>1, ChosenIs
    <3>3. QED
      BY <3>2 DEF names
  <2>3. QED
    BY <2>1, <2>2
<1>5. Range(q) \subseteq Range(list) \cap D
  <2>1. DOMAIN list = 1 .. Len(list)
    BY <1>1 DEF IsList
  <2>2. \A j \in 1 .. (Len(both) - 1) : both[j] \in Range(list)
    BY <1>3, <2>1 DEF Range
  <2>3. QED
    BY <1>4, <2>2 DEF Before
<1>6. /\ Len(q) \in Nat /\ n = Len(q) + 1 /\ IsList(names)
      /\ \A i \in 1 .. Len(q) : names[i] = q[i]
      /\ names[n] = d
  BY <1>4, OneMore
<1>7. types = [ i \in DOMAIN names |-> c.fileTypes[names[i]] ]
  BY DEF TypesOf, both, list, D
<1> HIDE DEF names, types, n
<1>8. DOMAIN names = 1 .. n /\ n \in Nat /\ n > 0
  BY <1>6 DEF IsList, n
<1>9. Len(types) = n /\ DOMAIN types = 1 .. n /\ \A i \in 1 .. n : types[i] = c.fileTypes[names[i]]
  BY <1>7, <1>8
<1>10. \A i \in 1 .. (n - 1) : names[i] \in Range(list) \cap D
  <2>1. DOMAIN q = 1 .. Len(q)
    BY <1>4 DEF IsList
  <2>2. \A i \in 1 .. Len(q) : q[i] \in Range(q)
    BY <2>1 DEF Range
  <2>3. QED
    BY <1>5, <1>6, <2>2
<1>11. n \in 1 .. n /\ types[n] = c.fileTypes[d]
  BY <1>6, <1>8, <1>9
<1>12. \A i \in 1 .. n : i \in 1 .. (n - 1) \/ i = n
  BY <1>8
<1>13. \A i \in 1 .. n : names[i] \in D
  BY <1>1, <1>6, <1>10, <1>12 DEF d
<1>14. \A m \in D : c.fileTypes[m].name = m /\ c.fileTypes[m].parser.kind \in Kinds
  BY DEF IsReadable, D, Kinds
<1>15. \A i \in 1 .. (n - 1) : types[i] \in { c.fileTypes[m] : m \in Range(list) \cap D }
  <2>1. \A i \in 1 .. (n - 1) : i \in 1 .. n
    BY <1>8
  <2>2. QED
    BY <1>9, <1>10, <2>1
<1>16. types[n].name = DEFAULT
  BY <1>1, <1>11, <1>14 DEF d
<1>17. QED
  BY <1>8, <1>9, <1>11, <1>13, <1>14, <1>15, <1>16 DEF types, list, D, d

\* No file is without a parser; those the process cannot run on are ill.
LEMMA FileIs ==
  ASSUME NEW c, IsReadable(c), NEW f \in DOMAIN Indexed(c)
  PROVE  LET r == Indexed(c)[f]
         IN  /\ f \in Read(c)
             /\ r.parser # NoParser
             /\ r.conflict \/ r.readInterval = "0s" \/ r.parser.delimiter = "nil" => IllFile(c, f)
<1> DEFINE types == TypesOf(c, f)
           n == Len(types)
           r == Indexed(c)[f]
           own == { c.fileTypes[m] : m \in Range(c.files[f].fileTypes) \cap DOMAIN c.fileTypes }
           base == { c.fileTypes[m] : m \in {DEFAULT} \cap DOMAIN c.fileTypes }
           kinds == { t.parser.kind : t \in own }
<1>1. /\ f \in Read(c) /\ r = mergeConfigs(f, types)
  BY IndexedIs
<1>2. f \in DOMAIN c.files
  BY <1>1 DEF Read
<1>3. /\ n \in Nat /\ n > 0 /\ DOMAIN types = 1 .. n
      /\ types[n] = c.fileTypes[DEFAULT] /\ types[n].name = DEFAULT
      /\ \A i \in 1 .. (n - 1) : types[i] \in own
      /\ \A i \in 1 .. n : types[i].parser.kind \in Kinds
  BY <1>2, TypesOfIs
<1>4. types[n] \in base
  BY <1>3 DEF IsReadable
<1>5. kinds \subseteq Kinds
  BY DEF IsReadable, Kinds
<1>6. IllFile(c, f) <=>
        \/ Cardinality(kinds) > 1
        \/ kinds = {"Regex"} /\ \E t \in base : t.parser.kind = "JSON"
        \/ \E t \in own \cup base : t.parser.delimiter = "nil"
        \/ \E t \in base : t.readInterval = "0s"
  BY DEF IllFile
<1> HIDE DEF types, r, own, base, n
<1>7. /\ r.parser # NoParser
      /\ r.readInterval = types[n].readInterval
      /\ r.conflict =>
           \/ NilUpTo(types, n)
           \/ \E j \in 1 .. n, k \in 1 .. n : types[j].name # DEFAULT /\ Differ(types, k, j)
      /\ r.parser.delimiter = "nil" =>
           \/ NilUpTo(types, n)
           \/ \E j \in 1 .. n, k \in 1 .. n :
                types[j].parser.kind = "JSON" /\ Differ(types, k, j)
  BY <1>1, <1>3, MergedIs DEF n
<1>8. \A j \in 1 .. n, k \in 1 .. n :
        /\ j \in 1 .. (n - 1) \/ j = n
        /\ Differ(types, k, j) => k \in 1 .. (n - 1)
  BY <1>3 DEF Differ
<1>9. \A i \in 1 .. (n - 1) : types[i].parser.kind \in kinds
  BY <1>3
<1> HIDE DEF kinds
<1>10. NilUpTo(types, n) => IllFile(c, f)
  BY <1>3, <1>4, <1>6, <1>8 DEF NilUpTo
<1>11. r.readInterval = "0s" => IllFile(c, f)
  BY <1>4, <1>6, <1>7
<1>12. ASSUME NEW k \in 1 .. (n - 1), NEW j \in 1 .. (n - 1), Differ(types, k, j)
       PROVE  IllFile(c, f)
  <2>1. types[k].parser.kind \in kinds /\ types[j].parser.kind \in kinds
        /\ types[k].parser.kind # types[j].parser.kind
    BY <1>9, <1>12 DEF Differ
  <2>2. "JSON" \in kinds /\ "Regex" \in kinds
    BY <1>5, <2>1 DEF Kinds
  <2>3. QED
    BY <1>5, <1>6, <2>2, BothKinds
<1>13. ASSUME NEW k \in 1 .. (n - 1), Differ(types, k, n), types[n].parser.kind = "JSON"
       PROVE  IllFile(c, f)
  <2>1. "Regex" \in kinds
    <3>1. types[k].parser.kind \in kinds /\ types[k].parser.kind # "JSON"
      BY <1>9, <1>13 DEF Differ
    <3>2. QED
      BY <1>5, <3>1 DEF Kinds
  <2>2. CASE "JSON" \in kinds
    BY <1>5, <1>6, <2>1, <2>2, BothKinds
  <2>3. CASE "JSON" \notin kinds
    <3>1. kinds = {"Regex"}
      BY <1>5, <2>1, <2>3 DEF Kinds
    <3>2. QED
      BY <1>4, <1>6, <1>13, <3>1
  <2>4. QED
    BY <2>2, <2>3
<1>14. r.conflict => IllFile(c, f)
  <2>1. ASSUME NEW j \in 1 .. n, NEW k \in 1 .. n, types[j].name # DEFAULT, Differ(types, k, j)
        PROVE  IllFile(c, f)
    <3>1. j \in 1 .. (n - 1) /\ k \in 1 .. (n - 1)
      BY <1>3, <1>8, <2>1
    <3>2. QED
      BY <1>12, <2>1, <3>1
  <2>2. QED
    BY <1>7, <1>10, <2>1
<1>15. r.parser.delimiter = "nil" => IllFile(c, f)
  <2>1. ASSUME NEW j \in 1 .. n, NEW k \in 1 .. n,
               types[j].parser.kind = "JSON", Differ(types, k, j)
        PROVE  IllFile(c, f)
    <3>1. k \in 1 .. (n - 1) /\ (j \in 1 .. (n - 1) \/ j = n)
      BY <1>8, <2>1
    <3>2. QED
      BY <1>12, <1>13, <2>1, <3>1
  <2>2. QED
    BY <1>7, <1>10, <2>1
<1>16. QED
  BY <1>1, <1>7, <1>11, <1>14, <1>15 DEF r

-----------------------------------------------------------------------------
(* The watchers                                                            *)

LEMMA CurrentVersion ==
  ASSUME Places, Sources
  PROVE  IsVersion(Current)
<1>1. IsVersion(row) /\ IsVersion(cached)
  BY DEF Sources
<1>2. CASE mode = "static" /\ Current = static
  <2>1. static = Version(0, StaticConfig)
    BY <1>2 DEF Sources
  <2>2. static.number = 0 /\ static.cfg = StaticConfig /\ static.files = Indexed(StaticConfig)
    BY <2>1 DEF Version
  <2>3. Config(0) = StaticConfig
    BY DEF Config
  <2>4. 0 \in 0 .. Len(accepted)
    BY PostsAre DEF Places
  <2>5. IsVersion(static)
    BY <2>2, <2>3, <2>4 DEF IsVersion
  <2>6. QED
    BY <1>2, <2>5
<1>3. QED
  BY <1>1, <1>2, CurrentIs

LEMMA Readable ==
  ASSUME Places, Sources, NEW n \in 0 .. Len(accepted)
  PROVE  IsReadable(Config(n))
<1>1. CASE n = 0
  <2>1. Config(n) = StaticConfig
    BY <1>1 DEF Config
  <2>2. CASE mode = "static"
    <3>1. StaticConfig = FromFlags(Flags) /\ IsList(Flags.files)
      BY <2>2, ConfigChangesAssumption DEF StaticConfig
    <3>2. QED
      BY <2>1, <3>1, FlagsReadable
  <2>3. CASE mode # "static"
    BY <2>1, <2>3, StaticIs, ConfigReadable
  <2>4. QED
    BY <2>2, <2>3
<1>2. CASE n # 0
  <2>1. n \in 1 .. Len(accepted)
    BY <1>2, PostsAre DEF Places
  <2>2. Config(n) = accepted[n] /\ IsConfig(accepted[n])
    BY <1>2, <2>1 DEF Config, Sources
  <2>3. QED
    BY <2>2, ConfigReadable
<1>3. QED
  BY <1>1, <1>2

LEMMA WatchingInit == Init => Globs /\ Matched /\ Going
<1> SUFFICES ASSUME Init PROVE Globs /\ Matched /\ Going
  OBVIOUS
<1>1. globs = << >> /\ watchers = << >> /\ reader.at = "off" /\ reader.target = 0
  BY DEF Init, Idle
<1>2. IsList(globs) /\ DOMAIN globs = {} /\ DOMAIN watchers = {} /\ Len(globs) = 0
  BY <1>1 DEF IsList, Range
<1>3. watchers = [ f \in DOMAIN watchers |-> watchers[f] ]
  BY <1>1
<1>4. QED
  BY <1>1, <1>2, <1>3 DEF Globs, Matched, Going

\* The same watcher, further on or cancelled.
Alike(h, g) ==
  /\ DOMAIN h = DOMAIN g /\ h.file = g.file /\ h.config = g.config /\ h.since = g.since
  /\ h.at \in {"start", "watching", "gone"}
  /\ h.cancelled \in BOOLEAN
  /\ h.fw \in {"none", "select", "ended"}
  /\ h.fw = "ended" => h.cancelled

LEMMA GlobAlike ==
  ASSUME Places, UNCHANGED mode, accepted' = accepted \/ (\E c : Upsert(c)),
         NEW g, IsGlob(g), NEW h, Alike(h, g)
  PROVE  /\ DOMAIN h = {"file", "config", "since", "at", "cancelled", "fw"}
         /\ h.at \in {"start", "watching", "gone"}
         /\ h.cancelled \in BOOLEAN
         /\ h.fw \in {"none", "select", "ended"}
         /\ h.fw = "ended" => h.cancelled
         /\ h.since \in 0 .. Len(accepted')
         /\ h.file \in DOMAIN Indexed(Config(h.since)')
         /\ h.config = Indexed(Config(h.since)')[h.file]
<1>1. /\ Len(accepted) \in Nat /\ Len(accepted) <= Len(accepted')
      /\ \A n \in 0 .. Len(accepted) : Config(n)' = Config(n)
  BY ConfigKept
<1>2. /\ g.since \in 0 .. Len(accepted)
      /\ g.file \in DOMAIN Indexed(Config(g.since)) /\ g.config = Indexed(Config(g.since))[g.file]
      /\ DOMAIN g = {"file", "config", "since", "at", "cancelled", "fw"}
  BY DEF IsGlob
<1>3. h.since = g.since /\ h.file = g.file /\ h.config = g.config
  BY DEF Alike
<1>4. Config(g.since)' = Config(g.since)
  BY <1>1, <1>2
<1>5. QED
  BY <1>1, <1>2, <1>3, <1>4 DEF Alike

\* Steps by which no watcher comes or goes.
LEMMA GlobsStay ==
  ASSUME Places, Globs, UNCHANGED mode, accepted' = accepted \/ (\E c : Upsert(c)),
         IsList(globs'), DOMAIN globs' = DOMAIN globs,
         \A i \in DOMAIN globs : globs'[i] = globs[i] \/ Alike(globs'[i], globs[i])
  PROVE  Globs' /\ Len(globs') = Len(globs)
<1>1. ASSUME NEW i \in DOMAIN globs PROVE IsGlob(globs[i]) /\ Alike(globs'[i], globs[i])
  <2>1. IsGlob(globs[i])
    BY DEF Globs
  <2>2. Alike(globs[i], globs[i])
    BY <2>1 DEF IsGlob, Alike
  <2>3. QED
    BY <2>1, <2>2
<1>2. ASSUME NEW i \in DOMAIN globs' PROVE IsGlob(globs[i])'
  <2>1. IsGlob(globs[i]) /\ Alike(globs'[i], globs[i])
    BY <1>1
  <2>2. QED
    BY <2>1, GlobAlike DEF IsGlob
<1>3. IsList(globs) /\ DOMAIN globs = 1 .. Len(globs) /\ DOMAIN globs' = 1 .. Len(globs')
      /\ Len(globs) \in Nat /\ Len(globs') \in Nat
  BY DEF Globs, IsList
<1>4. Len(globs') = Len(globs)
  BY <1>3
<1>5. QED
  BY <1>2, <1>4 DEF Globs

LEMMA MatchedStay ==
  ASSUME Matched, UNCHANGED watchers, DOMAIN globs' = DOMAIN globs,
         \A i \in DOMAIN globs : /\ globs'[i].file = globs[i].file
                                /\ globs'[i].cancelled = globs[i].cancelled
  PROVE  Matched'
BY DEF Matched

\* What the coordinator goes by stays what it was.
LEMMA AppliedKept ==
  ASSUME Places, UNCHANGED mode, accepted' = accepted \/ (\E c : Upsert(c)),
         reader'.applied = reader.applied, files' = files,
         reader.at \notin {"off", "boot"} => files = Indexed(Config(reader.applied))
  PROVE  reader.at \notin {"off", "boot"} => (files = Indexed(Config(reader.applied)))'
<1>1. reader.applied \in 0 .. Len(accepted)
  BY DEF Places
<1>2. Config(reader.applied)' = Config(reader.applied)
  <2>1. \A n \in 0 .. Len(accepted) : Config(n)' = Config(n)
    BY ConfigKept
  <2>2. QED
    BY <1>1, <2>1 DEF Config
<1>3. QED
  BY <1>2

\* Steps by which the coordinator at most hears of a change.
LEMMA GoingStay ==
  ASSUME Places, Going, UNCHANGED << mode, files, watchers >>,
         accepted' = accepted \/ (\E c : Upsert(c)),
         Len(globs') = Len(globs), Len(globs) \in Nat,
         \A i \in 1 .. Len(globs) : globs'[i].cancelled = globs[i].cancelled,
         reader'.applied = reader.applied, reader'.todo = reader.todo,
         reader'.target = reader.target,
         reader'.at = reader.at \/ (reader.at = "wait" /\ reader'.at = "get")
  PROVE  Going'
<1>1. reader.at \notin {"off", "boot"} => (files = Indexed(Config(reader.applied)))'
  <2>1. reader.at \notin {"off", "boot"} => files = Indexed(Config(reader.applied))
    BY DEF Going
  <2>2. QED
    BY <2>1, AppliedKept
<1>2. /\ reader.target \in 0 .. Len(globs)
      /\ reader.at = "send" => reader.target > 0 /\ ~globs[reader.target].cancelled
  BY DEF Going
<1>3. /\ reader'.target \in 0 .. Len(globs')
      /\ reader'.at = "send" => reader'.target > 0 /\ ~globs'[reader'.target].cancelled
  BY <1>2
<1>4. reader'.at \notin {"off", "boot"} => (files = Indexed(Config(reader.applied)))'
  BY <1>1
<1>5. QED
  BY <1>3, <1>4 DEF Going

LEMMA WatchersStay ==
  ASSUME Places, Globs, Matched, Going, UNCHANGED << mode, files, watchers, globs >>,
         accepted' = accepted \/ (\E c : Upsert(c)),
         reader'.applied = reader.applied, reader'.todo = reader.todo,
         reader'.target = reader.target,
         reader'.at = reader.at \/ (reader.at = "wait" /\ reader'.at = "get")
  PROVE  Globs' /\ Matched' /\ Going'
<1>1. IsList(globs) /\ Len(globs) \in Nat
  BY DEF Globs, IsList
<1>2. Globs'
  BY <1>1, GlobsStay
<1>3. Matched'
  BY MatchedStay
<1>4. Going'
  BY <1>1, GoingStay
<1>5. QED
  BY <1>2, <1>3, <1>4

\* A glob watcher moves: it stays the watcher of its file, and its file watcher ends
\* only when it is cancelled, since every file has a parser.
LEMMA GlobMoved ==
  ASSUME Places, Sources, Globs, NEW i \in DOMAIN globs, GlobMoves(i)
  PROVE  /\ IsList(globs') /\ DOMAIN globs' = DOMAIN globs
         /\ \A j \in DOMAIN globs : globs'[j] = globs[j] \/ Alike(globs'[j], globs[j])
         /\ \A j \in DOMAIN globs : /\ globs'[j].file = globs[j].file
                                   /\ globs'[j].cancelled = globs[j].cancelled
<1> DEFINE g == globs[i]
<1>1. IsGlob(g) /\ IsList(globs)
  BY DEF Globs
<1>2. DOMAIN globs = 1 .. Len(globs) /\ Len(globs) \in Nat
      /\ globs = [ j \in DOMAIN globs |-> globs[j] ]
  BY <1>1 DEF IsList
<1>3. /\ DOMAIN g = {"file", "config", "since", "at", "cancelled", "fw"}
      /\ g.at \in {"start", "watching", "gone"} /\ g.cancelled \in BOOLEAN
      /\ g.fw \in {"none", "select", "ended"}
      /\ g.fw = "ended" => g.cancelled
  BY <1>1 DEF IsGlob
<1>4. g.config.parser # NoParser
  <2>1. /\ g.since \in 0 .. Len(accepted) /\ g.file \in DOMAIN Indexed(Config(g.since))
        /\ g.config = Indexed(Config(g.since))[g.file]
    BY <1>1 DEF IsGlob
  <2>2. IsReadable(Config(g.since))
    BY <2>1, Readable
  <2>3. QED
    BY <2>1, <2>2, FileIs
<1> HIDE DEF g
<1>5. ASSUME NEW h, Alike(h, g), h.cancelled = g.cancelled, globs' = [globs EXCEPT ![i] = h]
      PROVE  /\ IsList(globs') /\ DOMAIN globs' = DOMAIN globs
             /\ \A j \in DOMAIN globs : globs'[j] = globs[j] \/ Alike(globs'[j], globs[j])
             /\ \A j \in DOMAIN globs : /\ globs'[j].file = globs[j].file
                                       /\ globs'[j].cancelled = globs[j].cancelled
  <2>1. /\ globs' = [ j \in 1 .. Len(globs) |-> globs'[j] ]
        /\ \A j \in 1 .. Len(globs) : globs'[j] = IF j = i THEN h ELSE globs[j]
    BY <1>2, <1>5
  <2>2. IsList(globs') /\ DOMAIN globs' = 1 .. Len(globs)
    BY <1>2, <2>1, FunctionIsList
  <2>3. QED
    BY <1>2, <1>5, <2>1, <2>2 DEF Alike, g
<1>6. CASE UNCHANGED globs
  BY <1>1, <1>6
<1>7. CASE globs' = [globs EXCEPT ![i].at = "watching", ![i].fw = "select"]
  <2> DEFINE h == [g EXCEPT !.at = "watching", !.fw = "select"]
  <2>1. Alike(h, g) /\ h.cancelled = g.cancelled
    BY <1>3 DEF Alike
  <2>2. globs' = [globs EXCEPT ![i] = h]
    BY <1>7 DEF g
  <2> HIDE DEF h
  <2>3. QED
    BY <1>5, <2>1, <2>2
<1>8. ASSUME NEW at \in {"watching", "gone"}, globs' = [globs EXCEPT ![i].at = at]
      PROVE  \E h : /\ Alike(h, g) /\ h.cancelled = g.cancelled
                    /\ globs' = [globs EXCEPT ![i] = h]
  <2> DEFINE h == [g EXCEPT !.at = at]
  <2>1. Alike(h, g) /\ h.cancelled = g.cancelled
    <3>1. /\ DOMAIN h = DOMAIN g /\ h.file = g.file /\ h.config = g.config /\ h.since = g.since
          /\ h.at = at /\ h.cancelled = g.cancelled /\ h.fw = g.fw
      BY <1>3
    <3> HIDE DEF h
    <3>2. at \in {"start", "watching", "gone"}
      OBVIOUS
    <3>3. QED
      BY <1>3, <3>1, <3>2 DEF Alike
  <2>2. globs' = [globs EXCEPT ![i] = h]
    BY <1>8 DEF g
  <2> HIDE DEF h
  <2>3. QED
    BY <2>1, <2>2
<1>9. CASE g.cancelled /\ globs' = [globs EXCEPT ![i].at = "gone",
                            ![i].fw = IF @ = "none" THEN "none" ELSE "ended"]
  <2> DEFINE h == [g EXCEPT !.at = "gone", !.fw = IF @ = "none" THEN "none" ELSE "ended"]
  <2>1. Alike(h, g) /\ h.cancelled = g.cancelled
    <3>1. /\ DOMAIN h = DOMAIN g /\ h.file = g.file /\ h.config = g.config /\ h.since = g.since
          /\ h.at = "gone" /\ h.cancelled = g.cancelled
          /\ h.fw = IF g.fw = "none" THEN "none" ELSE "ended"
      BY <1>3
    <3> HIDE DEF h
    <3>2. h.fw \in {"none", "select", "ended"} /\ h.cancelled \in BOOLEAN /\ h.cancelled
      BY <1>3, <1>9, <3>1
    <3>3. QED
      BY <3>1, <3>2 DEF Alike
  <2>2. globs' = [globs EXCEPT ![i] = h]
    BY <1>9 DEF g
  <2> HIDE DEF h
  <2>3. QED
    BY <1>5, <2>1, <2>2
<1>10. Watch(i) => UNCHANGED globs
                   \/ globs' = [globs EXCEPT ![i].at = "watching", ![i].fw = "select"]
  BY <1>4 DEF Watch, g
<1>11. CASE GlobStarts(i)
  <2>1. \/ Watch(i)
        \/ globs' = [globs EXCEPT ![i].at = "watching"]
        \/ globs' = [globs EXCEPT ![i].at = "gone"]
    BY <1>11 DEF GlobStarts
  <2>2. "watching" \in {"watching", "gone"} /\ "gone" \in {"watching", "gone"}
    OBVIOUS
  <2>3. QED
    BY <1>5, <1>6, <1>7, <1>8, <1>10, <2>1, <2>2
<1>12. CASE FileAppears(i)
  BY <1>6, <1>7, <1>10, <1>12 DEF FileAppears
<1>13. CASE GlobDone(i)
  BY <1>9, <1>13 DEF GlobDone, g
<1>14. CASE FileWatcherSplits(i)
  BY <1>6, <1>14 DEF FileWatcherSplits
<1>15. QED
  BY <1>11, <1>12, <1>13, <1>14 DEF GlobMoves

\* The positions of an entry in a list.
Positions(list, e) == { i \in 1 .. Len(list) : list[i] = e }

LEMMA PositionIs ==
  ASSUME NEW n \in Nat, NEW list, Len(list) = n, NEW e,
         \E i \in 1 .. n : list[i] = e
  PROVE  /\ Positions(list, e) # {}
         /\ Min(Positions(list, e)) \in 1 .. n /\ list[Min(Positions(list, e))] = e
<1> DEFINE I == Positions(list, e)
<1>1. /\ I # {} /\ I \in SUBSET Nat /\ I \in SUBSET (1 .. n)
      /\ \A i \in I : list[i] = e
  BY DEF Positions
<1>2. Min(I) \in I
  <2>1. \E k \in I : \A m \in I : k <= m
    BY <1>1, LeastNumber
  <2> HIDE DEF I
  <2>2. QED
    BY <2>1 DEF Min
<1>3. QED
  BY <1>1, <1>2

LEMMA AddsKeep ==
  ASSUME Places, Sources, Globs, Matched, Going, Adds,
         UNCHANGED << mode, accepted >>
  PROVE  Globs' /\ Matched' /\ Going'
<1> DEFINE D == DOMAIN files \ DOMAIN watchers
           new == SetToSeq(D)
           n == Cardinality(D)
           old == Len(globs)
           G == [ i \in DOMAIN new |->
                    [file |-> new[i], config |-> files[new[i]], since |-> reader.applied,
                     at |-> "start", cancelled |-> FALSE, fw |-> "none"] ]
           at == [ f \in D |-> SelectInSeq(new, LAMBDA g : g = f) ]
<1>1. /\ reader.at = "old" /\ reader.todo = {} /\ UNCHANGED files
      /\ reader'.at \in {"wait", "subscribe"} /\ reader'.applied = reader.applied
      /\ reader'.target = reader.target
  BY DEF Adds
<1>2. /\ files = Indexed(Config(reader.applied)) /\ reader.applied \in 0 .. Len(accepted)
      /\ DOMAIN watchers \subseteq DOMAIN files
      /\ reader.target \in 0 .. Len(globs)
  BY <1>1 DEF Going, Places
<1>3. IsFiniteSet(DOMAIN files)
  BY <1>2, Readable, IndexedIs
<1>4. /\ new \in [ 1 .. n -> D ] /\ IsInjective(new) /\ Range(new) = D /\ n \in Nat
  <2>1. IsFiniteSet(D)
    BY <1>3, FS_Difference
  <2> HIDE DEF D
  <2>2. QED
    BY <2>1, SetToSeqIs
<1>5. globs' = globs \o G
  BY DEF Adds, AddWatchers
<1>6. watchers' = [ f \in DOMAIN files \cup DOMAIN watchers |->
                      IF f \in DOMAIN watchers THEN watchers[f]
                      ELSE old + SelectInSeq(new, LAMBDA g : g = f) ]
  BY DEF Adds, AddWatchers
<1> HIDE DEF new
<1>7. /\ IsList(G) /\ Len(G) = n
      /\ \A i \in 1 .. n : G[i] = [file |-> new[i], config |-> files[new[i]],
            since |-> reader.applied, at |-> "start", cancelled |-> FALSE, fw |-> "none"]
  <2>1. DOMAIN new = 1 .. n
    BY <1>4
  <2>2. G = [ i \in 1 .. n |-> G[i] ]
    BY <2>1
  <2>3. \A i \in 1 .. n : G[i] = [file |-> new[i], config |-> files[new[i]],
            since |-> reader.applied, at |-> "start", cancelled |-> FALSE, fw |-> "none"]
    BY <2>1
  <2> HIDE DEF G, n
  <2>4. QED
    BY <1>4, <2>2, <2>3, FunctionIsList
<1> HIDE DEF G
<1>8. IsList(globs) /\ old \in Nat /\ DOMAIN globs = 1 .. old
  BY DEF Globs, IsList
<1>9. /\ IsList(globs') /\ Len(globs') = old + n /\ DOMAIN globs' = 1 .. (old + n)
      /\ \A i \in 1 .. old : globs'[i] = globs[i]
      /\ \A i \in 1 .. n : globs'[old + i] = G[i]
  <2>0. Len(globs) = old
    OBVIOUS
  <2> HIDE DEF old, n
  <2>1. /\ IsList(globs \o G) /\ Len(globs \o G) = old + n
        /\ \A i \in 1 .. old : (globs \o G)[i] = globs[i]
        /\ \A i \in 1 .. n : (globs \o G)[old + i] = G[i]
    <3>1. /\ IsList(globs \o G) /\ Len(globs \o G) = Len(globs) + Len(G)
          /\ \A i \in 1 .. Len(globs) : (globs \o G)[i] = globs[i]
          /\ \A i \in 1 .. Len(G) : (globs \o G)[Len(globs) + i] = G[i]
      BY <1>7, <1>8, Joined
    <3>2. Len(G) = n
      BY <1>7
    <3>3. QED
      BY <2>0, <3>1, <3>2
  <2>2. DOMAIN globs' = 1 .. (old + n)
    BY <1>5, <2>1 DEF IsList
  <2>3. QED
    BY <1>5, <2>1, <2>2
<1>10. /\ \A f \in D : at[f] \in 1 .. n /\ new[at[f]] = f
       /\ \A i \in 1 .. n : new[i] \in D /\ at[new[i]] = i
  <2>1. Len(new) = n
    BY <1>4
  <2>2. ASSUME NEW f \in D PROVE at[f] \in 1 .. n /\ new[at[f]] = f
    <3>1. \E i \in 1 .. n : new[i] = f
      BY <1>4 DEF Range
    <3> DEFINE I == Positions(new, f)
    <3>2. I # {} /\ Min(I) \in 1 .. n /\ new[Min(I)] = f
      <4> HIDE DEF n
      <4>1. QED
        BY <1>4, <2>1, <3>1, PositionIs
    <3>3. at[f] = Min(I)
      <4>1. SelectInSeq(new, LAMBDA g : g = f) = Min(I)
        BY <3>2 DEF SelectInSeq, Positions
      <4>2. QED
        BY <4>1
    <3>4. QED
      BY <3>2, <3>3
  <2> HIDE DEF at
  <2>3. ASSUME NEW i \in 1 .. n PROVE new[i] \in D /\ at[new[i]] = i
    <3>1. new[i] \in D
      BY <1>4
    <3>2. at[new[i]] \in 1 .. n /\ new[at[new[i]]] = new[i]
      BY <2>2, <3>1
    <3>3. QED
      BY <1>4, <3>1, <3>2 DEF IsInjective
  <2>4. QED
    BY <2>2, <2>3
<1>11. /\ DOMAIN watchers' = DOMAIN files
       /\ \A f \in DOMAIN watchers : watchers'[f] = watchers[f]
       /\ \A f \in D : watchers'[f] = old + at[f]
       /\ watchers' = [ f \in DOMAIN files |-> watchers'[f] ]
  BY <1>2, <1>6
<1> HIDE DEF at, old, n
<1>12. \A i \in 1 .. (old + n) : \/ i \in 1 .. old
                                 \/ (i - old) \in 1 .. n /\ old + (i - old) = i
  BY <1>4, <1>8
<1>13. ASSUME NEW i \in 1 .. (old + n) PROVE IsGlob(globs[i])'
  <2>1. CASE i \in 1 .. old
    <3>1. IsGlob(globs[i]) /\ globs'[i] = globs[i]
      BY <1>8, <1>9, <2>1 DEF Globs
    <3>2. \A m : Config(m)' = Config(m)
      BY DEF Config, StaticConfig
    <3>3. QED
      BY <3>1, <3>2 DEF IsGlob
  <2>2. ASSUME NEW k \in 1 .. n, i = old + k PROVE IsGlob(globs[i])'
    <3>1. globs'[i] = [file |-> new[k], config |-> files[new[k]],
            since |-> reader.applied, at |-> "start", cancelled |-> FALSE, fw |-> "none"]
      BY <1>7, <1>9, <2>2
    <3>2. new[k] \in DOMAIN files
      BY <1>10
    <3>3. /\ DOMAIN globs'[i] = {"file", "config", "since", "at", "cancelled", "fw"}
          /\ globs'[i].at = "start" /\ globs'[i].cancelled = FALSE /\ globs'[i].fw = "none"
          /\ globs'[i].since = reader.applied
          /\ globs'[i].file \in DOMAIN files /\ globs'[i].config = files[globs'[i].file]
      BY <3>1, <3>2
    <3>4. \A m : Config(m)' = Config(m)
      BY DEF Config, StaticConfig
    <3>5. QED
      BY <1>2, <3>3, <3>4 DEF IsGlob
  <2>3. QED
    BY <1>12, <2>1, <2>2
<1>14. Globs'
  BY <1>9, <1>13 DEF Globs
<1>15. Matched'
  <2>1. ASSUME NEW f \in DOMAIN watchers'
        PROVE  /\ watchers'[f] \in 1 .. (old + n)
               /\ globs'[watchers'[f]].file = f /\ ~globs'[watchers'[f]].cancelled
    <3>1. CASE f \in DOMAIN watchers
      <4>1. /\ watchers[f] \in 1 .. old
            /\ globs[watchers[f]].file = f /\ ~globs[watchers[f]].cancelled
        BY <1>8, <3>1 DEF Matched
      <4>2. QED
        BY <1>4, <1>8, <1>9, <1>11, <3>1, <4>1
    <3>2. CASE f \in D
      <4>1. at[f] \in 1 .. n /\ new[at[f]] = f /\ watchers'[f] = old + at[f]
        BY <1>10, <1>11, <3>2
      <4>2. globs'[old + at[f]].file = f /\ ~globs'[old + at[f]].cancelled
        BY <1>7, <1>9, <4>1
      <4>3. old + at[f] \in 1 .. (old + n)
        BY <1>4, <1>8, <4>1
      <4>4. QED
        BY <4>1, <4>2, <4>3
    <3>3. QED
      BY <1>11, <2>1, <3>1, <3>2
  <2>2. ASSUME NEW i \in 1 .. (old + n), ~globs'[i].cancelled
        PROVE  globs'[i].file \in DOMAIN watchers' /\ watchers'[globs'[i].file] = i
    <3>1. CASE i \in 1 .. old
      <4>1. globs'[i] = globs[i]
        BY <1>9, <3>1
      <4>2. globs[i].file \in DOMAIN watchers /\ watchers[globs[i].file] = i
        BY <1>8, <2>2, <3>1, <4>1 DEF Matched
      <4>3. QED
        BY <1>2, <1>11, <4>1, <4>2
    <3>2. ASSUME NEW k \in 1 .. n, i = old + k
          PROVE  globs'[i].file \in DOMAIN watchers' /\ watchers'[globs'[i].file] = i
      <4>1. globs'[i].file = new[k]
        BY <1>7, <1>9, <3>2
      <4>2. new[k] \in D /\ at[new[k]] = k
        BY <1>10
      <4>3. QED
        BY <1>11, <3>2, <4>1, <4>2
    <3>3. QED
      BY <1>12, <3>1, <3>2
  <2>3. watchers' = [ f \in DOMAIN watchers' |-> watchers'[f] ]
    BY <1>11
  <2>4. QED
    BY <1>9, <2>1, <2>2, <2>3 DEF Matched
<1>16. Going'
  <2>1. (files = Indexed(Config(reader.applied)))'
    BY <1>1, <1>2, AppliedKept
  <2>2. reader'.target \in 0 .. Len(globs')
    BY <1>1, <1>2, <1>4, <1>8, <1>9 DEF old
  <2>3. DOMAIN watchers' = DOMAIN files'
    BY <1>1, <1>11
  <2>4. QED
    BY <1>1, <2>1, <2>2, <2>3 DEF Going
<1>17. QED
  BY <1>14, <1>15, <1>16

LEMMA CancelsKeep ==
  ASSUME Places, Globs, Matched, Going, NEW f, Cancels(f), UNCHANGED << mode, accepted >>
  PROVE  Globs' /\ Matched' /\ Going'
<1> DEFINE i == watchers[f]
           h == [globs[i] EXCEPT !.cancelled = TRUE]
<1>1. /\ f \in reader.todo /\ f \notin DOMAIN files /\ UNCHANGED files
      /\ reader.at = "old" /\ reader'.at = "old" /\ reader'.applied = reader.applied
      /\ reader'.todo = reader.todo \ {f} /\ reader'.target = reader.target
      /\ globs' = [globs EXCEPT ![i].cancelled = TRUE]
      /\ watchers' = [ g \in DOMAIN watchers \ {f} |-> watchers[g] ]
  BY DEF Cancels, Restrict
<1>2. /\ f \in DOMAIN watchers /\ reader.todo \subseteq DOMAIN watchers
      /\ DOMAIN watchers \ reader.todo \subseteq DOMAIN files
      /\ reader.target \in 0 .. Len(globs)
  BY <1>1 DEF Going
<1>3. i \in DOMAIN globs /\ globs[i].file = f /\ IsGlob(globs[i])
  BY <1>2 DEF Matched, Globs
<1>4. /\ IsList(globs) /\ DOMAIN globs = 1 .. Len(globs) /\ Len(globs) \in Nat
      /\ globs = [ j \in DOMAIN globs |-> globs[j] ]
  BY DEF Globs, IsList
<1>5. Alike(h, globs[i]) /\ h.cancelled
  BY <1>3 DEF IsGlob, Alike
<1>6. globs' = [globs EXCEPT ![i] = h]
  BY <1>1
<1> HIDE DEF h, i
<1>7. /\ globs' = [ j \in 1 .. Len(globs) |-> globs'[j] ]
      /\ \A j \in 1 .. Len(globs) : globs'[j] = IF j = i THEN h ELSE globs[j]
  BY <1>4, <1>6
<1>8. IsList(globs') /\ DOMAIN globs' = DOMAIN globs
  BY <1>4, <1>7, FunctionIsList
<1>9. Globs' /\ Len(globs') = Len(globs)
  <2>1. \A j \in DOMAIN globs : globs'[j] = globs[j] \/ Alike(globs'[j], globs[j])
    BY <1>4, <1>5, <1>7
  <2>2. QED
    BY <1>8, <2>1, GlobsStay
<1>10. Matched'
  <2>1. ASSUME NEW g \in DOMAIN watchers'
        PROVE  /\ watchers'[g] \in DOMAIN globs'
               /\ globs'[watchers'[g]].file = g /\ ~globs'[watchers'[g]].cancelled
    <3>1. g \in DOMAIN watchers /\ g # f /\ watchers'[g] = watchers[g]
      BY <1>1
    <3>2. watchers[g] \in DOMAIN globs /\ globs[watchers[g]].file = g
          /\ ~globs[watchers[g]].cancelled
      BY <3>1 DEF Matched
    <3>3. watchers[g] # i
      BY <1>3, <3>1, <3>2
    <3>4. globs'[watchers[g]] = globs[watchers[g]]
      BY <1>4, <1>7, <3>2, <3>3
    <3>5. QED
      BY <1>8, <3>1, <3>2, <3>4
  <2>2. ASSUME NEW j \in DOMAIN globs', ~globs'[j].cancelled
        PROVE  globs'[j].file \in DOMAIN watchers' /\ watchers'[globs'[j].file] = j
    <3>1. j \in DOMAIN globs /\ j # i /\ globs'[j] = globs[j]
      BY <1>4, <1>5, <1>7, <1>8, <2>2
    <3>2. globs[j].file \in DOMAIN watchers /\ watchers[globs[j].file] = j
      BY <2>2, <3>1 DEF Matched
    <3>3. globs[j].file # f
      BY <3>1, <3>2 DEF i
    <3>4. QED
      BY <1>1, <3>1, <3>2, <3>3
  <2>3. watchers' = [ g \in DOMAIN watchers' |-> watchers'[g] ]
    BY <1>1
  <2>4. QED
    BY <2>1, <2>2, <2>3 DEF Matched
<1>11. Going'
  <2>1. (files = Indexed(Config(reader.applied)))'
    BY <1>1, AppliedKept DEF Going
  <2>2. reader'.todo \subseteq DOMAIN watchers'
        /\ DOMAIN watchers' \ reader'.todo \subseteq DOMAIN files'
    BY <1>1, <1>2
  <2>3. QED
    BY <1>1, <1>2, <1>9, <2>1, <2>2 DEF Going
<1>12. QED
  BY <1>9, <1>10, <1>11

\* The steps of the coordinator that leave the watchers alone.
LEMMA ReaderKeeps ==
  ASSUME Places, Sources, Globs, Matched, Going, UNCHANGED << mode, accepted >>,
         Gets \/ GetsNothing \/ Sends \/ Parks \/ (\E f \in reader.todo : Visits(f))
  PROVE  Globs' /\ Matched' /\ Going'
<1>1. UNCHANGED << watchers, globs >>
  BY DEF Gets, GetsNothing, Sends, Parks, Visits
<1>2. /\ IsList(globs) /\ DOMAIN globs = 1 .. Len(globs) /\ Len(globs) \in Nat
      /\ 0 \in 0 .. Len(globs)
  BY DEF Globs, IsList
<1>3. Globs'
  BY <1>1, <1>2, GlobsStay
<1>4. Matched'
  BY <1>1, MatchedStay
<1>5. reader.target \in 0 .. Len(globs)
  BY DEF Going
<1>6. CASE Gets
  <2>1. IsVersion(Current)
    BY CurrentVersion
  <2>2. files' = Indexed(Config(Current.number))
    BY <1>6, <2>1 DEF IsVersion, Gets
  <2>3. \A n : Config(n)' = Config(n)
    BY DEF Config, StaticConfig
  <2>4. reader'.applied = Current.number
    BY <1>6 DEF Gets
  <2>5. (files = Indexed(Config(reader.applied)))'
    BY <2>2, <2>3, <2>4 DEF Config
  <2>6. reader'.at = "old" /\ reader'.todo = DOMAIN watchers' /\ reader'.target = reader.target
    BY <1>1, <1>6 DEF Gets
  <2>7. Going'
    BY <1>1, <1>5, <2>5, <2>6 DEF Going
  <2>8. QED
    BY <1>3, <1>4, <2>7
<1>7. CASE GetsNothing
  <2>1. UNCHANGED files
    BY <1>7 DEF GetsNothing
  <2>2. CASE UNCHANGED reader
    BY <1>1, <2>1, <2>2, WatchersStay
  <2>3. CASE reader.at = "get" /\ reader'.at = "wait" /\ reader'.applied = reader.applied
             /\ reader'.todo = reader.todo /\ reader'.target = reader.target
    <3>1. (files = Indexed(Config(reader.applied)))'
      BY <2>1, <2>3, AppliedKept DEF Going
    <3>2. DOMAIN watchers' = DOMAIN files'
      BY <1>1, <2>1, <2>3 DEF Going
    <3>3. Going'
      BY <1>1, <1>5, <2>3, <3>1, <3>2 DEF Going
    <3>4. QED
      BY <1>3, <1>4, <3>3
  <2>4. QED
    BY <1>7, <2>2, <2>3 DEF GetsNothing
<1>8. CASE Sends
  <2>1. /\ reader.at = "send" /\ reader'.at = "old" /\ reader'.applied = reader.applied
        /\ reader'.todo = reader.todo /\ reader'.target = 0 /\ UNCHANGED files
    BY <1>8 DEF Sends
  <2>2. (files = Indexed(Config(reader.applied)))'
    BY <2>1, AppliedKept DEF Going
  <2>3. /\ reader'.todo \subseteq DOMAIN watchers'
        /\ DOMAIN watchers' \ reader'.todo \subseteq DOMAIN files'
    BY <1>1, <2>1 DEF Going
  <2>4. Going'
    BY <1>1, <1>2, <2>1, <2>2, <2>3 DEF Going
  <2>5. QED
    BY <1>3, <1>4, <2>4
<1>9. CASE Parks
  <2>1. /\ reader.at = "subscribe" /\ reader'.at = "wait" /\ reader'.applied = reader.applied
        /\ reader'.todo = reader.todo /\ reader'.target = reader.target /\ UNCHANGED files
    BY <1>9 DEF Parks
  <2>2. (files = Indexed(Config(reader.applied)))'
    BY <2>1, AppliedKept DEF Going
  <2>3. DOMAIN watchers' = DOMAIN files'
    BY <1>1, <2>1 DEF Going
  <2>4. Going'
    BY <1>1, <1>5, <2>1, <2>2, <2>3 DEF Going
  <2>5. QED
    BY <1>3, <1>4, <2>4
<1>10. ASSUME NEW f \in reader.todo, Visits(f) PROVE Going'
  <2>1. /\ f \in DOMAIN files /\ reader.at = "old" /\ reader'.applied = reader.applied
        /\ reader'.todo = reader.todo \ {f} /\ UNCHANGED files
        /\ \/ reader'.at = "old" /\ reader'.target = 0
           \/ reader'.at = "send" /\ reader'.target = watchers[f]
    BY <1>10 DEF Visits
  <2>2. (files = Indexed(Config(reader.applied)))'
    BY <2>1, AppliedKept DEF Going
  <2>3. /\ reader'.todo \subseteq DOMAIN watchers'
        /\ DOMAIN watchers' \ reader'.todo \subseteq DOMAIN files'
    BY <1>1, <2>1 DEF Going
  <2>4. f \in DOMAIN watchers
    BY <2>1 DEF Going
  <2>5. watchers[f] \in 1 .. Len(globs) /\ ~globs[watchers[f]].cancelled
    BY <1>2, <2>4 DEF Matched
  <2>6. /\ reader'.target \in 0 .. Len(globs')
        /\ reader'.at = "send" => reader'.target > 0 /\ ~globs'[reader'.target].cancelled
    BY <1>1, <1>2, <2>1, <2>5
  <2>7. reader'.at \in {"old", "send"}
    BY <2>1
  <2>8. QED
    BY <2>2, <2>3, <2>6, <2>7 DEF Going
<1>11. QED
  BY <1>3, <1>4, <1>6, <1>7, <1>8, <1>9, <1>10

LEMMA WatchersNext ==
  ASSUME Places, Channels, Casting, Sources, Globs, Matched, Going, [Next]_vars
  PROVE  Globs' /\ Matched' /\ Going'
<1>1. CASE BuildAny
  <2>1. /\ reader.at = "off" /\ reader'.at = "boot" /\ reader'.target = 0
        /\ UNCHANGED << mode, files, watchers, globs >>
        /\ accepted' = accepted \/ (\E c : Upsert(c))
    BY <1>1, BuildIs
  <2>2. IsList(globs) /\ Len(globs) \in Nat
    BY DEF Globs, IsList
  <2>3. Globs'
    BY <2>1, <2>2, GlobsStay
  <2>4. Matched'
    BY <2>1, MatchedStay
  <2>5. Going'
    BY <2>1, <2>2 DEF Going
  <2>6. QED
    BY <2>3, <2>4, <2>5
<1>2. ASSUME NEW doc \in Offered, Post(doc) PROVE Globs' /\ Matched' /\ Going'
  <2>1. /\ UNCHANGED << mode, files, watchers, globs, reader >>
        /\ accepted' = accepted \/ (\E c : Upsert(c))
    BY <1>2, PostIs DEF follower, start
  <2>2. QED
    BY <2>1, WatchersStay
<1>3. CASE Refresh
  <2>1. UNCHANGED << mode, accepted, files, watchers, globs, reader >>
    BY <1>3, RefreshIs DEF follower, repo
  <2>2. QED
    BY <2>1, WatchersStay
<1>4. ASSUME NEW c \in casts, CastStarts(c) \/ ReaderHears(c) \/ TasksHear(c)
      PROVE  Globs' /\ Matched' /\ Going'
  <2>1. /\ UNCHANGED << mode, accepted, files, watchers, globs >>
        /\ reader'.applied = reader.applied /\ reader'.todo = reader.todo
        /\ reader'.target = reader.target
        /\ reader'.at = reader.at \/ (reader.at = "wait" /\ reader'.at = "get")
    BY <1>4, CastSteps DEF repo, start
  <2>2. QED
    BY <2>1, WatchersStay
<1>5. CASE TasksStart \/ TasksUpdate
  <2>1. UNCHANGED << mode, accepted, files, watchers, globs, reader >>
    BY <1>5, TaskSteps DEF follower, repo, start
  <2>2. QED
    BY <2>1, WatchersStay
<1>6. CASE Reader
  <2>1. /\ UNCHANGED << mode, accepted >>
        /\ \/ Gets \/ GetsNothing \/ Sends \/ Adds \/ Subscribes
           \/ \E f \in reader.todo : Cancels(f) \/ Visits(f)
    BY <1>6, ReaderSteps DEF repo, start
  <2>2. QED
    BY <2>1, ReaderKeeps, AddsKeep, CancelsKeep DEF Subscribes
<1>7. ASSUME NEW i \in DOMAIN globs, GlobMoves(i) PROVE Globs' /\ Matched' /\ Going'
  <2>1. UNCHANGED << mode, accepted, files, watchers, reader >>
    BY <1>7, GlobSteps DEF repo, start
  <2>2. /\ IsList(globs') /\ DOMAIN globs' = DOMAIN globs
        /\ \A j \in DOMAIN globs : globs'[j] = globs[j] \/ Alike(globs'[j], globs[j])
        /\ \A j \in DOMAIN globs : /\ globs'[j].file = globs[j].file
                                  /\ globs'[j].cancelled = globs[j].cancelled
    BY <1>7, GlobMoved
  <2>3. Globs' /\ Len(globs') = Len(globs)
    BY <2>1, <2>2, GlobsStay
  <2>4. Matched'
    BY <2>1, <2>2, MatchedStay
  <2>5. DOMAIN globs = 1 .. Len(globs) /\ Len(globs) \in Nat
    BY DEF Globs, IsList
  <2>6. Going'
    BY <2>1, <2>2, <2>3, <2>5, GoingStay
  <2>7. QED
    BY <2>3, <2>4, <2>6
<1>8. CASE Restart
  <2>1. globs' = << >> /\ watchers' = << >> /\ reader'.at = "off" /\ reader'.target = 0
    BY <1>8 DEF Restart, Idle
  <2>2. IsList(globs') /\ DOMAIN globs' = {} /\ DOMAIN watchers' = {} /\ Len(globs') = 0
    BY <2>1 DEF IsList, Range
  <2>3. watchers' = [ f \in DOMAIN watchers' |-> watchers'[f] ]
    BY <2>1
  <2>4. QED
    BY <2>1, <2>2, <2>3 DEF Globs, Matched, Going
<1>9. CASE UNCHANGED vars
  <2>1. UNCHANGED << mode, accepted, files, watchers, globs, reader >>
    BY <1>9 DEF vars, follower, repo, start
  <2>2. QED
    BY <2>1, WatchersStay
<1>10. CASE SubscribeBoth
  <2>1. UNCHANGED << mode, accepted >> /\ Parks
    BY <1>10, BothSteps DEF repo, start
  <2>2. QED
    BY <2>1, ReaderKeeps
<1>11. QED
  BY <1>1, <1>2, <1>3, <1>4, <1>5, <1>6, <1>7, <1>8, <1>9, <1>10 DEF Next, GlobMoves

IInv == Places /\ Channels /\ Casting /\ Sources /\ Globs /\ Matched /\ Going

LEMMA Inductive == Spec => []IInv
<1>1. Init => IInv
  BY PlacesInit, SourcesInit, WatchingInit DEF IInv
<1>2. IInv /\ [Next]_vars => IInv'
  BY Types, SourcesNext, WatchersNext DEF IInv
<1>3. QED
  BY <1>1, <1>2, PTL DEF Spec

-----------------------------------------------------------------------------
(* Why a process stops                                                     *)

\* The configurations it was built with, is about to use and watches files by.
Used == {tasks.initial, Current.number} \cup { globs[i].since : i \in DOMAIN globs }

LEMMA UsedIs ==
  ASSUME Places, Globs
  PROVE  Used \subseteq 0 .. Len(accepted)
<1>1. tasks.initial \in 0 .. Len(accepted)
  BY DEF Places
<1>2. Current.number \in 0 .. Len(accepted)
  BY CurrentIs DEF Places
<1>3. \A i \in DOMAIN globs : globs[i].since \in 0 .. Len(accepted)
  BY DEF Globs, IsGlob
<1>4. QED
  BY <1>1, <1>2, <1>3 DEF Used

\* A glob watcher or a file watcher stops the process only on an ill file.
LEMMA GlobPanics ==
  ASSUME Places, Sources, Globs, NEW i \in DOMAIN globs, GlobMoves(i),
         crash = "no", crash' = "config"
  PROVE  UNCHANGED globs /\ Ill(Config(globs[i].since))
<1> DEFINE g == globs[i]
           c == Config(g.since)
<1>1. /\ g.since \in 0 .. Len(accepted) /\ g.file \in DOMAIN Indexed(c)
      /\ g.config = Indexed(c)[g.file]
  BY DEF Globs, IsGlob
<1>2. IsReadable(c)
  BY <1>1, Readable
<1>3. /\ g.file \in Read(c)
      /\ g.config.readInterval = "0s" \/ g.config.parser.delimiter = "nil" => IllFile(c, g.file)
  BY <1>1, <1>2, FileIs
<1>4. ~Works /\ ~Fails
  BY DEF Works, Fails, fate
<1>5. Watch(i) => UNCHANGED globs /\ g.config.readInterval = "0s"
  BY <1>4 DEF Watch
<1>6. UNCHANGED globs /\ (g.config.readInterval = "0s" \/ g.config.parser.delimiter = "nil")
  <2>1. CASE GlobStarts(i)
    BY <1>4, <1>5, <2>1 DEF GlobStarts
  <2>2. CASE FileAppears(i)
    BY <1>5, <2>2 DEF FileAppears
  <2>3. CASE GlobDone(i)
    BY <1>4, <2>3 DEF GlobDone
  <2>4. CASE FileWatcherSplits(i)
    BY <2>4 DEF FileWatcherSplits
  <2>5. QED
    BY <2>1, <2>2, <2>3, <2>4 DEF GlobMoves
<1> HIDE DEF c
<1>7. \E f \in Read(c) : IllFile(c, f)
  BY <1>3, <1>6
<1>8. Ill(c)
  BY <1>7 DEF Ill
<1>9. QED
  BY <1>6, <1>8 DEF c

\* The coordinator stops the process only on file types that do not go together.
LEMMA ReaderPanics ==
  ASSUME Places, Sources, Reader, crash = "no", crash' = "config"
  PROVE  UNCHANGED << mode, row, static, cached, tasks, globs, accepted >>
         /\ Ill(Config(Current.number))
<1> DEFINE c == Config(Current.number)
<1>1. /\ UNCHANGED << mode, row, static, cached, accepted, tasks >>
      /\ \/ Gets \/ GetsNothing \/ Sends \/ Adds \/ Subscribes
         \/ \E f \in reader.todo : Cancels(f) \/ Visits(f)
  BY ReaderSteps DEF repo, start
<1>2. ~Works /\ ~Fails /\ ~FailsUnnoticed /\ ~Races
  BY DEF Works, Fails, FailsUnnoticed, Races, fate
<1>3. GetsNothing
  BY <1>1, <1>2 DEF Gets, Sends, Adds, Subscribes, Parks, Cancels, Visits
<1>4. UNCHANGED globs /\ \E f \in DOMAIN Current.files : Current.files[f].conflict
  BY <1>2, <1>3 DEF GetsNothing
<1>5. IsVersion(Current)
  BY CurrentVersion
<1>6. Current.number \in 0 .. Len(accepted) /\ Current.files = Indexed(c)
  BY <1>5 DEF IsVersion
<1>7. IsReadable(c)
  BY <1>6, Readable
<1> HIDE DEF c
<1>8. PICK f \in DOMAIN Indexed(c) : Indexed(c)[f].conflict
  BY <1>4, <1>6
<1>9. f \in Read(c) /\ IllFile(c, f)
  BY <1>7, <1>8, FileIs
<1>10. Ill(c)
  BY <1>9 DEF Ill
<1>11. QED
  BY <1>1, <1>4, <1>10 DEF c

\* The three parts of StopsHaveCause, and what the last one needs.
StopsOnIll == crash = "config" => \E n \in Used : Ill(Config(n))
StopsOnGet == crash = "get" => mode = "local" /\ reader.at = "boot" /\ faults > 0
StopsOnRace ==
  crash = "race" =>
    \/ /\ reader.at = "old" /\ Contains(subs, "reader")
       /\ \E i \in DOMAIN globs : globs[i].at # "gone" /\ globs[i].fw = "none"
    \/ Subscribing /\ casts # {}
Reloading == reader.at \in {"old", "send"} /\ reader.todo # {} => Contains(subs, "reader")

LEMMA StopsStay ==
  ASSUME Places, Globs, StopsOnIll, crash = "config",
         UNCHANGED << mode, tasks, globs >>, Current' = Current,
         accepted' = accepted \/ (\E c : Upsert(c))
  PROVE  StopsOnIll'
<1>1. PICK n \in Used : Ill(Config(n))
  BY DEF StopsOnIll, Used
<1>2. n \in 0 .. Len(accepted)
  BY <1>1, UsedIs
<1>3. Config(n)' = Config(n)
  BY <1>2, ConfigKept
<1>4. n \in Used'
  BY DEF Used
<1>5. Ill(Config(n))'
  BY <1>1, <1>3
<1>6. QED
  BY <1>4, <1>5 DEF StopsOnIll, Used

LEMMA StopsOnIllNext ==
  ASSUME IInv, StopsOnIll, [Next]_vars
  PROVE  StopsOnIll'
<1> USE DEF IInv
<1>1. SUFFICES ASSUME crash' = "config" PROVE StopsOnIll'
  BY DEF StopsOnIll
<1>2. crash \in {"no", "config", "race", "get"}
  BY DEF Places
<1>3. ASSUME NEW n, n \in Used', UNCHANGED << mode, accepted >>, Ill(Config(n))
      PROVE  StopsOnIll'
  <2>1. Config(n)' = Config(n)
    BY <1>3 DEF Config, StaticConfig
  <2>2. Ill(Config(n))'
    BY <1>3, <2>1
  <2>3. QED
    BY <1>3, <2>2 DEF StopsOnIll, Used
<1>4. CASE UNCHANGED vars
  <2>1. UNCHANGED << mode, row, static, cached, accepted, tasks, globs, crash >>
    BY <1>4 DEF vars, repo, start, follower, fate
  <2>2. Current' = Current
    BY <2>1 DEF Current
  <2>3. QED
    BY <1>1, <2>1, <2>2, StopsStay
<1>5. ASSUME NEW doc \in Offered, Post(doc) PROVE StopsOnIll'
  <2>1. /\ UNCHANGED << mode, static, cached, globs, tasks, crash >>
        /\ accepted' = accepted \/ (\E c : Upsert(c))
    BY <1>5, PostIs DEF start, follower, fate
  <2>2. mode = "forwarder"
    BY <1>1, <1>5, <2>1 DEF Post, Up
  <2>3. Current' = Current
    BY <2>1, <2>2 DEF Current
  <2>4. QED
    BY <1>1, <2>1, <2>3, StopsStay
<1>6. CASE BuildAny
  BY <1>1, <1>6, BuildIs
<1>7. CASE Restart
  BY <1>1, <1>7 DEF Restart
<1>8. CASE Refresh
  <2>1. /\ Up /\ mode = "forwarder" /\ cached' = row /\ UNCHANGED << mode, row, accepted >>
        /\ Works \/ (Panics /\ row.cfg.forwarder.configPollInterval = "0s")
    BY <1>8, RefreshIs DEF repo
  <2>2. row.cfg.forwarder.configPollInterval = "0s"
    BY <1>1, <2>1 DEF Up, Works, fate
  <2>3. row.cfg = Config(row.number)
    BY DEF Sources, IsVersion
  <2>4. Ill(Config(row.number))
    BY <2>2, <2>3 DEF Ill
  <2>5. Current' = row
    BY <2>1 DEF Current
  <2>6. row.number \in Used'
    BY <2>5 DEF Used
  <2>7. PICK n : n = row.number
    OBVIOUS
  <2>8. QED
    BY <1>3, <2>1, <2>4, <2>6, <2>7
<1>9. ASSUME NEW c \in casts, CastStarts(c) \/ ReaderHears(c) \/ TasksHear(c)
      PROVE  FALSE
  BY <1>1, <1>9, CastSteps DEF Up, Works, Races, fate
<1>10. CASE TasksStart \/ TasksUpdate
  <2>1. /\ Up /\ UNCHANGED << mode, row, static, cached, accepted, globs >>
        /\ tasks'.initial = tasks.initial
        /\ Works \/ Fails \/ (Panics /\ (BadTask(Config(tasks.initial)) \/ BadTask(Current.cfg)))
    BY <1>10, TaskSteps DEF repo, start, follower
  <2>2. BadTask(Config(tasks.initial)) \/ BadTask(Current.cfg)
    BY <1>1, <2>1 DEF Up, Works, Fails, fate
  <2>3. Current' = Current
    BY <2>1 DEF Current
  <2>4. Current.cfg = Config(Current.number)
    BY CurrentVersion DEF IsVersion
  <2>5. PICK n \in {tasks.initial, Current.number} : Ill(Config(n))
    BY <2>2, <2>4 DEF Ill
  <2>6. n \in Used'
    BY <2>1, <2>3 DEF Used
  <2>7. QED
    BY <1>3, <2>1, <2>5, <2>6
<1>11. CASE Reader
  <2>1. crash = "no"
    BY <1>11, ReaderSteps DEF Up
  <2>2. /\ UNCHANGED << mode, row, static, cached, tasks, globs, accepted >>
        /\ Ill(Config(Current.number))
    BY <1>1, <1>11, <2>1, ReaderPanics
  <2>3. Current' = Current
    BY <2>2 DEF Current
  <2>4. PICK n \in Used : Ill(Config(n)) /\ n = Current.number
    BY <2>2 DEF Used
  <2>5. n \in Used'
    BY <2>3, <2>4 DEF Used
  <2>6. QED
    BY <1>3, <2>2, <2>4, <2>5
<1>12. ASSUME NEW i \in DOMAIN globs, GlobMoves(i) PROVE StopsOnIll'
  <2>1. /\ Up /\ UNCHANGED << mode, accepted, tasks >>
    BY <1>12, GlobSteps DEF repo, start
  <2>2. UNCHANGED globs /\ Ill(Config(globs[i].since))
    BY <1>1, <1>12, <2>1, GlobPanics DEF Up
  <2>3. PICK n \in Used : Ill(Config(n)) /\ n = globs[i].since
    BY <2>2 DEF Used
  <2>4. n \in Used'
    BY <2>2, <2>3 DEF Used
  <2>5. QED
    BY <1>3, <2>1, <2>3, <2>4
<1>13. CASE SubscribeBoth
  BY <1>1, <1>13, BothSteps DEF Up, Parks, Works, fate
<1>14. QED
  BY <1>4, <1>5, <1>6, <1>7, <1>8, <1>9, <1>10, <1>11, <1>12, <1>13 DEF Next, GlobMoves

\* Of a process that has stopped, only what it left at the recipient changes.
LEMMA StoppedSteps ==
  ASSUME Places, [Next]_vars, crash # "no", crash' # "no"
  PROVE  /\ UNCHANGED << start, subs, casts, follower, tasks, fate >>
         /\ accepted' = accepted \/ (\E c : Upsert(c))
         /\ mode = "forwarder" \/ UNCHANGED vars
<1>1. ~Up
  BY DEF Up
<1>2. CASE UNCHANGED vars
  BY <1>2 DEF vars, repo
<1>3. ASSUME NEW doc \in Offered, Post(doc)
      PROVE  /\ UNCHANGED << start, subs, casts, follower, tasks, fate >>
             /\ accepted' = accepted \/ (\E c : Upsert(c))
             /\ mode = "forwarder"
  <2>1. mode = "forwarder"
    BY <1>1, <1>3 DEF Post
  <2>2. QED
    BY <1>3, <2>1, PostIs
<1>4. ASSUME NEW c \in casts, CastStarts(c) \/ ReaderHears(c) \/ TasksHear(c) PROVE FALSE
  BY <1>1, <1>4 DEF CastStarts, ReaderHears, TasksHear
<1>5. ASSUME NEW i \in DOMAIN globs, GlobMoves(i) PROVE FALSE
  BY <1>1, <1>5, GlobSteps
<1>6. ~BuildAny /\ ~Restart /\ ~Refresh /\ ~TasksStart /\ ~TasksUpdate /\ ~Reader /\ ~SubscribeBoth
  BY <1>1, BuildIs, ReaderSteps DEF Restart, Refresh, TasksStart, TasksUpdate, SubscribeBoth
<1>7. QED
  BY <1>2, <1>3, <1>4, <1>5, <1>6 DEF Next, GlobMoves

LEMMA StopsOnGetNext ==
  ASSUME IInv, StopsOnGet, [Next]_vars
  PROVE  StopsOnGet'
<1>0. /\ Places /\ Channels /\ Casting /\ faults \in Nat
      /\ crash \in {"no", "config", "race", "get"}
  BY ConfigChangesAssumption DEF IInv, Places
<1>1. SUFFICES ASSUME crash' = "get" PROVE StopsOnGet'
  BY DEF StopsOnGet
<1>2. CASE crash # "no"
  BY <1>0, <1>1, <1>2, StoppedSteps DEF StopsOnGet, start, fate, follower
<1>3. CASE crash = "no"
  <2>1. ~Works /\ ~Fails /\ ~Panics /\ ~Races
    BY <1>1, <1>3 DEF Works, Fails, Panics, Races, fate
  <2>2. CASE Reader
    <3>1. /\ UNCHANGED << repo, start >>
          /\ \/ Gets \/ GetsNothing \/ Sends \/ Adds \/ Subscribes
             \/ \E f \in reader.todo : Cancels(f) \/ Visits(f)
      BY <1>0, <2>2, ReaderSteps
    <3>2. GetsNothing
      BY <2>1, <3>1 DEF Gets, Sends, Adds, Subscribes, Parks, Cancels, Visits
    <3>3. reader.at = "boot" /\ mode = "local" /\ FailsUnnoticed /\ UNCHANGED reader
      BY <2>1, <3>2 DEF GetsNothing
    <3>4. faults' > 0
      BY <1>0, <3>3 DEF FailsUnnoticed
    <3>5. QED
      BY <3>1, <3>3, <3>4 DEF StopsOnGet, start
  <2>3. ASSUME NEW c \in casts, CastStarts(c) \/ ReaderHears(c) \/ TasksHear(c) PROVE FALSE
    BY <1>0, <2>1, <2>3, CastSteps
  <2>4. ASSUME NEW i \in DOMAIN globs, GlobMoves(i) PROVE FALSE
    BY <2>1, <2>4, GlobSteps
  <2>5. ~TasksStart /\ ~TasksUpdate /\ ~Refresh /\ ~BuildAny /\ ~SubscribeBoth /\ ~Restart
    BY <1>0, <1>1, <1>3, <2>1, TaskSteps, RefreshIs, BuildIs, BothSteps DEF Parks, Restart
  <2>6. ASSUME NEW doc \in Offered, Post(doc) PROVE FALSE
    BY <1>0, <1>1, <1>3, <2>6, PostIs DEF fate
  <2>7. ~(UNCHANGED vars)
    BY <1>1, <1>3 DEF vars, fate
  <2>8. QED
    BY <2>2, <2>3, <2>4, <2>5, <2>6, <2>7 DEF Next, GlobMoves
<1>4. QED
  BY <1>2, <1>3

LEMMA StopsOnRaceNext ==
  ASSUME IInv, StopsOnRace, Reloading, [Next]_vars
  PROVE  StopsOnRace'
<1>0. /\ Places /\ Channels /\ Casting /\ Going /\ Matched
      /\ crash \in {"no", "config", "race", "get"}
  BY DEF IInv, Places
<1>1. SUFFICES ASSUME crash' = "race" PROVE StopsOnRace'
  BY DEF StopsOnRace
<1>2. ASSUME Subscribing, UNCHANGED << mode, reader, tasks >>,
             accepted' = accepted \/ (\E c : Upsert(c))
      PROVE  Subscribing'
  <2>1. tasks.initial \in 0 .. Len(accepted)
    BY <1>0 DEF Places
  <2>2. Config(tasks.initial)' = Config(tasks.initial)
    <3>1. PICK n : n = tasks.initial
      OBVIOUS
    <3>2. Config(n)' = Config(n)
      BY <1>0, <1>2, <2>1, <3>1, ConfigKept
    <3>3. tasks.initial' = n
      BY <1>2, <3>1
    <3>4. QED
      BY <3>1, <3>2, <3>3 DEF Config
  <2>3. BadTask(Config(tasks.initial))' <=> BadTask(Config(tasks.initial))
    BY <2>2 DEF BadTask
  <2>4. QED
    BY <1>2, <2>3 DEF Subscribing, TasksSubscribe
<1>3. CASE crash # "no"
  <2>1. /\ UNCHANGED << mode, subs, casts, reader, globs, tasks, crash >>
        /\ accepted' = accepted \/ (\E c : Upsert(c))
    BY <1>0, <1>1, <1>3, StoppedSteps DEF start, fate, follower
  <2>2. Subscribing => Subscribing'
    BY <1>2, <2>1
  <2>3. QED
    BY <1>1, <2>1, <2>2 DEF StopsOnRace
<1>4. CASE crash = "no"
  <2>1. ~Works /\ ~Fails /\ ~Panics /\ ~FailsUnnoticed
    BY <1>1, <1>4 DEF Works, Fails, Panics, FailsUnnoticed, fate
  <2>2. CASE Reader
    <3>1. \/ Gets \/ GetsNothing \/ Sends \/ Adds \/ Subscribes
          \/ \E f \in reader.todo : Cancels(f) \/ Visits(f)
      BY <1>0, <2>2, ReaderSteps
    <3>2. PICK f \in reader.todo : Visits(f)
      BY <2>1, <3>1 DEF Gets, GetsNothing, Sends, Adds, Subscribes, Parks, Cancels
    <3>3. /\ reader.at = "old" /\ reader'.at = "old" /\ UNCHANGED << globs, subs >>
          /\ globs[watchers[f]].at # "gone" /\ globs[watchers[f]].fw = "none"
      BY <2>1, <3>2 DEF Visits
    <3>4. Contains(subs, "reader")
      BY <3>2, <3>3 DEF Reloading
    <3>5. watchers[f] \in DOMAIN globs
      BY <1>0, <3>3 DEF Going, Matched
    <3>6. QED
      BY <3>3, <3>4, <3>5 DEF StopsOnRace
  <2>3. ASSUME NEW c \in casts, CastStarts(c) \/ ReaderHears(c) \/ TasksHear(c)
        PROVE  StopsOnRace'
    <3>1. /\ UNCHANGED << mode, accepted >>
          /\ Subscribing /\ UNCHANGED << casts, reader, tasks >>
      BY <1>0, <2>1, <2>3, CastSteps DEF repo, start
    <3>2. QED
      BY <1>2, <3>1 DEF StopsOnRace
  <2>4. ASSUME NEW i \in DOMAIN globs, GlobMoves(i) PROVE FALSE
    BY <2>1, <2>4, GlobSteps
  <2>5. ~TasksStart /\ ~TasksUpdate /\ ~Refresh /\ ~BuildAny /\ ~SubscribeBoth /\ ~Restart
    BY <1>0, <1>1, <1>4, <2>1, TaskSteps, RefreshIs, BuildIs, BothSteps DEF Parks, Restart
  <2>6. ASSUME NEW doc \in Offered, Post(doc) PROVE FALSE
    BY <1>0, <1>1, <1>4, <2>6, PostIs DEF fate
  <2>7. ~(UNCHANGED vars)
    BY <1>1, <1>4 DEF vars, fate
  <2>8. QED
    BY <2>2, <2>3, <2>4, <2>5, <2>6, <2>7 DEF Next, GlobMoves
<1>5. QED
  BY <1>3, <1>4

\* What the coordinator goes over after a change it has heard of by its channel.
LEMMA ReloadingNext ==
  ASSUME IInv, Reloading, [Next]_vars
  PROVE  Reloading'
<1>0. Places /\ Channels /\ Casting /\ Going
  BY DEF IInv
<1>1. ASSUME reader'.at = reader.at \/ reader'.at \notin {"old", "send"},
             reader'.todo = reader.todo, Contains(subs, "reader") => Contains(subs', "reader")
      PROVE  Reloading'
  BY <1>1 DEF Reloading
<1>2. ASSUME UNCHANGED << reader, subs >> PROVE Reloading'
  BY <1>2 DEF Reloading
<1>3. CASE BuildAny \/ Restart \/ SubscribeBoth
  <2>1. reader'.at \in {"boot", "off", "wait"}
    BY <1>0, <1>3, BuildIs, BothSteps DEF Restart, Idle, Parks
  <2>2. QED
    BY <2>1 DEF Reloading
<1>4. CASE Refresh \/ (UNCHANGED vars) \/ (\E doc \in Offered : Post(doc))
  BY <1>0, <1>2, <1>4, RefreshIs, PostIs DEF vars, follower
<1>5. ASSUME NEW i \in DOMAIN globs, GlobMoves(i) PROVE Reloading'
  BY <1>2, <1>5, GlobSteps
<1>6. ASSUME NEW c \in casts, CastStarts(c) \/ ReaderHears(c) \/ TasksHear(c) PROVE Reloading'
  <2>1. /\ UNCHANGED subs /\ reader'.todo = reader.todo
        /\ reader'.at = reader.at \/ (reader.at = "wait" /\ reader'.at = "get")
    BY <1>0, <1>6, CastSteps
  <2>2. QED
    BY <1>1, <2>1
<1>7. CASE TasksStart \/ TasksUpdate
  <2>1. UNCHANGED reader
    BY <1>0, <1>7, TaskSteps DEF follower
  <2>2. Contains(subs, "reader") => Contains(subs', "reader")
    <3>1. CASE subs' = subs
      BY <3>1
    <3>2. CASE tasks.at = "boot" /\ subs' = Append(subs, "tasks")
      <4>1. subs \in Orders /\ ~Contains(subs, "tasks")
        BY <1>0, <3>2 DEF Channels
      <4>2. QED
        BY <3>2, <4>1, Subscribed
    <3>3. QED
      BY <1>0, <1>7, <3>1, <3>2, TaskSteps
  <2>3. QED
    BY <1>1, <2>1, <2>2
<1>8. CASE Reader
  <2>1. \/ Gets \/ GetsNothing \/ Sends \/ Adds \/ Subscribes
        \/ \E f \in reader.todo : Cancels(f) \/ Visits(f)
    BY <1>0, <1>8, ReaderSteps
  <2>2. CASE Gets
    <3>1. /\ reader'.todo = DOMAIN watchers /\ UNCHANGED subs
          /\ reader.at \in {"boot", "get"}
      BY <2>2 DEF Gets
    <3>2. reader.at = "boot" => DOMAIN watchers = {}
      BY <1>0 DEF Going
    <3>3. reader.at = "get" => Contains(subs, "reader")
      BY <1>0 DEF Channels
    <3>4. QED
      BY <3>1, <3>2, <3>3 DEF Reloading
  <2>3. CASE GetsNothing
    BY <1>1, <1>2, <2>3 DEF GetsNothing
  <2>4. CASE Adds \/ Subscribes
    <3>1. reader'.at \in {"wait", "subscribe"}
      BY <2>4 DEF Adds, Subscribes, Parks
    <3>2. QED
      BY <3>1 DEF Reloading
  <2>5. CASE Sends \/ (\E f \in reader.todo : Cancels(f) \/ Visits(f))
    <3>1. /\ reader.at \in {"old", "send"} /\ reader'.todo \subseteq reader.todo
          /\ UNCHANGED subs
      BY <2>5 DEF Sends, Cancels, Visits
    <3>2. QED
      BY <3>1 DEF Reloading
  <2>6. QED
    BY <2>1, <2>2, <2>3, <2>4, <2>5
<1>9. QED
  BY <1>3, <1>4, <1>5, <1>6, <1>7, <1>8 DEF Next, GlobMoves

-----------------------------------------------------------------------------
(* The theorems                                                            *)

LEMMA OrderIs ==
  ASSUME NEW list \in Orders
  PROVE  /\ Range(list) \subseteq {"reader", "tasks"}
         /\ Len(list) = Cardinality(Range(list)) /\ Len(list) \in 0 .. 2
<1>1. Cardinality({}) = 0 /\ Cardinality({"tasks"}) = 1 /\ Cardinality({"reader"}) = 1
  BY FS_EmptySet, FS_Singleton
<1>2. Cardinality({"reader", "tasks"}) = 2
  <2>1. {"reader", "tasks"} = {"reader"} \cup {"tasks"}
    OBVIOUS
  <2>2. IsFiniteSet({"reader"}) /\ "tasks" \notin {"reader"}
    BY FS_Singleton
  <2>3. QED
    BY <1>1, <2>1, <2>2, FS_AddElement
<1>3. /\ Range(<< >>) = {} /\ Range(<< "tasks" >>) = {"tasks"}
      /\ Range(<< "reader" >>) = {"reader"}
  BY DEF Range
<1>4. Range(<< "tasks", "reader" >>) = {"reader", "tasks"}
      /\ Range(<< "reader", "tasks" >>) = {"reader", "tasks"}
  BY DEF Range
<1>5. CASE list = << >>
  <2>1. Len(list) = 0 /\ Range(list) = {}
    BY <1>3, <1>5
  <2>2. QED
    BY <1>1, <2>1
<1>6. CASE list = << "tasks" >>
  <2>1. Len(list) = 1 /\ Range(list) = {"tasks"}
    BY <1>3, <1>6
  <2>2. QED
    BY <1>1, <2>1
<1>7. CASE list = << "reader" >>
  BY <1>1, <1>3, <1>7
<1>8. CASE list \in {<< "tasks", "reader" >>, << "reader", "tasks" >>}
  <2>1. Len(list) = 2 /\ Range(list) = {"reader", "tasks"}
    BY <1>4, <1>8
  <2>2. QED
    BY <1>2, <2>1
<1>9. QED
  BY <1>5, <1>6, <1>7, <1>8 DEF Orders

\* Every variable keeps its type, for any documents that users post.
THEOREM TypeCorrect == Spec => []TypeOK
<1>1. IInv => TypeOK
  <2> SUFFICES ASSUME IInv PROVE TypeOK
    OBVIOUS
  <2>1. Places /\ Channels /\ Casting /\ Globs /\ Matched /\ Going
    BY DEF IInv
  <2>2. Range(subs) \subseteq {"reader", "tasks"} /\ Len(subs) = Cardinality(Range(subs))
    BY <2>1, OrderIs DEF Channels
  <2>3. \A c \in casts : c.number \in 1 .. row.number /\ c.at <= c.last /\ c.last <= Len(subs)
    BY <2>1 DEF Casting
  <2>4. Range(watchers) \subseteq DOMAIN globs
    BY <2>1 DEF Matched, Range
  <2>5. \A i \in DOMAIN globs :
          /\ globs[i].at \in {"start", "watching", "gone"}
          /\ globs[i].cancelled \in BOOLEAN
          /\ globs[i].fw \in {"none", "select", "ended"}
    BY <2>1 DEF Globs, IsGlob
  <2>6. reader.target \in 0 .. Len(globs)
    BY <2>1 DEF Going
  <2>7. QED
    BY <2>1, <2>2, <2>3, <2>4, <2>5, <2>6 DEF TypeOK, Places
<1>2. QED
  BY <1>1, Inductive, PTL

\* What is saved is what is read: for every document the GUI can post, what
\* FromJSON made of it is what FromJSON makes of the row that ToJSON wrote of it,
\* and, for a forwarder, of the second row the recipient writes of the first.
THEOREM SavedRead == Spec => []SavedIsRead
<1>1. IInv => SavedIsRead
  BY DEF IInv, Sources
<1>2. QED
  BY <1>1, Inductive, PTL

\* The event repository is given the plugin settings of the static configuration
\* at every start but one: the start that fills an empty Config table, where
\* ToJSON has already taken them out of the maps it shares with the static one.
THEOREM SettingsReach == Spec => []SettingsReachRepository
<1>1. IInv => SettingsReachRepository
  BY DEF IInv, Sources
<1>2. QED
  BY <1>1, Inductive, PTL

\* Whenever reloadFileWatchers has ended, the watchers that are not cancelled are
\* one for each file of the configuration that was read, and no others.
THEOREM WatchersFollow == Spec => []WatchersFollowConfig
<1>1. IInv => WatchersFollowConfig
  <2> SUFFICES ASSUME IInv, Settled PROVE WatchersFollowConfig
    BY DEF WatchersFollowConfig
  <2> DEFINE live == { j \in DOMAIN globs : ~globs[j].cancelled }
             c == Config(reader.applied)
  <2>1. Places /\ Sources /\ Matched /\ Going
    BY DEF IInv
  <2>2. reader.at \in {"subscribe", "wait", "get"}
    BY DEF Settled
  <2>3. DOMAIN watchers = DOMAIN Indexed(c)
    BY <2>1, <2>2 DEF Going
  <2>4. IsReadable(c)
    BY <2>1, Readable DEF Places
  <2>5. DOMAIN watchers = Read(c)
    BY <2>3, <2>4, IndexedIs
  <2> HIDE DEF c
  <2>6. /\ \A f \in DOMAIN watchers : watchers[f] \in live /\ globs[watchers[f]].file = f
        /\ \A i \in live : globs[i].file \in DOMAIN watchers /\ watchers[globs[i].file] = i
    BY <2>1 DEF Matched
  <2>7. { globs[i].file : i \in live } = Read(c)
    BY <2>5, <2>6
  <2>8. \A i, j \in DOMAIN globs :
          ~globs[i].cancelled /\ ~globs[j].cancelled /\ globs[i].file = globs[j].file => i = j
    BY <2>6
  <2>9. QED
    BY <2>7, <2>8 DEF WatchersFollowConfig, c
<1>2. QED
  BY <1>1, Inductive, PTL

\* UpdateConfig only ever waits for a file watcher that still selects: the watcher
\* in the map is not cancelled, and no file watcher ends for want of a parser.
THEOREM SendReceived == Spec => []SendIsReceived
<1>1. IInv => SendIsReceived
  <2> SUFFICES ASSUME IInv, reader.at = "send", globs[reader.target].fw = "ended" PROVE FALSE
    BY DEF SendIsReceived
  <2>1. Globs /\ Going
    BY DEF IInv
  <2>2. reader.target \in 1 .. Len(globs) /\ ~globs[reader.target].cancelled
    BY <2>1 DEF Going
  <2>3. IsGlob(globs[reader.target])
    BY <2>1, <2>2 DEF Globs, IsList
  <2>4. QED
    BY <2>2, <2>3 DEF IsGlob
<1>2. QED
  BY <1>1, Inductive, PTL

\* A process that stops itself has one of four causes.  If it is a configuration, it
\* is one nothing can run on: all that mergeConfigs makes of any lists of file
\* types, a parser that is lost, a conflict, an interval of 0 or a delimiter that does
\* not compile, goes back to one of the few combinations that IllFile names.
THEOREM EveryStopHasCause == Spec => []StopsHaveCause
<1> DEFINE Causes == StopsOnIll /\ StopsOnGet /\ StopsOnRace /\ Reloading
<1>1. Init => Causes
  BY DEF Init, StopsOnIll, StopsOnGet, StopsOnRace, Reloading, Idle
<1>2. IInv /\ Causes /\ [Next]_vars => Causes'
  BY StopsOnIllNext, StopsOnGetNext, StopsOnRaceNext, ReloadingNext
<1>3. Causes => StopsHaveCause
  BY DEF StopsHaveCause, StopsOnIll, StopsOnGet, StopsOnRace, Used
<1>4. QED
  BY <1>1, <1>2, <1>3, Inductive, PTL DEF Spec

=============================================================================
