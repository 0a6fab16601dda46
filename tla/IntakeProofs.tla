---------------------------- MODULE IntakeProofs ----------------------------
(***************************************************************************)
(* Proofs about Intake: what the steps of main compute from a torrent and  *)
(* from the tracker's answer, for every torrent, every answer and every    *)
(* parser that keeps ParserAssumption.                                     *)
(***************************************************************************)
EXTENDS Intake, StartupProofs, WellFoundedInduction, SequenceTheorems

USE SizeAssumption

-----------------------------------------------------------------------------
(* Loops.                                                                  *)

LEMMA LeastNumber ==
  ASSUME NEW T \in SUBSET Nat, T # {}
  PROVE  \E m \in T : \A n \in T : m <= n
<1> DEFINE Less == OpToRel(<, Nat)
<1>1. PICK m \in T : \A n \in T : <<n, m>> \notin Less
  <2> HIDE DEF Less
  <2>1. IsWellFoundedOn(Less, Nat)
    BY NatLessThanWellFounded, Zenon DEF Less
  <2> QED
    BY <2>1, WFMin
<1>2. \A n \in T : ~ (n < m)
  BY <1>1, Zenon DEF OpToRel
<1> QED
  BY <1>2

\* A function given by its first value and a step is there: the prover does
\* not take a recursive definition for one.
Computes(f, m, S, base, turn) ==
  /\ f \in [0 .. m -> S]
  /\ f[0] = base
  /\ \A k \in 1 .. m : f[k] = turn[k][f[k - 1]]

LEMMA Recurrence ==
  ASSUME NEW m \in Nat, NEW S, NEW base \in S, NEW turn \in [1 .. m -> [S -> S]]
  PROVE  \E f : Computes(f, m, S, base, turn)
<1> DEFINE T == {l \in 0 .. m : ~ \E f : Computes(f, l, S, base, turn)}
<1>1. SUFFICES ASSUME T # {} PROVE FALSE
  <2>1. ASSUME T = {} PROVE \E f : Computes(f, m, S, base, turn)
    <3>1. m \in 0 .. m
      OBVIOUS
    <3> QED
      BY <2>1, <3>1
  <2> QED
    BY <2>1
<1>2. PICK l \in T : \A n \in T : l <= n
  <2>1. T \in SUBSET Nat
    OBVIOUS
  <2> HIDE DEF T
  <2> QED
    BY <1>1, <2>1, LeastNumber
<1>3. CASE l = 0
  <2>1. Computes([k \in 0 .. 0 |-> base], 0, S, base, turn)
    BY DEF Computes
  <2> QED
    BY <1>2, <1>3, <2>1
<1>4. CASE l # 0
  <2>1. l \in 1 .. m /\ l - 1 \in 0 .. m /\ l - 1 \notin T
    <3>1. l \in 1 .. m /\ l - 1 \in 0 .. m /\ ~ (l <= l - 1)
      BY <1>4
    <3> HIDE DEF T
    <3> QED
      BY <1>2, <3>1
  <2>2. PICK f : Computes(f, l - 1, S, base, turn)
    BY <2>1
  <2> DEFINE g == [k \in 0 .. l |-> IF k = l THEN turn[l][f[l - 1]] ELSE f[k]]
  <2>3. f[l - 1] \in S /\ turn[l][f[l - 1]] \in S
    BY <2>1, <2>2 DEF Computes
  <2>4. g \in [0 .. l -> S] /\ g[0] = base
    <3>1. \A k \in 0 .. l : k # l => k \in 0 .. l - 1
      BY <2>1
    <3>2. \A k \in 0 .. l : g[k] \in S
      BY <2>2, <2>3, <3>1 DEF Computes
    <3>3. g[0] = f[0]
      BY <2>1
    <3> QED
      BY <2>2, <3>2, <3>3 DEF Computes
  <2>5. ASSUME NEW k \in 1 .. l PROVE g[k] = turn[k][g[k - 1]]
    <3>1. CASE k = l
      <4>1. g[k] = turn[l][f[l - 1]] /\ g[k - 1] = f[l - 1]
        BY <2>1, <3>1
      <4> QED
        BY <3>1, <4>1
    <3>2. CASE k # l
      <4>1. k \in 1 .. l - 1 /\ k - 1 \in 0 .. l /\ k - 1 # l /\ k \in 0 .. l
        BY <2>1, <3>2
      <4>2. g[k] = f[k] /\ g[k - 1] = f[k - 1]
        BY <4>1, <3>2
      <4> QED
        BY <2>2, <4>1, <4>2 DEF Computes
    <3> QED
      BY <3>1, <3>2
  <2>6. Computes(g, l, S, base, turn)
    BY <2>4, <2>5 DEF Computes
  <2> QED
    BY <1>2, <2>6
<1> QED
  BY <1>3, <1>4

\* What every turn of a loop keeps, holds at its end.
LEMMA Kept ==
  ASSUME NEW m \in Nat, NEW S, NEW f, f[0] \in S,
         \A k \in 1 .. m : f[k - 1] \in S => f[k] \in S
  PROVE  \A k \in 0 .. m : f[k] \in S
<1> DEFINE T == {k \in 0 .. m : f[k] \notin S}
<1>1. SUFFICES ASSUME T # {} PROVE FALSE
  OBVIOUS
<1>2. PICK k \in T : \A l \in T : k <= l
  <2>1. T \in SUBSET Nat
    OBVIOUS
  <2> HIDE DEF T
  <2> QED
    BY <1>1, <2>1, LeastNumber
<1>3. k \in 1 .. m /\ k - 1 \in 0 .. m /\ ~ (k <= k - 1)
  BY <1>2
<1>4. f[k - 1] \in S
  BY <1>2, <1>3
<1> QED
  BY <1>2, <1>3, <1>4

-----------------------------------------------------------------------------
(* The tracker's URL.                                                      *)

DecimalOf(m, digits) ==
  digits = [n \in 0 .. m |-> IF n < 10 THEN 1 ELSE 1 + digits[n \div 10]]

LEMMA DecimalExists ==
  ASSUME NEW m \in Nat
  PROVE  \E f \in [0 .. m -> Nat] : DecimalOf(m, f)
<1> DEFINE T == {l \in Nat : ~ \E f \in [0 .. l -> Nat] : DecimalOf(l, f)}
<1>1. SUFFICES ASSUME T # {} PROVE FALSE
  OBVIOUS
<1>2. PICK l \in T : \A n \in T : l <= n
  <2>1. T \in SUBSET Nat
    OBVIOUS
  <2> HIDE DEF T
  <2> QED
    BY <1>1, <2>1, LeastNumber
<1>3. CASE l = 0
  <2> DEFINE g == [n \in 0 .. 0 |-> 1]
  <2>1. g \in [0 .. 0 -> Nat] /\ DecimalOf(0, g)
    BY DEF DecimalOf
  <2> QED
    BY <1>2, <1>3, <2>1
<1>4. CASE l # 0
  <2>1. l - 1 \in Nat /\ ~ (l <= l - 1) /\ l \in Nat
    BY <1>2, <1>4
  <2>2. PICK f \in [0 .. l - 1 -> Nat] : DecimalOf(l - 1, f)
    BY <1>2, <2>1
  <2> DEFINE last == IF l < 10 THEN 1 ELSE 1 + f[l \div 10]
             g == [n \in 0 .. l |-> IF n = l THEN last ELSE f[n]]
  <2>3. last \in Nat
    <3>1. l >= 10 => l \div 10 \in 0 .. l - 1
      BY <2>1
    <3> QED
      BY <2>1, <2>2, <3>1
  <2>4. g \in [0 .. l -> Nat]
    <3>1. ASSUME NEW n \in 0 .. l, n # l PROVE f[n] \in Nat
      BY <2>1, <2>2, <3>1
    <3> HIDE DEF last
    <3> QED
      BY <2>3, <3>1
  <2>5. ASSUME NEW n \in 0 .. l
        PROVE  g[n] = IF n < 10 THEN 1 ELSE 1 + g[n \div 10]
    <3>1. n >= 10 => n \div 10 \in 0 .. l - 1 /\ n \div 10 \in 0 .. l /\ n \div 10 # l
      BY <2>1
    <3>2. n >= 10 => g[n \div 10] = f[n \div 10]
      <4> HIDE DEF last
      <4> QED
        BY <3>1
    <3>3. CASE n = l
      <4>1. g[n] = last
        BY <3>3
      <4> QED
        BY <2>1, <3>2, <3>3, <4>1
    <3>4. CASE n # l
      <4>1. n \in 0 .. l - 1 /\ g[n] = f[n]
        BY <2>1, <3>4
      <4>2. f[n] = IF n < 10 THEN 1 ELSE 1 + f[n \div 10]
        BY <2>2, <4>1 DEF DecimalOf
      <4> HIDE DEF g
      <4> QED
        BY <3>2, <4>1, <4>2
    <3> QED
      BY <3>3, <3>4
  <2>6. DecimalOf(l, g)
    <3>1. g = [n \in 0 .. l |-> g[n]]
      OBVIOUS
    <3> HIDE DEF g
    <3> QED
      BY <2>5, <3>1 DEF DecimalOf
  <2> HIDE DEF g
  <2> QED
    BY <1>2, <2>4, <2>6
<1> QED
  BY <1>3, <1>4

\* A number has a length.
LEMMA DecimalType ==
  ASSUME NEW number \in Nat
  PROVE  DecimalLength(number) \in Nat
<1>1. PICK f : DecimalOf(number, f) /\ DecimalLength(number) = f[number]
  <2>1. \E f : DecimalOf(number, f)
    BY DecimalExists
  <2> QED
    BY <2>1 DEF DecimalOf, DecimalLength
<1> DEFINE T == {n \in 0 .. number : f[n] \notin Nat}
<1>2. SUFFICES ASSUME T # {} PROVE FALSE
  BY <1>1
<1>3. PICK n \in T : \A l \in T : n <= l
  <2>1. T \in SUBSET Nat
    OBVIOUS
  <2> HIDE DEF T
  <2> QED
    BY <1>2, <2>1, LeastNumber
<1>4. f[n] = IF n < 10 THEN 1 ELSE 1 + f[n \div 10]
  BY <1>1, <1>3 DEF DecimalOf
<1>5. n >= 10 => n \div 10 \in 0 .. number /\ ~ (n <= n \div 10)
  BY <1>3
<1>6. n >= 10 => f[n \div 10] \in Nat
  BY <1>3, <1>5
<1> QED
  BY <1>3, <1>4, <1>6

CapacityOf(asked, f) ==
  f = [k \in 0 .. 9 |-> IF k = 0 THEN 1 ELSE SafelyIncreased(f[k - 1], Lengths(asked)[k])]

LEMMA Increased ==
  ASSUME NEW length \in Nat \cup {TooLong}, NEW increase \in Nat,
         NEW sum, sum = SafelyIncreased(length, increase)
  PROVE  /\ sum \in Nat \cup {TooLong}
         /\ sum # TooLong => length \in Nat /\ sum = length + increase
BY DEF SafelyIncreased, TooLong

LEMMA CapacityIs ==
  ASSUME NEW asked, \A k \in 1 .. 9 : Lengths(asked)[k] \in Nat
  PROVE  \E f : CapacityOf(asked, f) /\ Capacity(asked) = f[9]
<1> DEFINE S == Nat \cup {TooLong}
           turn == [k \in 1 .. 9 |-> [x \in S |-> SafelyIncreased(x, Lengths(asked)[k])]]
<1>1. turn \in [1 .. 9 -> [S -> S]]
  <2>1. \A k \in 1 .. 9, x \in S : SafelyIncreased(x, Lengths(asked)[k]) \in S
    BY Increased
  <2> HIDE DEF S
  <2> QED
    BY <2>1
<1>2. PICK f : Computes(f, 9, S, 1, turn)
  <2>1. 1 \in S
    OBVIOUS
  <2> HIDE DEF turn, S
  <2> QED
    BY <1>1, <2>1, Recurrence
<1>3. ASSUME NEW k \in 1 .. 9
      PROVE  f[k] = SafelyIncreased(f[k - 1], Lengths(asked)[k])
  <2>1. f[k - 1] \in S /\ f[k] = turn[k][f[k - 1]]
    <3> HIDE DEF turn, S
    <3>1. k - 1 \in 0 .. 9
      OBVIOUS
    <3> QED
      BY <1>2, <3>1 DEF Computes
  <2> HIDE DEF S
  <2> QED
    BY <2>1
<1>4. CapacityOf(asked, f)
  <2>1. f = [k \in 0 .. 9 |-> f[k]] /\ f[0] = 1
    BY <1>2 DEF Computes
  <2> QED
    BY <1>3, <2>1 DEF CapacityOf
<1> QED
  BY <1>4 DEF CapacityOf, Capacity

LEMMA TextLength == \A text \in Texts : strlen(text) \in Nat
<1> SUFFICES ASSUME NEW text \in Texts PROVE strlen(text) \in Nat
  OBVIOUS
<1>1. CASE text = ""
  <2>1. strlen(text) = 0
    BY <1>1, TextAssumption, Zenon
  <2> QED
    BY <2>1
<1>2. CASE text \in EscapedTexts
  BY <1>2, IntakeAssumption
<1> QED
  BY <1>1, <1>2 DEF Texts

\* All that is added has a length.
LEMMA LengthsAre ==
  ASSUME NEW asked \in Requests
  PROVE  \A k \in 1 .. 9 : Lengths(asked)[k] \in Nat
<1>1. Len(asked.announce) \in Nat
  <2>1. asked.announce \in Seq(0 .. 255)
    BY DEF Requests
  <2> QED
    BY <2>1
<1>2. strlen(asked.info_hash_encoded) \in Nat /\ strlen(asked.peer_id_encoded) \in Nat
  <2>1. asked.info_hash_encoded \in Texts /\ asked.peer_id_encoded \in Texts
    BY DEF Requests
  <2> QED
    BY <2>1, TextLength
<1>3. /\ DecimalLength(asked.port) \in Nat /\ DecimalLength(asked.uploaded) \in Nat
      /\ DecimalLength(asked.downloaded) \in Nat /\ DecimalLength(asked.left) \in Nat
  BY DecimalType DEF Requests
<1>4. strlen(StaticText(asked)) \in {71, 64}
  BY TextAssumption, Zenon DEF StaticText
<1>5. strlen(EventValue(asked.event)) \in {7, 9, 0}
  BY TextAssumption, Zenon DEF EventValue
<1> QED
  BY <1>1, <1>2, <1>3, <1>4, <1>5, SMTT(40) DEF Lengths

\* The capacity, when none of the sums is refused.
LEMMA CapacitySum ==
  ASSUME NEW asked \in Requests, Capacity(asked) # TooLong
  PROVE  /\ Capacity(asked) \in Nat
         /\ Capacity(asked) = 1 + Lengths(asked)[1] + Lengths(asked)[2] + Lengths(asked)[3]
              + Lengths(asked)[4] + Lengths(asked)[5] + Lengths(asked)[6] + Lengths(asked)[7]
              + Lengths(asked)[8] + Lengths(asked)[9]
<1> DEFINE L == Lengths(asked)
<1>1. PICK f : CapacityOf(asked, f) /\ Capacity(asked) = f[9]
  BY LengthsAre, CapacityIs
<1>2. f[0] = 1 /\ \A k \in 1 .. 9 : f[k] = SafelyIncreased(f[k - 1], L[k])
  BY <1>1 DEF CapacityOf
<1>3. \A k \in 1 .. 9 : L[k] \in Nat
  BY LengthsAre
<1> HIDE DEF L
<1>4. \A k \in 1 .. 9 : f[k - 1] \in Nat \cup {TooLong} => f[k] \in Nat \cup {TooLong}
  BY <1>2, <1>3, Increased
<1>5. \A k \in 0 .. 9 : f[k] \in Nat \cup {TooLong}
  <2>1. f[0] \in Nat \cup {TooLong} /\ 9 \in Nat
    BY <1>2
  <2> DEFINE S == Nat \cup {TooLong}
  <2> HIDE DEF S
  <2>2. f[0] \in S /\ \A k \in 1 .. 9 : f[k - 1] \in S => f[k] \in S
    BY <1>4, <2>1 DEF S
  <2>3. \A k \in 0 .. 9 : f[k] \in S
    BY <2>1, <2>2, Kept
  <2> QED
    BY <2>3 DEF S
<1>6. ASSUME NEW k \in 1 .. 9, f[k] # TooLong
      PROVE  f[k - 1] # TooLong /\ f[k - 1] \in Nat /\ f[k] = f[k - 1] + L[k]
  <2>1. f[k - 1] \in Nat \cup {TooLong} /\ L[k] \in Nat /\ f[k] = SafelyIncreased(f[k - 1], L[k])
    BY <1>2, <1>3, <1>5
  <2>2. f[k] # TooLong => f[k - 1] \in Nat /\ f[k] = f[k - 1] + L[k]
    <3> DEFINE length == f[k - 1]  sum == f[k]  increase == L[k]
    <3>1. length \in Nat \cup {TooLong} /\ increase \in Nat /\ sum = SafelyIncreased(length, increase)
      BY <2>1
    <3> HIDE DEF length, sum, increase
    <3>2. sum # TooLong => length \in Nat /\ sum = length + increase
      BY <3>1, Increased
    <3> QED
      BY <3>2 DEF length, sum, increase
  <2> QED
    BY <1>6, <2>2 DEF TooLong
<1>7. /\ f[9] = f[8] + L[9] /\ f[8] = f[7] + L[8] /\ f[7] = f[6] + L[7] /\ f[6] = f[5] + L[6]
      /\ f[5] = f[4] + L[5] /\ f[4] = f[3] + L[4] /\ f[3] = f[2] + L[3] /\ f[2] = f[1] + L[2]
      /\ f[1] = f[0] + L[1]
  <2>9. f[8] # TooLong /\ f[9] = f[8] + L[9]
    BY <1>1, <1>6
  <2>8. f[7] # TooLong /\ f[8] = f[7] + L[8]
    BY <1>6, <2>9
  <2>7. f[6] # TooLong /\ f[7] = f[6] + L[7]
    BY <1>6, <2>8
  <2>6. f[5] # TooLong /\ f[6] = f[5] + L[6]
    BY <1>6, <2>7
  <2>5. f[4] # TooLong /\ f[5] = f[4] + L[5]
    BY <1>6, <2>6
  <2>4. f[3] # TooLong /\ f[4] = f[3] + L[4]
    BY <1>6, <2>5
  <2>3. f[2] # TooLong /\ f[3] = f[2] + L[3]
    BY <1>6, <2>4
  <2>2. f[1] # TooLong /\ f[2] = f[1] + L[2]
    BY <1>6, <2>3
  <2>1. f[1] = f[0] + L[1]
    BY <1>6, <2>2
  <2> QED
    BY <2>1, <2>2, <2>3, <2>4, <2>5, <2>6, <2>7, <2>8, <2>9
<1>8. /\ L[1] \in Nat /\ L[2] \in Nat /\ L[3] \in Nat /\ L[4] \in Nat /\ L[5] \in Nat
      /\ L[6] \in Nat /\ L[7] \in Nat /\ L[8] \in Nat /\ L[9] \in Nat
  BY <1>3
<1>9. f[9] \in Nat /\ f[9] = 1 + L[1] + L[2] + L[3] + L[4] + L[5] + L[6] + L[7] + L[8] + L[9]
  BY <1>2, <1>7, <1>8
<1> QED
  BY <1>1, <1>9 DEF L

FilledOf(asked, f) ==
  f = [k \in 0 .. 7 |-> IF k = 0 THEN Separated(asked)
                        ELSE AddParameter(Capacity(asked), f[k - 1], Parameters(asked)[k])]

LEMMA FilledIs ==
  ASSUME NEW asked, Capacity(asked) \in Nat, Separated(asked) \in Int,
         \A k \in 1 .. 7 : Parameters(asked)[k][1] \in Nat /\ Parameters(asked)[k][2] \in Nat
  PROVE  \E f : /\ FilledOf(asked, f)
                /\ Filled(asked) = IF HasEvent(asked)
                                   THEN AddParameter(Capacity(asked), f[7], EventParameter(asked))
                                   ELSE f[7]
<1> DEFINE turn == [k \in 1 .. 7 |-> [x \in Int |->
                      AddParameter(Capacity(asked), x, Parameters(asked)[k])]]
<1>1. turn \in [1 .. 7 -> [Int -> Int]]
  <2>1. \A k \in 1 .. 7, x \in Int : AddParameter(Capacity(asked), x, Parameters(asked)[k]) \in Int
    BY DEF AddParameter, DoesNotFit
  <2> QED
    BY <2>1
<1>2. PICK f : Computes(f, 7, Int, Separated(asked), turn)
  <2> HIDE DEF turn
  <2> QED
    BY <1>1, Recurrence
<1>3. ASSUME NEW k \in 1 .. 7
      PROVE  f[k] = AddParameter(Capacity(asked), f[k - 1], Parameters(asked)[k])
  <2>1. f[k - 1] \in Int /\ f[k] = turn[k][f[k - 1]]
    <3> HIDE DEF turn
    <3>1. k - 1 \in 0 .. 7
      OBVIOUS
    <3> QED
      BY <1>2, <3>1 DEF Computes
  <2> QED
    BY <2>1
<1>4. FilledOf(asked, f)
  <2>1. f = [k \in 0 .. 7 |-> f[k]] /\ f[0] = Separated(asked)
    BY <1>2 DEF Computes
  <2> QED
    BY <1>3, <2>1 DEF FilledOf
<1> QED
  BY <1>4 DEF FilledOf, Filled

(***************************************************************************)
(* UrlExact: when the capacity of a request's URL is a size_t, the URL     *)
(* fills it but for the byte of the string's end, and no parameter is      *)
(* refused on the way (tracker.c:511-671).                                 *)
(***************************************************************************)
THEOREM UrlExact ==
  ASSUME NEW asked \in Requests, Capacity(asked) # TooLong
  PROVE  FitsExactly(asked)
<1> DEFINE L == Lengths(asked)
           P == Parameters(asked)
           capacity == Capacity(asked)
<1>1. /\ capacity \in Nat
      /\ capacity = 1 + L[1] + L[2] + L[3] + L[4] + L[5] + L[6] + L[7] + L[8] + L[9]
  BY CapacitySum
<1>2. \A k \in 1 .. 9 : L[k] \in Nat
  BY LengthsAre
<1>3. /\ L[1] = Len(asked.announce) /\ L[2] = strlen(asked.info_hash_encoded)
      /\ L[3] = strlen(asked.peer_id_encoded) /\ L[4] = DecimalLength(asked.port)
      /\ L[5] = DecimalLength(asked.uploaded) /\ L[6] = DecimalLength(asked.downloaded)
      /\ L[7] = DecimalLength(asked.left) /\ L[8] = strlen(StaticText(asked))
      /\ L[9] = strlen(EventValue(asked.event))
  BY DEF Lengths
<1>4. L[8] = IF HasEvent(asked) THEN 71 ELSE 64
  <2>1. strlen(StaticText(asked)) = IF HasEvent(asked) THEN 71 ELSE 64
    BY TextAssumption, Zenon DEF StaticText
  <2> QED
    BY <1>3, <2>1
<1>5. ~HasEvent(asked) => L[9] = 0
  <2>1. ~HasEvent(asked) => EventValue(asked.event) = ""
    BY Zenon DEF HasEvent, EventValue
  <2>2. ~HasEvent(asked) => strlen(EventValue(asked.event)) = 0
    BY <2>1, TextAssumption, Zenon
  <2> QED
    BY <1>3, <2>2
<1>6. Separated(asked) = L[1] + 1
  <2>1. strlen(Separator(asked.announce)) = 1
    BY TextAssumption, Zenon DEF Separator
  <2>2. L[1] + 1 <= capacity
    BY <1>1, <1>2, <1>4
  <2> HIDE DEF L
  <2> QED
    BY <1>1, <1>3, <2>1, <2>2 DEF Separated
<1>7. /\ P[1] = <<10, L[2]>> /\ P[2] = <<9, L[3]>> /\ P[3] = <<6, L[4]>> /\ P[4] = <<10, L[5]>>
      /\ P[5] = <<12, L[6]>> /\ P[6] = <<6, L[7]>> /\ P[7] = <<9, 1>>
  BY <1>3, TextAssumption DEF Parameters
<1>8. EventParameter(asked) = <<7, L[9]>>
  BY <1>3, TextAssumption DEF EventParameter
<1> HIDE DEF L, P, capacity
<1>9. PICK f : /\ FilledOf(asked, f)
               /\ Filled(asked) = IF HasEvent(asked)
                                  THEN AddParameter(capacity, f[7], EventParameter(asked))
                                  ELSE f[7]
  <2>1. \A k \in 1 .. 7 : P[k][1] \in Nat /\ P[k][2] \in Nat
    BY <1>2, <1>7
  <2>2. capacity \in Nat /\ Separated(asked) \in Int
    BY <1>1, <1>2, <1>6
  <2> QED
    BY <2>1, <2>2, FilledIs DEF P, capacity
<1>10. f[0] = L[1] + 1 /\ \A k \in 1 .. 7 : f[k] = AddParameter(capacity, f[k - 1], P[k])
  BY <1>6, <1>9 DEF FilledOf, P, capacity
<1>11. /\ L[1] \in Nat /\ L[2] \in Nat /\ L[3] \in Nat /\ L[4] \in Nat /\ L[5] \in Nat
       /\ L[6] \in Nat /\ L[7] \in Nat /\ L[9] \in Nat
  BY <1>2
<1>12. capacity >= L[1] + L[2] + L[3] + L[4] + L[5] + L[6] + L[7] + 64
  BY <1>1, <1>2, <1>4, <1>11
<1>13. f[1] = L[1] + L[2] + 11
  <2>1. f[1] = AddParameter(capacity, f[0], <<10, L[2]>>)
    BY <1>7, <1>10
  <2>2. f[0] \in Nat /\ f[0] + 10 + L[2] <= capacity
    BY <1>1, <1>11, <1>12, <1>10
  <2>3. AddParameter(capacity, f[0], <<10, L[2]>>) = f[0] + 10 + L[2]
    BY <1>1, <1>11, <2>2 DEF AddParameter, DoesNotFit
  <2> QED
    BY <1>11, <2>1, <2>3, <1>10
<1>14. f[2] = L[1] + L[2] + L[3] + 20
  <2>1. f[2] = AddParameter(capacity, f[1], <<9, L[3]>>)
    BY <1>7, <1>10
  <2>2. f[1] \in Nat /\ f[1] + 9 + L[3] <= capacity
    BY <1>1, <1>11, <1>12, <1>13
  <2>3. AddParameter(capacity, f[1], <<9, L[3]>>) = f[1] + 9 + L[3]
    BY <1>1, <1>11, <2>2 DEF AddParameter, DoesNotFit
  <2> QED
    BY <1>11, <2>1, <2>3, <1>13
<1>15. f[3] = L[1] + L[2] + L[3] + L[4] + 26
  <2>1. f[3] = AddParameter(capacity, f[2], <<6, L[4]>>)
    BY <1>7, <1>10
  <2>2. f[2] \in Nat /\ f[2] + 6 + L[4] <= capacity
    BY <1>1, <1>11, <1>12, <1>14
  <2>3. AddParameter(capacity, f[2], <<6, L[4]>>) = f[2] + 6 + L[4]
    BY <1>1, <1>11, <2>2 DEF AddParameter, DoesNotFit
  <2> QED
    BY <1>11, <2>1, <2>3, <1>14
<1>16. f[4] = L[1] + L[2] + L[3] + L[4] + L[5] + 36
  <2>1. f[4] = AddParameter(capacity, f[3], <<10, L[5]>>)
    BY <1>7, <1>10
  <2>2. f[3] \in Nat /\ f[3] + 10 + L[5] <= capacity
    BY <1>1, <1>11, <1>12, <1>15
  <2>3. AddParameter(capacity, f[3], <<10, L[5]>>) = f[3] + 10 + L[5]
    BY <1>1, <1>11, <2>2 DEF AddParameter, DoesNotFit
  <2> QED
    BY <1>11, <2>1, <2>3, <1>15
<1>17. f[5] = L[1] + L[2] + L[3] + L[4] + L[5] + L[6] + 48
  <2>1. f[5] = AddParameter(capacity, f[4], <<12, L[6]>>)
    BY <1>7, <1>10
  <2>2. f[4] \in Nat /\ f[4] + 12 + L[6] <= capacity
    BY <1>1, <1>11, <1>12, <1>16
  <2>3. AddParameter(capacity, f[4], <<12, L[6]>>) = f[4] + 12 + L[6]
    BY <1>1, <1>11, <2>2 DEF AddParameter, DoesNotFit
  <2> QED
    BY <1>11, <2>1, <2>3, <1>16
<1>18. f[6] = L[1] + L[2] + L[3] + L[4] + L[5] + L[6] + L[7] + 54
  <2>1. f[6] = AddParameter(capacity, f[5], <<6, L[7]>>)
    BY <1>7, <1>10
  <2>2. f[5] \in Nat /\ f[5] + 6 + L[7] <= capacity
    BY <1>1, <1>11, <1>12, <1>17
  <2>3. AddParameter(capacity, f[5], <<6, L[7]>>) = f[5] + 6 + L[7]
    BY <1>1, <1>11, <2>2 DEF AddParameter, DoesNotFit
  <2> QED
    BY <1>11, <2>1, <2>3, <1>17
<1>19. f[7] = L[1] + L[2] + L[3] + L[4] + L[5] + L[6] + L[7] + 64
  <2>1. f[7] = AddParameter(capacity, f[6], <<9, 1>>)
    BY <1>7, <1>10
  <2>2. f[6] \in Nat /\ f[6] + 9 + 1 <= capacity
    BY <1>1, <1>11, <1>12, <1>18
  <2>3. AddParameter(capacity, f[6], <<9, 1>>) = f[6] + 9 + 1
    BY <1>1, <1>11, <2>2 DEF AddParameter, DoesNotFit
  <2> QED
    BY <1>11, <2>1, <2>3, <1>18
<1>20. HasEvent(asked) => AddParameter(capacity, f[7], EventParameter(asked)) = f[7] + 7 + L[9]
  <2>1. SUFFICES ASSUME HasEvent(asked)
                 PROVE  AddParameter(capacity, f[7], EventParameter(asked)) = f[7] + 7 + L[9]
    OBVIOUS
  <2>2. f[7] \in Nat /\ f[7] + 7 + L[9] <= capacity
    BY <1>1, <1>4, <1>11, <1>19, <2>1
  <2> QED
    BY <1>1, <1>8, <1>11, <2>2 DEF AddParameter, DoesNotFit
<1>21. Filled(asked) = capacity - 1
  BY <1>1, <1>4, <1>5, <1>9, <1>11, <1>19, <1>20
<1> QED
  BY <1>21 DEF FitsExactly, capacity

-----------------------------------------------------------------------------
(* The steps by their numbers.                                             *)

LEMMA Calls ==
  /\ Steps[1].call = "cli_arguments_valid" /\ Steps[2].call = "fopen"
  /\ Steps[3].call = "get_file_size" /\ Steps[4].call = "malloc" /\ Steps[5].call = "fread"
  /\ Steps[6].call = "bencode_parser_init" /\ Steps[7].call = "parse_bencode_buffer"
  /\ Steps[8].call = "torrent_metadata_extract" /\ Steps[9].call = "info_span_inside_buffer"
  /\ Steps[10].call = "compute_info_hash" /\ Steps[11].call = "generate_peer_id"
  /\ Steps[12].call = "curl_easy_init" /\ Steps[13].call = "curl_easy_setopt"
  /\ Steps[14].call = "announce_given" /\ Steps[15].call = "url_curl_easy_init"
  /\ Steps[16].call = "escape_info_hash" /\ Steps[17].call = "escape_peer_id"
  /\ Steps[18].call = "numbers_as_text" /\ Steps[19].call = "url_capacity"
  /\ Steps[20].call = "malloc_url" /\ Steps[21].call = "fill_url"
  /\ Steps[22].call = "set_CURLOPT_URL" /\ Steps[23].call = "curl_easy_perform"
  /\ Steps[24].call = "response_code_200" /\ Steps[25].call = "tracker_response_parse"
  /\ Steps[26].call = "find_interval" /\ Steps[27].call = "find_peers"
  /\ Steps[28].call = "peers_extract" /\ Steps[29].call = "peer_count"
  /\ Steps[30].call = "length_signs" /\ Steps[31].call = "lengths_in_size_t"
  /\ Steps[32].call = "piece_count" /\ Steps[33].call = "fopen_wb"
  /\ Steps[34].call = "malloc_piece_buffer"
<1>1. /\ Steps[1].call = "cli_arguments_valid" /\ Steps[2].call = "fopen"
      /\ Steps[3].call = "get_file_size" /\ Steps[4].call = "malloc" /\ Steps[5].call = "fread"
      /\ Steps[6].call = "bencode_parser_init" /\ Steps[7].call = "parse_bencode_buffer"
  <2>1. Within(ReadTorrent, 7, Steps, 0)
    BY Order
  <2>0. /\ Steps[1] = ReadTorrent[1] /\ Steps[2] = ReadTorrent[2] /\ Steps[3] = ReadTorrent[3]
        /\ Steps[4] = ReadTorrent[4] /\ Steps[5] = ReadTorrent[5] /\ Steps[6] = ReadTorrent[6]
        /\ Steps[7] = ReadTorrent[7]
    BY <2>1 DEF Within
  <2>2. ReadTorrent[1].call = "cli_arguments_valid"
    BY DEF ReadTorrent, Step
  <2>3. ReadTorrent[2].call = "fopen"
    BY DEF ReadTorrent, Step
  <2>4. ReadTorrent[3].call = "get_file_size"
    BY DEF ReadTorrent, Step
  <2>5. ReadTorrent[4].call = "malloc"
    BY DEF ReadTorrent, Step
  <2>6. ReadTorrent[5].call = "fread"
    BY DEF ReadTorrent, Step
  <2>7. ReadTorrent[6].call = "bencode_parser_init"
    BY DEF ReadTorrent, Step
  <2>8. ReadTorrent[7].call = "parse_bencode_buffer"
    BY DEF ReadTorrent, Step
  <2> QED
    BY <2>0, <2>2, <2>3, <2>4, <2>5, <2>6, <2>7, <2>8
<1>2. /\ Steps[8].call = "torrent_metadata_extract" /\ Steps[9].call = "info_span_inside_buffer"
      /\ Steps[10].call = "compute_info_hash" /\ Steps[11].call = "generate_peer_id"
  <2>1. Within(UseTorrent, 4, Steps, 7)
    BY Order
  <2>0. /\ Steps[8] = UseTorrent[1] /\ Steps[9] = UseTorrent[2] /\ Steps[10] = UseTorrent[3]
        /\ Steps[11] = UseTorrent[4]
    BY <2>1 DEF Within
  <2>2. UseTorrent[1].call = "torrent_metadata_extract"
    BY DEF UseTorrent, Step
  <2>3. UseTorrent[2].call = "info_span_inside_buffer"
    BY DEF UseTorrent, Step
  <2>4. UseTorrent[3].call = "compute_info_hash"
    BY DEF UseTorrent, Step
  <2>5. UseTorrent[4].call = "generate_peer_id"
    BY DEF UseTorrent, Step
  <2> QED
    BY <2>0, <2>2, <2>3, <2>4, <2>5
<1>3. /\ Steps[12].call = "curl_easy_init" /\ Steps[13].call = "curl_easy_setopt"
  <2>1. Within(BeforeUrl, 2, Steps, 11)
    BY Order
  <2>0. /\ Steps[12] = BeforeUrl[1] /\ Steps[13] = BeforeUrl[2]
    BY <2>1 DEF Within
  <2>2. BeforeUrl[1].call = "curl_easy_init"
    BY DEF BeforeUrl, Step
  <2>3. BeforeUrl[2].call = "curl_easy_setopt"
    BY DEF BeforeUrl, Step
  <2> QED
    BY <2>0, <2>2, <2>3
<1>4. /\ Steps[14].call = "announce_given" /\ Steps[15].call = "url_curl_easy_init"
      /\ Steps[16].call = "escape_info_hash" /\ Steps[17].call = "escape_peer_id"
      /\ Steps[18].call = "numbers_as_text" /\ Steps[19].call = "url_capacity"
      /\ Steps[20].call = "malloc_url" /\ Steps[21].call = "fill_url"
  <2>1. Within(BuildUrl, 8, Steps, 13)
    BY Order
  <2>0. /\ Steps[14] = BuildUrl[1] /\ Steps[15] = BuildUrl[2] /\ Steps[16] = BuildUrl[3]
        /\ Steps[17] = BuildUrl[4] /\ Steps[18] = BuildUrl[5] /\ Steps[19] = BuildUrl[6]
        /\ Steps[20] = BuildUrl[7] /\ Steps[21] = BuildUrl[8]
    BY <2>1 DEF Within
  <2>2. BuildUrl[1].call = "announce_given"
    BY DEF BuildUrl, Step
  <2>3. BuildUrl[2].call = "url_curl_easy_init"
    BY DEF BuildUrl, Step
  <2>4. BuildUrl[3].call = "escape_info_hash"
    BY DEF BuildUrl, Step
  <2>5. BuildUrl[4].call = "escape_peer_id"
    BY DEF BuildUrl, Step
  <2>6. BuildUrl[5].call = "numbers_as_text"
    BY DEF BuildUrl, Step
  <2>7. BuildUrl[6].call = "url_capacity"
    BY DEF BuildUrl, Step
  <2>8. BuildUrl[7].call = "malloc_url"
    BY DEF BuildUrl, Step
  <2>9. BuildUrl[8].call = "fill_url"
    BY DEF BuildUrl, Step
  <2> QED
    BY <2>0, <2>2, <2>3, <2>4, <2>5, <2>6, <2>7, <2>8, <2>9
<1>5. /\ Steps[22].call = "set_CURLOPT_URL" /\ Steps[23].call = "curl_easy_perform"
      /\ Steps[24].call = "response_code_200"
  <2>1. Within(AfterUrl, 3, Steps, 21)
    BY Order
  <2>0. /\ Steps[22] = AfterUrl[1] /\ Steps[23] = AfterUrl[2] /\ Steps[24] = AfterUrl[3]
    BY <2>1 DEF Within
  <2>2. AfterUrl[1].call = "set_CURLOPT_URL"
    BY DEF AfterUrl, Step
  <2>3. AfterUrl[2].call = "curl_easy_perform"
    BY DEF AfterUrl, Step
  <2>4. AfterUrl[3].call = "response_code_200"
    BY DEF AfterUrl, Step
  <2> QED
    BY <2>0, <2>2, <2>3, <2>4
<1>6. /\ Steps[25].call = "tracker_response_parse" /\ Steps[26].call = "find_interval"
      /\ Steps[27].call = "find_peers" /\ Steps[28].call = "peers_extract"
      /\ Steps[29].call = "peer_count" /\ Steps[30].call = "length_signs"
      /\ Steps[31].call = "lengths_in_size_t" /\ Steps[32].call = "piece_count"
  <2>1. Within(UseResponse, 8, Steps, 24)
    BY Order
  <2>0. /\ Steps[25] = UseResponse[1] /\ Steps[26] = UseResponse[2]
        /\ Steps[27] = UseResponse[3] /\ Steps[28] = UseResponse[4]
        /\ Steps[29] = UseResponse[5] /\ Steps[30] = UseResponse[6]
        /\ Steps[31] = UseResponse[7] /\ Steps[32] = UseResponse[8]
    BY <2>1 DEF Within
  <2>2. UseResponse[1].call = "tracker_response_parse"
    BY DEF UseResponse, Step
  <2>3. UseResponse[2].call = "find_interval"
    BY DEF UseResponse, Step
  <2>4. UseResponse[3].call = "find_peers"
    BY DEF UseResponse, Step
  <2>5. UseResponse[4].call = "peers_extract"
    BY DEF UseResponse, Step
  <2>6. UseResponse[5].call = "peer_count"
    BY DEF UseResponse, Step
  <2>7. UseResponse[6].call = "length_signs"
    BY DEF UseResponse, Step
  <2>8. UseResponse[7].call = "lengths_in_size_t"
    BY DEF UseResponse, Step
  <2>9. UseResponse[8].call = "piece_count"
    BY DEF UseResponse, Step
  <2> QED
    BY <2>0, <2>2, <2>3, <2>4, <2>5, <2>6, <2>7, <2>8, <2>9
<1>7. /\ Steps[33].call = "fopen_wb" /\ Steps[34].call = "malloc_piece_buffer"
  <2>1. Within(OpenOutput, 2, Steps, 32)
    BY Order
  <2>0. /\ Steps[33] = OpenOutput[1] /\ Steps[34] = OpenOutput[2]
    BY <2>1 DEF Within
  <2>2. OpenOutput[1].call = "fopen_wb"
    BY DEF OpenOutput, Step
  <2>3. OpenOutput[2].call = "malloc_piece_buffer"
    BY DEF OpenOutput, Step
  <2> QED
    BY <2>0, <2>2, <2>3
<1> QED
  BY <1>1, <1>2, <1>3, <1>4, <1>5, <1>6, <1>7

LEMMA Numbered ==
  ASSUME NEW k \in 1 .. 34
  PROVE  /\ (Steps[k].call = "fread" <=> k = 5)
         /\ (Steps[k].call = "parse_bencode_buffer" <=> k = 7)
         /\ (Steps[k].call = "torrent_metadata_extract" <=> k = 8)
         /\ (Steps[k].call = "info_span_inside_buffer" <=> k = 9)
         /\ (Steps[k].call = "generate_peer_id" <=> k = 11)
         /\ (Steps[k].call = "announce_given" <=> k = 14)
         /\ (Steps[k].call = "escape_info_hash" <=> k = 16)
         /\ (Steps[k].call = "escape_peer_id" <=> k = 17)
         /\ (Steps[k].call = "url_capacity" <=> k = 19) /\ (Steps[k].call = "malloc_url" <=> k = 20)
         /\ (Steps[k].call = "fill_url" <=> k = 21)
         /\ (Steps[k].call = "set_CURLOPT_URL" <=> k = 22)
         /\ (Steps[k].call = "curl_easy_perform" <=> k = 23)
         /\ (Steps[k].call = "tracker_response_parse" <=> k = 25)
         /\ (Steps[k].call = "find_interval" <=> k = 26)
         /\ (Steps[k].call = "find_peers" <=> k = 27)
         /\ (Steps[k].call = "peers_extract" <=> k = 28)
         /\ (Steps[k].call = "peer_count" <=> k = 29) /\ (Steps[k].call = "length_signs" <=> k = 30)
         /\ (Steps[k].call = "lengths_in_size_t" <=> k = 31)
         /\ (Steps[k].call = "piece_count" <=> k = 32)
<1>1. \/ k = 1 \/ k = 2 \/ k = 3 \/ k = 4 \/ k = 5 \/ k = 6 \/ k = 7 \/ k = 8 \/ k = 9 \/ k = 10
      \/ k = 11 \/ k = 12 \/ k = 13 \/ k = 14 \/ k = 15 \/ k = 16 \/ k = 17 \/ k = 18 \/ k = 19
      \/ k = 20 \/ k = 21 \/ k = 22 \/ k = 23 \/ k = 24 \/ k = 25 \/ k = 26 \/ k = 27 \/ k = 28
      \/ k = 29 \/ k = 30 \/ k = 31 \/ k = 32 \/ k = 33 \/ k = 34
  OBVIOUS
<1>2. Steps[k].call = "fread" <=> k = 5
  BY <1>1, Calls
<1>3. Steps[k].call = "parse_bencode_buffer" <=> k = 7
  BY <1>1, Calls
<1>4. Steps[k].call = "torrent_metadata_extract" <=> k = 8
  BY <1>1, Calls
<1>5. Steps[k].call = "info_span_inside_buffer" <=> k = 9
  BY <1>1, Calls
<1>6. Steps[k].call = "generate_peer_id" <=> k = 11
  BY <1>1, Calls
<1>7. Steps[k].call = "announce_given" <=> k = 14
  BY <1>1, Calls
<1>8. Steps[k].call = "escape_info_hash" <=> k = 16
  BY <1>1, Calls
<1>9. Steps[k].call = "escape_peer_id" <=> k = 17
  BY <1>1, Calls
<1>10. Steps[k].call = "url_capacity" <=> k = 19
  BY <1>1, Calls
<1>11. Steps[k].call = "malloc_url" <=> k = 20
  BY <1>1, Calls
<1>12. Steps[k].call = "fill_url" <=> k = 21
  BY <1>1, Calls
<1>13. Steps[k].call = "set_CURLOPT_URL" <=> k = 22
  BY <1>1, Calls
<1>14. Steps[k].call = "curl_easy_perform" <=> k = 23
  BY <1>1, Calls
<1>15. Steps[k].call = "tracker_response_parse" <=> k = 25
  BY <1>1, Calls
<1>16. Steps[k].call = "find_interval" <=> k = 26
  BY <1>1, Calls
<1>17. Steps[k].call = "find_peers" <=> k = 27
  BY <1>1, Calls
<1>18. Steps[k].call = "peers_extract" <=> k = 28
  BY <1>1, Calls
<1>19. Steps[k].call = "peer_count" <=> k = 29
  BY <1>1, Calls
<1>20. Steps[k].call = "length_signs" <=> k = 30
  BY <1>1, Calls
<1>21. Steps[k].call = "lengths_in_size_t" <=> k = 31
  BY <1>1, Calls
<1>22. Steps[k].call = "piece_count" <=> k = 32
  BY <1>1, Calls
<1> QED
  BY <1>2, <1>3, <1>4, <1>5, <1>6, <1>7, <1>8, <1>9, <1>10, <1>11, <1>12, <1>13,
     <1>14, <1>15, <1>16, <1>17, <1>18, <1>19, <1>20, <1>21, <1>22
-----------------------------------------------------------------------------
(* Intake is Startup with values.                                          *)

LEMMA IntakeSteps == [IntakeNext]_ivars => [Next]_vars
<1> SUFFICES ASSUME [IntakeNext]_ivars PROVE [Next]_vars
  OBVIOUS
<1>1. CASE IntakeSucceeds
  BY <1>1 DEF IntakeSucceeds, Next
<1>2. CASE IntakeFails
  BY <1>2 DEF IntakeFails, Next
<1>3. CASE ReadFile
  BY <1>3 DEF ReadFile, Next
<1>4. CASE ParseTorrent
  BY <1>4 DEF ParseTorrent, Next
<1>5. CASE Extract
  BY <1>5 DEF Extract, Next
<1>6. CASE MakeRequest
  BY <1>6 DEF MakeRequest, Next
<1>7. CASE Escape
  BY <1>7 DEF Escape, Next
<1>8. CASE FillUrl
  BY <1>8 DEF FillUrl, Next
<1>9. CASE SetUrl
  BY <1>9 DEF SetUrl, Next
<1>10. CASE \E size \in 0 .. MaxChunk : ReceiveChunk(size)
  BY <1>10 DEF ReceiveChunk, Next
<1>11. CASE ParseBody
  BY <1>11 DEF ParseBody, Next
<1>12. CASE TakePeers
  BY <1>12 DEF TakePeers, Next
<1>13. CASE EndAndFree
  BY <1>13 DEF EndAndFree, Next
<1>14. CASE UNCHANGED ivars
  BY <1>14 DEF ivars, vars
<1> QED
  BY <1>1, <1>2, <1>3, <1>4, <1>5, <1>6, <1>7, <1>8, <1>9, <1>10, <1>11, <1>12, <1>13, <1>14
  DEF IntakeNext

(***************************************************************************)
(* Whatever the values decide, main takes one of Startup's steps: the      *)
(* order of the calls and the lists of what a failure frees (main.c:33-283 *)
(* and 586-601) are those of Startup.                                      *)
(***************************************************************************)
THEOREM IntakeIsStartup == IntakeSpec => Spec
<1>1. IntakeInit => Init
  BY DEF IntakeInit
<1> QED
  BY <1>1, IntakeSteps, PTL DEF IntakeSpec, Spec

(***************************************************************************)
(* So what holds of Startup's exits holds when the values decide them:     *)
(* nothing leaks, nothing is freed twice and no step works on what was     *)
(* released (main.c:40-280, 586-593 and tracker.c:333-381).                *)
(***************************************************************************)
THEOREM IntakeExits ==
  IntakeSpec => [](NothingLeaks /\ FreedOnce /\ BorrowedAlive) /\ ResponseGrows
BY IntakeIsStartup, StartupNothingLeaks, StartupFreedOnce, StartupBorrowedAlive,
   StartupResponseGrows, PTL

-----------------------------------------------------------------------------
(* What is found in a sound tree.                                          *)

LEMMA Smallest ==
  ASSUME NEW T \in SUBSET Nat, T # {}
  PROVE  Min(T) \in T /\ \A n \in T : Min(T) <= n
<1>1. \E m \in T : \A n \in T : m <= n
  BY LeastNumber
<1> QED
  BY <1>1 DEF Min

\* An entry that is found is one of the dictionary's, and of the type that
\* was looked for.
LEMMA EntryFound ==
  ASSUME NEW data, NEW root, NEW name, NEW type, Sound(data, root),
         Found(FindEntry(data, root, name, type))
  PROVE  /\ root.type = "DICTIONARY"
         /\ FindEntry(data, root, name, type) \in Children({root})
         /\ FindEntry(data, root, name, type).type = type
<1> DEFINE matching == MatchingEntries(data, root, name, type)
<1>1. ~ (root.type # "DICTIONARY" \/ matching = {})
  BY DEF FindEntry, Found, NotFound
<1>2. matching \in SUBSET Nat /\ matching # {}
  <2>1. DOMAIN root.value.elements = 1 .. Len(root.value.elements)
    BY <1>1 DEF Sound, Containers
  <2>2. Len(root.value.elements) \in Nat
    BY <1>1 DEF Sound, Containers
  <2> QED
    BY <1>1, <2>1, <2>2 DEF MatchingEntries
<1>3. Min(matching) \in matching
  <2> HIDE DEF matching
  <2> QED
    BY <1>2, Smallest, SMTT(30)
<1>4. FindEntry(data, root, name, type) = root.value.elements[Min(matching)].value
  <2>1. FindEntry(data, root, name, type) =
          IF root.type # "DICTIONARY" \/ matching = {}
          THEN NotFound ELSE root.value.elements[Min(matching)].value
    BY Zenon DEF FindEntry
  <2> HIDE DEF matching
  <2> QED
    BY <1>1, <2>1, Zenon
<1> DEFINE k == Min(matching)
<1>5. k \in DOMAIN root.value.elements /\ root.value.elements[k].value.type = type
  <2> HIDE DEF k
  <2> QED
    BY <1>3, Zenon DEF MatchingEntries, k
<1>6. root.value.elements[k].value \in Children({root})
  BY <1>1, <1>5 DEF Children, Containers
<1> QED
  BY <1>1, <1>4, <1>5, <1>6

\* All that is one or two entries deep is in reach.
LEMMA Reached ==
  ASSUME NEW root
  PROVE  /\ root \in InReach(root)
         /\ \A object \in Children({root}) :
              object \in InReach(root) /\ Children({object}) \subseteq InReach(root)
<1>1. ASSUME NEW object \in Children({root})
      PROVE  object \in InReach(root) /\ Children({object}) \subseteq Children(Children({root}))
  BY DEF InReach, Children
<1> QED
  BY <1>1 DEF InReach

LEMMA TextOf ==
  ASSUME NEW S, NEW data \in Seq(S), NEW segment, segment.data \in Nat, segment.length \in Nat,
         segment.data + segment.length <= Len(data)
  PROVE  /\ Text(data, segment) \in Seq(S)
         /\ Len(Text(data, segment)) = segment.length
         /\ \A k \in 1 .. segment.length : Text(data, segment)[k] = data[segment.data + k]
<1> DEFINE m == segment.data + 1
           n == segment.data + segment.length
<1>1. m \in Int /\ n \in Int /\ \A i \in m .. n : data[i] \in S
  OBVIOUS
<1>2. /\ SubSeq(data, m, n) \in Seq(S)
      /\ Len(SubSeq(data, m, n)) = IF m <= n THEN n - m + 1 ELSE 0
      /\ \A i \in 1 .. n - m + 1 : SubSeq(data, m, n)[i] = data[m + i - 1]
  <2> HIDE DEF m, n
  <2> QED
    BY <1>1, SubSeqProperties
<1>3. n - m + 1 = segment.length /\ \A k \in 1 .. segment.length : m + k - 1 = segment.data + k
  OBVIOUS
<1>4. Text(data, segment) = SubSeq(data, m, n)
  BY DEF Text
<1>5. Len(Text(data, segment)) = segment.length
  <2>1. Len(SubSeq(data, m, n)) = IF m <= n THEN n - m + 1 ELSE 0
    BY <1>2
  <2>2. m <= n \/ segment.length = 0
    BY <1>3
  <2>3. segment.length # 0 => m <= n
    OBVIOUS
  <2> QED
    BY <1>3, <1>4, <2>1, <2>2, <2>3
<1>6. ASSUME NEW k \in 1 .. segment.length PROVE Text(data, segment)[k] = data[segment.data + k]
  <2>1. k \in 1 .. n - m + 1
    BY <1>3
  <2> QED
    BY <1>2, <1>3, <1>4, <2>1
<1> QED
  BY <1>2, <1>4, <1>5, <1>6

\* What the metadata is, once it is extracted.
LEMMA MetadataParts ==
  ASSUME NEW data, NEW root, ExtractMetadata(data, root).ok
  PROVE  LET info == FindInfo(data, root)
             m    == ExtractMetadata(data, root)
         IN /\ Found(FindAnnounce(data, root)) /\ m.announce = FindAnnounce(data, root).value
            /\ Found(info) /\ Found(FindLength(data, info)) /\ Found(FindPieceLength(data, info))
            /\ Found(FindPieces(data, info))
            /\ m.info.length = FindLength(data, info).value
            /\ m.info.piece_length = FindPieceLength(data, info).value
            /\ m.info.pieces = FindPieces(data, info).value
<1>1. Found(FindAnnounce(data, root)) /\ ExtractInfo(data, root).ok
  BY DEF ExtractMetadata
<1>2. /\ ExtractMetadata(data, root).announce = FindAnnounce(data, root).value
      /\ ExtractMetadata(data, root).info = ExtractInfo(data, root)
  BY <1>1 DEF ExtractMetadata
<1> DEFINE info == FindInfo(data, root)
<1>3. /\ Found(info) /\ Found(FindName(data, info)) /\ Found(FindLength(data, info))
      /\ Found(FindPieceLength(data, info)) /\ Found(FindPieces(data, info))
  BY <1>1 DEF ExtractInfo
<1>4. /\ ExtractInfo(data, root).length = FindLength(data, info).value
      /\ ExtractInfo(data, root).piece_length = FindPieceLength(data, info).value
      /\ ExtractInfo(data, root).pieces = FindPieces(data, info).value
  BY <1>3 DEF ExtractInfo
<1> QED
  BY <1>1, <1>2, <1>3, <1>4

LEMMA MetadataSound ==
  ASSUME NEW data \in Seq(0 .. 255), NEW root, SoundTree(data, root),
         ExtractMetadata(data, root).ok
  PROVE  LET m == ExtractMetadata(data, root)
         IN /\ Text(data, m.announce) \in Seq(0 .. 255)
            /\ m.info.length \in Nat
            /\ m.info.piece_length \in Nat \ {0}
            /\ m.info.pieces.data \in Nat /\ m.info.pieces.length \in Nat
            /\ m.info.pieces.data + m.info.pieces.length <= Len(data)
            /\ m.info.pieces.length % HashLength = 0
<1> DEFINE info == FindInfo(data, root)
           m    == ExtractMetadata(data, root)
           announce == FindEntry(data, root, AnnounceKey, "BYTE_STRING")
           length == FindEntry(data, info, LengthKey, "INTEGER")
           piece_length == FindEntry(data, info, PieceLengthKey, "INTEGER")
           pieces == FindEntry(data, info, PiecesKey, "BYTE_STRING")
<1>1. /\ Found(announce) /\ m.announce = announce.value
      /\ Found(info) /\ Found(FindLength(data, info)) /\ Found(FindPieceLength(data, info))
      /\ Found(FindPieces(data, info))
      /\ m.info.length = FindLength(data, info).value
      /\ m.info.piece_length = FindPieceLength(data, info).value
      /\ m.info.pieces = FindPieces(data, info).value
  BY MetadataParts DEF FindAnnounce
<1>2. Found(length) /\ length.value >= 0 /\ FindLength(data, info) = length
  <2>1. FindLength(data, info) = IF Found(length) /\ ~(length.value >= 0) THEN NotFound ELSE length
    BY DEF FindLength, FoundAnd
  <2> HIDE DEF length, info, m
  <2> QED
    BY <1>1, <2>1 DEF Found, NotFound
<1>2a. /\ Found(piece_length) /\ piece_length.value > 0
       /\ FindPieceLength(data, info) = piece_length
  <2>1. FindPieceLength(data, info) = IF Found(piece_length) /\ ~(piece_length.value > 0) THEN NotFound ELSE piece_length
    BY DEF FindPieceLength, FoundAnd
  <2> HIDE DEF piece_length, info, m
  <2> QED
    BY <1>1, <2>1 DEF Found, NotFound
<1>2b. /\ Found(pieces) /\ pieces.value.length % HashLength = 0
       /\ FindPieces(data, info) = pieces
  <2>1. FindPieces(data, info) = IF Found(pieces) /\ ~(pieces.value.length % HashLength = 0) THEN NotFound ELSE pieces
    BY DEF FindPieces, FoundAnd
  <2> HIDE DEF pieces, info, m
  <2> QED
    BY <1>1, <2>1 DEF Found, NotFound
<1>3. Sound(data, root) /\ \A o \in Children({root}) : Sound(data, o)
  BY Reached DEF SoundTree
<1>4. announce \in Children({root}) /\ announce.type = "BYTE_STRING"
  BY <1>1, <1>3, EntryFound
<1>5. info \in Children({root})
  BY <1>1, <1>3, EntryFound DEF FindInfo
<1>6. \A o \in Children({info}) : Sound(data, o)
  BY <1>5, Reached DEF SoundTree
<1>7. /\ length \in Children({info}) /\ length.type = "INTEGER"
      /\ piece_length \in Children({info}) /\ piece_length.type = "INTEGER"
      /\ pieces \in Children({info}) /\ pieces.type = "BYTE_STRING"
  <2>1. Sound(data, info)
    BY <1>3, <1>5
  <2> HIDE DEF info
  <2>2. Found(length) /\ Found(piece_length) /\ Found(pieces)
    BY <1>2, <1>2a, <1>2b
  <2>3. length \in Children({info}) /\ length.type = "INTEGER"
    BY <2>1, <2>2, EntryFound
  <2>4. piece_length \in Children({info}) /\ piece_length.type = "INTEGER"
    BY <2>1, <2>2, EntryFound
  <2>5. pieces \in Children({info}) /\ pieces.type = "BYTE_STRING"
    BY <2>1, <2>2, EntryFound
  <2> QED
    BY <2>3, <2>4, <2>5
<1>8. Sound(data, announce) /\ Sound(data, length) /\ Sound(data, piece_length) /\ Sound(data, pieces)
  BY <1>3, <1>4, <1>6, <1>7
<1> HIDE DEF info, m, announce, length, piece_length, pieces
<1>9. /\ announce.value.data \in Nat /\ announce.value.length \in Nat
      /\ announce.value.data + announce.value.length <= Len(data)
  BY <1>4, <1>8 DEF Sound
<1>10. Text(data, m.announce) \in Seq(0 .. 255)
  BY <1>1, <1>9, TextOf
<1>11. m.info.length \in Nat /\ m.info.piece_length \in Nat \ {0}
  BY <1>1, <1>2, <1>2a, <1>7, <1>8 DEF Sound
<1>12. /\ m.info.pieces.data \in Nat /\ m.info.pieces.length \in Nat
       /\ m.info.pieces.data + m.info.pieces.length <= Len(data)
       /\ m.info.pieces.length % HashLength = 0
  BY <1>1, <1>2b, <1>7, <1>8 DEF Sound
<1> QED
  BY <1>10, <1>11, <1>12 DEF m

-----------------------------------------------------------------------------
(* The invariant.                                                          *)

LEMMA AtNumber ==
  ASSUME StartupInv, Running
  PROVE  /\ step \in 1 .. 34 /\ step <= Len(Steps) /\ This = Steps[step]
         /\ \A call : At(call) <=> Steps[step].call = call
BY Order DEF StartupInv, TypeOK, At, This

\* The step that is at a call, of those that the values have a part in.
LEMMA StepNumber ==
  ASSUME StartupInv, Running
  PROVE  /\ At("fread") <=> step = 5
         /\ At("parse_bencode_buffer") <=> step = 7
         /\ At("torrent_metadata_extract") <=> step = 8
         /\ At("generate_peer_id") <=> step = 11
         /\ At("escape_info_hash") <=> step = 16
         /\ At("escape_peer_id") <=> step = 17
         /\ At("malloc_url") <=> step = 20
         /\ At("fill_url") <=> step = 21
         /\ At("set_CURLOPT_URL") <=> step = 22
         /\ At("curl_easy_perform") <=> step = 23
         /\ At("tracker_response_parse") <=> step = 25
         /\ At("peers_extract") <=> step = 28
<1>1. step \in 1 .. 34 /\ \A call : At(call) <=> Steps[step].call = call
  BY AtNumber
<1> DEFINE k == step
<1>2. k \in 1 .. 34
  BY <1>1
<1> HIDE DEF k
<1>3. /\ Steps[k].call = "fread" <=> k = 5
      /\ Steps[k].call = "parse_bencode_buffer" <=> k = 7
      /\ Steps[k].call = "torrent_metadata_extract" <=> k = 8
      /\ Steps[k].call = "generate_peer_id" <=> k = 11
      /\ Steps[k].call = "escape_info_hash" <=> k = 16
      /\ Steps[k].call = "escape_peer_id" <=> k = 17
      /\ Steps[k].call = "malloc_url" <=> k = 20
      /\ Steps[k].call = "fill_url" <=> k = 21
      /\ Steps[k].call = "set_CURLOPT_URL" <=> k = 22
      /\ Steps[k].call = "curl_easy_perform" <=> k = 23
      /\ Steps[k].call = "tracker_response_parse" <=> k = 25
      /\ Steps[k].call = "peers_extract" <=> k = 28
  BY <1>2, Numbered
<1>4. /\ At("fread") <=> Steps[k].call = "fread"
      /\ At("parse_bencode_buffer") <=> Steps[k].call = "parse_bencode_buffer"
      /\ At("torrent_metadata_extract") <=> Steps[k].call = "torrent_metadata_extract"
      /\ At("generate_peer_id") <=> Steps[k].call = "generate_peer_id"
      /\ At("escape_info_hash") <=> Steps[k].call = "escape_info_hash"
      /\ At("escape_peer_id") <=> Steps[k].call = "escape_peer_id"
      /\ At("malloc_url") <=> Steps[k].call = "malloc_url"
      /\ At("fill_url") <=> Steps[k].call = "fill_url"
      /\ At("set_CURLOPT_URL") <=> Steps[k].call = "set_CURLOPT_URL"
      /\ At("curl_easy_perform") <=> Steps[k].call = "curl_easy_perform"
      /\ At("tracker_response_parse") <=> Steps[k].call = "tracker_response_parse"
      /\ At("peers_extract") <=> Steps[k].call = "peers_extract"
  BY <1>1, Zenon DEF k
<1>5. k = step
  BY DEF k
<1> QED
  BY <1>3, <1>4, <1>5

\* What a successful step changes whatever it computes.
LEMMA Succeeded ==
  ASSUME StartupInv, Succeed
  PROVE  /\ StartupInv' /\ Running /\ step \in 1 .. 34
         /\ step' = step + 1 /\ response_length' = response_length
         /\ status' = "downloading" => step' = Len(Steps) + 1
<1>1. StartupInv'
  BY StartupNext DEF Next
<1>2. Running
  BY DEF Succeed
<1> QED
  BY <1>1, <1>2, AtNumber, Order DEF Succeed

\* The tests that the invariant remembers.
LEMMA Verdicts ==
  ASSUME StartupInv, Running, Verdict
  PROVE  /\ step = 8 => ExtractMetadata(torrent, obj).ok
         /\ step = 27 => Found(peers_object)
         /\ step = 29 => current_peers # <<>>
         /\ step = 31 => Info.piece_length <= SizeMax /\ Info.length <= SizeMax
         /\ step = 32 => SomePieces
<1>1. \A call : At(call) <=> Steps[step].call = call
  BY AtNumber
<1>2. step \in 1 .. 34
  BY AtNumber
<1>3. ASSUME step = 8 PROVE ExtractMetadata(torrent, obj).ok
  <2>1. At("torrent_metadata_extract")
    BY <1>1, <1>2, <1>3, Numbered
  <2>2. /\ ~At("info_span_inside_buffer") /\ ~At("announce_given")
        /\ ~At("url_capacity") /\ ~At("fill_url")
        /\ ~At("find_interval") /\ ~At("find_peers")
        /\ ~At("peer_count") /\ ~At("length_signs")
        /\ ~At("lengths_in_size_t") /\ ~At("piece_count")
    BY <1>1, <1>2, <1>3, Numbered
  <2> QED
    BY <2>1, <2>2, Zenon DEF Verdict
<1>4. ASSUME step = 27 PROVE Found(peers_object)
  <2>1. At("find_peers")
    BY <1>1, <1>2, <1>4, Numbered
  <2>2. /\ ~At("torrent_metadata_extract") /\ ~At("info_span_inside_buffer")
        /\ ~At("announce_given") /\ ~At("url_capacity")
        /\ ~At("fill_url") /\ ~At("find_interval")
        /\ ~At("peer_count") /\ ~At("length_signs")
        /\ ~At("lengths_in_size_t") /\ ~At("piece_count")
    BY <1>1, <1>2, <1>4, Numbered
  <2> QED
    BY <2>1, <2>2, Zenon DEF Verdict
<1>5. ASSUME step = 29 PROVE current_peers # <<>>
  <2>1. At("peer_count")
    BY <1>1, <1>2, <1>5, Numbered
  <2>2. /\ ~At("torrent_metadata_extract") /\ ~At("info_span_inside_buffer")
        /\ ~At("announce_given") /\ ~At("url_capacity")
        /\ ~At("fill_url") /\ ~At("find_interval")
        /\ ~At("find_peers") /\ ~At("length_signs")
        /\ ~At("lengths_in_size_t") /\ ~At("piece_count")
    BY <1>1, <1>2, <1>5, Numbered
  <2> QED
    BY <2>1, <2>2, Zenon DEF Verdict
<1>6. ASSUME step = 31 PROVE Info.piece_length <= SizeMax /\ Info.length <= SizeMax
  <2>1. At("lengths_in_size_t")
    BY <1>1, <1>2, <1>6, Numbered
  <2>2. /\ ~At("torrent_metadata_extract") /\ ~At("info_span_inside_buffer")
        /\ ~At("announce_given") /\ ~At("url_capacity")
        /\ ~At("fill_url") /\ ~At("find_interval")
        /\ ~At("find_peers") /\ ~At("peer_count")
        /\ ~At("length_signs") /\ ~At("piece_count")
    BY <1>1, <1>2, <1>6, Numbered
  <2> QED
    BY <2>1, <2>2, Zenon DEF Verdict
<1>7. ASSUME step = 32 PROVE SomePieces
  <2>1. At("piece_count")
    BY <1>1, <1>2, <1>7, Numbered
  <2>2. /\ ~At("torrent_metadata_extract") /\ ~At("info_span_inside_buffer")
        /\ ~At("announce_given") /\ ~At("url_capacity")
        /\ ~At("fill_url") /\ ~At("find_interval")
        /\ ~At("find_peers") /\ ~At("peer_count")
        /\ ~At("length_signs") /\ ~At("lengths_in_size_t")
    BY <1>1, <1>2, <1>7, Numbered
  <2> QED
    BY <2>1, <2>2, Zenon DEF Verdict
<1> QED
  BY <1>3, <1>4, <1>5, <1>6, <1>7

LEMMA TorrentKept ==
  ASSUME TorrentParsed, step \in 1 .. 34, step' = step + 1, step \notin {5, 7, 8},
         UNCHANGED <<torrent, obj, metadata, heap>>
  PROVE  TorrentParsed'
BY DEF TorrentParsed

LEMMA AnswerKept ==
  ASSUME AnswerParsed, step \in 1 .. 34, step' = step + 1, step \notin {22, 25, 27, 28},
         UNCHANGED <<body, response_length, response_obj, current_peers>>,
         step > 22 => torrent' = torrent
  PROVE  AnswerParsed'
<1>1. response' = response /\ peers_object' = peers_object
  BY DEF response, peers_object
<1> QED
  BY <1>1 DEF AnswerParsed

LEMMA CheckedKept ==
  ASSUME Checked, step \in 1 .. 34, step' = step + 1, step \notin {29, 31, 32},
         step > 29 => current_peers' = current_peers,
         step > 31 => metadata' = metadata
  PROVE  Checked'
<1>1. step > 31 => Info' = Info /\ SomePieces' = SomePieces
  BY DEF Info, SomePieces, piece_count
<1> QED
  BY <1>1 DEF Checked

LEMMA IntakeInitial == IntakeInit => IntakeInv
<1> SUFFICES ASSUME IntakeInit PROVE IntakeInv
  OBVIOUS
<1>1. StartupInv
  BY StartupInit DEF IntakeInit
<1>2. step = 1 /\ status = "running" /\ response_length = 0 /\ body = <<>> /\ heap = EmptyHeap
  BY DEF IntakeInit, Init
<1> QED
  BY <1>1, <1>2 DEF IntakeInv, TorrentParsed, AnswerParsed, Checked,
                     RequestMade

LEMMA KeptBySuccess == IntakeInv /\ IntakeSucceeds => IntakeInv'
<1> SUFFICES ASSUME IntakeInv, IntakeSucceeds PROVE IntakeInv'
  OBVIOUS
<1>1. /\ StartupInv' /\ Running /\ step \in 1 .. 34
      /\ step' = step + 1 /\ response_length' = response_length
      /\ status' = "downloading" => step' = Len(Steps) + 1
  BY Succeeded DEF IntakeInv, IntakeSucceeds
<1>2. UNCHANGED <<torrent, obj, metadata, request, body, response_obj, current_peers, heap>>
  BY DEF IntakeSucceeds, dataVars
<1>3. TorrentParsed /\ AnswerParsed /\ Checked
  BY <1>1 DEF IntakeInv, Running
<1>4. step \notin {5, 7, 8, 11, 22, 25, 28}
  <2>1. \A call \in Storing : ~ At(call)
    BY DEF IntakeSucceeds, At
  <2>2. /\ ~ At("fread") /\ ~ At("parse_bencode_buffer") /\ ~ At("torrent_metadata_extract")
        /\ ~ At("generate_peer_id") /\ ~ At("set_CURLOPT_URL")
        /\ ~ At("tracker_response_parse") /\ ~ At("peers_extract")
    BY <2>1 DEF Storing
  <2> QED
    BY <1>1, <2>2, StepNumber DEF IntakeInv
<1>5. /\ step = 27 => Found(peers_object)
      /\ step = 29 => current_peers # <<>>
      /\ step = 31 => Info.piece_length <= SizeMax /\ Info.length <= SizeMax
      /\ step = 32 => SomePieces
  <2>1. step \in {27, 29, 31, 32} => Verdict
    BY <1>1, Numbered, Order DEF IntakeSucceeds, Decided, Decisions, This
  <2> QED
    BY <1>1, <2>1, Verdicts DEF IntakeInv
<1>6. TorrentParsed'
  BY <1>1, <1>2, <1>3, <1>4, TorrentKept
<1>7. AnswerParsed'
  <2>1. CASE step # 27
    BY <1>1, <1>2, <1>3, <1>4, <2>1, AnswerKept
  <2>2. CASE step = 27
    <3>1. Found(peers_object)
      BY <1>5, <2>2
    <3> QED
      BY <1>1, <1>2, <1>3, <2>2, <3>1 DEF AnswerParsed, response, peers_object
  <2> QED
    BY <2>1, <2>2
<1>8. Checked'
  <2>1. Info' = Info /\ SomePieces' = SomePieces
    BY <1>2 DEF Info, SomePieces, piece_count
  <2> QED
    BY <1>1, <1>2, <1>3, <1>4, <1>5, <2>1 DEF Checked
<1>9. RequestMade'
  BY <1>1, <1>2, <1>4 DEF IntakeInv, RequestMade
<1> QED
  BY <1>1, <1>6, <1>7, <1>8, <1>9 DEF IntakeInv

LEMMA KeptByFailure == IntakeInv /\ IntakeFails => IntakeInv'
<1> SUFFICES ASSUME IntakeInv, IntakeFails PROVE IntakeInv'
  OBVIOUS
<1>1. StartupInv'
  BY StartupNext DEF IntakeInv, IntakeFails, Next
<1>2. status' = "failed"
  BY DEF IntakeFails, Fail
<1>3. RequestMade'
  BY DEF IntakeInv, IntakeFails, Fail, dataVars, RequestMade
<1> QED
  BY <1>1, <1>2, <1>3 DEF IntakeInv

LEMMA KeptByReadFile == IntakeInv /\ ReadFile => IntakeInv'
<1> SUFFICES ASSUME IntakeInv, ReadFile PROVE IntakeInv'
  OBVIOUS
<1>1. /\ StartupInv' /\ Running /\ step \in 1 .. 34
      /\ step' = step + 1 /\ response_length' = response_length
      /\ status' = "downloading" => step' = Len(Steps) + 1
  BY Succeeded DEF IntakeInv, ReadFile
<1>2. step = 5
  BY <1>1, StepNumber DEF IntakeInv, ReadFile
<1>3. TorrentParsed /\ AnswerParsed /\ Checked
  BY <1>1 DEF IntakeInv, Running
<1>4. TorrentParsed'
  BY <1>1, <1>2, <1>3 DEF TorrentParsed, ReadFile
<1>5. AnswerParsed'
  BY <1>1, <1>2, <1>3, AnswerKept DEF ReadFile
<1>6. Checked'
  BY <1>1, <1>2 DEF Checked
<1>7. RequestMade'
  BY <1>1, <1>2 DEF RequestMade
<1> QED
  BY <1>1, <1>4, <1>5, <1>6, <1>7 DEF IntakeInv

LEMMA KeptByParseTorrent == IntakeInv /\ ParseTorrent => IntakeInv'
<1> SUFFICES ASSUME IntakeInv, ParseTorrent PROVE IntakeInv'
  OBVIOUS
<1> PICK refused \in 0 .. MaxAllocations :
       LET parsed == parse_bencode_buffer(torrent, 0, HeapFor(heap, refused))
       IN /\ heap' = [parsed.heap EXCEPT !.fails = 0]
          /\ IF parsed.ok THEN Succeed /\ obj' = parsed.object
                          ELSE Fail /\ UNCHANGED obj
  BY DEF ParseTorrent
<1> DEFINE parsed == parse_bencode_buffer(torrent, 0, HeapFor(heap, refused))
<1>1. CASE ~ parsed.ok
  <2>1. Fail
    BY <1>1
  <2>2. StartupInv' /\ status' = "failed"
    BY <2>1, StartupNext DEF IntakeInv, Next, Fail
  <2>3. RequestMade'
    BY <2>1 DEF ParseTorrent, Fail, IntakeInv, RequestMade
  <2> QED
    BY <2>2, <2>3 DEF IntakeInv
<1>2. CASE parsed.ok
  <2>1. Succeed /\ obj' = parsed.object /\ heap' = [parsed.heap EXCEPT !.fails = 0]
    BY <1>2
  <2>2. /\ StartupInv' /\ Running /\ step \in 1 .. 34
        /\ step' = step + 1 /\ response_length' = response_length
        /\ status' = "downloading" => step' = Len(Steps) + 1
    BY <2>1, Succeeded DEF IntakeInv
  <2>3. step = 7
    BY <2>2, StepNumber DEF IntakeInv, ParseTorrent
  <2>4. TorrentParsed /\ AnswerParsed /\ Checked
    BY <2>2 DEF IntakeInv, Running
  <2>5. torrent \in Torrents /\ heap = EmptyHeap
    BY <2>3, <2>4 DEF TorrentParsed
  <2>6. parsed \in Parses(torrent, EmptyHeap)
    BY <2>5 DEF Parses
  <2>7. SoundTree(torrent, obj') /\ heap' \in HeapsAfter(torrent)
    <3> HIDE DEF parsed
    <3>1. SoundTree(torrent, parsed.object)
      BY <1>2, <2>5, <2>6, ParserAssumption DEF ParsesSoundly
    <3>2. heap' \in HeapsAfter(torrent)
      BY <1>2, <2>1, <2>6 DEF HeapsAfter
    <3> QED
      BY <2>1, <3>1, <3>2
  <2>8. UNCHANGED <<torrent, metadata, request, body, response_obj, current_peers>>
    BY DEF ParseTorrent
  <2>9. TorrentParsed'
    BY <2>2, <2>3, <2>5, <2>7, <2>8 DEF TorrentParsed
  <2>10. AnswerParsed'
    BY <2>2, <2>3, <2>4, <2>8, AnswerKept
  <2>11. Checked'
    BY <2>2, <2>3 DEF Checked
  <2>12. RequestMade'
    BY <2>2, <2>3 DEF RequestMade
  <2> QED
    BY <2>2, <2>9, <2>10, <2>11, <2>12 DEF IntakeInv
<1> QED
  BY <1>1, <1>2

LEMMA KeptByExtract == IntakeInv /\ Extract => IntakeInv'
<1> SUFFICES ASSUME IntakeInv, Extract PROVE IntakeInv'
  OBVIOUS
<1>1. /\ StartupInv' /\ Running /\ step \in 1 .. 34
      /\ step' = step + 1 /\ response_length' = response_length
      /\ status' = "downloading" => step' = Len(Steps) + 1
  BY Succeeded DEF IntakeInv, Extract
<1>2. step = 8
  BY <1>1, StepNumber DEF IntakeInv, Extract
<1>3. TorrentParsed /\ AnswerParsed /\ Checked
  BY <1>1 DEF IntakeInv, Running
<1>4. ExtractMetadata(torrent, obj).ok
  BY <1>1, <1>2, Verdicts DEF IntakeInv, Extract
<1>5. TorrentParsed'
  BY <1>1, <1>2, <1>3, <1>4 DEF TorrentParsed, Extract
<1>6. AnswerParsed'
  BY <1>1, <1>2, <1>3, AnswerKept DEF Extract
<1>7. Checked'
  BY <1>1, <1>2 DEF Checked
<1>8. RequestMade'
  BY <1>1, <1>2 DEF RequestMade
<1> QED
  BY <1>1, <1>5, <1>6, <1>7, <1>8 DEF IntakeInv

LEMMA KeptByMakeRequest == IntakeInv /\ MakeRequest => IntakeInv'
<1> SUFFICES ASSUME IntakeInv, MakeRequest PROVE IntakeInv'
  OBVIOUS
<1>1. /\ StartupInv' /\ Running /\ step \in 1 .. 34
      /\ step' = step + 1 /\ response_length' = response_length
      /\ status' = "downloading" => step' = Len(Steps) + 1
  BY Succeeded DEF IntakeInv, MakeRequest
<1>2. step = 11
  BY <1>1, StepNumber DEF IntakeInv, MakeRequest
<1>3. TorrentParsed /\ AnswerParsed /\ Checked
  BY <1>1 DEF IntakeInv, Running
<1>u. UNCHANGED <<torrent, obj, metadata, body, response_obj, current_peers, heap>>
  BY Zenon DEF MakeRequest
<1>4. TorrentParsed'
  BY <1>1, <1>2, <1>3, <1>u, TorrentKept
<1>5. AnswerParsed'
  BY <1>1, <1>2, <1>3, <1>u, AnswerKept
<1>6. Text(torrent, metadata.announce) \in Seq(0 .. 255) /\ Info.length \in Nat
  <2>1. /\ torrent \in Torrents /\ SoundTree(torrent, obj)
        /\ metadata = ExtractMetadata(torrent, obj) /\ ExtractMetadata(torrent, obj).ok
    BY <1>2, <1>3 DEF TorrentParsed
  <2>2. torrent \in Seq(0 .. 255)
    BY <2>1, IntakeAssumption
  <2> QED
    BY <2>1, <2>2, MetadataSound DEF Info
<1>7. request' \in Requests
  <2>1. "TRACKER_EVENT_STARTED" \in TrackerEvents
    BY DEF TrackerEvents
  <2>2. "" \in Texts
    BY DEF Texts
  <2> QED
    BY <1>6, <2>1, <2>2 DEF MakeRequest, Requests
<1>8. Checked'
  BY <1>1, <1>2 DEF Checked
<1>9. RequestMade'
  BY <1>7 DEF RequestMade
<1> QED
  BY <1>1, <1>4, <1>5, <1>8, <1>9 DEF IntakeInv

LEMMA KeptByEscape == IntakeInv /\ Escape => IntakeInv'
<1> SUFFICES ASSUME IntakeInv, Escape PROVE IntakeInv'
  OBVIOUS
<1>1. /\ StartupInv' /\ Running /\ step \in 1 .. 34
      /\ step' = step + 1 /\ response_length' = response_length
      /\ status' = "downloading" => step' = Len(Steps) + 1
  BY Succeeded DEF IntakeInv, Escape
<1>2. step \in {16, 17}
  <2>1. At("escape_info_hash") \/ At("escape_peer_id")
    BY DEF Escape
  <2> QED
    BY <1>1, <2>1, StepNumber DEF IntakeInv
<1>3. TorrentParsed /\ AnswerParsed /\ Checked
  BY <1>1 DEF IntakeInv, Running
<1>4. TorrentParsed'
  BY <1>1, <1>2, <1>3, TorrentKept DEF Escape
<1>5. AnswerParsed'
  BY <1>1, <1>2, <1>3, AnswerKept DEF Escape
<1>6. request' \in Requests
  <2>1. request \in Requests
    BY <1>2 DEF IntakeInv, RequestMade
  <2>2. PICK text \in EscapedTexts : \/ request' = [request EXCEPT !.info_hash_encoded = text]
                                     \/ request' = [request EXCEPT !.peer_id_encoded = text]
    BY DEF Escape
  <2>3. text \in Texts
    BY DEF Texts
  <2> QED
    BY <2>1, <2>2, <2>3 DEF Requests
<1>7. Checked'
  BY <1>1, <1>2 DEF Checked
<1>8. RequestMade'
  BY <1>6 DEF RequestMade
<1> QED
  BY <1>1, <1>4, <1>5, <1>7, <1>8 DEF IntakeInv

LEMMA KeptByFillUrl == IntakeInv /\ FillUrl => IntakeInv'
<1> SUFFICES ASSUME IntakeInv, FillUrl PROVE IntakeInv'
  OBVIOUS
<1>1. /\ StartupInv' /\ Running /\ step \in 1 .. 34
      /\ step' = step + 1 /\ response_length' = response_length
      /\ status' = "downloading" => step' = Len(Steps) + 1
  BY Succeeded DEF IntakeInv, FillUrl
<1>2. step = 21
  BY <1>1, StepNumber DEF IntakeInv, FillUrl
<1>3. TorrentParsed /\ AnswerParsed /\ Checked
  BY <1>1 DEF IntakeInv, Running
<1>4. UNCHANGED <<torrent, obj, metadata, body, response_obj, current_peers, heap>>
  BY Zenon DEF FillUrl
<1>5. TorrentParsed'
  BY <1>1, <1>2, <1>3, <1>4, TorrentKept
<1>6. AnswerParsed'
  BY <1>1, <1>2, <1>3, <1>4, AnswerKept
<1>7. request' \in Requests
  <2>1. request \in Requests
    BY <1>2 DEF IntakeInv, RequestMade
  <2>2. "" \in Texts
    BY DEF Texts
  <2> QED
    BY <2>1, <2>2 DEF FillUrl, Requests
<1>8. Checked'
  BY <1>1, <1>2 DEF Checked
<1>9. RequestMade'
  BY <1>7 DEF RequestMade
<1> QED
  BY <1>1, <1>5, <1>6, <1>8, <1>9 DEF IntakeInv

LEMMA KeptBySetUrl == IntakeInv /\ SetUrl => IntakeInv'
<1> SUFFICES ASSUME IntakeInv, SetUrl PROVE IntakeInv'
  OBVIOUS
<1>1. /\ StartupInv' /\ Running /\ step \in 1 .. 34
      /\ step' = step + 1 /\ response_length' = response_length
      /\ status' = "downloading" => step' = Len(Steps) + 1
  BY Succeeded DEF IntakeInv, SetUrl
<1>2. step = 22
  BY <1>1, StepNumber DEF IntakeInv, SetUrl
<1>3. TorrentParsed /\ AnswerParsed /\ Checked
  BY <1>1 DEF IntakeInv, Running
<1>4. TorrentParsed'
  BY <1>1, <1>2, <1>3, TorrentKept DEF SetUrl
<1>5. AnswerParsed'
  <2>1. torrent \in Torrents /\ torrent' = torrent /\ body' \in Bodies(torrent)
    BY <1>2, <1>3 DEF TorrentParsed, SetUrl
  <2>2. Len(body') \in Nat
    BY <2>1, IntakeAssumption
  <2>3. response_length = 0
    BY <1>2, <1>3 DEF AnswerParsed
  <2> QED
    BY <1>1, <1>2, <2>1, <2>2, <2>3 DEF AnswerParsed
<1>6. Checked'
  BY <1>1, <1>2, <1>3, CheckedKept DEF SetUrl
<1>7. RequestMade'
  BY <1>1, <1>2 DEF IntakeInv, SetUrl, RequestMade
<1> QED
  BY <1>1, <1>4, <1>5, <1>6, <1>7 DEF IntakeInv

LEMMA KeptByReceiveChunk ==
  ASSUME IntakeInv, NEW size \in 0 .. MaxChunk, ReceiveChunk(size)
  PROVE  IntakeInv'
<1>1. StartupInv'
  BY StartupNext DEF IntakeInv, ReceiveChunk, Next
<1>2. /\ Running /\ step \in 1 .. 34 /\ step' = step /\ status' = status
      /\ response_length' = (response_length + size) % (SizeMax + 1)
      /\ ChunkFits(size)
  BY AtNumber DEF IntakeInv, ReceiveChunk, WriteChunk
<1>3. step = 23
  BY <1>2, Numbered DEF ReceiveChunk, WriteChunk, This
<1>4. TorrentParsed /\ AnswerParsed /\ Checked
  BY <1>2 DEF IntakeInv, Running
<1>5. UNCHANGED <<torrent, obj, metadata, request, body, response_obj, current_peers, heap>>
  BY DEF ReceiveChunk, dataVars
<1>6. response_length' <= Len(body)
  <2>1. response_length \in Nat /\ SizeMax \in Nat /\ size \in Nat /\ response_length + size <= SizeMax
    BY <1>2, StartupAssumption DEF IntakeInv, StartupInv, TypeOK, ChunkFits
  <2>2. (response_length + size) % (SizeMax + 1) = response_length + size
    BY <2>1
  <2> QED
    BY <1>2, <2>2 DEF ReceiveChunk
<1>7. TorrentParsed'
  BY <1>2, <1>3, <1>4, <1>5 DEF TorrentParsed
<1>8. AnswerParsed'
  BY <1>2, <1>3, <1>4, <1>5, <1>6 DEF AnswerParsed
<1>9. Checked'
  BY <1>2, <1>3, <1>4, <1>5 DEF Checked
<1>10. RequestMade'
  BY <1>2, <1>5 DEF IntakeInv, RequestMade
<1> QED
  BY <1>1, <1>2, <1>7, <1>8, <1>9, <1>10 DEF IntakeInv, Running

LEMMA KeptByParseBody == IntakeInv /\ ParseBody => IntakeInv'
<1> SUFFICES ASSUME IntakeInv, ParseBody PROVE IntakeInv'
  OBVIOUS
<1> PICK refused \in 0 .. MaxAllocations :
       LET parsed == ParseResponse(response, HeapFor(heap, refused))
       IN IF parsed.ok
          THEN /\ Succeed
               /\ response_obj' = parsed.object
               /\ heap' = [parsed.heap EXCEPT !.fails = 0]
          ELSE Fail
  BY DEF ParseBody
<1> DEFINE parsed   == parse_bencode_buffer(response, 0, HeapFor(heap, refused))
           answered == ParseResponse(response, HeapFor(heap, refused))
<1>1. CASE ~ answered.ok
  <2>1. Fail
    BY <1>1
  <2>2. StartupInv' /\ status' = "failed"
    BY <2>1, StartupNext DEF IntakeInv, Next, Fail
  <2>3. RequestMade'
    BY <2>1 DEF ParseBody, Fail, IntakeInv, RequestMade
  <2> QED
    BY <2>2, <2>3 DEF IntakeInv
<1>2. CASE answered.ok
  <2>1. Succeed /\ response_obj' = answered.object
    BY <1>2
  <2>2. /\ StartupInv' /\ Running /\ step \in 1 .. 34
        /\ step' = step + 1 /\ response_length' = response_length
        /\ status' = "downloading" => step' = Len(Steps) + 1
    BY <2>1, Succeeded DEF IntakeInv
  <2>3. step = 25
    BY <2>2, StepNumber DEF IntakeInv, ParseBody
  <2>4. TorrentParsed /\ AnswerParsed /\ Checked
    BY <2>2 DEF IntakeInv, Running
  <2>5. UNCHANGED <<torrent, obj, metadata, request, body, current_peers>>
    BY DEF ParseBody
  <2>6. parsed.ok /\ answered = parsed
    BY <1>2 DEF ParseResponse, Failed
  <2>7. SoundTree(response, response_obj')
    <3>1. torrent \in Torrents /\ heap \in HeapsAfter(torrent) /\ body \in Bodies(torrent)
      BY <2>3, <2>4 DEF TorrentParsed, AnswerParsed
    <3>2. response_length \in 0 .. Len(body)
      BY <2>4, <3>1, IntakeAssumption DEF AnswerParsed, IntakeInv, StartupInv, TypeOK
    <3>3. ParsesSoundly(response, heap)
      <4>1. \A answer \in HeapsAfter(torrent) \X Bodies(torrent) :
              \A n \in 0 .. Len(answer[2]) :
                ParsesSoundly(SubSeq(answer[2], 1, n), answer[1])
        BY <3>1, ParserAssumption, Zenon
      <4>2. <<heap, body>> \in HeapsAfter(torrent) \X Bodies(torrent)
        BY <3>1
      <4>3. <<heap, body>>[1] = heap /\ <<heap, body>>[2] = body
        OBVIOUS
      <4> QED
        BY <3>2, <4>1, <4>2, <4>3 DEF response
    <3>4. parsed \in Parses(response, heap)
      BY DEF Parses
    <3> HIDE DEF parsed, answered
    <3> QED
      BY <2>1, <2>6, <3>3, <3>4 DEF ParsesSoundly
  <2>8. TorrentParsed'
    BY <2>2, <2>3, <2>4, <2>5 DEF TorrentParsed
  <2>9. response' = response
    BY <2>2, <2>5 DEF response
  <2>10. AnswerParsed'
    BY <2>2, <2>3, <2>4, <2>5, <2>7, <2>9 DEF AnswerParsed
  <2>11. Checked'
    BY <2>2, <2>3, <2>4, <2>5, CheckedKept
  <2>12. RequestMade'
    BY <2>2, <2>3, <2>5 DEF IntakeInv, RequestMade
  <2> QED
    BY <2>2, <2>8, <2>10, <2>11, <2>12 DEF IntakeInv
<1> QED
  BY <1>1, <1>2

LEMMA KeptByTakePeers == IntakeInv /\ TakePeers => IntakeInv'
<1> SUFFICES ASSUME IntakeInv, TakePeers PROVE IntakeInv'
  OBVIOUS
<1>1. /\ StartupInv' /\ Running /\ step \in 1 .. 34
      /\ step' = step + 1 /\ response_length' = response_length
      /\ status' = "downloading" => step' = Len(Steps) + 1
  BY Succeeded DEF IntakeInv, TakePeers
<1>2. step = 28
  BY <1>1, StepNumber DEF IntakeInv, TakePeers
<1>3. TorrentParsed /\ AnswerParsed /\ Checked
  BY <1>1 DEF IntakeInv, Running
<1>4. UNCHANGED <<torrent, obj, metadata, request, body, response_obj, heap>>
  BY DEF TakePeers
<1>5. response' = response /\ peers_object' = peers_object
  BY <1>1, <1>4 DEF response, peers_object
<1>6. /\ ExtractPeers(response, peers_object).ok
      /\ current_peers' = ExtractPeers(response, peers_object).peers
  BY DEF TakePeers
<1>7. TorrentParsed'
  BY <1>1, <1>2, <1>3, <1>4, TorrentKept
<1>8. AnswerParsed'
  BY <1>1, <1>2, <1>3, <1>4, <1>5, <1>6 DEF AnswerParsed
<1>9. Checked'
  BY <1>1, <1>2, <1>3, <1>4, CheckedKept
<1>10. RequestMade'
  BY <1>1, <1>2, <1>4 DEF IntakeInv, RequestMade
<1> QED
  BY <1>1, <1>7, <1>8, <1>9, <1>10 DEF IntakeInv

LEMMA KeptByEnd == IntakeInv /\ EndAndFree => IntakeInv'
<1> SUFFICES ASSUME IntakeInv, EndAndFree PROVE IntakeInv'
  OBVIOUS
<1>1. StartupInv'
  BY StartupNext DEF IntakeInv, EndAndFree, Next
<1>2. status' = "done"
  BY DEF EndAndFree, EndDownload
<1>3. RequestMade'
  BY DEF IntakeInv, EndAndFree, EndDownload, dataVars, RequestMade
<1> QED
  BY <1>1, <1>2, <1>3 DEF IntakeInv

LEMMA KeptByStuttering == IntakeInv /\ UNCHANGED ivars => IntakeInv'
<1> SUFFICES ASSUME IntakeInv, UNCHANGED ivars PROVE IntakeInv'
  OBVIOUS
<1>1. StartupInv'
  BY StartupNext DEF IntakeInv, ivars, vars
<1>2. /\ UNCHANGED <<step, status, response_length, torrent, obj, metadata, request, body>>
      /\ UNCHANGED <<response_obj, current_peers, heap>>
  BY DEF ivars, vars, dataVars
<1>3. response' = response /\ peers_object' = peers_object
  BY <1>2 DEF response, peers_object
<1>4. Info' = Info /\ SomePieces' = SomePieces
  BY <1>2 DEF Info, SomePieces, piece_count
<1>5. /\ TorrentParsed => TorrentParsed'
      /\ AnswerParsed => AnswerParsed'
      /\ Checked => Checked'
  BY <1>2, <1>3, <1>4 DEF TorrentParsed, AnswerParsed, Checked
<1>6. RequestMade'
  BY <1>2 DEF IntakeInv, RequestMade
<1> QED
  BY <1>1, <1>2, <1>5, <1>6 DEF IntakeInv

LEMMA IntakeKept == IntakeInv /\ [IntakeNext]_ivars => IntakeInv'
BY KeptBySuccess, KeptByFailure, KeptByReadFile, KeptByParseTorrent, KeptByExtract,
   KeptByMakeRequest, KeptByEscape, KeptByFillUrl, KeptBySetUrl, KeptByReceiveChunk,
   KeptByParseBody, KeptByTakePeers, KeptByEnd, KeptByStuttering
DEF IntakeNext

(***************************************************************************)
(* What each step of main has found out about the torrent and about the    *)
(* answer still holds at every later one, up to the download loop, for     *)
(* every torrent, every answer and every chunk in which it comes           *)
(* (main.c:33-283, tracker.c:315-411).                                     *)
(***************************************************************************)
THEOREM IntakeInvariant == IntakeSpec => []IntakeInv
BY IntakeInitial, IntakeKept, PTL DEF IntakeSpec

-----------------------------------------------------------------------------
(* What main goes on with.                                                 *)

LEMMA DividedBy ==
  ASSUME NEW a \in Nat, NEW b \in Nat \ {0}
  PROVE  a \div b \in Nat /\ a = (a \div b) * b + (a % b)
OBVIOUS

LEMMA LoopPreconditionsHold == IntakeInv => LoopPreconditions
<1> SUFFICES ASSUME IntakeInv, status = "downloading"
             PROVE  /\ Info.piece_length \in 1 .. SizeMax
                    /\ Info.length \in 0 .. SizeMax
                    /\ piece_count > 0
                    /\ Info.pieces.length = piece_count * HashLength
                    /\ Info.pieces.data + Info.pieces.length <= Len(torrent)
                    /\ current_peers # <<>>
  BY DEF LoopPreconditions
<1>1. step = 35 /\ TorrentParsed /\ Checked
  BY Order DEF IntakeInv
<1>2. /\ torrent \in Torrents /\ SoundTree(torrent, obj)
      /\ metadata = ExtractMetadata(torrent, obj) /\ ExtractMetadata(torrent, obj).ok
  BY <1>1 DEF TorrentParsed
<1>3. torrent \in Seq(0 .. 255)
  BY <1>2, IntakeAssumption
<1>4. /\ Info.length \in Nat
      /\ Info.piece_length \in Nat \ {0}
      /\ Info.pieces.data \in Nat /\ Info.pieces.length \in Nat
      /\ Info.pieces.data + Info.pieces.length <= Len(torrent)
      /\ Info.pieces.length % HashLength = 0
  BY <1>2, <1>3, MetadataSound DEF Info
<1>5. piece_count \in Nat /\ Info.pieces.length = piece_count * HashLength
  <2> DEFINE a == Info.pieces.length
  <2>1. a \in Nat /\ HashLength \in Nat \ {0} /\ a % HashLength = 0
    BY <1>4, MetadataAssumption
  <2>2. piece_count = a \div HashLength
    BY DEF piece_count
  <2> HIDE DEF a
  <2>3. a \div HashLength \in Nat /\ a = (a \div HashLength) * HashLength + (a % HashLength)
    BY <2>1, DividedBy
  <2>4. (a \div HashLength) * HashLength \in Nat
    BY <2>1, <2>3
  <2>5. a = piece_count * HashLength
    BY <2>1, <2>2, <2>3, <2>4
  <2> QED
    BY <2>2, <2>3, <2>5 DEF a
<1>6. piece_count # 0 /\ Info.piece_length <= SizeMax /\ Info.length <= SizeMax
      /\ current_peers # <<>>
  BY <1>1 DEF Checked, SomePieces
<1> QED
  BY <1>4, <1>5, <1>6

(***************************************************************************)
(* The download loop starts with what TorrentLayout and Download assume:   *)
(* a piece or more with a hash for each inside the torrent's bytes,        *)
(* lengths that are size_t, and a peer (main.c:195-237,                    *)
(* torrent_metadata.c:140-190).                                            *)
(***************************************************************************)
THEOREM IntakeLoopPreconditions == IntakeSpec => []LoopPreconditions
BY IntakeInvariant, LoopPreconditionsHold, PTL

LEMMA UrlFitsHolds == IntakeInv => UrlFits
<1> SUFFICES ASSUME IntakeInv, At("malloc_url"), NEW event \in TrackerEvents,
                    Capacity([request EXCEPT !.event = event]) # TooLong
             PROVE  FitsExactly([request EXCEPT !.event = event])
  BY DEF UrlFits
<1>1. step \in 1 .. 34
  BY Order DEF IntakeInv, StartupInv, TypeOK, At
<1>2. step = 20
  BY <1>1, Numbered DEF At, This
<1>3. request \in Requests
  BY <1>2 DEF IntakeInv, RequestMade
<1>4. [request EXCEPT !.event = event] \in Requests
  BY <1>3 DEF Requests
<1> QED
  BY <1>4, UrlExact

(***************************************************************************)
(* For every announce URL, every text that libcurl may return for the hash *)
(* and the peer id, every size and every event, the URL fits its capacity  *)
(* to the byte, or the capacity itself was refused: no test while it is    *)
(* filled ever fails (tracker.c:511-664).                                  *)
(***************************************************************************)
THEOREM IntakeUrlFits == IntakeSpec => []UrlFits
BY IntakeInvariant, UrlFitsHolds, PTL

-----------------------------------------------------------------------------
(* The peers of the compact form.                                          *)

LEMMA PartOfPart ==
  ASSUME NEW S, NEW text \in Seq(S), NEW m \in Nat, NEW n \in Nat, NEW l \in Nat,
         m + n <= Len(text), l <= n
  PROVE  /\ SubSeq(SubSeq(text, m + 1, m + n), 1, l) = SubSeq(text, m + 1, m + l)
         /\ \A k \in 1 .. n : SubSeq(text, m + 1, m + n)[k] = text[m + k]
<1> DEFINE part == SubSeq(text, m + 1, m + n)
<1>1. ASSUME NEW x \in Nat, x <= n
      PROVE  /\ SubSeq(text, m + 1, m + x) \in Seq(S)
             /\ Len(SubSeq(text, m + 1, m + x)) = x
             /\ \A k \in 1 .. x : SubSeq(text, m + 1, m + x)[k] = text[m + k]
  <2> DEFINE segment == Segment(m, x)
  <2>1. segment.data = m /\ segment.length = x
    BY DEF Segment
  <2>2. Text(text, segment) = SubSeq(text, m + 1, m + x)
    BY <2>1 DEF Text
  <2> HIDE DEF segment
  <2>3. segment.data \in Nat /\ segment.length \in Nat /\ segment.data + segment.length <= Len(text)
    BY <1>1, <2>1
  <2>4. /\ Text(text, segment) \in Seq(S)
        /\ Len(Text(text, segment)) = segment.length
        /\ \A k \in 1 .. segment.length : Text(text, segment)[k] = text[segment.data + k]
    BY <2>3, TextOf
  <2> QED
    BY <2>1, <2>2, <2>4
<1>2. part \in Seq(S) /\ Len(part) = n /\ \A k \in 1 .. n : part[k] = text[m + k]
  BY <1>1
<1> HIDE DEF part
<1>3. /\ SubSeq(part, 1, l) \in Seq(S) /\ Len(SubSeq(part, 1, l)) = l
      /\ \A k \in 1 .. l : SubSeq(part, 1, l)[k] = part[k]
  BY <1>2
<1>4. ASSUME NEW k \in 1 .. l PROVE SubSeq(part, 1, l)[k] = SubSeq(text, m + 1, m + l)[k]
  <2>1. SubSeq(text, m + 1, m + l)[k] = text[m + k]
    BY <1>1
  <2>2. SubSeq(part, 1, l)[k] = part[k] /\ k \in 1 .. n
    BY <1>3
  <2> QED
    BY <1>2, <2>1, <2>2
<1>5. SubSeq(text, m + 1, m + l) \in Seq(S) /\ Len(SubSeq(text, m + 1, m + l)) = l
  BY <1>1
<1>6. SubSeq(part, 1, l) = SubSeq(text, m + 1, m + l)
  BY <1>3, <1>4, <1>5, SeqEqual
<1> QED
  BY <1>2, <1>6 DEF part

LEMMA Offsets ==
  ASSUME NEW k \in Nat \ {0}, NEW n \in Nat, k <= n, NEW p \in Nat
  PROVE  (k - 1) * p \in Nat /\ k * p = (k - 1) * p + p /\ (k - 1) * p + p <= n * p
<1>1. PICK j \in Nat, d \in Nat : k = j + 1 /\ n = j + 1 + d
  <2>1. k - 1 \in Nat /\ n - k \in Nat /\ k = (k - 1) + 1 /\ n = (k - 1) + 1 + (n - k)
    OBVIOUS
  <2> QED
    BY <2>1
<1>2. j * p \in Nat /\ d * p \in Nat
  OBVIOUS
<1>3. k * p = j * p + p /\ n * p = j * p + p + d * p /\ k - 1 = j
  BY <1>1
<1> QED
  BY <1>2, <1>3

LEMMA CompactFaithful ==
  ASSUME NEW text \in Seq(0 .. 255), ExtractCompact(text).ok
  PROVE  LET peers == ExtractCompact(text).peers
         IN /\ Len(text) = Len(peers) * PeerSegmentLength
            /\ \A k \in DOMAIN peers :
                 LET bytes == SubSeq(text, (k - 1) * PeerSegmentLength + 1,
                                           k * PeerSegmentLength)
                 IN /\ SubSeq(bytes, 1, IpLength) = peers[k].address
                    /\ peers[k].port = 256 * bytes[IpLength + 1] + bytes[IpLength + 2]
<1> DEFINE peers == ExtractCompact(text).peers
           n     == Len(text) \div PeerSegmentLength
<1>1. PeerSegmentLength \in Nat \ {0} /\ PeerSegmentLength = IpLength + 2 /\ IpLength \in Nat \ {0}
  BY TrackerAssumption DEF PeerSegmentLength
<1>2. Len(text) % PeerSegmentLength = 0
  BY DEF ExtractCompact
<1>3. peers = [k \in 1 .. n |-> ParsePeer(text, (k - 1) * PeerSegmentLength)]
  BY <1>2 DEF ExtractCompact, Extracted
<1>4. n \in Nat /\ Len(text) = n * PeerSegmentLength
  <2> DEFINE a == Len(text)
             p == PeerSegmentLength
  <2>1. a \in Nat /\ p \in Nat \ {0} /\ a % p = 0
    BY <1>1, <1>2
  <2> HIDE DEF a, p
  <2>2. a \div p \in Nat /\ a = (a \div p) * p + (a % p)
    BY <2>1, DividedBy
  <2>3. (a \div p) * p \in Nat
    BY <2>1, <2>2
  <2>4. a \div p \in Nat /\ a = (a \div p) * p
    BY <2>1, <2>2, <2>3
  <2> QED
    BY <2>4 DEF a, p
<1> HIDE DEF n, peers
<1>5. Len(peers) = n /\ DOMAIN peers = 1 .. n
  BY <1>3, <1>4
<1>6. ASSUME NEW k \in 1 .. n
      PROVE  LET bytes == SubSeq(text, (k - 1) * PeerSegmentLength + 1, k * PeerSegmentLength)
             IN /\ SubSeq(bytes, 1, IpLength) = peers[k].address
                /\ peers[k].port = 256 * bytes[IpLength + 1] + bytes[IpLength + 2]
  <2> DEFINE m == (k - 1) * PeerSegmentLength
             bytes == SubSeq(text, m + 1, m + PeerSegmentLength)
  <2>1. /\ m \in Nat /\ k * PeerSegmentLength = m + PeerSegmentLength
        /\ m + PeerSegmentLength <= Len(text)
    <3>1. k \in Nat \ {0} /\ k <= n /\ PeerSegmentLength \in Nat
      BY <1>1, <1>4
    <3> QED
      BY <1>4, <3>1, Offsets
  <2>2. peers[k] = ParsePeer(text, m)
    BY <1>3
  <2> HIDE DEF m
  <2>3. /\ SubSeq(bytes, 1, IpLength) = SubSeq(text, m + 1, m + IpLength)
        /\ \A j \in 1 .. PeerSegmentLength : bytes[j] = text[m + j]
    BY <1>1, <2>1, PartOfPart
  <2>4. /\ peers[k].address = SubSeq(text, m + 1, m + IpLength)
        /\ peers[k].port = Port(text[m + IpLength + 1], text[m + IpLength + 2])
    <3> DEFINE address == SubSeq(text, m + 1, m + IpLength)
               port    == Port(text[m + IpLength + 1], text[m + IpLength + 2])
    <3>1. peers[k] = [address |-> address, port |-> port]
      BY <2>2 DEF ParsePeer
    <3> HIDE DEF address, port
    <3>2. peers[k].address = address /\ peers[k].port = port
      BY <3>1
    <3> QED
      BY <3>2 DEF address, port
  <2> DEFINE high == IpLength + 1
             low  == IpLength + 2
  <2>5. /\ high \in 1 .. PeerSegmentLength /\ low \in 1 .. PeerSegmentLength
        /\ m + IpLength + 1 = m + high /\ m + IpLength + 2 = m + low
        /\ m + high \in 1 .. Len(text) /\ m + low \in 1 .. Len(text)
    BY <1>1, <2>1
  <2> HIDE DEF bytes, high, low
  <2>6. bytes[high] = text[m + high] /\ bytes[low] = text[m + low]
    BY <2>3, <2>5
  <2>7. peers[k].port = 256 * bytes[high] + bytes[low]
    <3> DEFINE a == text[m + high]
               b == text[m + low]
    <3>1. \A i \in 1 .. Len(text) : text[i] \in 0 .. 255
      BY ElementOfSeq, Zenon
    <3>2. a \in 0 .. 255 /\ b \in 0 .. 255
      <4>1. m + high \in 1 .. Len(text) /\ m + low \in 1 .. Len(text)
        BY <2>5
      <4> QED
        BY <3>1, <4>1, Zenon
    <3>3. peers[k].port = a * 256 + b
      BY <2>4, <2>5 DEF Port
    <3>4. bytes[high] = a /\ bytes[low] = b
      BY <2>6
    <3> HIDE DEF a, b
    <3> QED
      BY <3>2, <3>3, <3>4
  <2>8. bytes = SubSeq(text, (k - 1) * PeerSegmentLength + 1, k * PeerSegmentLength)
    BY <2>1 DEF m, bytes
  <2> QED
    BY <2>3, <2>4, <2>7, <2>8 DEF high, low
<1> QED
  BY <1>4, <1>5, <1>6 DEF peers

-----------------------------------------------------------------------------
(* The peers of a list.                                                    *)

LEMMA Reaches ==
  ASSUME NEW m \in Nat, NEW S, 0 \in S, \A k \in 1 .. m : k - 1 \in S => k \in S
  PROVE  \A k \in 0 .. m : k \in S
<1> DEFINE f == [k \in 0 .. m |-> k]
<1>1. f[0] \in S /\ \A k \in 1 .. m : f[k - 1] \in S => f[k] \in S
  OBVIOUS
<1>2. \A k \in 0 .. m : f[k] = k
  OBVIOUS
<1> HIDE DEF f
<1>3. \A k \in 0 .. m : f[k] \in S
  BY <1>1, Kept
<1> QED
  BY <1>2, <1>3

Places == {<<>>} \cup {Addresses[text] : text \in DOMAIN Addresses}
Peers == [address : Places, port : 0 .. UINT16_MAX]
Loops ==
  [ip_found : BOOLEAN, port_found : BOOLEAN, address : Places, port : 0 .. UINT16_MAX,
   peers : Seq(Peers)]

\* The entries that say where a peer is.
IsIp(entry) ==
  /\ Text(response, entry.key) = IpKey
  /\ entry.value.type = "BYTE_STRING"
  /\ Text(response, entry.value.value) \in DOMAIN Addresses

IsPort(entry) ==
  /\ Text(response, entry.key) = PortKey
  /\ entry.value.type = "INTEGER"
  /\ entry.value.value \in 0 .. UINT16_MAX

IpOf(entry) == Addresses[Text(response, entry.value.value)]

\* What the first k entries say.
Ips(entries, k) == { IpOf(entries[j]) : j \in { i \in 1 .. k : IsIp(entries[i]) } }
Ports(entries, k) == { entries[j].value.value : j \in { i \in 1 .. k : IsPort(entries[i]) } }

\* What the loop over an item's entries knows after k of them.
Knows(entries, k, peers, loop) ==
  /\ loop \in Loops
  /\ loop.peers = peers
  /\ IF loop.ip_found THEN loop.address \in Ips(entries, k) ELSE Ips(entries, k) = {}
  /\ IF loop.port_found THEN loop.port \in Ports(entries, k) ELSE Ports(entries, k) = {}

LEMMA EntryRead ==
  ASSUME NEW loop \in Loops, NEW entry
  PROVE  /\ ReadEntry(response, loop, entry) \in Loops
         /\ ReadEntry(response, loop, entry).peers = loop.peers
         /\ IsIp(entry) => /\ ReadEntry(response, loop, entry).ip_found
                           /\ ReadEntry(response, loop, entry).address = IpOf(entry)
                           /\ ReadEntry(response, loop, entry).port_found = loop.port_found
                           /\ ReadEntry(response, loop, entry).port = loop.port
         /\ IsPort(entry) => /\ ReadEntry(response, loop, entry).port_found
                             /\ ReadEntry(response, loop, entry).port = entry.value.value
                             /\ ReadEntry(response, loop, entry).ip_found = loop.ip_found
                             /\ ReadEntry(response, loop, entry).address = loop.address
         /\ ~ (IsIp(entry) /\ IsPort(entry))
         /\ ~ IsIp(entry) /\ ~ IsPort(entry) => ReadEntry(response, loop, entry) = loop
<1>1. CASE IsIp(entry)
  <2>1. ReadEntry(response, loop, entry) =
          [loop EXCEPT !.ip_found = TRUE, !.address = IpOf(entry)]
    BY <1>1 DEF IsIp, IpOf, ReadEntry
  <2>2. IpOf(entry) \in Places
    BY <1>1 DEF IsIp, IpOf, Places
  <2>3. ~ IsPort(entry)
    BY <1>1 DEF IsIp, IsPort
  <2> QED
    BY <1>1, <2>1, <2>2, <2>3 DEF Loops
<1>2. CASE IsPort(entry)
  <2>1. ~ IsIp(entry)
    BY <1>2 DEF IsIp, IsPort
  <2>2. ReadEntry(response, loop, entry) =
          [loop EXCEPT !.port_found = TRUE, !.port = entry.value.value]
    BY <1>2, <2>1 DEF IsIp, IsPort, ReadEntry
  <2>3. entry.value.value \in 0 .. UINT16_MAX
    BY <1>2 DEF IsPort
  <2> QED
    BY <1>2, <2>1, <2>2, <2>3 DEF Loops
<1>3. CASE ~ IsIp(entry) /\ ~ IsPort(entry)
  <2>1. ReadEntry(response, loop, entry) = loop
    BY <1>3 DEF IsIp, IsPort, ReadEntry
  <2> QED
    BY <1>3, <2>1
<1> QED
  BY <1>1, <1>2, <1>3

LEMMA OneMoreEntry ==
  ASSUME NEW entries, NEW k \in Nat \ {0}, NEW peers, NEW loop, Knows(entries, k - 1, peers, loop)
  PROVE  Knows(entries, k, peers, ReadEntry(response, loop, entries[k]))
<1> DEFINE entry == entries[k]
           next  == ReadEntry(response, loop, entry)
<1> SUFFICES Knows(entries, k, peers, next)
  OBVIOUS
<1>1. /\ Ips(entries, k) = Ips(entries, k - 1) \cup (IF IsIp(entry) THEN {IpOf(entry)} ELSE {})
      /\ Ports(entries, k) =
           Ports(entries, k - 1) \cup (IF IsPort(entry) THEN {entry.value.value} ELSE {})
  <2>1. \A i : i \in 1 .. k <=> i \in 1 .. k - 1 \/ i = k
    OBVIOUS
  <2>2. Ips(entries, k) = Ips(entries, k - 1) \cup (IF IsIp(entry) THEN {IpOf(entry)} ELSE {})
    BY <2>1, Zenon DEF Ips
  <2>3. Ports(entries, k) =
           Ports(entries, k - 1) \cup (IF IsPort(entry) THEN {entry.value.value} ELSE {})
    BY <2>1, Zenon DEF Ports
  <2> QED
    BY <2>2, <2>3
<1>2. loop \in Loops /\ loop.peers = peers
  BY DEF Knows
<1> HIDE DEF entry
<1>3. next \in Loops /\ next.peers = peers
  BY <1>2, EntryRead
<1>4. CASE IsIp(entry)
  <2>1. /\ next.ip_found /\ next.address = IpOf(entry) /\ ~ IsPort(entry)
        /\ next.port_found = loop.port_found /\ next.port = loop.port
    BY <1>2, <1>4, EntryRead
  <2>2. next.address \in Ips(entries, k) /\ Ports(entries, k) = Ports(entries, k - 1)
    BY <1>1, <1>4, <2>1
  <2> HIDE DEF next
  <2> QED
    BY <1>3, <2>1, <2>2, Zenon DEF Knows
<1>5. CASE IsPort(entry)
  <2>1. /\ next.port_found /\ next.port = entry.value.value /\ ~ IsIp(entry)
        /\ next.ip_found = loop.ip_found /\ next.address = loop.address
    BY <1>2, <1>5, EntryRead
  <2>2. next.port \in Ports(entries, k) /\ Ips(entries, k) = Ips(entries, k - 1)
    BY <1>1, <1>5, <2>1
  <2> HIDE DEF next
  <2> QED
    BY <1>3, <2>1, <2>2, Zenon DEF Knows
<1>6. CASE ~ IsIp(entry) /\ ~ IsPort(entry)
  <2>1. next = loop
    BY <1>2, <1>6, EntryRead
  <2>2. Ips(entries, k) = Ips(entries, k - 1) /\ Ports(entries, k) = Ports(entries, k - 1)
    BY <1>1, <1>6
  <2> HIDE DEF next
  <2> QED
    BY <2>1, <2>2, Zenon DEF Knows
<1> QED
  BY <1>4, <1>5, <1>6

LEMMA EntriesRead ==
  ASSUME NEW loop \in Loops, ~ loop.ip_found, ~ loop.port_found,
         NEW entries, NEW n \in Nat, Len(entries) = n
  PROVE  Knows(entries, n, loop.peers, ReadEntries(response, loop, entries))
<1> DEFINE turn == [k \in 1 .. n |-> [l \in Loops |-> ReadEntry(response, l, entries[k])]]
<1>1. turn \in [1 .. n -> [Loops -> Loops]]
  BY EntryRead
<1>2. PICK f : Computes(f, n, Loops, loop, turn)
  <2> HIDE DEF turn
  <2> QED
    BY <1>1, Recurrence
<1>3. f \in [0 .. n -> Loops] /\ f[0] = loop /\ \A k \in 1 .. n : f[k] = turn[k][f[k - 1]]
  BY <1>2 DEF Computes
<1>4. ASSUME NEW k \in 1 .. n PROVE f[k] = ReadEntry(response, f[k - 1], entries[k])
  <2>1. f[k - 1] \in Loops /\ f[k] = turn[k][f[k - 1]]
    <3> HIDE DEF turn
    <3>1. k - 1 \in 0 .. n
      OBVIOUS
    <3> QED
      BY <1>3, <3>1
  <2> QED
    BY <2>1
<1> HIDE DEF turn
<1> DEFINE IsRead(g) ==
             g = [k \in 0 .. Len(entries) |->
                    IF k = 0 THEN loop ELSE ReadEntry(response, g[k - 1], entries[k])]
<1>5. \E g : IsRead(g)
  <2>1. f = [k \in 0 .. n |-> f[k]]
    BY <1>3
  <2>2. \A k \in 0 .. n :
          f[k] = IF k = 0 THEN loop ELSE ReadEntry(response, f[k - 1], entries[k])
    BY <1>3, <1>4
  <2> QED
    BY <2>1, <2>2
<1>6. PICK g : IsRead(g) /\ ReadEntries(response, loop, entries) = g[n]
  BY <1>5 DEF ReadEntries
<1>7. g[0] = loop /\ \A k \in 1 .. n : g[k] = ReadEntry(response, g[k - 1], entries[k])
  BY <1>6
<1> HIDE DEF IsRead
<1> DEFINE S == {k \in 0 .. n : Knows(entries, k, loop.peers, g[k])}
<1>8. 0 \in S
  <2>1. Ips(entries, 0) = {} /\ Ports(entries, 0) = {}
    BY DEF Ips, Ports
  <2> QED
    BY <1>7, <2>1 DEF Knows
<1>9. ASSUME NEW k \in 1 .. n, k - 1 \in S PROVE k \in S
  <2>1. k \in Nat \ {0} /\ Knows(entries, k - 1, loop.peers, g[k - 1])
    BY <1>9
  <2> QED
    BY <1>7, <2>1, OneMoreEntry
<1> HIDE DEF S
<1>10. \A k \in 0 .. n : k \in S
  BY <1>8, <1>9, Reaches
<1>11. n \in S
  BY <1>10
<1> QED
  BY <1>6, <1>11 DEF S

\* What an item says is what its entries say.
LEMMA ItemSays ==
  ASSUME NEW item, item.type = "DICTIONARY",
         NEW m \in Nat, DOMAIN item.value.elements = 1 .. m
  PROVE  LET entries == item.value.elements
         IN Says(item) = { [address |-> a, port |-> p] : a \in Ips(entries, m), p \in Ports(entries, m) }
<1> DEFINE entries == item.value.elements
           Values(key, type) ==
             { e.value : e \in { f \in { entries[n] : n \in DOMAIN entries } :
                 Text(response, f.key) = key /\ f.value.type = type } }
           texts == { a \in { Text(response, v.value) : v \in Values(IpKey, "BYTE_STRING") } :
                        a \in DOMAIN Addresses }
           ports == { v.value : v \in Values(PortKey, "INTEGER") } \cap (0 .. UINT16_MAX)
<1>1. Says(item) = { [address |-> Addresses[a], port |-> n] : a \in texts, n \in ports }
  <2>1. Says(item) = IF item.type # "DICTIONARY" THEN {}
                     ELSE { [address |-> Addresses[a], port |-> n] : a \in texts, n \in ports }
    BY DEF Says
  <2> HIDE DEF texts, ports
  <2> QED
    BY <2>1
<1>2. ports = Ports(entries, m)
  BY Zenon DEF Ports, IsPort
<1>3. Ips(entries, m) = { Addresses[a] : a \in texts }
  <2>1. ASSUME NEW j \in 1 .. m, IsIp(entries[j])
        PROVE  IpOf(entries[j]) \in { Addresses[a] : a \in texts }
    <3>1. entries[j].value \in Values(IpKey, "BYTE_STRING")
      BY <2>1, Zenon DEF IsIp
    <3>2. Text(response, entries[j].value.value) \in texts
      BY <2>1, <3>1, Zenon DEF IsIp
    <3> QED
      BY <3>2, Zenon DEF IpOf
  <2>2. ASSUME NEW a \in texts PROVE Addresses[a] \in Ips(entries, m)
    <3>1. PICK v \in Values(IpKey, "BYTE_STRING") : a = Text(response, v.value)
      BY Zenon
    <3>2. PICK j \in 1 .. m : /\ v = entries[j].value
                              /\ Text(response, entries[j].key) = IpKey
                              /\ entries[j].value.type = "BYTE_STRING"
      BY Zenon
    <3>3. IsIp(entries[j]) /\ Addresses[a] = IpOf(entries[j])
      BY <3>1, <3>2, Zenon DEF IsIp, IpOf
    <3> QED
      BY <3>3, Zenon DEF Ips
  <2> HIDE DEF entries, texts
  <2> QED
    BY <2>1, <2>2, Zenon DEF Ips
<1> HIDE DEF entries, texts, ports
<1> SUFFICES Says(item) =
               { [address |-> a, port |-> p] : a \in Ips(entries, m), p \in Ports(entries, m) }
  BY DEF entries
<1> QED
  BY <1>1, <1>2, <1>3

\* An item adds a peer that it describes, if it describes one.
LEMMA ItemRead ==
  ASSUME NEW loop \in Loops, NEW item, Sound(response, item)
  PROVE  LET next == ReadItem(response, loop, item)
         IN /\ next \in Loops
            /\ Says(item) = {} => next.peers = loop.peers
            /\ Says(item) # {} => \E peer \in Says(item) : next.peers = Append(loop.peers, peer)
<1> DEFINE next == ReadItem(response, loop, item)
<1>1. CASE item.type # "DICTIONARY"
  <2>1. next = loop
    BY <1>1 DEF ReadItem
  <2>2. Says(item) = {}
    <3> HIDE DEF next
    <3> QED
      BY <1>1 DEF Says
  <2> QED
    BY <2>1, <2>2
<1>2. CASE item.type = "DICTIONARY"
  <2> DEFINE entries == item.value.elements
             m       == Len(entries)
             cleared == FlagsCleared(loop)
             read    == ReadEntries(response, cleared, entries)
  <2>1. m \in Nat /\ DOMAIN entries = 1 .. m
    BY <1>2 DEF Sound, Containers
  <2>2. /\ cleared \in Loops /\ ~ cleared.ip_found /\ ~ cleared.port_found
        /\ cleared.peers = loop.peers
    BY DEF FlagsCleared, Loops
  <2>3. next = AddPeer(read)
    BY <1>2 DEF ReadItem
  <2>4. Says(item) = { [address |-> a, port |-> p] : a \in Ips(entries, m), p \in Ports(entries, m) }
    <3> HIDE DEF m
    <3> QED
      BY <1>2, <2>1, ItemSays
  <2> HIDE DEF next, cleared, entries, m
  <2>5. Knows(entries, m, loop.peers, read)
    <3>1. m = Len(entries)
      BY DEF m
    <3> QED
      BY <2>1, <2>2, <3>1, EntriesRead
  <2> HIDE DEF read
  <2>6. read \in Loops /\ read.peers = loop.peers
    BY <2>5 DEF Knows
  <2>7. CASE read.ip_found /\ read.port_found
    <3> DEFINE peer == [address |-> read.address, port |-> read.port]
    <3>1. read.address \in Ips(entries, m) /\ read.port \in Ports(entries, m)
      BY <2>5, <2>7, Zenon DEF Knows
    <3>2. peer \in Says(item)
      BY <2>4, <3>1
    <3>3. peer \in Peers
      BY <2>6 DEF Loops, Peers
    <3>4. next = [read EXCEPT !.peers = Append(read.peers, peer)]
      BY <2>3, <2>7 DEF AddPeer
    <3> HIDE DEF peer
    <3>5. Append(read.peers, peer) \in Seq(Peers)
      BY <2>6, <3>3 DEF Loops
    <3>6. next \in Loops /\ next.peers = Append(loop.peers, peer)
      BY <2>6, <3>4, <3>5 DEF Loops
    <3> QED
      BY <3>2, <3>6 DEF next
  <2>8. CASE ~ (read.ip_found /\ read.port_found)
    <3>1. next = read
      BY <2>3, <2>8 DEF AddPeer
    <3>2. Ips(entries, m) = {} \/ Ports(entries, m) = {}
      BY <2>5, <2>8, Zenon DEF Knows
    <3>3. Says(item) = {}
      BY <2>4, <3>2
    <3> QED
      BY <2>6, <3>1, <3>3 DEF next
  <2> QED
    BY <2>7, <2>8
<1> QED
  BY <1>1, <1>2

\* The items among the first k that describe a peer, and the peers that were
\* made of them, in their order.
Useful(elements, k) == { i \in 1 .. k : Says(elements[i].value) # {} }

MadeOf(elements, k, peers) ==
  \E at \in [1 .. Len(peers) -> Useful(elements, k)] :
    /\ Useful(elements, k) = { at[j] : j \in 1 .. Len(peers) }
    /\ \A i, j \in 1 .. Len(peers) : i < j => at[i] < at[j]
    /\ \A j \in 1 .. Len(peers) : peers[j] \in Says(elements[at[j]].value)

LEMMA OneMoreItem ==
  ASSUME NEW elements, NEW k \in Nat \ {0}, NEW peers \in Seq(Peers), NEW added,
         MadeOf(elements, k - 1, peers),
         Says(elements[k].value) = {} => added = peers,
         Says(elements[k].value) # {} =>
           \E peer \in Says(elements[k].value) \cap Peers : added = Append(peers, peer)
  PROVE  MadeOf(elements, k, added)
<1> DEFINE n == Len(peers)
<1>0. n \in Nat
  OBVIOUS
<1>1. PICK at \in [1 .. n -> Useful(elements, k - 1)] :
        /\ Useful(elements, k - 1) = { at[j] : j \in 1 .. n }
        /\ \A i, j \in 1 .. n : i < j => at[i] < at[j]
        /\ \A j \in 1 .. n : peers[j] \in Says(elements[at[j]].value)
  BY DEF MadeOf
<1>2. \A i : i \in 1 .. k <=> i \in 1 .. k - 1 \/ i = k
  OBVIOUS
<1>3. CASE Says(elements[k].value) = {}
  <2>1. Useful(elements, k) = Useful(elements, k - 1)
    BY <1>2, <1>3, Zenon DEF Useful
  <2> QED
    BY <1>3, <2>1 DEF MadeOf
<1>4. CASE Says(elements[k].value) # {}
  <2>1. PICK peer \in Says(elements[k].value) : peer \in Peers /\ added = Append(peers, peer)
    BY <1>4
  <2>2. Useful(elements, k) = Useful(elements, k - 1) \cup {k}
    BY <1>2, <1>4, Zenon DEF Useful
  <2>3. /\ Len(added) = n + 1 /\ added[n + 1] = peer
        /\ \A j \in 1 .. n : added[j] = peers[j]
    BY <2>1
  <2> DEFINE next == [j \in 1 .. n + 1 |-> IF j = n + 1 THEN k ELSE at[j]]
  <2>4. next[n + 1] = k /\ \A j \in 1 .. n : next[j] = at[j] /\ next[j] \in 1 .. k - 1
    BY <1>0, <1>1 DEF Useful
  <2>5. \A j : j \in 1 .. n + 1 <=> j \in 1 .. n \/ j = n + 1
    BY <1>0
  <2>6. next \in [1 .. n + 1 -> Useful(elements, k)]
    BY <1>1, <2>2, <2>5
  <2> HIDE DEF next, n
  <2>7. Useful(elements, k) = { next[j] : j \in 1 .. n + 1 }
    BY <1>1, <2>2, <2>4, <2>5, Zenon
  <2>8. ASSUME NEW i \in 1 .. n + 1, NEW j \in 1 .. n + 1, i < j PROVE next[i] < next[j]
    <3>1. i \in 1 .. n
      BY <1>0, <2>8
    <3>2. CASE j \in 1 .. n
      BY <1>1, <2>4, <2>8, <3>1, <3>2
    <3>3. CASE j = n + 1
      BY <2>4, <3>1, <3>3
    <3> QED
      BY <2>5, <3>2, <3>3
  <2>9. \A j \in 1 .. n + 1 : added[j] \in Says(elements[next[j]].value)
    BY <1>1, <2>1, <2>3, <2>4, <2>5, Zenon
  <2> QED
    BY <2>3, <2>6, <2>7, <2>8, <2>9 DEF MadeOf
<1> QED
  BY <1>3, <1>4

LEMMA ListFaithful ==
  ASSUME NEW list, NEW n \in Nat, Len(list.elements) = n,
         \A k \in 1 .. n : Sound(response, list.elements[k].value)
  PROVE  /\ ExtractList(response, list).peers \in Seq(Peers)
         /\ MadeOf(list.elements, n, ExtractList(response, list).peers)
<1> DEFINE Item(k) == list.elements[k].value
           turn == [k \in 1 .. n |-> [l \in Loops |-> ReadItem(response, l, Item(k))]]
<1>1. turn \in [1 .. n -> [Loops -> Loops]]
  BY ItemRead
<1>2. ListLoop \in Loops
  BY DEF ListLoop, Loops, Places, UINT16_MAX
<1>3. PICK f : Computes(f, n, Loops, ListLoop, turn)
  <2> HIDE DEF turn
  <2> QED
    BY <1>1, <1>2, Recurrence
<1>4. f \in [0 .. n -> Loops] /\ f[0] = ListLoop /\ \A k \in 1 .. n : f[k] = turn[k][f[k - 1]]
  BY <1>3 DEF Computes
<1>5. ASSUME NEW k \in 1 .. n PROVE f[k] = ReadItem(response, f[k - 1], Item(k))
  <2>1. f[k - 1] \in Loops /\ f[k] = turn[k][f[k - 1]]
    <3> HIDE DEF turn
    <3>1. k - 1 \in 0 .. n
      OBVIOUS
    <3> QED
      BY <1>4, <3>1
  <2> QED
    BY <2>1
<1> HIDE DEF turn
<1> DEFINE IsRead(g) ==
             g = [k \in 0 .. Len(list.elements) |->
                    IF k = 0 THEN ListLoop
                    ELSE ReadItem(response, g[k - 1], list.elements[k].value)]
<1>6. \E g : IsRead(g)
  <2>1. f = [k \in 0 .. n |-> f[k]]
    BY <1>4
  <2>2. \A k \in 0 .. n :
          f[k] = IF k = 0 THEN ListLoop ELSE ReadItem(response, f[k - 1], Item(k))
    BY <1>4, <1>5
  <2> QED
    BY <2>1, <2>2
<1>7. PICK g : IsRead(g) /\ ExtractList(response, list).peers = g[n].peers
  BY <1>6 DEF ExtractList, Extracted
<1>8. g[0] = ListLoop /\ \A k \in 1 .. n : g[k] = ReadItem(response, g[k - 1], Item(k))
  BY <1>7
<1> HIDE DEF IsRead
<1> DEFINE S == {k \in 0 .. n : g[k] \in Loops /\ MadeOf(list.elements, k, g[k].peers)}
<1>9. 0 \in S
  <2>1. g[0].peers = <<>> /\ Len(<<>>) = 0
    BY <1>8 DEF ListLoop
  <2>2. Useful(list.elements, 0) = {}
    BY DEF Useful
  <2>3. <<>> \in [1 .. 0 -> Useful(list.elements, 0)] /\ 1 .. 0 = {}
    OBVIOUS
  <2>4. MadeOf(list.elements, 0, <<>>)
    BY <2>1, <2>2, <2>3 DEF MadeOf
  <2> QED
    BY <1>2, <1>8, <2>1, <2>4
<1>10. ASSUME NEW k \in 1 .. n, k - 1 \in S PROVE k \in S
  <2> DEFINE last == g[k - 1]
             next == g[k]
  <2>1. last \in Loops /\ MadeOf(list.elements, k - 1, last.peers) /\ k \in Nat \ {0}
    BY <1>10
  <2>2. next = ReadItem(response, last, Item(k)) /\ Sound(response, Item(k))
    BY <1>8
  <2> HIDE DEF last, next, S
  <2>3. /\ next \in Loops
        /\ Says(Item(k)) = {} => next.peers = last.peers
        /\ Says(Item(k)) # {} => \E peer \in Says(Item(k)) : next.peers = Append(last.peers, peer)
    BY <2>1, <2>2, ItemRead
  <2>4. last.peers \in Seq(Peers) /\ next.peers \in Seq(Peers)
    BY <2>1, <2>3 DEF Loops
  <2>5. ASSUME NEW peer, next.peers = Append(last.peers, peer) PROVE peer \in Peers
    <3>1. Len(last.peers) + 1 \in 1 .. Len(Append(last.peers, peer))
      BY <2>4
    <3>2. Append(last.peers, peer)[Len(last.peers) + 1] = peer
      BY <2>4
    <3> QED
      BY <2>4, <2>5, <3>1, <3>2, ElementOfSeq
  <2>6. MadeOf(list.elements, k, next.peers)
    <3>1. Says(Item(k)) # {} =>
            \E peer \in Says(Item(k)) \cap Peers : next.peers = Append(last.peers, peer)
      BY <2>3, <2>5
    <3> QED
      BY <2>1, <2>3, <2>4, <3>1, OneMoreItem
  <2> QED
    BY <2>3, <2>6 DEF S, next
<1> HIDE DEF S
<1>11. \A k \in 0 .. n : k \in S
  BY <1>9, <1>10, Reaches
<1>12. n \in S
  BY <1>11
<1>13. g[n].peers \in Seq(Peers) /\ MadeOf(list.elements, n, g[n].peers)
  BY <1>12 DEF S, Loops
<1> QED
  BY <1>7, <1>13

-----------------------------------------------------------------------------
(* The peers that are connected to.                                        *)

LEMMA PeersFaithfulHolds == IntakeInv => PeersFaithful
<1> SUFFICES ASSUME IntakeInv, After("peers_extract") PROVE PeersFaithful
  BY DEF PeersFaithful
<1>1. Running /\ step \in 1 .. 34 /\ step > 1 /\ Steps[step - 1].call = "peers_extract"
  BY AtNumber DEF IntakeInv, After
<1>2. step = 29
  <2> DEFINE k == step - 1
  <2>1. k \in 1 .. 34 /\ Steps[k].call = "peers_extract"
    BY <1>1
  <2> HIDE DEF k
  <2>2. k = 28
    BY <2>1, Numbered
  <2> QED
    BY <1>1, <2>2 DEF k
<1>3. TorrentParsed /\ AnswerParsed
  BY <1>1 DEF IntakeInv, Running
<1>4. /\ SoundTree(response, response_obj) /\ Found(peers_object)
      /\ ExtractPeers(response, peers_object).ok
      /\ current_peers = ExtractPeers(response, peers_object).peers
  BY <1>2, <1>3 DEF AnswerParsed
<1>5. response \in Seq(0 .. 255)
  <2>1. body \in Seq(0 .. 255)
    BY <1>2, <1>3, IntakeAssumption DEF TorrentParsed, AnswerParsed
  <2>2. response_length \in Nat /\ response_length <= Len(body)
    BY <1>3 DEF AnswerParsed, IntakeInv, StartupInv, TypeOK
  <2>3. \A i \in 1 .. response_length : body[i] \in 0 .. 255
    <3>1. \A i \in 1 .. response_length : i \in 1 .. Len(body)
      BY <2>1, <2>2
    <3> QED
      BY <2>1, <3>1, ElementOfSeq, Zenon
  <2>4. SubSeq(body, 1, response_length) \in Seq(0 .. 255)
    BY <2>2, <2>3, SubSeqProperties
  <2> QED
    BY <2>4 DEF response
<1>6. /\ peers_object \in Children({response_obj})
      /\ peers_object.type \in {"BYTE_STRING", "LIST"}
  <2> DEFINE compact == FindInResponse(response, response_obj, PeersKey, "BYTE_STRING")
             list    == FindInResponse(response, response_obj, PeersKey, "LIST")
  <2>1. Sound(response, response_obj)
    BY <1>4, Reached DEF SoundTree
  <2>2. Found(compact) => compact \in Children({response_obj}) /\ compact.type = "BYTE_STRING"
    BY <2>1, EntryFound DEF FindInResponse
  <2>3. Found(list) => list \in Children({response_obj}) /\ list.type = "LIST"
    BY <2>1, EntryFound DEF FindInResponse
  <2>4. peers_object = IF Found(compact) THEN compact ELSE list
    BY DEF peers_object, FindPeers
  <2> HIDE DEF compact, list
  <2> QED
    BY <1>4, <2>2, <2>3, <2>4
<1>7. Sound(response, peers_object) /\ \A o \in Children({peers_object}) : Sound(response, o)
  BY <1>4, <1>6, Reached DEF SoundTree
<1>8. CASE peers_object.type = "LIST"
  <2> DEFINE elements == peers_object.value.elements
             n        == Len(elements)
             items    == [k \in DOMAIN elements |-> elements[k].value]
             useful   == { k \in DOMAIN items : Says(items[k]) # {} }
  <2>1. n \in Nat /\ DOMAIN elements = 1 .. n
    BY <1>7, <1>8 DEF Sound, Containers
  <2>2. \A k \in 1 .. n : Sound(response, elements[k].value)
    <3>1. \A k \in 1 .. n : elements[k].value \in Children({peers_object})
      BY <1>8, <2>1 DEF Children, Containers
    <3> QED
      BY <1>7, <3>1
  <2>3. current_peers = ExtractList(response, peers_object.value).peers
    BY <1>4, <1>8 DEF ExtractPeers
  <2>4. current_peers \in Seq(Peers) /\ MadeOf(elements, n, current_peers)
    BY <2>1, <2>2, <2>3, ListFaithful
  <2>5. useful = Useful(elements, n)
    BY <2>1 DEF Useful
  <2>6. \A k \in 1 .. n : items[k] = elements[k].value
    BY <2>1
  <2>7. DOMAIN current_peers = 1 .. Len(current_peers)
    BY <2>4
  <2> QED
    BY <1>8, <2>4, <2>5, <2>6, <2>7 DEF MadeOf, PeersFaithful
<1>9. CASE peers_object.type = "BYTE_STRING"
  <2> DEFINE text == Text(response, peers_object.value)
  <2>1. text \in Seq(0 .. 255)
    BY <1>5, <1>7, <1>9, TextOf DEF Sound
  <2>2. ExtractCompact(text).ok /\ current_peers = ExtractCompact(text).peers
    BY <1>4, <1>9 DEF ExtractPeers
  <2> QED
    BY <1>9, <2>1, <2>2, CompactFaithful DEF PeersFaithful
<1> QED
  BY <1>6, <1>8, <1>9

(***************************************************************************)
(* Whatever the answer holds, in whichever form and however many entries   *)
(* of no use, the peers that are connected to are those it describes, in   *)
(* its order, each with its own address and port (tracker.c:72-163 and     *)
(* 186-236).                                                               *)
(***************************************************************************)
THEOREM IntakePeersFaithful == IntakeSpec => []PeersFaithful
BY IntakeInvariant, PeersFaithfulHolds, PTL

-----------------------------------------------------------------------------
(* The leaves of a tree: what ParserAssumption says of them is what        *)
(* ParseString and ParseInteger do.                                        *)

\* The test before a digit is added.
LEMMA DigitFits ==
  ASSUME NEW number \in Nat, NEW digit \in 0 .. 9, NEW limit \in Nat, limit >= 9
  PROVE  TooLarge(number, digit, limit) <=> 10 * number + digit > limit
BY DEF TooLarge

IsValue(data, first, n, v) ==
  /\ v \in [0 .. n -> Nat]
  /\ v[0] = 0
  /\ \A k \in 1 .. n : v[k] = 10 * v[k - 1] + (data[first + k] - 48)

LEMMA ValueExists ==
  ASSUME NEW data, NEW first \in Nat, NEW n \in Nat,
         \A k \in 1 .. n : data[first + k] \in Digits
  PROVE  \E v : IsValue(data, first, n, v)
<1> DEFINE turn == [k \in 1 .. n |-> [x \in Nat |-> 10 * x + (data[first + k] - 48)]]
<1>1. turn \in [1 .. n -> [Nat -> Nat]]
  <2>1. \A k \in 1 .. n, x \in Nat : 10 * x + (data[first + k] - 48) \in Nat
    BY DEF Digits
  <2> QED
    BY <2>1
<1>2. PICK v : Computes(v, n, Nat, 0, turn)
  <2> HIDE DEF turn
  <2> QED
    BY <1>1, Recurrence
<1>3. v \in [0 .. n -> Nat] /\ v[0] = 0 /\ \A k \in 1 .. n : v[k] = turn[k][v[k - 1]]
  BY <1>2 DEF Computes
<1>4. ASSUME NEW k \in 1 .. n PROVE v[k] = 10 * v[k - 1] + (data[first + k] - 48)
  <2>1. v[k - 1] \in Nat /\ v[k] = turn[k][v[k - 1]]
    <3> HIDE DEF turn
    <3>1. k - 1 \in 0 .. n
      OBVIOUS
    <3> QED
      BY <1>3, <3>1
  <2> QED
    BY <2>1
<1> QED
  BY <1>3, <1>4 DEF IsValue

NumberOf(data, first, end, limit, f) ==
  f = [k \in 0 .. end - first |->
         IF k = 0 THEN 0 ELSE WithDigit(f[k - 1], data[first + k] - 48, limit)]

(***************************************************************************)
(* A run of digits is read as the number it is, or refused when that is    *)
(* larger than the limit: the test before each digit refuses nothing that  *)
(* fits and lets nothing pass that does not, at any limit                  *)
(* (bencode_parser.c:122-143 and 283-308).                                 *)
(***************************************************************************)
THEOREM NumberExact ==
  ASSUME NEW data, NEW first \in Nat, NEW end \in Nat, first <= end,
         \A k \in 1 .. end - first : data[first + k] \in Digits,
         NEW limit \in Nat, limit >= 9, NEW v, IsValue(data, first, end - first, v)
  PROVE  Number(data, first, end, limit) =
           IF v[end - first] <= limit THEN v[end - first] ELSE Overflow
<1> DEFINE n == end - first
           Capped(x) == IF x <= limit THEN x ELSE Overflow
<1>1. n \in Nat
  OBVIOUS
<1>2. /\ v \in [0 .. n -> Nat] /\ v[0] = 0
      /\ \A k \in 1 .. n : v[k] = 10 * v[k - 1] + (data[first + k] - 48)
  BY DEF IsValue
<1>3. ASSUME NEW k \in 1 .. n
      PROVE  Capped(v[k]) = WithDigit(Capped(v[k - 1]), data[first + k] - 48, limit)
  <2>1. PICK x \in Nat, d \in 0 .. 9 :
          x = v[k - 1] /\ d = data[first + k] - 48 /\ v[k] = 10 * x + d
    <3>1. k - 1 \in 0 .. n /\ data[first + k] \in Digits
      OBVIOUS
    <3>2. v[k - 1] \in Nat /\ data[first + k] - 48 \in 0 .. 9
      BY <1>2, <3>1 DEF Digits
    <3> QED
      BY <1>2, <3>2
  <2>2. Capped(10 * x + d) = WithDigit(Capped(x), d, limit)
    <3>1. CASE x > limit
      <4>1. 10 * x + d > limit
        BY <3>1
      <4>2. Capped(10 * x + d) = Overflow /\ Capped(x) = Overflow
        BY <3>1, <4>1
      <4> QED
        BY <4>2 DEF WithDigit
    <3>2. CASE x <= limit
      <4>1. TooLarge(x, d, limit) <=> 10 * x + d > limit
        BY DigitFits
      <4>2. Capped(x) = x /\ x # Overflow
        BY <3>2 DEF Overflow
      <4>3. WithDigit(x, d, limit) = IF 10 * x + d > limit THEN Overflow ELSE 10 * x + d
        BY <4>1, <4>2 DEF WithDigit
      <4> QED
        BY <4>2, <4>3
    <3> QED
      BY <3>1, <3>2
  <2> QED
    BY <2>1, <2>2
<1>4. \E f : NumberOf(data, first, end, limit, f)
  <2> DEFINE f == [k \in 0 .. n |-> Capped(v[k])]
  <2>1. f[0] = 0
    BY <1>1, <1>2
  <2>2. ASSUME NEW k \in 1 .. n
        PROVE  f[k] = WithDigit(f[k - 1], data[first + k] - 48, limit)
    <3>1. k \in 0 .. n /\ k - 1 \in 0 .. n
      BY <1>1
    <3>2. f[k] = Capped(v[k]) /\ f[k - 1] = Capped(v[k - 1])
      BY <3>1
    <3> HIDE DEF f, Capped
    <3> QED
      BY <1>3, <3>2
  <2>3. f = [k \in 0 .. n |-> f[k]]
    OBVIOUS
  <2> HIDE DEF f
  <2>4. ASSUME NEW k \in 0 .. n
        PROVE  f[k] = IF k = 0 THEN 0 ELSE WithDigit(f[k - 1], data[first + k] - 48, limit)
    BY <1>1, <2>1, <2>2
  <2> QED
    BY <2>3, <2>4 DEF NumberOf
<1>5. PICK g : NumberOf(data, first, end, limit, g) /\ Number(data, first, end, limit) = g[n]
  BY <1>4 DEF NumberOf, Number
<1>6. g[0] = 0 /\ \A k \in 1 .. n : g[k] = WithDigit(g[k - 1], data[first + k] - 48, limit)
  BY <1>1, <1>5 DEF NumberOf
<1> DEFINE S == {k \in 0 .. n : g[k] = Capped(v[k])}
<1> HIDE DEF n
<1>7. 0 \in S
  BY <1>1, <1>2, <1>6
<1>8. ASSUME NEW k \in 1 .. n, k - 1 \in S PROVE k \in S
  BY <1>1, <1>3, <1>6, <1>8
<1> HIDE DEF S
<1>9. \A k \in 0 .. n : k \in S
  BY <1>1, <1>7, <1>8, Reaches
<1>10. n \in S
  BY <1>1, <1>9
<1> QED
  BY <1>5, <1>10 DEF S, n

\* Where a run of digits ends.
LEMMA DigitsEndIs ==
  ASSUME NEW data \in Seq(0 .. 255), NEW first \in 0 .. Len(data)
  PROVE  /\ DigitsEnd(data, first) \in first .. Len(data)
         /\ \A k \in 1 .. DigitsEnd(data, first) - first : data[first + k] \in Digits
<1> DEFINE stops == { p \in first .. Len(data) : ByteAt(data, p) \notin Digits }
<1>1. stops \in SUBSET Nat
  OBVIOUS
<1>2. Len(data) \in stops
  BY DEF ByteAt, NoByte, Digits
<1>3. Min(stops) \in stops /\ \A p \in stops : Min(stops) <= p
  <2> HIDE DEF stops
  <2> QED
    BY <1>1, <1>2, Smallest
<1>4. PICK end \in stops : DigitsEnd(data, first) = end /\ \A p \in stops : end <= p
  BY <1>3 DEF DigitsEnd
<1>5. ASSUME NEW k \in 1 .. end - first PROVE data[first + k] \in Digits
  <2>1. first + k - 1 \in first .. Len(data) /\ first + k - 1 < end
    OBVIOUS
  <2>2. first + k - 1 \notin stops
    BY <1>4, <2>1
  <2>3. ByteAt(data, first + k - 1) \in Digits
    BY <2>1, <2>2
  <2> QED
    BY <2>1, <2>3 DEF ByteAt
<1> QED
  BY <1>4, <1>5

\* The value of the digits from first to end, if it is at most limit.
ReadAs(data, first, end, limit, value) ==
  /\ value \in 0 .. limit
  /\ \E v : IsValue(data, first, end - first, v) /\ v[end - first] = value

LEMMA NumberReadAs ==
  ASSUME NEW data, NEW first \in Nat, NEW end \in Nat, first <= end,
         \A k \in 1 .. end - first : data[first + k] \in Digits,
         NEW limit \in Nat, limit >= 9,
         Number(data, first, end, limit) # Overflow
  PROVE  ReadAs(data, first, end, limit, Number(data, first, end, limit))
<1>1. PICK v : IsValue(data, first, end - first, v)
  <2> DEFINE n == end - first
  <2>1. n \in Nat /\ \A k \in 1 .. n : data[first + k] \in Digits
    OBVIOUS
  <2> HIDE DEF n
  <2>2. \E v : IsValue(data, first, n, v)
    BY <2>1, ValueExists
  <2> QED
    BY <2>2 DEF n
<1>2. v[end - first] \in Nat
  BY <1>1 DEF IsValue
<1>3. Number(data, first, end, limit) =
        IF v[end - first] <= limit THEN v[end - first] ELSE Overflow
  BY <1>1, NumberExact
<1>4. v[end - first] <= limit /\ Number(data, first, end, limit) = v[end - first]
  BY <1>3
<1> QED
  BY <1>1, <1>2, <1>4 DEF ReadAs

(***************************************************************************)
(* A string that is taken is what its digits announce: so many bytes, all  *)
(* of them inside the buffer, after the colon that ends the digits         *)
(* (bencode_parser.c:94-236).                                              *)
(***************************************************************************)
THEOREM StringRead ==
  ASSUME NEW data \in Seq(0 .. 255), NEW position \in 0 .. Len(data),
         ParseString(data, position).ok
  PROVE  LET string == ParseString(data, position).value
             colon  == string.data - 1
         IN /\ string.data \in position + 2 .. Len(data)
            /\ ByteAt(data, colon) = Colon
            /\ \A k \in 1 .. colon - position : data[position + k] \in Digits
            /\ ReadAs(data, position, colon, SizeMax, string.length)
            /\ string.data + string.length <= Len(data)
<1> DEFINE end == DigitsEnd(data, position)
           length == Number(data, position, end, SizeMax)
<1>1. /\ end > position /\ ByteAt(data, end) = Colon /\ length # Overflow
      /\ length <= Len(data) - (end + 1)
      /\ ParseString(data, position).value = [data |-> end + 1, length |-> length]
  BY DEF ParseString, Segment
<1>2. /\ end \in position .. Len(data)
      /\ \A k \in 1 .. end - position : data[position + k] \in Digits
  BY DigitsEndIs
<1>3. ReadAs(data, position, end, SizeMax, length)
  <2>1. position \in Nat /\ end \in Nat /\ position <= end
    BY <1>2
  <2> HIDE DEF end
  <2> QED
    BY <1>1, <1>2, <2>1, NumberReadAs, SizeAssumption, Zenon
<1>4. end # Len(data)
  BY <1>1 DEF ByteAt, NoByte, Colon
<1> HIDE DEF end, length
<1>5. length \in Nat /\ end \in Nat
  BY <1>2, <1>3, SizeAssumption DEF ReadAs
<1> DEFINE string == ParseString(data, position).value
<1>6. string.data = end + 1 /\ string.length = length
  BY <1>1
<1> HIDE DEF string
<1>7. string.data - 1 = end
  BY <1>5, <1>6
<1>8. /\ string.data \in position + 2 .. Len(data)
      /\ string.data + string.length <= Len(data)
  BY <1>1, <1>2, <1>4, <1>5, <1>6
<1>9. /\ ByteAt(data, string.data - 1) = Colon
      /\ \A k \in 1 .. string.data - 1 - position : data[position + k] \in Digits
      /\ ReadAs(data, position, string.data - 1, SizeMax, string.length)
  BY <1>1, <1>2, <1>3, <1>6, <1>7
<1> QED
  BY <1>8, <1>9 DEF string

(***************************************************************************)
(* An integer that is taken is what is written, and an int64_t: the        *)
(* magnitude of a negative one may be one more than INT64_MAX              *)
(* (bencode_parser.c:238-341).                                             *)
(***************************************************************************)
THEOREM IntegerRead ==
  ASSUME NEW data \in Seq(0 .. 255), NEW position \in 0 .. Len(data) - 1,
         ParseInteger(data, position).ok
  PROVE  LET integer == ParseInteger(data, position).value
             minus   == ByteAt(data, position + 1) = Minus
             first   == position + (IF minus THEN 2 ELSE 1)
         IN /\ integer \in -(IntMax + 1) .. IntMax
            /\ \E end \in first + 1 .. Len(data) :
                 /\ ByteAt(data, end) = TagEnd
                 /\ \A k \in 1 .. end - first : data[first + k] \in Digits
                 /\ ReadAs(data, first, end, IntMax + 1, IF minus THEN -integer ELSE integer)
<1> DEFINE minus == ByteAt(data, position + 1) = Minus
           first == position + (IF minus THEN 2 ELSE 1)
           end == DigitsEnd(data, first)
           limit == IF minus THEN IntMax + 1 ELSE IntMax
           magnitude == Number(data, first, end, limit)
<1>1. /\ end > first /\ ByteAt(data, end) = TagEnd /\ magnitude # Overflow
      /\ ParseInteger(data, position).value = IF minus THEN -magnitude ELSE magnitude
  BY DEF ParseInteger
<1>2. first \in 0 .. Len(data) /\ first \in Nat
  BY DEF ByteAt, NoByte, Minus
<1>3. /\ end \in first .. Len(data)
      /\ \A k \in 1 .. end - first : data[first + k] \in Digits
  <2> HIDE DEF first
  <2> QED
    BY <1>2, DigitsEndIs
<1>4. limit \in Nat /\ limit >= 9 /\ limit <= IntMax + 1 /\ IntMax \in Nat
  BY BencodeAssumption
<1>5. ReadAs(data, first, end, limit, magnitude)
  <2>1. end \in Nat /\ first <= end
    BY <1>2, <1>3
  <2> HIDE DEF first, end, limit
  <2> QED
    BY <1>1, <1>2, <1>3, <1>4, <2>1, NumberReadAs, Zenon
<1>6. magnitude \in 0 .. limit
  BY <1>5 DEF ReadAs
<1>7. ReadAs(data, first, end, IntMax + 1, magnitude)
  <2> HIDE DEF first, end, limit, magnitude
  <2> QED
    BY <1>4, <1>5, <1>6 DEF ReadAs
<1>8. ParseInteger(data, position).value \in -(IntMax + 1) .. IntMax
  <2> HIDE DEF magnitude, minus
  <2>1. CASE minus
    <3>1. magnitude \in 0 .. IntMax + 1 /\ ParseInteger(data, position).value = -magnitude
      BY <1>1, <1>6, <2>1
    <3> QED
      BY <1>4, <3>1
  <2>2. CASE ~minus
    <3>1. magnitude \in 0 .. IntMax /\ ParseInteger(data, position).value = magnitude
      BY <1>1, <1>6, <2>2
    <3> QED
      BY <1>4, <3>1
  <2> QED
    BY <2>1, <2>2
<1>9. magnitude = IF minus THEN -ParseInteger(data, position).value
                  ELSE ParseInteger(data, position).value
  <2> HIDE DEF magnitude, minus
  <2>1. magnitude \in Int
    BY <1>4, <1>6
  <2> QED
    BY <1>1, <2>1
<1> DEFINE integer == ParseInteger(data, position).value
<1>10. integer \in -(IntMax + 1) .. IntMax
  BY <1>8
<1>11. magnitude = IF minus THEN -integer ELSE integer
  BY <1>9
<1> HIDE DEF end, magnitude, integer, minus, first
<1>12. end \in first + 1 .. Len(data)
  BY <1>1, <1>2, <1>3
<1>13. /\ ByteAt(data, end) = TagEnd
       /\ \A k \in 1 .. end - first : data[first + k] \in Digits
       /\ ReadAs(data, first, end, IntMax + 1, IF minus THEN -integer ELSE integer)
  BY <1>1, <1>3, <1>7, <1>11
<1> QED
  BY <1>10, <1>12, <1>13 DEF integer, minus, first
=============================================================================
