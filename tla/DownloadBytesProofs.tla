------------------------ MODULE DownloadBytesProofs ------------------------
(***************************************************************************)
(* DownloadBytes for every number of pieces, every width of a byte and of  *)
(* a word: the bytes of a bitfield are the set Download keeps, and the     *)
(* loop with its bytes is still the loop of Download.                      *)
(***************************************************************************)
EXTENDS DownloadBytes, DownloadProofs, WellFoundedInduction

USE TorrentAssumption, DownloadAssumption, BytesAssumption

-----------------------------------------------------------------------------
(* A word is a number.                                                     *)

LEMMA LeastNumber ==
  ASSUME NEW T \in SUBSET Nat, T # {}
  PROVE  \E m \in T : \A n \in T : m <= n
<1> DEFINE Less == OpToRel(<, Nat)
<1>1. PICK m \in T : \A n \in T : <<n, m>> \notin Less
  <2> HIDE DEF Less
  <2>1. IsWellFoundedOn(Less, Nat)
    BY NatLessThanWellFounded, Zenon DEF Less
  <2> QED
    BY <2>1, WFMin
<1>2. \A n \in T : ~ (n < m)
  BY <1>1, Zenon DEF OpToRel
<1> QED
  BY <1>2

\* A function given by its first value and a step is there: the prover does
\* not take a recursive definition for one.
Computes(f, m, base, step) ==
  /\ f \in [0 .. m -> Nat]
  /\ f[0] = base
  /\ \A k \in 1 .. m : f[k] = step[k][f[k - 1]]

LEMMA Recurrence ==
  ASSUME NEW m \in Nat, NEW base \in Nat, NEW step \in [1 .. m -> [Nat -> Nat]]
  PROVE  \E f : Computes(f, m, base, step)
<1> DEFINE T == {l \in 0 .. m : ~ \E f : Computes(f, l, base, step)}
<1>1. SUFFICES ASSUME T # {} PROVE FALSE
  <2>1. ASSUME T = {} PROVE \E f : Computes(f, m, base, step)
    <3>1. m \in 0 .. m
      OBVIOUS
    <3> QED
      BY <2>1, <3>1
  <2> QED
    BY <2>1
<1>2. PICK l \in T : \A n \in T : l <= n
  <2>1. T \in SUBSET Nat
    OBVIOUS
  <2> HIDE DEF T
  <2> QED
    BY <1>1, <2>1, LeastNumber
<1>3. CASE l = 0
  <2>1. Computes([k \in 0 .. 0 |-> base], 0, base, step)
    BY DEF Computes
  <2> QED
    BY <1>2, <1>3, <2>1
<1>4. CASE l # 0
  <2>1. l \in 1 .. m /\ l - 1 \in 0 .. m /\ l - 1 \notin T
    <3>1. l \in 1 .. m /\ l - 1 \in 0 .. m /\ ~ (l <= l - 1)
      BY <1>4
    <3> HIDE DEF T
    <3> QED
      BY <1>2, <3>1
  <2>2. PICK f : Computes(f, l - 1, base, step)
    BY <2>1
  <2> DEFINE g == [k \in 0 .. l |-> IF k = l THEN step[l][f[l - 1]] ELSE f[k]]
  <2>3. f[l - 1] \in Nat /\ step[l][f[l - 1]] \in Nat
    BY <2>1, <2>2 DEF Computes
  <2>4. g \in [0 .. l -> Nat] /\ g[0] = base
    <3>1. \A k \in 0 .. l : k # l => k \in 0 .. l - 1
      BY <2>1
    <3>2. \A k \in 0 .. l : g[k] \in Nat
      BY <2>2, <2>3, <3>1 DEF Computes
    <3>3. g[0] = f[0]
      BY <2>1
    <3> QED
      BY <2>2, <3>2, <3>3 DEF Computes
  <2>5. ASSUME NEW k \in 1 .. l PROVE g[k] = step[k][g[k - 1]]
    <3>1. CASE k = l
      <4>1. g[k] = step[l][f[l - 1]] /\ g[k - 1] = f[l - 1]
        BY <2>1, <3>1
      <4> QED
        BY <3>1, <4>1
    <3>2. CASE k # l
      <4>1. k \in 1 .. l - 1 /\ k - 1 \in 0 .. l /\ k - 1 # l /\ k \in 0 .. l
        BY <2>1, <3>2
      <4>2. g[k] = f[k] /\ g[k - 1] = f[k - 1]
        BY <4>1, <3>2
      <4> QED
        BY <2>2, <4>1, <4>2 DEF Computes
    <3> QED
      BY <3>1, <3>2
  <2>6. Computes(g, l, base, step)
    BY <2>4, <2>5 DEF Computes
  <2> QED
    BY <1>2, <2>6
<1> QED
  BY <1>3, <1>4

LEMMA WeightDef ==
  Weight = [k \in 0 .. WordBytes |-> IF k = 0 THEN 1 ELSE Weight[k - 1] * ByteValues]
<1> DEFINE step == [k \in 1 .. WordBytes |-> [x \in Nat |-> x * ByteValues]]
<1>1. step \in [1 .. WordBytes -> [Nat -> Nat]]
  OBVIOUS
<1>2. PICK f : Computes(f, WordBytes, 1, step)
  <2> HIDE DEF step
  <2> QED
    BY <1>1, Recurrence
<1>3. ASSUME NEW k \in 1 .. WordBytes
      PROVE  f[k] = f[k - 1] * ByteValues
  <2>1. f[k - 1] \in Nat /\ f[k] = step[k][f[k - 1]]
    <3> HIDE DEF step
    <3>1. k - 1 \in 0 .. WordBytes
      OBVIOUS
    <3> QED
      BY <1>2, <3>1 DEF Computes
  <2> QED
    BY <2>1
<1>4. f = [k \in 0 .. WordBytes |-> IF k = 0 THEN 1 ELSE f[k - 1] * ByteValues]
  BY <1>2, <1>3 DEF Computes
<1> QED
  BY <1>4 DEF Weight

LEMMA Weights ==
  /\ Weight[0] = 1
  /\ \A k \in 1 .. WordBytes : Weight[k] = Weight[k - 1] * ByteValues
  /\ \A k \in 0 .. WordBytes : Weight[k] \in Nat \ {0}
<1>1. Weight[0] = 1 /\ \A k \in 1 .. WordBytes : Weight[k] = Weight[k - 1] * ByteValues
  BY WeightDef
<1> DEFINE T == {k \in 0 .. WordBytes : Weight[k] \notin Nat \ {0}}
<1>2. SUFFICES ASSUME T # {} PROVE FALSE
  BY <1>1
<1>3. PICK k \in T : \A l \in T : k <= l
  <2>1. T \in SUBSET Nat
    OBVIOUS
  <2> HIDE DEF T
  <2> QED
    BY <1>2, <2>1, LeastNumber
<1>4. k \in 1 .. WordBytes /\ k - 1 \in 0 .. WordBytes /\ k - 1 \notin T
  BY <1>1, <1>3
<1>5. Weight[k - 1] \in Nat \ {0}
  BY <1>4
<1>6. Weight[k - 1] * ByteValues \in Nat \ {0}
  BY <1>5
<1> QED
  BY <1>1, <1>3, <1>4, <1>6

\* The place of the j-th byte of the n-th word.
LEMMA Place ==
  ASSUME NEW words \in Nat, NEW n \in 1 .. words, NEW j \in 1 .. WordBytes
  PROVE  (n - 1) * WordBytes + j \in 1 .. words * WordBytes
<1>1. n - 1 \in Nat /\ words - n \in Nat
  OBVIOUS
<1>2. (n - 1) * WordBytes \in Nat /\ (words - n) * WordBytes \in Nat
  BY <1>1
<1>3. words * WordBytes = (n - 1) * WordBytes + WordBytes + (words - n) * WordBytes
  BY <1>1
<1> QED
  BY <1>2, <1>3

\* The two readings of a word, as what their recursive definitions give.
IsHorner(payload, n, value) ==
  value = [j \in 0 .. WordBytes |->
             IF j = 0 THEN 0
             ELSE value[j - 1] * ByteValues + payload[(n - 1) * WordBytes + j]]

IsSum(payload, n, sum) ==
  sum = [j \in 0 .. WordBytes |->
           IF j = 0 THEN 0
           ELSE sum[j - 1] + payload[(n - 1) * WordBytes + j] * Weight[WordBytes - j]]

LEMMA HornerIs ==
  ASSUME NEW payload, NEW n,
         \A j \in 1 .. WordBytes : payload[(n - 1) * WordBytes + j] \in Nat
  PROVE  \E value : IsHorner(payload, n, value) /\ WordAt(payload, n) = value[WordBytes]
<1> DEFINE step == [k \in 1 .. WordBytes |-> [x \in Nat |->
                      x * ByteValues + payload[(n - 1) * WordBytes + k]]]
<1>1. step \in [1 .. WordBytes -> [Nat -> Nat]]
  OBVIOUS
<1>2. PICK f : Computes(f, WordBytes, 0, step)
  <2> HIDE DEF step
  <2> QED
    BY <1>1, Recurrence
<1>3. ASSUME NEW k \in 1 .. WordBytes
      PROVE  f[k] = f[k - 1] * ByteValues + payload[(n - 1) * WordBytes + k]
  <2>1. f[k - 1] \in Nat /\ f[k] = step[k][f[k - 1]]
    <3> HIDE DEF step
    <3>1. k - 1 \in 0 .. WordBytes
      OBVIOUS
    <3> QED
      BY <1>2, <3>1 DEF Computes
  <2> QED
    BY <2>1
<1>4. IsHorner(payload, n, f)
  BY <1>2, <1>3 DEF IsHorner, Computes
<1> QED
  BY <1>4 DEF IsHorner, WordAt

LEMMA SumIs ==
  ASSUME NEW n, \A j \in 1 .. WordBytes : request[(n - 1) * WordBytes + j] \in Nat
  PROVE  \E sum : IsSum(request, n, sum) /\ PeerReads(n) = sum[WordBytes]
<1> DEFINE step == [k \in 1 .. WordBytes |-> [x \in Nat |->
                      x + request[(n - 1) * WordBytes + k] * Weight[WordBytes - k]]]
<1>1. step \in [1 .. WordBytes -> [Nat -> Nat]]
  <2>1. \A j \in 1 .. WordBytes : Weight[WordBytes - j] \in Nat
    BY Weights
  <2> QED
    BY <2>1
<1>2. PICK f : Computes(f, WordBytes, 0, step)
  <2> HIDE DEF step
  <2> QED
    BY <1>1, Recurrence
<1>3. ASSUME NEW k \in 1 .. WordBytes
      PROVE  f[k] = f[k - 1] + request[(n - 1) * WordBytes + k] * Weight[WordBytes - k]
  <2>1. f[k - 1] \in Nat /\ f[k] = step[k][f[k - 1]]
    <3> HIDE DEF step
    <3>1. k - 1 \in 0 .. WordBytes
      OBVIOUS
    <3> QED
      BY <1>2, <3>1 DEF Computes
  <2> QED
    BY <2>1
<1>4. IsSum(request, n, f)
  BY <1>2, <1>3 DEF IsSum, Computes
<1> QED
  BY <1>4 DEF IsSum, PeerReads

LEMMA WordType ==
  ASSUME NEW words \in Nat, NEW payload \in Payloads(words), NEW n \in 1 .. words
  PROVE  WordAt(payload, n) \in Nat
<1>1. ASSUME NEW j \in 1 .. WordBytes PROVE payload[(n - 1) * WordBytes + j] \in Nat
  <2>1. (n - 1) * WordBytes + j \in 1 .. words * WordBytes
    BY Place
  <2> QED
    BY <2>1 DEF Payloads
<1>2. PICK value : IsHorner(payload, n, value) /\ WordAt(payload, n) = value[WordBytes]
  BY <1>1, HornerIs
<1> DEFINE T == {k \in 0 .. WordBytes : value[k] \notin Nat}
<1>3. SUFFICES ASSUME T # {} PROVE FALSE
  BY <1>2
<1>4. PICK k \in T : \A l \in T : k <= l
  <2>1. T \in SUBSET Nat
    OBVIOUS
  <2> HIDE DEF T
  <2> QED
    BY <1>3, <2>1, LeastNumber
<1>5. k \in 0 .. WordBytes /\ value[k] \notin Nat
  BY <1>4
<1>6. k # 0
  BY <1>2, <1>5 DEF IsHorner
<1>7. value[k] = value[k - 1] * ByteValues + payload[(n - 1) * WordBytes + k]
  BY <1>2, <1>5, <1>6 DEF IsHorner
<1>8. value[k - 1] \in Nat
  BY <1>4, <1>5, <1>6
<1>9. value[k - 1] * ByteValues \in Nat /\ payload[(n - 1) * WordBytes + k] \in Nat
  BY <1>1, <1>5, <1>6, <1>8
<1> QED
  BY <1>5, <1>7, <1>9

-----------------------------------------------------------------------------
(* A number that is written is read back.                                  *)

LEMMA Division ==
  ASSUME NEW a \in Nat, NEW b \in Nat \ {0}
  PROVE  /\ a \div b \in Nat /\ a % b \in 0 .. b - 1
         /\ a = (a \div b) * b + (a % b)
OBVIOUS

LEMMA Divided ==
  ASSUME NEW a \in Nat, NEW b \in Nat \ {0}
  PROVE  \E q \in Nat, r \in 0 .. b - 1 :
           q = a \div b /\ r = a % b /\ a = q * b + r
<1>1. /\ a \div b \in Nat /\ a % b \in 0 .. b - 1
      /\ a = (a \div b) * b + (a % b)
  BY Division
<1>2. WITNESS a \div b \in Nat, a % b \in 0 .. b - 1
<1> QED
  BY <1>1

LEMMA QuotientIs ==
  ASSUME NEW a \in Nat, NEW b \in Nat \ {0},
         NEW q \in Nat, NEW r \in 0 .. b - 1, a = q * b + r
  PROVE  a \div b = q /\ a % b = r
<1>1. PICK p \in Nat, s \in 0 .. b - 1 :
        p = a \div b /\ s = a % b /\ a = p * b + s
  BY Divided, Zenon
<1>2. ASSUME NEW x \in Nat, NEW y \in Nat, x < y PROVE x * b + b <= y * b
  <2>1. PICK d \in Nat : y = x + 1 + d
    <3>1. y - x - 1 \in Nat /\ y = x + 1 + (y - x - 1)
      BY <1>2
    <3> QED
      BY <3>1
  <2>2. y * b = x * b + b + d * b /\ d * b \in Nat
    BY <2>1
  <2> QED
    BY <2>2
<1>3. ~ (p < q) /\ ~ (q < p)
  <2>1. p * b \in Nat /\ q * b \in Nat /\ p * b + s = q * b + r
    BY <1>1
  <2>2. p < q => p * b + b <= q * b
    BY <1>2
  <2>3. q < p => q * b + b <= p * b
    BY <1>2
  <2> QED
    BY <2>1, <2>2, <2>3
<1> QED
  BY <1>1, <1>3

LEMMA QuotientTwice ==
  ASSUME NEW a \in Nat, NEW b \in Nat \ {0}, NEW c \in Nat \ {0}
  PROVE  a \div (b * c) = (a \div b) \div c
<1>1. PICK q \in Nat, r \in 0 .. b - 1 : q = a \div b /\ r = a % b /\ a = q * b + r
  BY Divided
<1>2. PICK p \in Nat, s \in 0 .. c - 1 : p = q \div c /\ s = q % c /\ q = p * c + s
  BY Divided
<1>3. a = p * (b * c) + (s * b + r)
  <2>1. \A x, y, u, w \in Nat : (x * y + u) * w = x * (w * y) + u * w
    OBVIOUS
  <2>2. (p * c + s) * b = p * (b * c) + s * b
    BY <2>1
  <2>3. q * b = p * (b * c) + s * b /\ a = q * b + r
    BY <1>1, <1>2, <2>2
  <2>4. q * b \in Nat /\ p * (b * c) \in Nat /\ s * b \in Nat
    OBVIOUS
  <2> QED
    BY <2>3, <2>4
<1>4. s * b + r \in 0 .. b * c - 1
  <2>1. PICK d \in Nat : c = s + 1 + d
    <3>1. c - s - 1 \in Nat /\ c = s + 1 + (c - s - 1)
      OBVIOUS
    <3> QED
      BY <3>1
  <2>2. b * c = s * b + b + d * b /\ d * b \in Nat /\ s * b \in Nat
    BY <2>1
  <2> QED
    BY <2>2
<1>5. b * c \in Nat \ {0}
  OBVIOUS
<1>6. a \div (b * c) = p
  <2> DEFINE x == b * c
             y == s * b + r
  <2>1. x \in Nat \ {0} /\ y \in 0 .. x - 1 /\ a = p * x + y
    BY <1>3, <1>4, <1>5
  <2> HIDE DEF x, y
  <2>2. a \div x = p
    BY <2>1, QuotientIs
  <2> QED
    BY <2>2 DEF x
<1> QED
  BY <1>1, <1>2, <1>6

\* What is left of a number when the bytes behind its j-th are cut off.
High(v, j) == v \div Weight[WordBytes - j]

LEMMA HighStep ==
  ASSUME NEW v \in 0 .. UInt32Max
  PROVE  /\ High(v, 0) = 0 /\ High(v, WordBytes) = v
         /\ \A j \in 0 .. WordBytes : High(v, j) \in Nat
         /\ \A j \in 1 .. WordBytes :
              /\ Written(v)[j] \in 0 .. ByteValues - 1
              /\ High(v, j) = High(v, j - 1) * ByteValues + Written(v)[j]
              /\ Weight[WordBytes - (j - 1)] = Weight[WordBytes - j] * ByteValues
<1>1. v \in Nat
  OBVIOUS
<1>2. High(v, 0) = 0
  <2>1. Weight[WordBytes] \in Nat \ {0} /\ v \in 0 .. Weight[WordBytes] - 1
    BY Weights
  <2>2. v = 0 * Weight[WordBytes] + v
    BY <1>1, <2>1
  <2>3. v \div Weight[WordBytes] = 0
    BY <1>1, <2>1, <2>2, QuotientIs
  <2> QED
    BY <2>3 DEF High
<1>3. High(v, WordBytes) = v
  <2>1. v = v * 1 + 0
    BY <1>1
  <2>2. v \div 1 = v
    BY <1>1, <2>1, QuotientIs
  <2> QED
    BY <2>2, Weights DEF High
<1>4. ASSUME NEW j \in 0 .. WordBytes PROVE High(v, j) \in Nat
  <2>1. Weight[WordBytes - j] \in Nat \ {0}
    BY Weights
  <2> QED
    BY <1>1, <2>1, Division DEF High
<1>5. ASSUME NEW j \in 1 .. WordBytes
      PROVE  /\ Written(v)[j] \in 0 .. ByteValues - 1
             /\ High(v, j) = High(v, j - 1) * ByteValues + Written(v)[j]
             /\ Weight[WordBytes - (j - 1)] = Weight[WordBytes - j] * ByteValues
  <2>1. /\ WordBytes - j \in 0 .. WordBytes
        /\ WordBytes - (j - 1) \in 1 .. WordBytes
        /\ WordBytes - (j - 1) - 1 = WordBytes - j
    OBVIOUS
  <2>2. /\ Weight[WordBytes - j] \in Nat \ {0}
        /\ Weight[WordBytes - (j - 1)] = Weight[WordBytes - j] * ByteValues
    BY <2>1, Weights
  <2>3. Written(v)[j] = High(v, j) % ByteValues
    BY DEF Written, High
  <2>4. High(v, j - 1) = High(v, j) \div ByteValues
    BY <1>1, <2>2, QuotientTwice DEF High
  <2>5. \A a \in Nat : /\ a % ByteValues \in 0 .. ByteValues - 1
                         /\ a = (a \div ByteValues) * ByteValues + (a % ByteValues)
    BY Division
  <2>6. High(v, j) \in Nat
    BY <1>4
  <2> QED
    BY <2>2, <2>3, <2>4, <2>5, <2>6
<1> QED
  BY <1>2, <1>3, <1>4, <1>5

LEMMA HornerReadsBack ==
  ASSUME NEW v \in 0 .. UInt32Max, NEW payload, NEW n \in Nat,
         \A j \in 1 .. WordBytes : payload[(n - 1) * WordBytes + j] = Written(v)[j]
  PROVE  WordAt(payload, n) = v
<1>1. PICK value : IsHorner(payload, n, value) /\ WordAt(payload, n) = value[WordBytes]
  <2>1. \A j \in 1 .. WordBytes : Written(v)[j] \in Nat
    BY HighStep
  <2>2. \A j \in 1 .. WordBytes : payload[(n - 1) * WordBytes + j] \in Nat
    BY <2>1
  <2> QED
    BY <2>2, HornerIs
<1> DEFINE T == {k \in 0 .. WordBytes : value[k] # High(v, k)}
<1>2. SUFFICES ASSUME T # {} PROVE FALSE
  <2>1. ASSUME T = {} PROVE value[WordBytes] = v
    <3>1. value[WordBytes] = High(v, WordBytes)
      BY <2>1
    <3> QED
      BY <3>1, HighStep
  <2> QED
    BY <1>1, <2>1
<1>3. PICK k \in T : \A l \in T : k <= l
  <2>1. T \in SUBSET Nat
    OBVIOUS
  <2> HIDE DEF T
  <2> QED
    BY <1>2, <2>1, LeastNumber
<1>4. k \in 0 .. WordBytes /\ value[k] # High(v, k)
  BY <1>3
<1>5. k # 0
  BY <1>1, <1>4, HighStep DEF IsHorner
<1>6. value[k] = value[k - 1] * ByteValues + Written(v)[k]
  BY <1>1, <1>4, <1>5 DEF IsHorner
<1>7. value[k - 1] = High(v, k - 1)
  BY <1>3, <1>4, <1>5
<1>8. High(v, k) = High(v, k - 1) * ByteValues + Written(v)[k]
  BY <1>4, <1>5, HighStep
<1> QED
  BY <1>4, <1>6, <1>7, <1>8

LEMMA SumReadsBack ==
  ASSUME NEW v \in 0 .. UInt32Max, NEW n \in Nat,
         \A j \in 1 .. WordBytes : request[(n - 1) * WordBytes + j] = Written(v)[j]
  PROVE  PeerReads(n) = v
<1>1. PICK sum : IsSum(request, n, sum) /\ PeerReads(n) = sum[WordBytes]
  <2>1. \A j \in 1 .. WordBytes : Written(v)[j] \in Nat
    BY HighStep
  <2>2. \A j \in 1 .. WordBytes : request[(n - 1) * WordBytes + j] \in Nat
    BY <2>1
  <2> QED
    BY <2>2, SumIs
<1> DEFINE Part(k) == High(v, k) * Weight[WordBytes - k]
           T == {k \in 0 .. WordBytes : sum[k] # Part(k)}
<1>2. SUFFICES ASSUME T # {} PROVE FALSE
  <2>1. ASSUME T = {} PROVE sum[WordBytes] = v
    <3>1. sum[WordBytes] = Part(WordBytes)
      BY <2>1
    <3> QED
      BY <3>1, HighStep, Weights
  <2> QED
    BY <1>1, <2>1
<1>3. PICK k \in T : \A l \in T : k <= l
  <2>1. T \in SUBSET Nat
    OBVIOUS
  <2> HIDE DEF T
  <2> QED
    BY <1>2, <2>1, LeastNumber
<1>4. k \in 0 .. WordBytes /\ sum[k] # Part(k)
  BY <1>3
<1>5. k # 0
  <2>1. Weight[WordBytes] \in Nat
    BY Weights
  <2>2. Part(0) = 0
    BY <2>1, HighStep
  <2> QED
    BY <1>1, <1>4, <2>2 DEF IsSum
<1>6. sum[k] = sum[k - 1] + Written(v)[k] * Weight[WordBytes - k]
  BY <1>1, <1>4, <1>5 DEF IsSum
<1>7. sum[k - 1] = Part(k - 1)
  BY <1>3, <1>4, <1>5
<1>8. Part(k) = Part(k - 1) + Written(v)[k] * Weight[WordBytes - k]
  <2>1. /\ Written(v)[k] \in Nat /\ High(v, k - 1) \in Nat
        /\ High(v, k) = High(v, k - 1) * ByteValues + Written(v)[k]
        /\ Weight[WordBytes - (k - 1)] = Weight[WordBytes - k] * ByteValues
        /\ Weight[WordBytes - k] \in Nat
    BY <1>4, <1>5, HighStep, Weights
  <2>2. \A d, h, w \in Nat :
          (h * ByteValues + d) * w = h * (w * ByteValues) + d * w
    OBVIOUS
  <2> QED
    BY <2>1, <2>2
<1> QED
  BY <1>4, <1>6, <1>7, <1>8

-----------------------------------------------------------------------------
(* The byte and the bit of a piece.                                        *)

LEMMA FieldLength ==
  /\ BitfieldLength \in Nat \ {0}
  /\ PieceCount \in (BitfieldLength - 1) * BitsPerByte + 1 .. BitfieldLength * BitsPerByte
<1>1. PieceCount + BitsPerByte - 1 \in Nat
  OBVIOUS
<1>2. PICK q \in Nat, r \in 0 .. BitsPerByte - 1 :
        q = BitfieldLength /\ PieceCount + BitsPerByte - 1 = q * BitsPerByte + r
  BY <1>1, Divided DEF BitfieldLength
<1>3. q # 0
  BY <1>2
<1>4. q * BitsPerByte = (q - 1) * BitsPerByte + BitsPerByte /\ (q - 1) * BitsPerByte \in Nat
  BY <1>3
<1> QED
  BY <1>2, <1>3, <1>4

LEMMA PlaceOf ==
  ASSUME NEW k \in Pieces
  PROVE  /\ ByteIndex(k) \in 1 .. BitfieldLength /\ k % BitsPerByte \in Bits
         /\ k = (ByteIndex(k) - 1) * BitsPerByte + (k % BitsPerByte)
         /\ \A n \in 1 .. BitfieldLength, b \in Bits :
              k = (n - 1) * BitsPerByte + b => n = ByteIndex(k) /\ b = k % BitsPerByte
<1>1. k \in Nat /\ k < PieceCount
  BY DEF Pieces
<1>2. PICK q \in Nat, r \in 0 .. BitsPerByte - 1 :
        q = k \div BitsPerByte /\ r = k % BitsPerByte /\ k = q * BitsPerByte + r
  BY <1>1, Divided
<1>3. q + 1 <= BitfieldLength
  <2>1. SUFFICES ASSUME BitfieldLength <= q PROVE FALSE
    BY FieldLength
  <2>2. PICK d \in Nat : q = BitfieldLength + d
    <3>1. q - BitfieldLength \in Nat /\ q = BitfieldLength + (q - BitfieldLength)
      BY <2>1, FieldLength
    <3> QED
      BY <3>1
  <2>3. /\ q * BitsPerByte = BitfieldLength * BitsPerByte + d * BitsPerByte
        /\ d * BitsPerByte \in Nat /\ BitfieldLength * BitsPerByte \in Nat
    BY <2>2, FieldLength
  <2> QED
    BY <1>1, <1>2, <2>3, FieldLength
<1>4. ASSUME NEW n \in 1 .. BitfieldLength, NEW b \in Bits, k = (n - 1) * BitsPerByte + b
      PROVE  n = ByteIndex(k) /\ b = k % BitsPerByte
  <2>1. n - 1 \in Nat /\ b \in 0 .. BitsPerByte - 1
    BY FieldLength DEF Bits
  <2>2. k \div BitsPerByte = n - 1 /\ k % BitsPerByte = b
    BY <1>1, <1>4, <2>1, QuotientIs
  <2> QED
    BY <2>1, <2>2 DEF ByteIndex
<1> QED
  BY <1>2, <1>3, <1>4, FieldLength DEF ByteIndex, Bits

\* The padding is just the bits behind the last piece's.
LEMMA PaddingIs ==
  ASSUME NEW n \in 1 .. BitfieldLength, NEW b \in Bits
  PROVE  (n - 1) * BitsPerByte + b \in Pieces <=>
           ~ (n = BitfieldLength /\ b \in PaddingMask)
<1>1. n - 1 \in Nat /\ (n - 1) * BitsPerByte \in Nat /\ b \in 0 .. BitsPerByte - 1
  BY FieldLength DEF Bits
<1>2. CASE n = BitfieldLength
  <2>1. PICK s \in 1 .. BitsPerByte : PieceCount = (n - 1) * BitsPerByte + s
    <3>1. n * BitsPerByte = (n - 1) * BitsPerByte + BitsPerByte
      BY <1>1
    <3>2. PieceCount - (n - 1) * BitsPerByte \in 1 .. BitsPerByte
      BY <1>1, <1>2, <3>1, FieldLength
    <3>3. PieceCount = (n - 1) * BitsPerByte + (PieceCount - (n - 1) * BitsPerByte)
      BY <1>1
    <3> QED
      BY <3>2, <3>3
  <2>2. (n - 1) * BitsPerByte + b \in Pieces <=> b < s
    BY <1>1, <2>1 DEF Pieces
  <2>3. CASE s = BitsPerByte
    <3>1. PieceCount = n * BitsPerByte + 0
      BY <1>1, <2>1, <2>3
    <3>2. n \in Nat /\ PieceCount \in Nat /\ 0 \in 0 .. BitsPerByte - 1
      BY FieldLength
    <3>3. PieceCount % BitsPerByte = 0
      BY <3>1, <3>2, QuotientIs
    <3> QED
      BY <1>1, <2>2, <2>3, <3>3 DEF PaddingMask
  <2>4. CASE s # BitsPerByte
    <3>1. PieceCount % BitsPerByte = s
      <4>1. n - 1 \in Nat /\ PieceCount \in Nat /\ s \in 0 .. BitsPerByte - 1
        BY <1>1, <2>4
      <4> QED
        BY <2>1, <4>1, QuotientIs
    <3>2. b \in PaddingMask <=> b >= s
      BY <1>1, <2>1, <3>1 DEF PaddingMask, Bits
    <3> QED
      BY <1>1, <1>2, <2>1, <2>2, <3>2
  <2> QED
    BY <2>3, <2>4
<1>3. CASE n # BitfieldLength
  <2>1. PICK d \in Nat : BitfieldLength - 1 = n + d
    <3>1. /\ BitfieldLength - 1 - n \in Nat
          /\ BitfieldLength - 1 = n + (BitfieldLength - 1 - n)
      BY <1>3, FieldLength
    <3> QED
      BY <3>1
  <2>2. /\ (BitfieldLength - 1) * BitsPerByte =
             (n - 1) * BitsPerByte + BitsPerByte + d * BitsPerByte
        /\ d * BitsPerByte \in Nat
    BY <2>1
  <2> QED
    BY <1>1, <1>3, <2>2, FieldLength DEF Pieces
<1> QED
  BY <1>2, <1>3

LEMMA PiecesAre ==
  ASSUME NEW field \in [1 .. BitfieldLength -> SUBSET Bits]
  PROVE  /\ \A k \in Pieces :
              k \in PiecesOf(field) <=> k % BitsPerByte \in field[ByteIndex(k)]
         /\ PaddingMask \cap field[BitfieldLength] = {} => PiecesOf(field) \subseteq Pieces
<1>1. \A k : k \in PiecesOf(field) <=>
         \E n \in 1 .. BitfieldLength : \E b \in field[n] : k = (n - 1) * BitsPerByte + b
  BY DEF PiecesOf
<1>2. ASSUME NEW k \in Pieces
      PROVE  k \in PiecesOf(field) <=> k % BitsPerByte \in field[ByteIndex(k)]
  BY <1>1, PlaceOf
<1>3. ASSUME PaddingMask \cap field[BitfieldLength] = {}, NEW k \in PiecesOf(field)
      PROVE  k \in Pieces
  <2>1. PICK n \in 1 .. BitfieldLength :
          \E b \in field[n] : k = (n - 1) * BitsPerByte + b
    BY <1>1, <1>3
  <2>2. PICK b \in field[n] : k = (n - 1) * BitsPerByte + b
    BY <2>1
  <2>3. b \in Bits /\ ~ (n = BitfieldLength /\ b \in PaddingMask)
    BY <1>3
  <2> QED
    BY <2>2, <2>3, PaddingIs
<1> QED
  BY <1>2, <1>3

-----------------------------------------------------------------------------
(* The invariant, step by step.                                            *)

\* A payload that fits is a bitfield.
LEMMA FitsIsField ==
  ASSUME NEW payload \in BitfieldPayloads, BitfieldFits(payload)
  PROVE  /\ payload \in [1 .. BitfieldLength -> SUBSET Bits]
         /\ payload # << >> /\ PiecesOf(payload) \subseteq Pieces
<1>1. PICK n \in BitfieldLength - 1 .. BitfieldLength + 1 :
        payload \in [1 .. n -> SUBSET Bits]
  BY DEF BitfieldPayloads
<1>2. n \in Nat
  BY FieldLength
<1>3. Len(payload) = n
  BY <1>1, <1>2
<1>4. n = BitfieldLength
  BY <1>3 DEF BitfieldFits
<1>5. payload # << >>
  BY <1>3, <1>4, FieldLength
<1> QED
  BY <1>1, <1>4, <1>5, PiecesAre DEF BitfieldFits

\* With its bytes, a step of the loop is a step of Download.
LEMMA BytesStep == BytesInv /\ [BytesNext]_allVars => [Next]_vars
<1> SUFFICES ASSUME BytesInv, [BytesNext]_allVars PROVE [Next]_vars
  OBVIOUS
<1>1. CASE UNCHANGED allVars
  BY <1>1 DEF allVars
<1>2. CASE WithoutBytes
  BY <1>2 DEF WithoutBytes, Next, Receive, Check, Serve
<1>3. CASE PutRequest \/ FreeBitfield
  BY <1>3 DEF PutRequest, FreeBitfield, Next, Serve
<1>4. ASSUME NEW payload \in Payloads(1), TakeHave(payload) PROVE Next
  <2>1. WordAt(payload, 1) \in Nat
    BY WordType
  <2>2. WordAt(payload, 1) \in 0 .. PieceCount /\ ReceiveHave(WordAt(payload, 1))
    BY <1>4, <2>1 DEF TakeHave, ReceiveHave
  <2> QED
    BY <2>2 DEF Next, Receive
<1>5. ASSUME NEW payload, RefuseHave(payload) \/ RefuseBitfield(payload) PROVE Next
  BY <1>5 DEF RefuseHave, RejectHave, RefuseBitfield, RejectBitfield, Next, Receive,
              ReceiveFails
<1>6. ASSUME NEW payload \in BitfieldPayloads, TakeBitfield(payload) PROVE Next
  <2>1. PiecesOf(payload) \in SUBSET Pieces
    BY <1>6, FitsIsField DEF TakeBitfield
  <2> QED
    BY <1>6, <2>1 DEF TakeBitfield, Next, Receive
<1>7. ASSUME NEW header, NEW length, NEW genuine \in BOOLEAN,
             TakePiece(header, length, genuine)
      PROVE  Next
  <2>1. PICK index, begin : AcceptPiece(index, begin, length, genuine)
    BY <1>7 DEF TakePiece
  <2>2. index = piece_index /\ begin = requested_begin /\ length = requested_length
    BY <2>1 DEF AcceptPiece, ReceivePiece, OverrunBuffer, IsRequested
  <2>3. /\ index \in 0 .. PieceCount /\ begin \in 0 .. FirstPieceSize
        /\ length \in 0 .. BlockSize
    BY <2>2 DEF BytesInv, Inv, TypeOK
  <2> QED
    BY <2>1, <2>3 DEF Next, Receive
<1>8. ASSUME NEW header, NEW length, RefusePiece(header, length) PROVE Next
  BY <1>8 DEF RefusePiece, RejectPiece, Next, Receive, ReceiveFails
<1> QED
  BY <1>1, <1>2, <1>3, <1>4, <1>5, <1>6, <1>7, <1>8 DEF BytesNext, ReceiveBytes

RequestKept ==
  request_pending' =>
    request_pending /\ UNCHANGED <<piece_index, requested_begin, requested_length, request>>

\* The conjuncts of BytesInv about the bitfield, and the one about requests.
FieldHeld ==
  /\ have_bitfield <=> bytes # << >>
  /\ bytes # << >> =>
       bytes \in [1 .. BitfieldLength -> SUBSET Bits] /\ BitfieldFits(bytes)
  /\ bitfield = PiecesOf(bytes)

RequestHeld ==
  request_pending =>
    /\ {piece_index, requested_begin, requested_length} \subseteq 0 .. UInt32Max
    /\ request =
         Written(piece_index) \o Written(requested_begin) \o Written(requested_length)

LEMMA BytesInvMeans == BytesInv <=> Inv /\ FieldHeld /\ RequestHeld
BY DEF BytesInv, FieldHeld, RequestHeld

LEMMA RequestStays == RequestHeld /\ RequestKept => RequestHeld'
BY DEF RequestHeld, RequestKept, Written

LEMMA FieldStays ==
  FieldHeld /\ UNCHANGED <<have_bitfield, bitfield, bytes>> => FieldHeld'
<1> SUFFICES ASSUME FieldHeld, UNCHANGED <<have_bitfield, bitfield, bytes>>
             PROVE  FieldHeld'
  OBVIOUS
<1> QED
  BY DEF FieldHeld, PiecesOf, BitfieldFits

LEMMA EmptyField == PiecesOf(<< >>) = {}
BY DEF PiecesOf

LEMMA BytesInvInit == BytesInit => BytesInv
BY InvInit, EmptyField DEF BytesInit, BytesInv, Init, NoConnection, NothingRequested

LEMMA HaveTaken ==
  ASSUME BytesInv, NEW payload \in Payloads(1), TakeHave(payload)
  PROVE  FieldHeld' /\ RequestKept
<1> DEFINE k == WordAt(payload, 1)
           known == IF bytes = << >> THEN [n \in 1 .. BitfieldLength |-> {}] ELSE bytes
<1>1. k \in Pieces
  BY WordType DEF TakeHave, ReceiveHave, Pieces
<1>2. /\ have_bitfield' = TRUE /\ bitfield' = bitfield \cup {k}
      /\ bytes' = [known EXCEPT ![ByteIndex(k)] = @ \cup Mask(k)]
      /\ RequestKept
  BY DEF TakeHave, ReceiveHave, Handled, RequestKept, requestVars
<1> HIDE DEF k
<1>3. /\ known \in [1 .. BitfieldLength -> SUBSET Bits]
      /\ PaddingMask \cap known[BitfieldLength] = {} /\ PiecesOf(known) = bitfield
  <2>1. CASE bytes = << >>
    <3>1. known = [n \in 1 .. BitfieldLength |-> {}] /\ bitfield = {}
      BY <2>1, EmptyField DEF BytesInv
    <3>2. PiecesOf([n \in 1 .. BitfieldLength |-> {}]) = {}
      BY DEF PiecesOf
    <3>3. BitfieldLength \in 1 .. BitfieldLength
      BY FieldLength
    <3>4. known \in [1 .. BitfieldLength -> SUBSET Bits] /\ known[BitfieldLength] = {}
      BY <3>1, <3>3
    <3> QED
      BY <3>1, <3>2, <3>4
  <2>2. CASE bytes # << >>
    BY <2>2 DEF BytesInv, BitfieldFits
  <2> QED
    BY <2>1, <2>2
<1> HIDE DEF known
<1>4. /\ ByteIndex(k) \in 1 .. BitfieldLength /\ k % BitsPerByte \in Bits
      /\ k = (ByteIndex(k) - 1) * BitsPerByte + (k % BitsPerByte)
  BY <1>1, PlaceOf
<1>5. /\ bytes' \in [1 .. BitfieldLength -> SUBSET Bits]
      /\ \A n \in 1 .. BitfieldLength :
           bytes'[n] = IF n = ByteIndex(k) THEN known[n] \cup {k % BitsPerByte}
                                          ELSE known[n]
  BY <1>2, <1>3, <1>4 DEF Mask
<1>6. PaddingMask \cap bytes'[BitfieldLength] = {}
  <2>1. ~ (ByteIndex(k) = BitfieldLength /\ k % BitsPerByte \in PaddingMask)
    BY <1>1, <1>4, PaddingIs
  <2> QED
    BY <1>3, <1>5, <2>1, FieldLength
<1>7. PiecesOf(bytes') = bitfield \cup {k}
  <2>1. PiecesOf(bytes') \subseteq Pieces /\ PiecesOf(known) \subseteq Pieces
    BY <1>3, <1>5, <1>6, PiecesAre
  <2>2. ASSUME NEW l \in Pieces PROVE l \in PiecesOf(bytes') <=> l \in bitfield \cup {k}
    <3>1. /\ l \in PiecesOf(bytes') <=> l % BitsPerByte \in bytes'[ByteIndex(l)]
          /\ l \in PiecesOf(known) <=> l % BitsPerByte \in known[ByteIndex(l)]
      BY <1>3, <1>5, PiecesAre
    <3>2. ByteIndex(l) \in 1 .. BitfieldLength
      BY PlaceOf
    <3>3. ByteIndex(l) = ByteIndex(k) /\ l % BitsPerByte = k % BitsPerByte <=> l = k
      BY <1>1, PlaceOf
    <3> QED
      BY <1>3, <1>5, <3>1, <3>2, <3>3
  <2> QED
    BY <1>1, <1>3, <2>1, <2>2
<1>8. Len(bytes') = BitfieldLength /\ bytes' # << >>
  BY <1>5, FieldLength
<1> QED
  BY <1>2, <1>5, <1>6, <1>7, <1>8 DEF FieldHeld, BitfieldFits

LEMMA BitfieldTaken ==
  ASSUME BytesInv, NEW payload \in BitfieldPayloads, TakeBitfield(payload)
  PROVE  FieldHeld' /\ RequestKept
<1>1. /\ have_bitfield' = TRUE /\ bitfield' = PiecesOf(payload) /\ bytes' = payload
      /\ RequestKept /\ BitfieldFits(payload)
  BY DEF TakeBitfield, ReceiveBitfield, Handled, RequestKept, requestVars
<1> QED
  BY <1>1, FitsIsField DEF FieldHeld, BitfieldFits

LEMMA RequestPut ==
  ASSUME BytesInv, PutRequest
  PROVE  RequestHeld' /\ UNCHANGED <<have_bitfield, bitfield, bytes>>
<1>1. /\ piece_index' = piece_index /\ requested_begin' = bytes_received
      /\ requested_length' = RequestLength
      /\ ~NotOnWire /\ UNCHANGED <<have_bitfield, bitfield, bytes>>
      /\ request' =
           Written(piece_index) \o Written(bytes_received) \o Written(RequestLength)
  BY DEF PutRequest, SendRequest, Serving, pieceVars
<1>2. /\ piece_index \in 0 .. PieceCount /\ bytes_received \in 0 .. FirstPieceSize
      /\ piece_size \in Nat /\ bytes_received <= piece_size
  BY SizeIsNat DEF BytesInv, Inv, TypeOK, Counted
<1>3. {piece_index, bytes_received, RequestLength} \subseteq 0 .. UInt32Max
  BY <1>1, <1>2, FirstPieceSizeBound DEF NotOnWire, RequestLength
<1> QED
  BY <1>1, <1>3 DEF RequestHeld

LEMMA BytesInvNext == BytesInv /\ [BytesNext]_allVars => BytesInv'
<1> SUFFICES ASSUME BytesInv, [BytesNext]_allVars PROVE FieldHeld' /\ RequestHeld'
  <2>1. (BytesInv <=> Inv /\ FieldHeld /\ RequestHeld)'
    BY BytesInvMeans, PTL
  <2> QED
    BY <2>1, BytesInvMeans, BytesStep, InvNext
<1> USE DEF Handled, Refused, RequestKept, connVars, pieceVars, requestVars, byteVars
<1>1. FieldHeld /\ RequestHeld
  BY BytesInvMeans
<1>2. SUFFICES ASSUME ~ (FieldHeld' /\ RequestKept), ~ PutRequest, ~ FreeBitfield
               PROVE  /\ UNCHANGED <<have_bitfield, bitfield, bytes>>
                      /\ RequestKept
  <2>1. CASE PutRequest
    BY <1>1, <2>1, RequestPut, FieldStays
  <2>2. CASE FreeBitfield
    BY <1>1, <2>2, EmptyField
    DEF FreeBitfield, DropPeer, ResetPieceState, FieldHeld, RequestHeld
  <2> QED
    BY <1>1, <1>2, <2>1, <2>2, FieldStays, RequestStays
<1>3. CASE UNCHANGED allVars
  BY <1>3 DEF allVars, vars
<1>4. CASE LeaveLoop /\ UNCHANGED byteVars
  BY <1>4 DEF LeaveLoop
<1>5. CASE Connect /\ UNCHANGED byteVars
  BY <1>5 DEF Connect, ConnectFails, ConnectSucceeds, HandshakeFails, HandshakeSucceeds,
              ResetPieceState
<1>6. CASE /\ ReceiveFails \/ ReceiveIgnored \/ ReceiveChoke \/ ReceiveUnchoke
           /\ UNCHANGED byteVars
  BY <1>6 DEF ReceiveFails, ReceiveIgnored, ReceiveChoke, ReceiveUnchoke
<1>7. CASE Check /\ UNCHANGED byteVars
  BY <1>7 DEF Check, PieceNotReceived, HashMismatch, RefuseOffset, WriteFails, StorePiece,
              ResetPieceState
<1>8. CASE /\ \/ NothingAnnounced \/ PeerUnusable \/ SendInterested \/ SendInterestedFails
              \/ NothingToRequest \/ RequestNotSent
           /\ UNCHANGED byteVars
  BY <1>8 DEF NothingAnnounced, PeerUnusable, SendInterested, SendInterestedFails,
              NothingToRequest, RequestNotSent, Serving
<1>9. ASSUME NEW payload, RefuseHave(payload) \/ RefuseBitfield(payload)
      PROVE  UNCHANGED <<have_bitfield, bitfield, bytes>> /\ RequestKept
  BY <1>9 DEF RefuseHave, RejectHave, RefuseBitfield, RejectBitfield
<1>10. ASSUME NEW header, NEW length,
              \/ \E genuine \in BOOLEAN : TakePiece(header, length, genuine)
              \/ RefusePiece(header, length)
       PROVE  UNCHANGED <<have_bitfield, bitfield, bytes>> /\ RequestKept
  BY <1>10 DEF TakePiece, AcceptPiece, ReceivePiece, OverrunBuffer, RefusePiece, RejectPiece
<1> QED
  BY <1>2, <1>3, <1>4, <1>5, <1>6, <1>7, <1>8, <1>9, <1>10, HaveTaken, BitfieldTaken
  DEF BytesNext, ReceiveBytes, WithoutBytes

-----------------------------------------------------------------------------
(* What follows.                                                           *)

(***************************************************************************)
(* BytesInv always holds: the bytes of the bitfield and of the request are *)
(* those of the set and the numbers beside them (main.c:516-574).          *)
(***************************************************************************)
THEOREM BytesInvariant == BytesSpec => []BytesInv
BY BytesInvInit, BytesInvNext, PTL DEF BytesSpec

(***************************************************************************)
(* Whatever bytes a peer sends, the loop does what Download says: reading  *)
(* words and bits gives Download's numbers and sets                        *)
(* (peer_connection.c:582-719), so all that is proved of Download holds.   *)
(***************************************************************************)
THEOREM BytesIsDownload == BytesSpec => Spec
<1>1. BytesInit => Init
  BY DEF BytesInit
<1> QED
  BY <1>1, BytesStep, BytesInvariant, PTL DEF BytesSpec, Spec

(***************************************************************************)
(* The bits of a bitfield are the pieces the peer announced, and main's    *)
(* test finds just these, whatever the number of pieces (main.c:516-528).  *)
(***************************************************************************)
THEOREM BytesRepresent == BytesSpec => []Represents
<1>1. BytesInv => Represents
  <2> SUFFICES ASSUME BytesInv, have_bitfield
               PROVE  /\ PieceCount \in (Len(bytes) - 1) * BitsPerByte + 1
                                        .. Len(bytes) * BitsPerByte
                      /\ PiecesOf(bytes) = bitfield /\ bitfield \subseteq Pieces
                      /\ \A k \in Pieces : Announced(k) <=> k \in bitfield
    BY DEF Represents, BytesInv
  <2>1. /\ bytes \in [1 .. BitfieldLength -> SUBSET Bits]
        /\ Len(bytes) = BitfieldLength /\ PaddingMask \cap bytes[BitfieldLength] = {}
        /\ PiecesOf(bytes) = bitfield
    BY DEF BytesInv, BitfieldFits
  <2>2. bitfield \subseteq Pieces
    BY <2>1, PiecesAre
  <2>3. ASSUME NEW k \in Pieces PROVE Announced(k) <=> k \in bitfield
    <3>1. ByteIndex(k) \in 1 .. BitfieldLength
      BY PlaceOf
    <3>2. k \in bitfield <=> k % BitsPerByte \in bytes[ByteIndex(k)]
      BY <2>1, PiecesAre
    <3> QED
      BY <2>1, <3>1, <3>2 DEF Announced, Mask
  <2> QED
    BY <2>1, <2>2, <2>3, FieldLength
<1> QED
  BY <1>1, BytesInvariant, PTL

\* Bytes on the wire, and one text behind the other.
IsText(a) == a \in Seq(0 .. ByteValues - 1)

Join(a, b) == a \o b

LEMMA WrittenType ==
  ASSUME NEW v \in 0 .. UInt32Max
  PROVE  IsText(Written(v)) /\ Len(Written(v)) = WordBytes
<1>1. \A j \in 1 .. WordBytes : Written(v)[j] \in 0 .. ByteValues - 1
  BY HighStep
<1>2. Written(v) \in [1 .. WordBytes -> 0 .. ByteValues - 1]
  BY <1>1 DEF Written
<1> QED
  BY <1>2 DEF IsText

LEMMA JoinAt ==
  ASSUME NEW a, NEW b, IsText(a), IsText(b)
  PROVE  /\ IsText(Join(a, b)) /\ Len(Join(a, b)) = Len(a) + Len(b)
         /\ \A j \in 1 .. Len(a) : Join(a, b)[j] = a[j]
         /\ \A j \in Nat : j > Len(a) /\ j <= Len(a) + Len(b) =>
              Join(a, b)[j] = b[j - Len(a)]
BY DEF Join, IsText

\* The words of a request lie one behind the other.
LEMMA ThreeWords ==
  ASSUME NEW u \in 0 .. UInt32Max, NEW v \in 0 .. UInt32Max, NEW w \in 0 .. UInt32Max,
         NEW n \in 1 .. 3, NEW j \in 1 .. WordBytes,
         NEW at, at = (n - 1) * WordBytes + j
  PROVE  /\ n = 1 => Join(Join(Written(u), Written(v)), Written(w))[at] = Written(u)[j]
         /\ n = 2 => Join(Join(Written(u), Written(v)), Written(w))[at] = Written(v)[j]
         /\ n = 3 => Join(Join(Written(u), Written(v)), Written(w))[at] = Written(w)[j]
<1>1. PICK a, b, c : a = Written(u) /\ b = Written(v) /\ c = Written(w)
  OBVIOUS
<1>2. /\ IsText(a) /\ IsText(b) /\ IsText(c)
      /\ Len(a) = WordBytes /\ Len(b) = WordBytes /\ Len(c) = WordBytes
  BY <1>1, WrittenType
<1>3. PICK ab : ab = Join(a, b)
  OBVIOUS
<1>4. /\ IsText(ab) /\ Len(ab) = WordBytes + WordBytes
      /\ \A l \in 1 .. WordBytes : ab[l] = a[l]
      /\ \A l \in Nat : l > WordBytes /\ l <= WordBytes + WordBytes =>
           ab[l] = b[l - WordBytes]
  <2>1. IsText(ab) /\ Len(ab) = Len(a) + Len(b)
    BY <1>2, <1>3, JoinAt
  <2>2. \A l \in 1 .. Len(a) : ab[l] = a[l]
    BY <1>2, <1>3, JoinAt
  <2>3. \A l \in Nat : l > Len(a) /\ l <= Len(a) + Len(b) => ab[l] = b[l - Len(a)]
    BY <1>2, <1>3, JoinAt
  <2> QED
    BY <1>2, <2>1, <2>2, <2>3
<1>5. /\ \A l \in 1 .. WordBytes + WordBytes : Join(ab, c)[l] = ab[l]
      /\ \A l \in Nat :
           l > WordBytes + WordBytes /\ l <= WordBytes + WordBytes + WordBytes =>
             Join(ab, c)[l] = c[l - (WordBytes + WordBytes)]
  <2>1. \A l \in 1 .. Len(ab) : Join(ab, c)[l] = ab[l]
    BY <1>2, <1>4, JoinAt, SMTT(30)
  <2>2. \A l \in Nat : l > Len(ab) /\ l <= Len(ab) + Len(c) =>
          Join(ab, c)[l] = c[l - Len(ab)]
    BY <1>2, <1>4, JoinAt
  <2> QED
    BY <1>2, <1>4, <2>1, <2>2
<1>6. CASE n = 1
  <2>1. at = j /\ j \in 1 .. WordBytes + WordBytes
    BY <1>6
  <2> QED
    BY <1>1, <1>3, <1>4, <1>5, <1>6, <2>1
<1>7. CASE n = 2
  <2>1. /\ at \in Nat /\ at > WordBytes /\ at <= WordBytes + WordBytes
        /\ at - WordBytes = j /\ at \in 1 .. WordBytes + WordBytes
    BY <1>7
  <2>2. Join(ab, c)[at] = b[j]
    BY <1>4, <1>5, <2>1
  <2> QED
    BY <1>1, <1>3, <1>7, <2>2
<1>8. CASE n = 3
  <2>1. /\ at \in Nat /\ at > WordBytes + WordBytes
        /\ at <= WordBytes + WordBytes + WordBytes /\ at - (WordBytes + WordBytes) = j
    BY <1>8
  <2>2. Join(ab, c)[at] = c[j]
    BY <1>5, <2>1
  <2> QED
    BY <1>1, <1>3, <1>8, <2>2
<1> QED
  BY <1>6, <1>7, <1>8

(***************************************************************************)
(* The peer reads in a request the block loco waits for, no number is cut  *)
(* off by its 32 bits, and the answer that repeats the words is accepted   *)
(* (main.c:559-574, peer_connection.c:602).                                *)
(***************************************************************************)
THEOREM BytesRequestRead == BytesSpec => []RequestRead
<1>1. BytesInv => RequestRead
  <2> SUFFICES ASSUME BytesInv, request_pending
               PROVE  /\ <<PeerReads(1), PeerReads(2), PeerReads(3)>> =
                           <<piece_index, requested_begin, requested_length>>
                      /\ IsRequested(WordAt(request, 1), WordAt(request, 2), PeerReads(3))
    BY DEF RequestRead
  <2>1. /\ piece_index \in 0 .. UInt32Max /\ requested_begin \in 0 .. UInt32Max
        /\ requested_length \in 0 .. UInt32Max
        /\ request =
             Written(piece_index) \o Written(requested_begin) \o Written(requested_length)
    BY DEF BytesInv
  <2> DEFINE number == <<piece_index, requested_begin, requested_length>>
  <2>3. ASSUME NEW n \in 1 .. 3, NEW j \in 1 .. WordBytes
        PROVE  request[(n - 1) * WordBytes + j] = Written(number[n])[j]
    <3>1. PICK at : at = (n - 1) * WordBytes + j
      OBVIOUS
    <3>2. request = Join(Join(Written(piece_index), Written(requested_begin)),
                         Written(requested_length))
      BY <2>1 DEF Join
    <3>3. /\ n = 1 => request[at] = Written(piece_index)[j]
          /\ n = 2 => request[at] = Written(requested_begin)[j]
          /\ n = 3 => request[at] = Written(requested_length)[j]
      BY <2>1, <3>1, <3>2, ThreeWords
    <3>4. CASE n = 1
      BY <3>1, <3>3, <3>4
    <3>5. CASE n = 2
      BY <3>1, <3>3, <3>5
    <3>6. CASE n = 3
      BY <3>1, <3>3, <3>6
    <3> QED
      BY <3>4, <3>5, <3>6
  <2>4. \A n \in 1 .. 3 : number[n] \in 0 .. UInt32Max
    BY <2>1
  <2>5. ASSUME NEW n \in 1 .. 3
        PROVE  PeerReads(n) = number[n] /\ WordAt(request, n) = number[n]
    <3> HIDE DEF number
    <3>1. PICK v \in 0 .. UInt32Max : v = number[n]
      BY <2>4
    <3>2. /\ n \in Nat
          /\ \A j \in 1 .. WordBytes : request[(n - 1) * WordBytes + j] = Written(v)[j]
      BY <2>3, <3>1
    <3>3. PeerReads(n) = v
      BY <3>2, SumReadsBack
    <3>4. WordAt(request, n) = v
      BY <3>2, HornerReadsBack
    <3> QED
      BY <3>1, <3>2, <3>3, <3>4
  <2>6. requested_begin <= piece_size /\ requested_length <= piece_size - requested_begin
    BY SizeIsNat DEF BytesInv, Inv, TypeOK, RequestWindow
  <2> QED
    BY <2>5, <2>6 DEF IsRequested
<1> QED
  BY <1>1, BytesInvariant, PTL
=============================================================================
