----------------------------- MODULE FifoProofs -----------------------------
(***************************************************************************)
(* Proofs about Fifo, for every width of the indices, every size and every *)
(* interleaving of one writer and one reader: neither index overtakes the  *)
(* other, the two threads never touch the same byte of the buffer, and the *)
(* ring buffer implements the bounded queue of bytes. The last section is  *)
(* about FifoRec: the record calls keep the ring, and what lies between    *)
(* the two indices is always whole records with their lengths.             *)
(***************************************************************************)
EXTENDS FifoRec, SequenceTheorems, WellFoundedInduction, TLAPS

-----------------------------------------------------------------------------
(* Powers of two                                                           *)

\* A set of natural numbers that is not empty has a least element.
LEMMA LeastNat ==
  ASSUME NEW T \in SUBSET Nat, T # {}
  PROVE  \E m \in T : \A k \in T : m <= k
  <1>1. IsWellFoundedOn(OpToRel(<, Nat), Nat)
    BY NatLessThanWellFounded
  <1>2. PICK m \in T : \A k \in T : ~(<<k, m>> \in OpToRel(<, Nat))
    BY <1>1, WFMin
  <1>3. ASSUME NEW k \in Nat, k < m PROVE <<k, m>> \in OpToRel(<, Nat)
    BY <1>3, Zenon DEF OpToRel
  <1>4. \A k \in T : ~(k < m)
    BY <1>2, <1>3, Zenon
  <1> QED
    BY <1>4

\* A set of natural numbers with 0 that has n + 1 with every n is all of Nat.
LEMMA SetInduction ==
  ASSUME NEW T \in SUBSET Nat, 0 \in T, \A n \in T : n + 1 \in T
  PROVE  T = Nat
  <1> SUFFICES ASSUME Nat \ T # {} PROVE FALSE
    OBVIOUS
  <1>1. PICK m \in Nat \ T : \A k \in Nat \ T : m <= k
    BY LeastNat
  <1>2. m # 0 /\ m - 1 \in Nat /\ m - 1 + 1 = m
    BY <1>1
  <1>3. m - 1 \in T
    BY <1>1, <1>2
  <1> QED
    BY <1>1, <1>2, <1>3

\* The powers of two up to the n-th.
Table(n, g) ==
  g \in [0 .. n -> Nat] /\ g[0] = 1 /\ \A k \in 1 .. n : g[k] = 2 * g[k - 1]

\* Every finite table of powers of two exists, by induction on its length.
LEMMA TableExists == \A n \in Nat : \E g : Table(n, g)
  <1> DEFINE T == {n \in Nat : \E g : Table(n, g)}
  <1>1. 0 \in T
    <2>1. Table(0, [k \in 0 .. 0 |-> 1])
      BY DEF Table
    <2> QED
      BY <2>1
  <1>2. ASSUME NEW n \in T PROVE n + 1 \in T
    <2>1. PICK g : Table(n, g)
      OBVIOUS
    <2> DEFINE h == [k \in 0 .. n + 1 |-> IF k = n + 1 THEN 2 * g[n] ELSE g[k]]
    <2>2. n \in Nat /\ g \in [0 .. n -> Nat] /\ g[0] = 1
          /\ \A k \in 1 .. n : g[k] = 2 * g[k - 1]
      BY <2>1 DEF Table
    <2>3. h \in [0 .. n + 1 -> Nat] /\ h[0] = 1 /\ h[n + 1] = 2 * g[n]
      BY <2>2
    <2>4. \A k \in 0 .. n : h[k] = g[k]
      BY <2>2
    <2>5. ASSUME NEW k \in 1 .. n + 1 PROVE h[k] = 2 * h[k - 1]
      <3>1. CASE k = n + 1
        <4>1. k - 1 = n /\ n \in 0 .. n
          BY <2>2, <3>1
        <4> QED
          BY <2>3, <2>4, <3>1, <4>1
      <3>2. CASE k # n + 1
        <4>1. k \in 1 .. n /\ k \in 0 .. n /\ k - 1 \in 0 .. n
          BY <2>2, <3>2
        <4> QED
          BY <2>2, <2>4, <4>1
      <3> QED
        BY <3>1, <3>2
    <2> HIDE DEF h
    <2>6. Table(n + 1, h)
      BY <2>3, <2>5 DEF Table
    <2> QED
      BY <2>2, <2>6
  <1> HIDE DEF T
  <1>3. T = Nat
    <2>1. T \in SUBSET Nat
      BY DEF T
    <2> QED
      BY <1>1, <1>2, <2>1, SetInduction
  <1> QED
    BY <1>3 DEF T

\* Two tables agree where both are defined: Exp2 is the only one.
LEMMA TableUnique ==
  ASSUME NEW n \in Nat, NEW m \in Nat, NEW g, NEW h, Table(n, g), Table(m, h), n <= m
  PROVE  \A k \in 0 .. n : g[k] = h[k]
  <1> DEFINE T == {k \in Nat : k <= n => g[k] = h[k]}
  <1>1. 0 \in T
    BY DEF Table
  <1>2. ASSUME NEW k \in T PROVE k + 1 \in T
    <2>1. CASE k + 1 <= n
      <3>1. g[k] = h[k]
        BY <2>1
      <3>2. k + 1 \in 1 .. n /\ k + 1 \in 1 .. m /\ (k + 1) - 1 = k
        BY <2>1
      <3>3. g[k + 1] = 2 * g[k] /\ h[k + 1] = 2 * h[k]
        BY <3>2 DEF Table
      <3> QED
        BY <3>1, <3>3
    <2> QED
      BY <2>1
  <1> HIDE DEF T
  <1>3. T = Nat
    <2>1. T \in SUBSET Nat
      BY DEF T
    <2> QED
      BY <1>1, <1>2, <2>1, SetInduction
  <1> QED
    BY <1>3 DEF T

\* The recursive definition of the powers of two defines them.
LEMMA Exp2Def ==
  /\ Exp2 \in [Nat -> Nat]
  /\ Exp2[0] = 1
  /\ \A n \in Nat : Exp2[n + 1] = 2 * Exp2[n]
  <1> DEFINE tab(n) == CHOOSE g : Table(n, g)
             f == [n \in Nat |-> tab(n)[n]]
             E(e) == e = [n \in Nat |-> IF n = 0 THEN 1 ELSE 2 * e[n - 1]]
  <1>1. \A n \in Nat : Table(n, tab(n))
    BY TableExists
  <1>2. \A n \in Nat : f[n] \in Nat
    BY <1>1 DEF Table
  <1>3. f[0] = 1
    BY <1>1 DEF Table
  <1>4. ASSUME NEW n \in Nat PROVE f[n + 1] = 2 * f[n]
    <2>1. Table(n, tab(n)) /\ Table(n + 1, tab(n + 1))
      BY <1>1
    <2>2. tab(n)[n] = tab(n + 1)[n]
      BY <2>1, TableUnique
    <2>3. tab(n + 1)[n + 1] = 2 * tab(n + 1)[n]
      <3>1. n + 1 \in 1 .. n + 1 /\ (n + 1) - 1 = n
        OBVIOUS
      <3>2. \A k \in 1 .. n + 1 : tab(n + 1)[k] = 2 * tab(n + 1)[k - 1]
        BY <2>1 DEF Table
      <3> HIDE DEF tab
      <3> QED
        BY <3>1, <3>2
    <2> QED
      BY <2>2, <2>3
  <1>5. E(f)
    <2> HIDE DEF tab
    <2>1. ASSUME NEW n \in Nat PROVE f[n] = IF n = 0 THEN 1 ELSE 2 * f[n - 1]
      <3>1. CASE n = 0
        BY <1>3, <3>1
      <3>2. CASE n # 0
        <4> DEFINE m == n - 1
        <4>1. m \in Nat /\ m + 1 = n
          BY <3>2
        <4>2. f[m + 1] = 2 * f[m]
          BY <1>4, <4>1
        <4> QED
          BY <3>2, <4>1, <4>2
      <3> QED
        BY <3>1, <3>2
    <2> QED
      BY <2>1
  <1> HIDE DEF f, E
  <1>6. E(Exp2)
    BY <1>5 DEF Exp2, E
  <1>7. \A n \in Nat : Exp2[n] = IF n = 0 THEN 1 ELSE 2 * Exp2[n - 1]
    BY <1>6 DEF E
  <1>8. Exp2[0] = 1
    BY <1>7
  <1>9. \A n \in Nat : Exp2[n + 1] = 2 * Exp2[n]
    BY <1>7
  <1>10. \A n \in Nat : Exp2[n] \in Nat
    <2> DEFINE T == {n \in Nat : Exp2[n] \in Nat}
    <2>1. 0 \in T /\ \A n \in T : n + 1 \in T
      BY <1>8, <1>9
    <2> HIDE DEF T
    <2>2. T \in SUBSET Nat
      BY DEF T
    <2>3. T = Nat
      BY <2>1, <2>2, SetInduction
    <2> QED
      BY <2>3 DEF T
  <1>11. DOMAIN Exp2 = Nat /\ Exp2 = [n \in Nat |-> Exp2[n]]
    BY <1>6 DEF E
  <1> QED
    BY <1>8, <1>9, <1>10, <1>11

\* Powers of two are positive, and each divides the later ones.
LEMMA Exp2Facts ==
  /\ \A n \in Nat : Exp2[n] \in Nat \ {0}
  /\ \A j, n \in Nat : \E q \in Nat \ {0} : Exp2[j + n] = q * Exp2[j]
  /\ \A j, n \in Nat : j < n => 2 * Exp2[j] <= Exp2[n]
  <1>1. \A n \in Nat : Exp2[n] \in Nat \ {0}
    <2> DEFINE T == {n \in Nat : Exp2[n] # 0}
    <2>1. 0 \in T /\ \A n \in T : n + 1 \in T
      BY Exp2Def
    <2> HIDE DEF T
    <2>2. T \in SUBSET Nat
      BY DEF T
    <2>3. T = Nat
      BY <2>1, <2>2, SetInduction
    <2> QED
      BY <2>3, Exp2Def DEF T
  <1>2. ASSUME NEW j \in Nat, NEW n \in Nat
        PROVE  \E q \in Nat \ {0} : Exp2[j + n] = q * Exp2[j]
    <2> DEFINE T == {m \in Nat : \E q \in Nat \ {0} : Exp2[j + m] = q * Exp2[j]}
    <2>1. 0 \in T
      <3>1. j + 0 = j /\ Exp2[j] = 1 * Exp2[j]
        BY <1>1
      <3> QED
        BY <3>1
    <2>2. ASSUME NEW m \in T PROVE m + 1 \in T
      <3>1. PICK q \in Nat \ {0} : Exp2[j + m] = q * Exp2[j]
        OBVIOUS
      <3>2. j + m \in Nat /\ j + (m + 1) = (j + m) + 1
        OBVIOUS
      <3>3. Exp2[j + (m + 1)] = 2 * Exp2[j + m]
        BY <3>2, Exp2Def
      <3>4. \A x \in Nat : 2 * (q * x) = (2 * q) * x
        OBVIOUS
      <3>5. Exp2[j + (m + 1)] = (2 * q) * Exp2[j]
        BY <1>1, <3>1, <3>3, <3>4
      <3>6. 2 * q \in Nat \ {0}
        OBVIOUS
      <3> QED
        BY <3>5, <3>6
    <2> HIDE DEF T
    <2>3. T \in SUBSET Nat
      BY DEF T
    <2>4. T = Nat
      BY <2>1, <2>2, <2>3, SetInduction
    <2>5. n \in T
      BY <2>4
    <2> QED
      BY <2>5, Zenon DEF T
  <1>3. ASSUME NEW j \in Nat, NEW n \in Nat, j < n PROVE 2 * Exp2[j] <= Exp2[n]
    <2>1. PICK i \in Nat, m \in Nat : i = j + 1 /\ i + m = n
      <3>1. j + 1 \in Nat /\ n - (j + 1) \in Nat /\ (j + 1) + (n - (j + 1)) = n
        BY <1>3
      <3> QED
        BY <3>1
    <2>2. PICK q \in Nat \ {0} : Exp2[n] = q * Exp2[i]
      <3>1. \E q \in Nat \ {0} : Exp2[i + m] = q * Exp2[i]
        BY <1>2, Zenon
      <3> QED
        BY <2>1, <3>1, Zenon
    <2>3. \A x \in Nat : x <= q * x
      OBVIOUS
    <2>4. Exp2[i] <= Exp2[n]
      BY <1>1, <2>2, <2>3
    <2> QED
      BY <2>1, <2>4, Exp2Def
  <1> QED
    BY <1>1, <1>2, <1>3

\* The number of values of an index, and the sizes of a buffer: each is less than
\* the number of values and divides it.
LEMMA WordFacts ==
  /\ Word \in Nat \ {0}
  /\ \A s \in Pow2 : /\ s \in Nat \ {0} /\ s < Word
                      /\ \E q \in Nat \ {0} : Word = q * s
  <1>1. Bits \in Nat
    BY BitsAssumption
  <1>2. Word \in Nat \ {0}
    BY <1>1, Exp2Facts DEF Word
  <1>3. ASSUME NEW s \in Pow2
        PROVE  s \in Nat \ {0} /\ s < Word /\ \E q \in Nat \ {0} : Word = q * s
    <2>1. PICK j \in 0 .. Bits - 1 : s = Exp2[j]
      BY DEF Pow2
    <2>2. j \in Nat /\ j < Bits /\ Bits - j \in Nat /\ j + (Bits - j) = Bits
      BY <1>1, <2>1
    <2>3. s \in Nat \ {0} /\ 2 * s <= Word
      BY <1>1, <2>1, <2>2, Exp2Facts DEF Word
    <2>4. \E q \in Nat \ {0} : Word = q * s
      BY <2>1, <2>2, Exp2Facts DEF Word
    <2> QED
      BY <1>2, <2>3, <2>4
  <1> QED
    BY <1>2, <1>3

\* The size that fifo_alloc rounds to is a power of two or, when the shift leaves
\* the word, 0.
LEMMA RoundupFacts ==
  ASSUME NEW n \in 1 .. Word - 1, n \notin Pow2
  PROVE  roundup_pow_of_two(n) \in Pow2 \cup {0}
  <1>1. Bits \in Nat /\ Bits # 0 /\ Word \in Nat \ {0}
    BY BitsAssumption, WordFacts
  <1>2. n # 1
    <2>1. Exp2[0] \in Pow2
      BY <1>1 DEF Pow2
    <2> QED
      BY <2>1, Exp2Def
  <1> DEFINE m == n - 1
             T == {k \in Nat : m < Exp2[k]}
  <1>3. m \in Nat /\ 1 <= m /\ m < Word
    BY <1>1, <1>2
  <1>4. Bits \in T
    BY <1>1, <1>3 DEF Word
  <1> HIDE DEF m
  <1>5. PICK k \in T : \A j \in T : k <= j
    BY <1>4, LeastNat
  <1>6. k # 0 /\ k <= Bits /\ k \in Nat
    BY <1>3, <1>4, <1>5, Exp2Def
  <1>7. k - 1 \in Nat /\ ~(m < Exp2[k - 1])
    BY <1>5, <1>6
  <1>8. \E z \in 0 .. Bits - 1 : Exp2[Bits - 1 - z] <= m /\ m < Exp2[Bits - z]
    <2>1. /\ Bits - k \in 0 .. Bits - 1
          /\ Bits - 1 - (Bits - k) = k - 1 /\ Bits - (Bits - k) = k
      BY <1>1, <1>6
    <2>2. Exp2[k - 1] <= m
      BY <1>3, <1>7, Exp2Def
    <2> QED
      BY <1>5, <2>1, <2>2
  <1>9. Clz(m) \in 0 .. Bits - 1
    BY <1>8 DEF Clz
  <1>10. roundup_pow_of_two(n) = Exp2[Clz(m) + 1] % Word
    BY DEF roundup_pow_of_two, m
  <1>11. CASE Clz(m) + 1 = Bits
    <2>1. \A w \in Nat \ {0} : w % w = 0
      OBVIOUS
    <2> QED
      BY <1>1, <1>10, <1>11, <2>1 DEF Word
  <1>12. CASE Clz(m) + 1 # Bits
    <2>1. Clz(m) + 1 \in 0 .. Bits - 1
      BY <1>1, <1>9, <1>12
    <2>2. Exp2[Clz(m) + 1] \in Pow2
      BY <2>1 DEF Pow2
    <2>3. \A w \in Nat \ {0} : \A a \in 0 .. w - 1 : a % w = a
      OBVIOUS
    <2>4. Exp2[Clz(m) + 1] \in 0 .. Word - 1
      BY <1>1, <2>2, WordFacts
    <2> QED
      BY <1>1, <1>10, <2>2, <2>3, <2>4
  <1> QED
    BY <1>11, <1>12

-----------------------------------------------------------------------------
(* Indices that wrap                                                       *)

\* The remainder of a number within one word of 0 .. w - 1.
LEMMA ModFacts ==
  ASSUME NEW w \in Nat \ {0}
  PROVE  /\ \A a \in Int : a % w \in 0 .. w - 1
         /\ \A a \in 0 .. w - 1 : a % w = a
         /\ \A a \in w .. 2 * w - 1 : a % w = a - w
         /\ \A a \in -w .. -1 : a % w = a + w
  <1>1. \A a \in Int : a % w \in 0 .. w - 1
    OBVIOUS
  <1>2. \A q \in Int : \A r \in 0 .. w - 1 : (q * w + r) % w = r
    OBVIOUS
  <1>3. \A a \in 0 .. w - 1 : a % w = a
    OBVIOUS
  <1>4. ASSUME NEW a \in w .. 2 * w - 1 PROVE a % w = a - w
    <2>1. a - w \in 0 .. w - 1 /\ 1 * w + (a - w) = a
      OBVIOUS
    <2> QED
      BY <1>2, <2>1
  <1>5. ASSUME NEW a \in -w .. -1 PROVE a % w = a + w
    <2>1. a + w \in 0 .. w - 1 /\ (-1) * w + (a + w) = a
      OBVIOUS
    <2> QED
      BY <1>2, <2>1
  <1> QED
    BY <1>1, <1>3, <1>4, <1>5

\* Every number is a multiple of w and its remainder, and only one.
LEMMA Division ==
  ASSUME NEW w \in Nat \ {0}
  PROVE  /\ \A a \in Int : \E q \in Int : a = q * w + (a % w)
         /\ \A q \in Int : \A r \in 0 .. w - 1 : (q * w + r) % w = r
  <1>1. ASSUME NEW a \in Int PROVE \E q \in Int : a = q * w + (a % w)
    <2>1. a \div w \in Int
      OBVIOUS
    <2>2. a = (a \div w) * w + (a % w)
      OBVIOUS
    <2> QED
      BY <2>1, <2>2
  <1>2. \A q \in Int : \A r \in 0 .. w - 1 : (q * w + r) % w = r
    OBVIOUS
  <1> QED
    BY <1>1, <1>2

\* The rules of products that the next lemmas use.
LEMMA ProductFacts ==
  /\ \A x, y, z \in Int : (x + y) * z = x * z + y * z
  /\ \A x, y, z \in Int : (x - y) * z = x * z - y * z
  /\ \A x, y, z \in Int : x * (y * z) = (x * y) * z
  /\ \A x, y \in Int : x * y \in Int
  /\ \A x, y \in Int : x <= 0 /\ y >= 0 => x * y <= 0
  /\ \A x, y \in Int : x >= 1 /\ y >= 0 => x * y >= y
  <1>1. \A x, y, z \in Int : (x + y) * z = x * z + y * z
    OBVIOUS
  <1>2. \A x, y, z \in Int : (x - y) * z = x * z - y * z
    OBVIOUS
  <1>3. \A x, y, z \in Int : x * (y * z) = (x * y) * z
    OBVIOUS
  <1>4. \A x, y \in Int : x * y \in Int
    OBVIOUS
  <1>5. \A x, y \in Int : x <= 0 /\ y >= 0 => x * y <= 0
    OBVIOUS
  <1>6. \A x, y \in Int : x >= 1 /\ y >= 0 => x * y >= y
    OBVIOUS
  <1> QED
    BY <1>1, <1>2, <1>3, <1>4, <1>5, <1>6

\* The slot of an index: it is the index modulo the size, since the size divides
\* the number of values of an index.
LEMMA SlotIsMod ==
  ASSUME NEW s \in Pow2, NEW i \in Int
  PROVE  SlotOf(s, i) = i % s
  <1>1. Word \in Nat \ {0} /\ s \in Nat \ {0}
    BY WordFacts
  <1>2. PICK p \in Nat \ {0} : Word = p * s
    BY WordFacts
  <1>3. PICK q \in Int : i = q * Word + (i % Word)
    BY <1>1, Division
  <1>4. i % Word \in Int
    BY <1>1, ModFacts
  <1>5. PICK r \in Int : i % Word = r * s + ((i % Word) % s)
    BY <1>1, <1>4, Division
  <1>6. (i % Word) % s \in 0 .. s - 1
    BY <1>1, <1>4, ModFacts
  <1>7. \A x \in Int : q * (p * s) + (r * s + x) = (q * p + r) * s + x
    <2>1. q * (p * s) = (q * p) * s /\ q * p \in Int
      BY <1>1, ProductFacts
    <2>2. (q * p + r) * s = (q * p) * s + r * s /\ (q * p) * s \in Int /\ r * s \in Int
      BY <1>1, <2>1, ProductFacts
    <2>3. \A a, b, x \in Int : a + (b + x) = (a + b) + x
      OBVIOUS
    <2> QED
      BY <2>1, <2>2, <2>3
  <1>8. i = (q * p + r) * s + ((i % Word) % s)
    BY <1>1, <1>2, <1>3, <1>5, <1>6, <1>7
  <1>9. q * p + r \in Int
    OBVIOUS
  <1>10. i % s = (i % Word) % s
    <2> DEFINE a == q * p + r
               b == (i % Word) % s
    <2>1. a \in Int /\ b \in 0 .. s - 1 /\ i = a * s + b
      BY <1>6, <1>8, <1>9
    <2> HIDE DEF a, b
    <2>2. (a * s + b) % s = b
      BY <1>1, <2>1, Division
    <2> QED
      BY <2>1, <2>2 DEF b
  <1> QED
    BY <1>10 DEF SlotOf

\* What the copies need of the slots: they are slots of the buffer, an index that
\* has wrapped has the same one, and indices less than the size apart have
\* different ones.
LEMMA SlotFacts ==
  ASSUME NEW s \in Pow2
  PROVE  /\ \A i \in Int : SlotOf(s, i) \in 0 .. s - 1
         /\ \A i \in Int : SlotOf(s, i - Word) = SlotOf(s, i)
         /\ \A i, j \in Int : i < j /\ j < i + s => SlotOf(s, i) # SlotOf(s, j)
  <1>1. Word \in Nat \ {0} /\ s \in Nat \ {0}
    BY WordFacts
  <1>2. \A i \in Int : SlotOf(s, i) \in 0 .. s - 1
    BY <1>1, SlotIsMod, ModFacts
  <1>3. ASSUME NEW i \in Int PROVE SlotOf(s, i - Word) = SlotOf(s, i)
    <2>1. PICK p \in Nat \ {0} : Word = p * s
      BY WordFacts
    <2>2. PICK q \in Int : i = q * s + (i % s)
      BY <1>1, Division
    <2>3. i % s \in 0 .. s - 1
      BY <1>1, ModFacts
    <2>4. \A x \in Int : (q * s + x) - (p * s) = (q - p) * s + x
      <3>1. (q - p) * s = q * s - p * s /\ q * s \in Int /\ p * s \in Int
        BY <1>1, ProductFacts
      <3>2. \A a, b, x \in Int : (a + x) - b = (a - b) + x
        OBVIOUS
      <3> QED
        BY <3>1, <3>2
    <2>5. i - Word = (q - p) * s + (i % s)
      BY <1>1, <2>1, <2>2, <2>3, <2>4
    <2>6. (i - Word) % s = i % s
      <3> DEFINE a == q - p
                 c == i % s
      <3>1. a \in Int /\ c \in 0 .. s - 1 /\ i - Word = a * s + c
        BY <2>3, <2>5
      <3> HIDE DEF a, c
      <3>2. (a * s + c) % s = c
        BY <1>1, <3>1, Division
      <3> QED
        BY <3>1, <3>2, Zenon DEF c
    <2>7. i - Word \in Int
      BY <1>1
    <2> QED
      BY <2>6, <2>7, SlotIsMod
  <1>4. ASSUME NEW i \in Int, NEW j \in Int, i < j, j < i + s,
               SlotOf(s, i) = SlotOf(s, j)
        PROVE  FALSE
    <2>1. PICK q \in Int : i = q * s + (i % s)
      BY <1>1, Division
    <2>2. PICK r \in Int : j = r * s + (j % s)
      BY <1>1, Division
    <2>3. i % s = j % s /\ i % s \in Int
      BY <1>1, <1>4, SlotIsMod, ModFacts
    <2>4. j - i = (r - q) * s
      <3>1. (r - q) * s = r * s - q * s /\ r * s \in Int /\ q * s \in Int
        BY <1>1, ProductFacts
      <3>2. \A a, b, x \in Int : (a + x) - (b + x) = a - b
        OBVIOUS
      <3> QED
        BY <2>1, <2>2, <2>3, <3>1, <3>2
    <2>5. \A d \in Int : d <= 0 => d * s <= 0
      BY <1>1, ProductFacts
    <2>6. \A d \in Int : d >= 1 => d * s >= s
      BY <1>1, ProductFacts
    <2>7. r - q \in Int
      OBVIOUS
    <2> QED
      BY <1>1, <1>4, <2>4, <2>5, <2>6, <2>7
  <1> QED
    BY <1>2, <1>3, <1>4

\* How far index i is before index o.
Dist(i, o) == (i - o) % Word

\* How that distance changes when one of the indices is advanced.
LEMMA DistFacts ==
  ASSUME NEW i \in 0 .. Word - 1, NEW o \in 0 .. Word - 1
  PROVE  /\ Dist(i, o) \in 0 .. Word - 1
         /\ i = o + Dist(i, o) \/ i = o + Dist(i, o) - Word
         /\ Dist(i, i) = 0
         /\ \A n \in Nat : Dist(i, o) + n < Word =>
              Dist((i + n) % Word, o) = Dist(i, o) + n
         /\ \A n \in Nat : n <= Dist(i, o) =>
              Dist(i, (o + n) % Word) = Dist(i, o) - n
  <1> DEFINE W == Word
  <1>1. W \in Nat \ {0}
    BY WordFacts
  <1> HIDE DEF W
  <1>2. i \in 0 .. W - 1 /\ o \in 0 .. W - 1
    BY DEF W
  <1>3. /\ \A a \in 0 .. W - 1 : a % W = a
        /\ \A a \in W .. 2 * W - 1 : a % W = a - W
        /\ \A a \in -W .. -1 : a % W = a + W
    BY <1>1, ModFacts
  <1>4. \A j, k \in 0 .. W - 1 : Dist(j, k) = IF j >= k THEN j - k ELSE j - k + W
    BY <1>1, <1>3 DEF Dist, W
  <1>5. \A j \in 0 .. W - 1, n \in 0 .. W - 1 :
          /\ (j + n) % W = IF j + n < W THEN j + n ELSE j + n - W
          /\ (j + n) % W \in 0 .. W - 1
    BY <1>1, <1>3
  <1>6. ASSUME NEW n \in Nat, Dist(i, o) + n < W
        PROVE  Dist((i + n) % W, o) = Dist(i, o) + n
    <2> DEFINE j == (i + n) % W
    <2>1. n \in 0 .. W - 1
      BY <1>1, <1>2, <1>4, <1>6
    <2>2. j \in 0 .. W - 1 /\ j = IF i + n < W THEN i + n ELSE i + n - W
      BY <1>2, <1>5, <2>1
    <2> HIDE DEF j
    <2>3. Dist(j, o) = IF j >= o THEN j - o ELSE j - o + W
      BY <1>2, <1>4, <2>2
    <2>4. Dist(i, o) = IF i >= o THEN i - o ELSE i - o + W
      BY <1>2, <1>4
    <2>5. Dist(j, o) = Dist(i, o) + n
      BY <1>1, <1>2, <1>6, <2>1, <2>2, <2>3, <2>4
    <2> QED
      BY <2>5 DEF j
  <1>7. ASSUME NEW n \in Nat, n <= Dist(i, o)
        PROVE  Dist(i, (o + n) % W) = Dist(i, o) - n
    <2> DEFINE k == (o + n) % W
    <2>1. n \in 0 .. W - 1
      BY <1>1, <1>2, <1>4, <1>7
    <2>2. k \in 0 .. W - 1 /\ k = IF o + n < W THEN o + n ELSE o + n - W
      BY <1>2, <1>5, <2>1
    <2> HIDE DEF k
    <2>3. Dist(i, k) = IF i >= k THEN i - k ELSE i - k + W
      BY <1>2, <1>4, <2>2
    <2>4. Dist(i, o) = IF i >= o THEN i - o ELSE i - o + W
      BY <1>2, <1>4
    <2>5. Dist(i, k) = Dist(i, o) - n
      BY <1>1, <1>2, <1>7, <2>1, <2>2, <2>3, <2>4
    <2> QED
      BY <2>5 DEF k
  <1>8. /\ Dist(i, o) \in 0 .. W - 1
        /\ i = o + Dist(i, o) \/ i = o + Dist(i, o) - W
        /\ Dist(i, i) = 0
    BY <1>1, <1>2, <1>4
  <1> QED
    BY <1>6, <1>7, <1>8 DEF W

-----------------------------------------------------------------------------
(* The copies                                                              *)

\* A function on 1 .. n is a sequence of n elements.
LEMMA FcnSeq ==
  ASSUME NEW S, NEW n \in Nat, NEW f \in [1 .. n -> S]
  PROVE  f \in Seq(S) /\ Len(f) = n
  OBVIOUS

\* The fifo's numbers: what is in it and what the writer adds fit in it.
LEMMA RingFacts ==
  ASSUME TypeOK, SpaceInv
  PROVE  /\ Word \in Nat \ {0} /\ size \in Nat /\ size < Word
         /\ Len(wdata) \in Nat /\ fifo_len \in Nat
         /\ fifo_len = Dist(in, out)
         /\ fifo_len + woff + Len(wdata) <= size
         /\ DOMAIN buffer = 0 .. size - 1
  <1>1. Word \in Nat \ {0} /\ size \in Nat /\ size < Word
    BY WordFacts DEF TypeOK
  <1>2. Len(wdata) \in Nat
    BY DEF TypeOK
  <1>3. fifo_len = Dist(in, out)
    BY DEF fifo_len, Dist
  <1>4. fifo_len \in 0 .. Word - 1
    BY <1>3, DistFacts DEF TypeOK
  <1>5. DOMAIN buffer = 0 .. size - 1
    BY DEF TypeOK
  <1> QED
    BY <1>1, <1>2, <1>3, <1>4, <1>5 DEF SpaceInv

\* The in index is where the contents end.
LEMMA InSlot ==
  ASSUME TypeOK, SpaceInv, size \in Pow2, NEW j \in Int
  PROVE  Slot(in + j) = Slot(out + (fifo_len + j))
  <1>1. Word \in Nat \ {0} /\ fifo_len \in Nat /\ in \in Int /\ out \in Int
    BY RingFacts DEF TypeOK
  <1>2. in = out + fifo_len \/ in = out + fifo_len - Word
    <2>1. in \in 0 .. Word - 1 /\ out \in 0 .. Word - 1 /\ fifo_len = Dist(in, out)
      BY RingFacts DEF TypeOK
    <2> QED
      BY <2>1, DistFacts
  <1>3. CASE in = out + fifo_len
    <2>1. in + j = out + (fifo_len + j)
      BY <1>1, <1>3
    <2> QED
      BY <2>1
  <1>4. CASE in = out + fifo_len - Word
    <2>1. in + j = (out + (fifo_len + j)) - Word /\ out + (fifo_len + j) \in Int
      BY <1>1, <1>4
    <2> QED
      BY <2>1, SlotFacts DEF Slot
  <1> QED
    BY <1>2, <1>3, <1>4

\* A transfer has at most all of its bytes before the buffer's end.
LEMMA ToEndFacts ==
  ASSUME TypeOK, NEW i \in Int, NEW n \in Nat
  PROVE  /\ ToEnd(i, n) \in 0 .. n
         /\ size = 0 => ToEnd(i, n) = 0
  <1>1. CASE size = 0
    BY <1>1 DEF ToEnd
  <1>2. CASE size # 0
    <2>1. size \in Pow2 /\ size \in Nat
      BY <1>2, WordFacts DEF TypeOK
    <2>2. Slot(i) \in 0 .. size - 1
      BY <2>1, SlotFacts DEF Slot
    <2> QED
      BY <1>2, <2>1, <2>2 DEF ToEnd, Least
  <1> QED
    BY <1>1, <1>2

\* memcpy into the buffer: the bytes lo .. hi of s are where they belong, and the
\* other bytes of the buffer are untouched.
LEMMA StoreFacts ==
  ASSUME TypeOK, NEW i \in Int, NEW s \in Seq(Bytes), NEW lo \in Nat, NEW hi \in Nat,
         1 <= lo, hi <= Len(s), hi < lo + size
  PROVE  /\ Store(i, s, lo, hi) \in [0 .. size - 1 -> Bytes]
         /\ \A k \in lo .. hi : Store(i, s, lo, hi)[Slot(i + k - 1)] = s[k]
         /\ \A x \in 0 .. size - 1 :
              (\A k \in lo .. hi : Slot(i + k - 1) # x) => Store(i, s, lo, hi)[x] = buffer[x]
  <1> DEFINE st == Store(i, s, lo, hi)
             Hit(x) == \E k \in lo .. hi : Slot(i + k - 1) = x
             At(x) == CHOOSE k \in lo .. hi : Slot(i + k - 1) = x
  <1>1. size \in Nat /\ DOMAIN buffer = 0 .. size - 1 /\ Len(s) \in Nat
    BY WordFacts DEF TypeOK
  <1>2. st = [x \in 0 .. size - 1 |-> IF Hit(x) THEN s[At(x)] ELSE buffer[x]]
    BY <1>1 DEF Store
  <1>3. \A x : Hit(x) => At(x) \in lo .. hi /\ Slot(i + At(x) - 1) = x
    OBVIOUS
  <1> HIDE DEF st, At
  <1>4. \A k \in lo .. hi : k \in 1 .. Len(s) /\ s[k] \in Bytes
    <2>1. \A k \in lo .. hi : k \in 1 .. Len(s)
      BY <1>1
    <2>2. \A k \in 1 .. Len(s) : s[k] \in Bytes
      BY ElementOfSeq
    <2> QED
      BY <2>1, <2>2
  <1>5. st \in [0 .. size - 1 -> Bytes]
    <2>1. \A x \in 0 .. size - 1 : (IF Hit(x) THEN s[At(x)] ELSE buffer[x]) \in Bytes
      BY <1>3, <1>4 DEF TypeOK
    <2> HIDE DEF Hit
    <2> QED
      BY <1>2, <2>1
  <1>6. ASSUME NEW k \in lo .. hi PROVE st[Slot(i + k - 1)] = s[k]
    <2> DEFINE x == Slot(i + k - 1)
    <2>1. size # 0
      BY <1>1
    <2>2. size \in Pow2
      BY <2>1 DEF TypeOK
    <2>3. x \in 0 .. size - 1
      <3>1. i + k - 1 \in Int
        OBVIOUS
      <3> QED
        BY <2>2, <3>1, SlotFacts DEF Slot
    <2>4. Hit(x)
      OBVIOUS
    <2>5. At(x) \in lo .. hi /\ Slot(i + At(x) - 1) = x
      BY <1>3, <2>4
    <2>6. At(x) = k
      <3> DEFINE a == At(x)
      <3>1. a \in lo .. hi /\ Slot(i + a - 1) = Slot(i + k - 1)
        BY <2>5
      <3> HIDE DEF a, x
      <3>2. ASSUME a < k PROVE FALSE
        <4>1. /\ i + a - 1 \in Int /\ i + k - 1 \in Int
              /\ i + a - 1 < i + k - 1 /\ i + k - 1 < (i + a - 1) + size
          BY <1>1, <3>1, <3>2
        <4> QED
          BY <2>2, <3>1, <4>1, SlotFacts DEF Slot
      <3>3. ASSUME k < a PROVE FALSE
        <4>1. /\ i + a - 1 \in Int /\ i + k - 1 \in Int
              /\ i + k - 1 < i + a - 1 /\ i + a - 1 < (i + k - 1) + size
          BY <1>1, <3>1, <3>3
        <4> QED
          BY <2>2, <3>1, <4>1, SlotFacts DEF Slot
      <3> QED
        BY <3>1, <3>2, <3>3 DEF a
    <2> HIDE DEF x
    <2>7. st[x] = s[At(x)]
      BY <1>2, <2>3, <2>4
    <2> QED
      BY <2>6, <2>7 DEF x
  <1>7. ASSUME NEW x \in 0 .. size - 1, \A k \in lo .. hi : Slot(i + k - 1) # x
        PROVE  st[x] = buffer[x]
    BY <1>2, <1>7
  <1> QED
    BY <1>5, <1>6, <1>7 DEF st

\* memcpy out of the buffer.
LEMMA FetchFacts ==
  ASSUME TypeOK, NEW i \in Int, NEW lo \in Nat, NEW hi \in Nat, 1 <= lo, lo <= hi + 1,
         size = 0 => hi < lo
  PROVE  /\ Fetch(i, lo, hi) \in Seq(Bytes)
         /\ Len(Fetch(i, lo, hi)) = hi - lo + 1
         /\ \A k \in 1 .. hi - lo + 1 :
              Fetch(i, lo, hi)[k] = buffer[Slot(i + (lo + k - 1) - 1)]
  <1> DEFINE n == hi - lo + 1
             f == Fetch(i, lo, hi)
  <1>1. n \in Nat
    OBVIOUS
  <1>2. ASSUME NEW k \in 1 .. n PROVE buffer[Slot(i + lo + k - 2)] \in Bytes
    <2>1. size # 0
      BY <1>1
    <2>2. size \in Pow2
      BY <2>1 DEF TypeOK
    <2>3. Slot(i + lo + k - 2) \in 0 .. size - 1
      BY <2>2, SlotFacts DEF Slot
    <2> QED
      BY <2>3 DEF TypeOK
  <1>3. f = [k \in 1 .. n |-> buffer[Slot(i + lo + k - 2)]]
    BY DEF Fetch
  <1> HIDE DEF f
  <1>4. f \in [1 .. n -> Bytes]
    BY <1>2, <1>3
  <1>5. f \in Seq(Bytes) /\ Len(f) = n
    BY <1>1, <1>4, FcnSeq
  <1>6. ASSUME NEW k \in 1 .. n PROVE f[k] = buffer[Slot(i + (lo + k - 1) - 1)]
    <2>1. i + lo + k - 2 = i + (lo + k - 1) - 1
      BY <1>1
    <2> QED
      BY <1>3, <2>1
  <1> QED
    BY <1>5, <1>6 DEF f

\* The bytes that the writer copies go beside the contents of the fifo.
LEMMA StoreKeepsContents ==
  ASSUME TypeOK, SpaceInv, NEW lo \in Nat, NEW hi \in Nat,
         1 <= lo, hi <= Len(wdata), NEW j \in Nat, j < fifo_len
  PROVE  Store(in + woff, wdata, lo, hi)[Slot(out + j)] = buffer[Slot(out + j)]
  <1>1. /\ size \in Nat /\ Len(wdata) \in Nat /\ fifo_len \in Nat /\ woff \in Nat
        /\ in \in Int /\ out \in Int
        /\ fifo_len + woff + Len(wdata) <= size
    BY RingFacts DEF TypeOK
  <1>2. size \in Pow2
    BY <1>1 DEF TypeOK
  <1>3. Slot(out + j) \in 0 .. size - 1
    <2>1. out + j \in Int
      BY <1>1
    <2> QED
      BY <1>2, <2>1, SlotFacts DEF Slot
  <1>4. ASSUME NEW k \in lo .. hi PROVE Slot((in + woff) + k - 1) # Slot(out + j)
    <2> DEFINE d == woff + k - 1
    <2>1. d \in Nat /\ (in + woff) + k - 1 = in + d /\ fifo_len + d < size
      BY <1>1
    <2> HIDE DEF d
    <2>2. Slot(in + d) = Slot(out + (fifo_len + d))
      BY <1>2, <2>1, InSlot
    <2>3. /\ out + j \in Int /\ out + (fifo_len + d) \in Int
          /\ out + j < out + (fifo_len + d) /\ out + (fifo_len + d) < (out + j) + size
      BY <1>1, <2>1
    <2>4. Slot(out + j) # Slot(out + (fifo_len + d))
      BY <1>2, <2>3, SlotFacts DEF Slot
    <2> QED
      BY <2>1, <2>2, <2>4
  <1>5. in + woff \in Int /\ hi < lo + size
    BY <1>1
  <1>6. wdata \in Seq(Bytes)
    BY DEF TypeOK
  <1> DEFINE i == in + woff
  <1>7. \A x \in 0 .. size - 1 :
          (\A k \in lo .. hi : Slot(i + k - 1) # x) =>
            Store(i, wdata, lo, hi)[x] = buffer[x]
    <2>1. i \in Int /\ hi < lo + size
      BY <1>5
    <2> HIDE DEF i
    <2> QED
      BY <1>6, <2>1, StoreFacts, ZenonT(40)
  <1> QED
    BY <1>3, <1>4, <1>7

-----------------------------------------------------------------------------
(* The invariant of the ring                                               *)

\* Between calls the owner may put any fifo in its place.
LEMMA OwnerRing ==
  ASSUME RingInv, Idle, size' \in Pow2 \cup {0}, buffer' \in [0 .. size' - 1 -> Bytes],
         in' \in 0 .. Word - 1, out' \in 0 .. Word - 1, Dist(in', out') <= size',
         asked' \in Nat, SerInv', UNCHANGED <<writer, reader>>
  PROVE  RingInv'
  <1> USE DEF RingInv, writer, reader, Idle
  <1>1. TypeOK'
    BY DEF TypeOK
  <1>2. wdata' = <<>> /\ woff' = 0 /\ wpc' = "idle" /\ rpc' = "idle"
    BY DEF WriteInv
  <1>3. Dist(in', out') \in Nat
    BY DistFacts
  <1>4. fifo_len' = Dist(in', out') /\ Len(wdata') = 0
    BY <1>2 DEF fifo_len, Dist
  <1>5. SpaceInv'
    BY <1>2, <1>3, <1>4 DEF SpaceInv
  <1> QED
    BY <1>1, <1>2, <1>5 DEF DataInv, WriteInv, ReadInv

\* A fifo that is created, or whose indices are reset, is empty.
LEMMA ReinitRing ==
  ASSUME RingInv, Idle, NEW n \in Pow2 \cup {0}, Reinit(n), asked' \in Nat,
         UNCHANGED <<ser, writer, reader>>
  PROVE  RingInv'
  <1>1. Word \in Nat \ {0}
    BY WordFacts
  <1>2. 0 \in 0 .. Word - 1 /\ Dist(0, 0) = 0
    BY <1>1, DistFacts
  <1>3. SerInv'
    BY DEF RingInv, SerInv
  <1>4. n \in Nat
    BY WordFacts
  <1>5. /\ size' \in Pow2 \cup {0} /\ buffer' \in [0 .. size' - 1 -> Bytes]
        /\ in' \in 0 .. Word - 1 /\ out' \in 0 .. Word - 1 /\ Dist(in', out') <= size'
    BY <1>2, <1>4 DEF Reinit
  <1> QED
    BY <1>3, <1>5, OwnerRing

\* What the owner of the fifo does while no thread uses it keeps the ring well
\* formed: fifo_init, fifo_alloc, fifo_free, fifo_reset, (un)serialize.
LEMMA OwnSteps == RingInv /\ Own => RingInv'
  <1> SUFFICES ASSUME RingInv, Own PROVE RingInv'
    OBVIOUS
  <1>0. Word \in Nat \ {0}
    BY WordFacts
  <1>1. ASSUME NEW n \in Sizes, FifoAlloc(n) PROVE RingInv'
    <2>1. n \in 1 .. Word - 1 /\ n \in Nat
      BY <1>0, SizesAssumption
    <2>2. Idle /\ asked' = n /\ UNCHANGED <<ser, writer, reader>>
      BY <1>1 DEF FifoAlloc
    <2>3. CASE Reinit(0)
      BY <2>1, <2>2, <2>3, ReinitRing
    <2>4. CASE Reinit(IF n \in Pow2 THEN n ELSE roundup_pow_of_two(n))
      <3>1. (IF n \in Pow2 THEN n ELSE roundup_pow_of_two(n)) \in Pow2 \cup {0}
        BY <2>1, RoundupFacts
      <3> QED
        BY <2>1, <2>2, <2>4, <3>1, ReinitRing
    <2> QED
      BY <1>1, <2>3, <2>4 DEF FifoAlloc
  <1>2. ASSUME NEW n \in Sizes, FifoInit(n) PROVE RingInv'
    <2>1. n \in Nat
      BY <1>0, SizesAssumption
    <2> QED
      BY <1>2, <2>1, ReinitRing DEF FifoInit
  <1>3. CASE FifoFree
    BY <1>3, ReinitRing DEF FifoFree
  <1>4. CASE FifoReset
    <2>1. 0 \in 0 .. Word - 1 /\ Dist(0, 0) = 0
      BY <1>0, DistFacts
    <2>2. /\ size' \in Pow2 \cup {0} /\ size' \in Nat
          /\ buffer' \in [0 .. size' - 1 -> Bytes]
          /\ asked' \in Nat /\ SerInv'
      <3>1. UNCHANGED <<size, buffer, asked, ser>>
        BY <1>4 DEF FifoReset, owner
      <3>2. size \in Nat
        BY WordFacts DEF RingInv, TypeOK
      <3>3. SerInv'
        BY <3>1 DEF RingInv, SerInv
      <3> QED
        BY <3>1, <3>2, <3>3 DEF RingInv, TypeOK
    <2>3. in' = 0 /\ out' = 0 /\ Idle /\ UNCHANGED <<writer, reader>>
      BY <1>4 DEF FifoReset
    <2>4. Dist(in', out') <= size'
      BY <2>1, <2>2, <2>3
    <2> QED
      BY <2>1, <2>2, <2>3, <2>4, OwnerRing
  <1>5. CASE FifoSerialize
    <2>1. /\ Idle /\ UNCHANGED <<fifo, asked, writer, reader>>
          /\ ser'.size = size /\ ser'.in = in /\ ser'.out = out /\ ser'.buffer = buffer
      BY <1>5 DEF FifoSerialize
    <2>2. TypeOK /\ Dist(in, out) <= size
      <3>1. TypeOK /\ SpaceInv
        BY DEF RingInv
      <3>2. /\ size \in Nat /\ Len(wdata) \in Nat /\ fifo_len \in Nat
            /\ fifo_len = Dist(in, out) /\ fifo_len + woff + Len(wdata) <= size
        BY <3>1, RingFacts
      <3>3. woff \in Nat
        BY <3>1 DEF TypeOK
      <3> QED
        BY <3>1, <3>2, <3>3
    <2>3. SerInv'
      BY <2>1, <2>2 DEF TypeOK, SerInv, Dist
    <2>4. /\ size' \in Pow2 \cup {0} /\ buffer' \in [0 .. size' - 1 -> Bytes]
          /\ in' \in 0 .. Word - 1 /\ out' \in 0 .. Word - 1 /\ Dist(in', out') <= size'
          /\ asked' \in Nat
      BY <2>1, <2>2 DEF TypeOK, fifo
    <2> QED
      BY <2>1, <2>3, <2>4, OwnerRing
  <1>6. CASE FifoUnserialize
    <2>1. /\ Idle /\ asked' = ser.size /\ UNCHANGED <<ser, writer, reader>>
          /\ SerInv /\ ser.size \in Nat
      BY <1>6, WordFacts DEF FifoUnserialize, RingInv, SerInv
    <2>2. CASE Reinit(0)
      BY <2>1, <2>2, ReinitRing
    <2>3. CASE size' = ser.size /\ buffer' = ser.buffer /\ in' = ser.in /\ out' = ser.out
      <3>1. SerInv'
        BY <2>1 DEF SerInv
      <3>2. /\ size' \in Pow2 \cup {0} /\ buffer' \in [0 .. size' - 1 -> Bytes]
            /\ in' \in 0 .. Word - 1 /\ out' \in 0 .. Word - 1
            /\ Dist(in', out') <= size'
        BY <2>1, <2>3 DEF SerInv, Dist
      <3> QED
        BY <2>1, <3>1, <3>2, OwnerRing
    <2> QED
      BY <1>6, <2>2, <2>3 DEF FifoUnserialize
  <1> QED
    BY <1>1, <1>2, <1>3, <1>4, <1>5, <1>6 DEF Own

\* A change of the buffer beside the contents leaves what the reader has copied
\* true.
LEMMA KeptReadInv ==
  ASSUME TypeOK, SpaceInv, DataInv, ReadInv,
         \A j \in Nat : j < fifo_len => buffer'[Slot(out + j)] = buffer[Slot(out + j)],
         UNCHANGED <<size, out, reader>>
  PROVE  ReadInv'
  <1> USE DEF reader
  <1>1. Len(rdata) \in Nat /\ rlen \in Nat /\ roff \in Nat /\ fifo_len \in Nat /\ out \in Int
    BY RingFacts DEF TypeOK
  <1>2. ASSUME rpc \in {"rest", "publish"} \/ (rpc = "prest" /\ roff = 0),
               NEW k \in 1 .. Len(rdata)
        PROVE  rdata[k] = buffer'[Slot(out + roff + k - 1)]
    <2> DEFINE j == roff + k - 1
    <2>1. rlen + roff <= fifo_len /\ Len(rdata) <= rlen
      BY <1>1, <1>2 DEF DataInv, ReadInv
    <2>2. j \in Nat /\ j < fifo_len /\ out + roff + k - 1 = out + j
      BY <1>1, <2>1
    <2>3. rdata[k] = buffer[Slot(out + roff + k - 1)]
      BY <1>2 DEF ReadInv
    <2> HIDE DEF j
    <2>4. buffer'[Slot(out + j)] = buffer[Slot(out + j)]
      BY <2>2
    <2> QED
      BY <2>2, <2>3, <2>4
  <1>3. \A k : Slot(out + roff + k - 1)' = Slot(out + roff + k - 1)
    BY DEF Slot
  <1> QED
    BY <1>2, <1>3 DEF ReadInv, Slot

\* The copies of the writer are such changes.
LEMMA CopyKeepsReadInv ==
  ASSUME TypeOK, SpaceInv, DataInv, ReadInv, NEW lo \in Nat, NEW hi \in Nat,
         1 <= lo, hi <= Len(wdata), buffer' = Store(in + woff, wdata, lo, hi),
         UNCHANGED <<size, out, reader>>
  PROVE  ReadInv'
  BY StoreKeepsContents, KeptReadInv

\* fifo_in takes no more bytes than there was room for.
LEMMA OfferFacts ==
  ASSUME RingInv, NEW n \in 0 .. MaxLen, NEW s \in [1 .. n -> Bytes], FifoIn(s)
  PROVE  /\ wpc = "idle" /\ wpc' = "first" /\ UNCHANGED <<fifo, owner, woff, reader>>
         /\ wdata' \in Seq(Bytes) /\ fifo_len + Len(wdata') <= size
  <1> USE DEF RingInv
  <1>0. Word \in Nat \ {0} /\ size \in Nat /\ fifo_len \in Nat /\ fifo_len <= size
    <2>1. /\ Word \in Nat \ {0} /\ size \in Nat /\ Len(wdata) \in Nat /\ fifo_len \in Nat
          /\ fifo_len + woff + Len(wdata) <= size
      BY RingFacts
    <2>2. woff \in Nat
      BY DEF TypeOK
    <2> QED
      BY <2>1, <2>2
  <1>1. n \in Nat
    BY <1>0, LenAssumption
  <1>2. s \in Seq(Bytes) /\ Len(s) = n
    BY <1>1, FcnSeq
  <1> DEFINE m == Least(size - fifo_len, n)
  <1>3. m \in Nat /\ m <= n /\ fifo_len + m <= size
    BY <1>0, <1>1 DEF Least
  <1>4. /\ wpc = "idle" /\ wpc' = "first" /\ wdata' = SubSeq(s, 1, m)
        /\ UNCHANGED <<fifo, owner, woff, reader>>
    BY <1>2 DEF FifoIn, fifo_avail
  <1> HIDE DEF m
  <1>5. \A i \in 1 .. m : s[i] \in Bytes
    BY <1>1, <1>3
  <1>6. /\ SubSeq(s, 1, m) \in Seq(Bytes)
        /\ Len(SubSeq(s, 1, m)) = IF 1 <= m THEN m - 1 + 1 ELSE 0
    BY <1>3, <1>5, SubSeqProperties
  <1>7. wdata' \in Seq(Bytes) /\ Len(wdata') = m
    BY <1>3, <1>4, <1>6
  <1> QED
    BY <1>3, <1>4, <1>7

\* What is published joins the contents.
LEMMA PublishFacts ==
  ASSUME RingInv, InPublish
  PROVE  /\ in' \in 0 .. Word - 1
         /\ fifo_len' = fifo_len + (Len(wdata) + woff)
  <1> USE DEF RingInv
  <1>0. /\ Word \in Nat \ {0} /\ size \in Nat /\ size < Word
        /\ Len(wdata) \in Nat /\ fifo_len \in Nat /\ fifo_len = Dist(in, out)
        /\ fifo_len + woff + Len(wdata) <= size
        /\ woff \in Nat /\ in \in 0 .. Word - 1 /\ out \in 0 .. Word - 1
    BY RingFacts DEF TypeOK
  <1> DEFINE n == Len(wdata) + woff
  <1>1. n \in Nat /\ Dist(in, out) + n < Word /\ in + Len(wdata) + woff = in + n
    BY <1>0
  <1>2. in' = (in + n) % Word /\ out' = out
    BY <1>1 DEF InPublish
  <1> HIDE DEF n
  <1>3. in' \in 0 .. Word - 1
    <2>1. in + n \in Int
      BY <1>0, <1>1
    <2> QED
      BY <1>0, <1>2, <2>1, ModFacts
  <1>4. Dist((in + n) % Word, out) = Dist(in, out) + n
    BY <1>0, <1>1, DistFacts
  <1>5. fifo_len' = Dist((in + n) % Word, out)
    BY <1>2 DEF fifo_len, Dist
  <1>6. fifo_len' = fifo_len + n
    BY <1>0, <1>4, <1>5
  <1> QED
    BY <1>3, <1>6 DEF n

\* The steps of the writer keep the ring: it fills only space that was free when
\* it looked, which the reader can only extend.
LEMMA WriteSteps == RingInv /\ Write => RingInv'
  <1> SUFFICES ASSUME RingInv, Write PROVE RingInv'
    OBVIOUS
  <1> USE DEF RingInv
  <1>0. /\ Word \in Nat \ {0} /\ size \in Nat /\ size < Word
        /\ Len(wdata) \in Nat /\ fifo_len \in Nat /\ fifo_len = Dist(in, out)
        /\ fifo_len + woff + Len(wdata) <= size
        /\ woff \in Nat /\ in \in 0 .. Word - 1 /\ out \in 0 .. Word - 1
        /\ wdata \in Seq(Bytes) /\ in + woff \in Int
    BY RingFacts DEF TypeOK
  <1>1. ASSUME NEW n \in 0 .. MaxLen, NEW s \in [1 .. n -> Bytes], FifoIn(s) PROVE RingInv'
    <2>1. /\ wpc = "idle" /\ wpc' = "first" /\ UNCHANGED <<fifo, owner, woff, reader>>
          /\ wdata' \in Seq(Bytes) /\ fifo_len + Len(wdata') <= size
      BY <1>1, OfferFacts
    <2> USE DEF fifo, owner, reader
    <2>2. TypeOK'
      BY <2>1 DEF TypeOK
    <2>3. SerInv' /\ DataInv' /\ ReadInv'
      BY <2>1 DEF SerInv, DataInv, ReadInv, fifo_len, Slot
    <2>4. SpaceInv'
      <3>1. fifo_len' = fifo_len /\ woff' = 0 /\ size' = size /\ Len(wdata') \in Nat
        BY <2>1 DEF fifo_len, WriteInv
      <3> QED
        BY <1>0, <2>1, <3>1 DEF SpaceInv
    <2>5. WriteInv'
      BY <2>1 DEF WriteInv
    <2> QED
      BY <2>2, <2>3, <2>4, <2>5
  <1>2. CASE InFirst
    <2> DEFINE e == ToEnd(in + woff, Len(wdata))
               b == Store(in + woff, wdata, 1, e)
    <2>1. /\ wpc = "first" /\ wpc' = "rest" /\ buffer' = b
          /\ UNCHANGED <<size, in, out, owner, wdata, woff, reader>>
      BY <1>2 DEF InFirst
    <2>2. e \in Nat /\ e <= Len(wdata)
      <3> DEFINE i == in + woff
                 n == Len(wdata)
      <3>1. i \in Int /\ n \in Nat
        BY <1>0
      <3> HIDE DEF i, n
      <3>2. ToEnd(i, n) \in 0 .. n
        BY <3>1, ToEndFacts
      <3>3. ToEnd(i, n) \in Nat /\ ToEnd(i, n) <= n
        BY <3>1, <3>2
      <3> QED
        BY <3>3 DEF i, n
    <2>3. e < 1 + size
      BY <1>0, <2>2
    <2> HIDE DEF e
    <2>4. /\ b \in [0 .. size - 1 -> Bytes]
          /\ \A k \in 1 .. e : b[Slot((in + woff) + k - 1)] = wdata[k]
      <3> DEFINE i == in + woff
      <3>1. /\ i \in Int /\ 1 \in Nat /\ 1 <= 1 /\ e \in Nat /\ e <= Len(wdata) /\ e < 1 + size
            /\ wdata \in Seq(Bytes) /\ TypeOK
        BY <1>0, <2>2, <2>3
      <3> HIDE DEF i
      <3>2. /\ Store(i, wdata, 1, e) \in [0 .. size - 1 -> Bytes]
            /\ \A k \in 1 .. e : Store(i, wdata, 1, e)[Slot(i + k - 1)] = wdata[k]
        BY <3>1, StoreFacts, Zenon
      <3> QED
        BY <3>2 DEF i
    <2>5. ReadInv'
      BY <1>0, <2>1, <2>2, CopyKeepsReadInv
    <2> HIDE DEF b
    <2>6. TypeOK'
      BY <2>1, <2>4 DEF TypeOK, owner, reader
    <2>7. SerInv' /\ DataInv' /\ SpaceInv'
      BY <2>1 DEF SerInv, DataInv, SpaceInv, fifo_len, owner, reader
    <2>8. WriteInv'
      <3>1. ToEnd(in + woff, Len(wdata))' = e
        BY <2>1 DEF ToEnd, Slot, e
      <3> QED
        BY <2>1, <2>4, <3>1 DEF WriteInv, Slot
    <2> QED
      BY <2>5, <2>6, <2>7, <2>8
  <1>3. CASE InRest
    <2> DEFINE e == ToEnd(in + woff, Len(wdata))
               b == Store(in + woff, wdata, e + 1, Len(wdata))
    <2>1. /\ wpc = "rest" /\ wpc' \in {"publish", "poke"} /\ buffer' = b
          /\ UNCHANGED <<size, in, out, owner, wdata, woff, reader>>
      BY <1>3 DEF InRest
    <2>2. e \in Nat /\ e <= Len(wdata)
      <3> DEFINE i == in + woff
                 n == Len(wdata)
      <3>1. i \in Int /\ n \in Nat
        BY <1>0
      <3> HIDE DEF i, n
      <3>2. ToEnd(i, n) \in 0 .. n
        BY <3>1, ToEndFacts
      <3>3. ToEnd(i, n) \in Nat /\ ToEnd(i, n) <= n
        BY <3>1, <3>2
      <3> QED
        BY <3>3 DEF i, n
    <2>3. e + 1 \in Nat /\ 1 <= e + 1 /\ Len(wdata) < (e + 1) + size
      <3> HIDE DEF e
      <3> QED
        BY <1>0, <2>2
    <2>4. \A k \in 1 .. e : buffer[Slot(in + woff + k - 1)] = wdata[k]
      BY <2>1 DEF WriteInv
    <2> HIDE DEF e
    <2>5. /\ b \in [0 .. size - 1 -> Bytes]
          /\ \A k \in e + 1 .. Len(wdata) : b[Slot((in + woff) + k - 1)] = wdata[k]
          /\ \A x \in 0 .. size - 1 :
               (\A k \in e + 1 .. Len(wdata) : Slot((in + woff) + k - 1) # x) => b[x] = buffer[x]
      <3> DEFINE i == in + woff
                 lo == e + 1
                 n == Len(wdata)
      <3>1. /\ i \in Int /\ lo \in Nat /\ 1 <= lo /\ n \in Nat /\ n <= Len(wdata)
            /\ n < lo + size /\ wdata \in Seq(Bytes) /\ TypeOK
        BY <1>0, <2>3
      <3> HIDE DEF i, lo, n
      <3>2. /\ Store(i, wdata, lo, n) \in [0 .. size - 1 -> Bytes]
            /\ \A k \in lo .. n : Store(i, wdata, lo, n)[Slot(i + k - 1)] = wdata[k]
            /\ \A x \in 0 .. size - 1 :
                 (\A k \in lo .. n : Slot(i + k - 1) # x) =>
                   Store(i, wdata, lo, n)[x] = buffer[x]
        BY <3>1, StoreFacts, Zenon
      <3> QED
        BY <3>2 DEF i, lo, n
    <2>6. ReadInv'
      BY <1>0, <2>1, <2>3, CopyKeepsReadInv
    <2> HIDE DEF b
    <2>7. ASSUME NEW k \in 1 .. Len(wdata) PROVE b[Slot(in + woff + k - 1)] = wdata[k]
      <3>1. CASE k > e
        BY <1>0, <2>2, <2>5, <3>1
      <3>2. CASE k <= e
        <4> DEFINE x == Slot(in + woff + k - 1)
        <4>1. size # 0
          BY <1>0
        <4>2. size \in Pow2
          BY <4>1 DEF TypeOK
        <4>3. x \in 0 .. size - 1
          <5>1. in + woff + k - 1 \in Int
            BY <1>0
          <5> QED
            BY <4>2, <5>1, SlotFacts DEF Slot
        <4>4. ASSUME NEW m \in e + 1 .. Len(wdata) PROVE Slot((in + woff) + m - 1) # x
          <5>1. /\ in + woff + k - 1 \in Int /\ in + woff + m - 1 \in Int
                /\ in + woff + k - 1 < in + woff + m - 1
                /\ in + woff + m - 1 < (in + woff + k - 1) + size
            BY <1>0, <2>2, <3>2
          <5> QED
            BY <4>2, <5>1, SlotFacts DEF Slot
        <4>5. b[x] = buffer[x]
          BY <2>5, <4>3, <4>4
        <4>6. k \in 1 .. e
          BY <2>2, <3>2
        <4> QED
          BY <2>4, <4>5, <4>6
      <3> QED
        BY <1>0, <2>2, <3>1, <3>2
    <2>8. TypeOK'
      BY <2>1, <2>5 DEF TypeOK, owner, reader
    <2>9. SerInv' /\ DataInv' /\ SpaceInv'
      BY <2>1 DEF SerInv, DataInv, SpaceInv, fifo_len, owner, reader
    <2>10. WriteInv'
      BY <2>1, <2>7 DEF WriteInv, Slot
    <2> QED
      BY <2>6, <2>8, <2>9, <2>10
  <1>4. CASE InPublish
    <2> DEFINE n == Len(wdata) + woff
    <2>1. n \in Nat /\ fifo_len + n <= size
      BY <1>0
    <2>2. /\ wpc' = "idle" /\ wdata' = <<>> /\ woff' = 0
          /\ UNCHANGED <<size, buffer, out, owner, reader>>
      BY <1>4 DEF InPublish
    <2>3. fifo_len' = fifo_len + n
      BY <1>4, PublishFacts
    <2>4. in' \in 0 .. Word - 1
      BY <1>4, PublishFacts
    <2> HIDE DEF n
    <2>5. TypeOK'
      BY <2>2, <2>4 DEF TypeOK, owner, reader
    <2>6. SpaceInv'
      <3>1. Len(wdata') = 0
        BY <2>2
      <3> QED
        BY <1>0, <2>1, <2>2, <2>3, <3>1 DEF SpaceInv
    <2>7. DataInv'
      <3>1. rlen \in Nat /\ roff \in Nat /\ UNCHANGED <<rpc, rlen, roff>>
        BY <2>2 DEF TypeOK, reader
      <3> QED
        BY <1>0, <2>1, <2>3, <3>1, SMTT(30) DEF DataInv
    <2>8. SerInv' /\ ReadInv' /\ WriteInv'
      BY <2>2 DEF SerInv, ReadInv, WriteInv, Slot, owner, reader
    <2> QED
      BY <2>5, <2>6, <2>7, <2>8
  <1> QED
    BY <1>1, <1>2, <1>3, <1>4 DEF Write

\* A reader that moves the out index, by no more than what is in the fifo, and
\* ends its call.
LEMMA AdvanceOut ==
  ASSUME RingInv, NEW n \in Nat, n <= fifo_len,
         out' = (out + n) % Word \/ (out' = in /\ n = fifo_len),
         UNCHANGED <<size, buffer, in, owner, writer>>,
         rpc' \in {"idle", "reset"}, rlen' \in Nat, roff' \in Nat,
         rdata' \in Seq(Bytes), to' \in Seq(Bytes)
  PROVE  RingInv' /\ fifo_len' = fifo_len - n
  <1> USE DEF RingInv, owner, writer
  <1>0. /\ Word \in Nat \ {0} /\ size \in Nat
        /\ Len(wdata) \in Nat /\ fifo_len \in Nat /\ fifo_len = Dist(in, out)
        /\ fifo_len + woff + Len(wdata) <= size
        /\ woff \in Nat /\ in \in 0 .. Word - 1 /\ out \in 0 .. Word - 1
    BY RingFacts DEF TypeOK
  <1>1. fifo_len' = Dist(in, out')
    BY DEF fifo_len, Dist
  <1>2. Dist(in, out') = fifo_len - n /\ out' \in 0 .. Word - 1
    <2>1. CASE out' = (out + n) % Word
      <3>1. out + n \in Int
        BY <1>0
      <3>2. (out + n) % Word \in 0 .. Word - 1
        BY <1>0, <3>1, ModFacts
      <3>3. Dist(in, (out + n) % Word) = Dist(in, out) - n
        <4>1. \A m \in Nat : m <= Dist(in, out) =>
                Dist(in, (out + m) % Word) = Dist(in, out) - m
          <5>1. in \in 0 .. Word - 1 /\ out \in 0 .. Word - 1
            BY <1>0
          <5> QED
            BY <5>1, DistFacts, ZenonT(40)
        <4>2. n <= Dist(in, out)
          BY <1>0
        <4> QED
          BY <4>1, <4>2, Zenon
      <3> QED
        BY <1>0, <2>1, <3>2, <3>3
    <2>2. CASE out' = in /\ n = fifo_len
      <3>1. Dist(in, in) = 0
        BY <1>0, DistFacts
      <3> QED
        BY <1>0, <2>2, <3>1
    <2> QED
      BY <2>1, <2>2
  <1>3. TypeOK'
    BY <1>2 DEF TypeOK
  <1>4. SpaceInv'
    <2>1. fifo_len' = fifo_len - n /\ woff' = woff /\ Len(wdata)' = Len(wdata) /\ size' = size
      BY <1>1, <1>2
    <2>2. \A a, b, c, s \in Nat : a + b + c <= s => (a - n) + b + c <= s
      OBVIOUS
    <2>3. (fifo_len - n) + woff + Len(wdata) <= size
      BY <1>0, <2>2
    <2> QED
      BY <2>1, <2>3, Zenon DEF SpaceInv
  <1>5. SerInv' /\ WriteInv'
    BY DEF SerInv, WriteInv, Slot, ToEnd
  <1>6. DataInv' /\ ReadInv'
    BY DEF DataInv, ReadInv
  <1> QED
    BY <1>1, <1>2, <1>3, <1>4, <1>5, <1>6

\* A reader that only begins or goes on with a call.
LEMMA ReaderRing ==
  ASSUME RingInv, UNCHANGED <<fifo, owner, writer>>,
         rpc' \in {"idle", "len", "slen", "test", "stest", "first", "rest", "publish",
                  "pfirst", "prest", "reset"},
         rlen' \in Nat, roff' \in Nat, rdata' \in Seq(Bytes), to' \in Seq(Bytes),
         DataInv', ReadInv'
  PROVE  RingInv'
  <1> USE DEF RingInv, fifo, owner, writer
  <1>1. TypeOK'
    BY DEF TypeOK
  <1>2. SpaceInv' /\ SerInv' /\ WriteInv'
    BY DEF SpaceInv, SerInv, WriteInv, Slot, ToEnd, fifo_len
  <1> QED
    BY <1>1, <1>2

\* The second copy of the reader completes the bytes of its transfer.
LEMMA LastCopy ==
  ASSUME RingInv, rpc \in {"rest", "prest"}
  PROVE  LET d == rdata \o Fetch(out + roff, Len(rdata) + 1, rlen)
         IN  /\ d \in Seq(Bytes) /\ Len(d) = rlen
             /\ rpc = "rest" \/ roff = 0 =>
                  \A k \in 1 .. rlen : d[k] = buffer[Slot(out + roff + k - 1)]
  <1> USE DEF RingInv
  <1>0. /\ size \in Nat /\ fifo_len \in Nat /\ fifo_len <= size
        /\ out \in Int /\ rlen \in Nat /\ roff \in Nat
        /\ rdata \in Seq(Bytes) /\ Len(rdata) \in Nat
    <2>1. rdata \in Seq(Bytes) /\ rlen \in Nat /\ roff \in Nat
      BY DEF TypeOK
    <2>2. size \in Nat /\ fifo_len \in Nat /\ fifo_len <= size /\ out \in Int
      BY RingFacts DEF TypeOK
    <2> QED
      BY <2>1, <2>2
  <1> DEFINE i == out + roff
             lo == Len(rdata) + 1
             f == Fetch(i, lo, rlen)
             d == rdata \o f
  <1>1. i \in Int /\ lo \in Nat /\ 1 <= lo /\ lo <= rlen + 1 /\ (size = 0 => rlen < lo)
    BY <1>0 DEF ReadInv, DataInv
  <1>2. rlen - lo + 1 = rlen - Len(rdata) /\ \A k \in Int : lo + k - 1 = Len(rdata) + k
    BY <1>0
  <1>3. /\ f \in Seq(Bytes) /\ Len(f) = rlen - Len(rdata)
        /\ \A k \in 1 .. rlen - Len(rdata) : f[k] = buffer[Slot(i + (Len(rdata) + k) - 1)]
    <2> HIDE DEF i, lo
    <2>1. /\ f \in Seq(Bytes) /\ Len(f) = rlen - lo + 1
          /\ \A k \in 1 .. rlen - lo + 1 : f[k] = buffer[Slot(i + (lo + k - 1) - 1)]
      BY <1>0, <1>1, FetchFacts, Zenon
    <2> HIDE DEF f
    <2> QED
      BY <1>2, <2>1
  <1> HIDE DEF f
  <1>4. /\ d \in Seq(Bytes) /\ Len(d) = Len(rdata) + Len(f)
        /\ \A k \in 1 .. Len(rdata) + Len(f) :
             d[k] = IF k <= Len(rdata) THEN rdata[k] ELSE f[k - Len(rdata)]
    BY <1>0, <1>3, ConcatProperties
  <1> HIDE DEF d
  <1>5. Len(rdata) <= rlen
    BY DEF ReadInv
  <1>6. Len(d) = rlen
    BY <1>0, <1>3, <1>4, <1>5
  <1>7. ASSUME rpc = "rest" \/ roff = 0, NEW k \in 1 .. rlen
        PROVE  d[k] = buffer[Slot(i + k - 1)]
    <2>1. k \in 1 .. Len(rdata) + Len(f)
      BY <1>0, <1>3, <1>5
    <2>2. CASE k <= Len(rdata)
      <3>1. d[k] = rdata[k]
        BY <1>4, <2>1, <2>2
      <3>2. k \in 1 .. Len(rdata)
        BY <1>0, <2>2
      <3>3. rdata[k] = buffer[Slot(out + roff + k - 1)]
        BY <1>7, <3>2 DEF ReadInv
      <3> QED
        BY <3>1, <3>3
    <2>3. CASE k > Len(rdata)
      <3> DEFINE m == k - Len(rdata)
      <3>1. m \in 1 .. rlen - Len(rdata) /\ Len(rdata) + m = k
        BY <1>0, <1>5, <2>3
      <3>2. d[k] = f[m]
        BY <1>0, <1>4, <2>1, <2>3
      <3> HIDE DEF m, i
      <3> QED
        BY <1>3, <3>1, <3>2
    <2> QED
      BY <1>0, <2>2, <2>3
  <1> QED
    BY <1>4, <1>6, <1>7 DEF d, f

\* The steps of the reader keep the ring: it takes only bytes that were in the
\* fifo when it looked, to which the writer can only add.
LEMMA ReadSteps == RingInv /\ Read => RingInv'
  <1> SUFFICES ASSUME RingInv, Read PROVE RingInv'
    OBVIOUS
  <1> USE DEF RingInv
  <1>0. /\ Word \in Nat \ {0} /\ size \in Nat /\ fifo_len \in Nat /\ fifo_len <= size
        /\ out \in Int /\ rlen \in Nat /\ roff \in Nat /\ out + roff \in Int
        /\ rdata \in Seq(Bytes) /\ to \in Seq(Bytes) /\ Len(rdata) \in Nat
        /\ <<>> \in Seq(Bytes) /\ MaxLen \in Nat
    <2>1. rdata \in Seq(Bytes) /\ to \in Seq(Bytes) /\ rlen \in Nat /\ roff \in Nat
      BY DEF TypeOK
    <2>2. /\ Word \in Nat \ {0} /\ size \in Nat /\ fifo_len \in Nat /\ fifo_len <= size
          /\ out \in Int
      BY RingFacts DEF TypeOK
    <2>3. MaxLen \in Nat
      BY <2>2, LenAssumption
    <2> QED
      BY <2>1, <2>2, <2>3, EmptySeq
  <1>1. ASSUME NEW n \in 0 .. MaxLen, FifoOut(n) PROVE RingInv'
    <2>1. n \in Nat
      BY <1>0
    <2>2. /\ rpc' = "first" /\ rlen' = Least(fifo_len, n) /\ roff' = 0 /\ rdata' = <<>>
          /\ UNCHANGED <<fifo, owner, writer, to>>
      BY <1>1 DEF FifoOut
    <2>3. rlen' \in Nat /\ rlen' <= fifo_len
      BY <1>0, <2>1, <2>2 DEF Least
    <2>4. DataInv' /\ ReadInv'
      <3>1. fifo_len' = fifo_len
        BY <2>2 DEF fifo, fifo_len
      <3> QED
        BY <1>0, <2>2, <2>3, <3>1 DEF DataInv, ReadInv
    <2> QED
      BY <1>0, <2>2, <2>3, <2>4, ReaderRing
  <1>2. ASSUME NEW n \in 0 .. MaxLen, NEW off \in Offsets, FifoOutPeek(n, off)
        PROVE  RingInv'
    <2>1. n \in Nat /\ off \in Nat /\ n + off \in Int
      BY <1>0, LenAssumption
    <2>2. (n + off) % Word \in Nat
      BY <1>0, <2>1, ModFacts
    <2>3. /\ rpc' = "pfirst" /\ rlen' = Least(fifo_len, (n + off) % Word) /\ roff' = off
          /\ rdata' = <<>> /\ UNCHANGED <<fifo, owner, writer, to>>
      BY <1>2 DEF FifoOutPeek
    <2>4. rlen' \in Nat /\ rlen' <= fifo_len
      BY <1>0, <2>2, <2>3 DEF Least
    <2>5. DataInv' /\ ReadInv'
      <3>1. fifo_len' = fifo_len
        BY <2>3 DEF fifo, fifo_len
      <3> QED
        BY <1>0, <2>3, <2>4, <3>1 DEF DataInv, ReadInv
    <2> QED
      BY <1>0, <2>1, <2>3, <2>4, <2>5, ReaderRing
  <1>3. CASE OutFirst
    <2> DEFINE i == out + roff
               e == ToEnd(i, rlen)
               f == Fetch(i, 1, e)
    <2>1. /\ rpc \in {"first", "pfirst"} /\ rpc' = (IF rpc = "first" THEN "rest" ELSE "prest")
          /\ rdata' = f /\ UNCHANGED <<fifo, owner, writer, rlen, roff, to>>
      BY <1>3 DEF OutFirst
    <2>2. i \in Int
      BY <1>0
    <2>3. e \in Nat /\ e <= rlen /\ (size = 0 => e < 1)
      <3> HIDE DEF i
      <3>1. e \in 0 .. rlen /\ (size = 0 => e = 0)
        BY <1>0, <2>2, ToEndFacts
      <3> HIDE DEF e
      <3> QED
        BY <1>0, <3>1
    <2>4. /\ f \in Seq(Bytes) /\ Len(f) = e
          /\ \A k \in 1 .. e : f[k] = buffer[Slot(i + k - 1)]
      <3> HIDE DEF i, e
      <3>1. 1 \in Nat /\ 1 <= 1 /\ 1 <= e + 1 /\ e - 1 + 1 = e /\ \A k \in 1 .. e : 1 + k - 1 = k
        BY <2>3
      <3>2. /\ f \in Seq(Bytes) /\ Len(f) = e - 1 + 1
            /\ \A k \in 1 .. e - 1 + 1 : f[k] = buffer[Slot(i + (1 + k - 1) - 1)]
        BY <2>2, <2>3, <3>1, FetchFacts, Zenon
      <3> HIDE DEF f
      <3> QED
        BY <3>1, <3>2
    <2> HIDE DEF e, f
    <2>5. DataInv'
      BY <2>1 DEF DataInv, fifo, fifo_len
    <2>6. ReadInv'
      <3>1. rpc' \in {"rest", "prest"} /\ Len(rdata') <= rlen'
        BY <2>1, <2>3, <2>4
      <3>2. \A k \in 1 .. Len(rdata') : rdata'[k] = buffer'[SlotOf(size', out' + roff' + k - 1)]
        BY <2>1, <2>4 DEF fifo, Slot
      <3> QED
        BY <3>1, <3>2 DEF ReadInv, Slot
    <2> QED
      BY <1>0, <2>1, <2>4, <2>5, <2>6, ReaderRing
  <1>4. ASSUME rpc \in {"rest", "prest"}
        PROVE  LET d == rdata \o Fetch(out + roff, Len(rdata) + 1, rlen)
               IN  /\ d \in Seq(Bytes) /\ Len(d) = rlen
                   /\ rpc = "rest" \/ roff = 0 =>
                        \A k \in 1 .. rlen : d[k] = buffer[Slot(out + roff + k - 1)]
    BY <1>4, LastCopy
  <1>5. CASE OutRest
    <2> DEFINE d == rdata \o Fetch(out + roff, Len(rdata) + 1, rlen)
    <2>1. /\ rpc = "rest" /\ rpc' = "publish" /\ rdata' = d
          /\ UNCHANGED <<fifo, owner, writer, rlen, roff, to>>
      BY <1>5 DEF OutRest
    <2>2. /\ d \in Seq(Bytes) /\ Len(d) = rlen
          /\ \A k \in 1 .. rlen : d[k] = buffer[Slot(out + roff + k - 1)]
      BY <1>4, <2>1
    <2> HIDE DEF d
    <2>3. DataInv'
      BY <2>1 DEF DataInv, fifo, fifo_len
    <2>4. ReadInv'
      BY <2>1, <2>2 DEF ReadInv, fifo, Slot
    <2> QED
      BY <1>0, <2>1, <2>2, <2>3, <2>4, ReaderRing
  <1>6. CASE PeekRest
    <2>1. /\ rpc = "prest" /\ rpc' = "idle" /\ rlen' = 0 /\ roff' = 0 /\ rdata' = <<>>
          /\ to' = rdata \o Fetch(out + roff, Len(rdata) + 1, rlen)
          /\ UNCHANGED <<fifo, owner, writer>>
      BY <1>6 DEF PeekRest
    <2>2. to' \in Seq(Bytes)
      BY <1>4, <2>1
    <2>3. DataInv' /\ ReadInv'
      BY <2>1 DEF DataInv, ReadInv
    <2> QED
      BY <1>0, <2>1, <2>2, <2>3, ReaderRing
  <1>7. CASE OutPublish
    <2> DEFINE n == rlen + roff
    <2>1. /\ rpc = "publish" /\ rpc' = "idle" /\ rlen' = 0 /\ roff' = 0 /\ rdata' = <<>>
          /\ to' = rdata /\ out' = (out + rlen + roff) % Word
          /\ UNCHANGED <<size, buffer, in, owner, writer>>
      BY <1>7 DEF OutPublish
    <2>2. n \in Nat /\ n <= fifo_len /\ out + rlen + roff = out + n
      BY <1>0, <2>1 DEF DataInv
    <2> HIDE DEF n
    <2> QED
      BY <1>0, <2>1, <2>2, AdvanceOut
  <1>8. ASSUME NEW n \in 0 .. MaxLen, FifoSkip(n) PROVE RingInv'
    <2>1. n \in Nat /\ rpc = "idle"
          /\ UNCHANGED <<size, buffer, in, owner, writer, rlen, roff, rdata, to>>
      BY <1>0, <1>8 DEF FifoSkip
    <2>2. CASE n < fifo_len /\ out' = (out + n) % Word /\ rpc' = rpc
      BY <1>0, <2>1, <2>2, AdvanceOut
    <2>3. CASE rpc' = "reset" /\ out' = out
      <3>1. DataInv' /\ ReadInv'
        BY <2>3 DEF DataInv, ReadInv
      <3> QED
        BY <1>0, <2>1, <2>3, <3>1, ReaderRing DEF fifo
    <2> QED
      BY <1>8, <2>2, <2>3 DEF FifoSkip
  <1>9. CASE SkipAll \/ FifoResetOut
    <2>1. /\ out' = in /\ rpc' = "idle"
          /\ UNCHANGED <<size, buffer, in, owner, writer, rlen, roff, rdata, to>>
      BY <1>9 DEF SkipAll, FifoResetOut, reader
    <2> QED
      BY <1>0, <2>1, AdvanceOut
  <1> QED
    BY <1>1, <1>2, <1>3, <1>5, <1>6, <1>7, <1>8, <1>9 DEF Read

\* A fifo before fifo_init or fifo_alloc satisfies the invariant.
LEMMA InitRing == Init => IInv
  <1> SUFFICES ASSUME Init PROVE IInv
    OBVIOUS
  <1>0. Word \in Nat \ {0} /\ 0 \in 0 .. Word - 1
    BY WordFacts
  <1>1. <<>> \in Seq(Bytes) /\ Len(<<>>) = 0
    BY EmptySeq
  <1>2. <<>> \in [0 .. 0 - 1 -> Bytes]
    BY <1>1
  <1>3. TypeOK
    BY <1>0, <1>1, <1>2 DEF Init, TypeOK, EmptyBuffer
  <1>4. (0 - 0) % Word = 0
    BY <1>0, ModFacts
  <1>5. SerInv
    BY <1>0, <1>2, <1>4 DEF Init, SerInv, EmptyBuffer
  <1>6. SpaceInv
    BY <1>0, <1>1, <1>4 DEF Init, SpaceInv, fifo_len
  <1>7. DataInv /\ WriteInv /\ ReadInv /\ PlainInv
    BY DEF Init, DataInv, WriteInv, ReadInv, PlainInv
  <1> QED
    BY <1>3, <1>5, <1>6, <1>7 DEF IInv, RingInv

\* Bytes are put in and taken out without an offset.
LEMMA NextPlainInv == PlainInv /\ [Next]_vars => PlainInv'
  <1> SUFFICES ASSUME PlainInv, [Next]_vars PROVE PlainInv'
    OBVIOUS
  <1> USE DEF PlainInv, writer, reader
  <1>1. CASE Own
    <2>1. UNCHANGED <<writer, reader>>
      BY <1>1 DEF Own, FifoAlloc, FifoInit, FifoFree, FifoReset, FifoSerialize,
                  FifoUnserialize
    <2> QED
      BY <2>1
  <1>2. CASE Write
    BY <1>2 DEF Write, FifoIn, InFirst, InRest, InPublish
  <1>3. CASE Read
    <2>1. UNCHANGED writer
      BY <1>3 DEF Read, FifoOut, FifoSkip, FifoOutPeek, OutFirst, OutRest, PeekRest,
                  OutPublish, SkipAll, FifoResetOut
    <2>2. ASSUME NEW n, FifoOut(n) \/ FifoSkip(n) PROVE PlainInv'
      BY <2>1, <2>2 DEF FifoOut, FifoSkip
    <2>3. ASSUME NEW n, NEW off \in Offsets, FifoOutPeek(n, off) PROVE PlainInv'
      BY <2>1, <2>3 DEF FifoOutPeek
    <2>4. CASE OutFirst \/ OutRest \/ PeekRest
      BY <2>1, <2>4 DEF OutFirst, OutRest, PeekRest
    <2>5. CASE OutPublish \/ SkipAll \/ FifoResetOut
      BY <2>1, <2>5 DEF OutPublish, SkipAll, FifoResetOut
    <2> QED
      BY <1>3, <2>2, <2>3, <2>4, <2>5 DEF Read
  <1>4. CASE UNCHANGED vars
    BY <1>4 DEF vars
  <1> QED
    BY <1>1, <1>2, <1>3, <1>4 DEF Next

\* Neither index overtakes the other, whatever the writer and the reader sampled,
\* and what each has copied is what the other put or will find there.
THEOREM RingInvariant == Spec => []IInv
  <1>1. IInv /\ [Next]_vars => IInv'
    <2> SUFFICES ASSUME IInv, [Next]_vars PROVE IInv'
      OBVIOUS
    <2>1. CASE Next
      <3>1. RingInv'
        BY <2>1, OwnSteps, WriteSteps, ReadSteps DEF Next, IInv
      <3> QED
        BY <3>1, NextPlainInv DEF IInv
    <2>2. CASE UNCHANGED vars
      <3>1. UNCHANGED <<fifo, owner, writer, reader>>
        BY <2>2 DEF vars
      <3>2. DataInv' /\ ReadInv'
        BY <3>1 DEF IInv, RingInv, DataInv, ReadInv, Slot, fifo_len, fifo, reader
      <3>3. TypeOK'
        BY <3>1 DEF IInv, RingInv, TypeOK, fifo, owner, writer, reader
      <3>4. SpaceInv' /\ SerInv' /\ WriteInv'
        BY <3>1 DEF IInv, RingInv, SpaceInv, SerInv, WriteInv, Slot, ToEnd, fifo_len, fifo,
                    owner, writer
      <3> QED
        BY <3>2, <3>3, <3>4, NextPlainInv DEF IInv, RingInv
    <2> QED
      BY <2>1, <2>2
  <1> QED
    BY <1>1, InitRing, PTL DEF Spec

-----------------------------------------------------------------------------
(* The two threads apart                                                   *)

\* What the writer fills lies less than the size behind what the reader copies.
LEMMA CopiesApart ==
  ASSUME IInv, Offsets \subseteq {0} PROVE RaceFree
  <1> SUFFICES ASSUME NEW x, x \in Writing, x \in Reading PROVE FALSE
    BY DEF RaceFree
  <1> USE DEF IInv, RingInv
  <1>0. /\ size \in Nat /\ Len(wdata) \in Nat /\ fifo_len \in Nat
        /\ fifo_len + woff + Len(wdata) <= size
        /\ woff \in Nat /\ in \in Int /\ out \in Int /\ rlen \in Nat
    BY RingFacts DEF TypeOK
  <1>1. x \in Slots(in + woff, Len(wdata))
    BY DEF Writing
  <1>2. x \in Slots(out + roff, rlen) /\ rpc \in {"first", "rest", "pfirst", "prest"}
    BY DEF Reading
  <1>3. woff = 0 /\ roff = 0
    BY <1>2 DEF PlainInv
  <1>4. rlen <= fifo_len
    BY <1>0, <1>2, <1>3 DEF DataInv
  <1>5. PICK j \in 0 .. Len(wdata) - 1 : x = Slot((in + woff) + j)
    BY <1>1 DEF Slots
  <1>6. PICK k \in 0 .. rlen - 1 : x = Slot((out + roff) + k)
    BY <1>2 DEF Slots
  <1>7. size \in Pow2
    BY <1>0 DEF TypeOK
  <1>8. (in + woff) + j = in + j /\ (out + roff) + k = out + k /\ j \in Int
    BY <1>0, <1>3
  <1>9. x = Slot(out + (fifo_len + j))
    BY <1>5, <1>7, <1>8, InSlot
  <1>10. /\ out + k \in Int /\ out + (fifo_len + j) \in Int
         /\ out + k < out + (fifo_len + j) /\ out + (fifo_len + j) < (out + k) + size
    BY <1>0, <1>3, <1>4
  <1>11. Slot(out + k) # Slot(out + (fifo_len + j))
    BY <1>7, <1>10, SlotFacts DEF Slot
  <1> QED
    BY <1>6, <1>8, <1>9, <1>11

\* No byte of the buffer is copied by the writer and by the reader at the same
\* time, so one of each need no lock, for any width of the indices and any size;
\* fifo_out_peek is called with offset 0, as it reads beyond the in index
\* otherwise.
THEOREM ThreadsApart == ASSUME Offsets \subseteq {0} PROVE Spec => []RaceFree
  <1>1. IInv => RaceFree
    BY CopiesApart
  <1> QED
    BY <1>1, RingInvariant, PTL

-----------------------------------------------------------------------------
(* The bounded queue                                                       *)

\* The contents of a fifo are a sequence of bytes.
LEMMA ContentsFacts ==
  ASSUME NEW s \in Pow2 \cup {0}, NEW b \in [0 .. s - 1 -> Bytes],
         NEW i \in 0 .. Word - 1, NEW o \in 0 .. Word - 1, Dist(i, o) <= s
  PROVE  /\ Contents(b, s, i, o) \in Seq(Bytes)
         /\ Len(Contents(b, s, i, o)) = Dist(i, o)
         /\ \A k \in 1 .. Dist(i, o) : Contents(b, s, i, o)[k] = b[SlotOf(s, o + k - 1)]
  <1> DEFINE n == Dist(i, o)
             c == Contents(b, s, i, o)
  <1>1. n \in Nat /\ s \in Nat /\ Word \in Nat \ {0}
    <2>1. s \in Nat /\ Word \in Nat \ {0}
      BY WordFacts
    <2>2. Dist(i, o) \in 0 .. Word - 1
      BY DistFacts
    <2> QED
      BY <2>1, <2>2
  <1>2. c = [k \in 1 .. n |-> b[SlotOf(s, o + k - 1)]]
    BY DEF Contents, Dist
  <1> HIDE DEF n, c
  <1>3. ASSUME NEW k \in 1 .. n PROVE b[SlotOf(s, o + k - 1)] \in Bytes
    <2>1. s # 0
      BY <1>1 DEF n
    <2>2. s \in Pow2 /\ o + k - 1 \in Int
      BY <1>1, <2>1
    <2> QED
      BY <2>2, SlotFacts
  <1>4. c \in [1 .. n -> Bytes]
    BY <1>2, <1>3
  <1>5. c \in Seq(Bytes) /\ Len(c) = n
    BY <1>1, <1>4, FcnSeq
  <1> QED
    BY <1>2, <1>5 DEF n, c

\* An empty fifo is the empty queue.
LEMMA ContentsEmpty ==
  ASSUME NEW s \in Pow2 \cup {0}, NEW b \in [0 .. s - 1 -> Bytes],
         NEW i \in 0 .. Word - 1
  PROVE  Contents(b, s, i, i) = <<>>
  <1>1. Dist(i, i) = 0 /\ s \in Nat
    <2>1. Dist(i, i) = 0
      BY DistFacts, Zenon
    <2>2. s \in Nat
      BY WordFacts
    <2> QED
      BY <2>1, <2>2
  <1>2. Dist(i, i) <= s
    BY <1>1
  <1>3. Contents(b, s, i, i) \in Seq(Bytes) /\ Len(Contents(b, s, i, i)) = 0
    BY <1>1, <1>2, ContentsFacts
  <1> QED
    BY <1>3, EmptySeq

Q == Contents(buffer, size, in, out)

\* The queue as the invariant lets it be seen.
LEMMA QueueFacts ==
  ASSUME RingInv
  PROVE  /\ Q \in Seq(Bytes) /\ Len(Q) = fifo_len /\ fifo_len \in Nat /\ fifo_len <= size
         /\ \A k \in 1 .. fifo_len : Q[k] = buffer[Slot(out + k - 1)]
  <1>1. /\ size \in Pow2 \cup {0} /\ buffer \in [0 .. size - 1 -> Bytes]
        /\ in \in 0 .. Word - 1 /\ out \in 0 .. Word - 1
    BY DEF RingInv, TypeOK
  <1>2. fifo_len = Dist(in, out) /\ fifo_len \in Nat /\ fifo_len <= size
    BY RingFacts DEF RingInv, TypeOK
  <1>3. /\ Contents(buffer, size, in, out) \in Seq(Bytes)
        /\ Len(Contents(buffer, size, in, out)) = Dist(in, out)
        /\ \A k \in 1 .. Dist(in, out) :
             Contents(buffer, size, in, out)[k] = buffer[SlotOf(size, out + k - 1)]
    <2>1. Dist(in, out) <= size
      BY <1>2
    <2> QED
      BY <1>1, <2>1, ContentsFacts, Zenon
  <1> QED
    BY <1>2, <1>3 DEF Q, Slot

\* And so after a step that keeps the invariant.
LEMMA QueueFactsNext ==
  ASSUME RingInv'
  PROVE  /\ Q' \in Seq(Bytes) /\ Len(Q') = fifo_len'
         /\ \A k \in 1 .. fifo_len' : Q'[k] = buffer'[SlotOf(size', out' + k - 1)]
  <1>1. /\ size' \in Pow2 \cup {0} /\ buffer' \in [0 .. size' - 1 -> Bytes]
        /\ in' \in 0 .. Word - 1 /\ out' \in 0 .. Word - 1
        /\ wdata' \in Seq(Bytes) /\ woff' \in Nat
    BY DEF RingInv, TypeOK
  <1>2. fifo_len' = Dist(in', out')
    BY DEF fifo_len, Dist
  <1>3. Dist(in', out') <= size'
    <2>1. Word \in Nat \ {0} /\ size' \in Nat
      BY <1>1, WordFacts
    <2>2. Dist(in', out') \in Nat
      BY <1>1, <2>1, DistFacts
    <2>3. Len(wdata') \in Nat
      BY <1>1
    <2>4. Dist(in', out') + woff' + Len(wdata') <= size'
      BY <1>2 DEF RingInv, SpaceInv
    <2> QED
      BY <1>1, <2>1, <2>2, <2>3, <2>4
  <1> QED
    BY <1>1, <1>2, <1>3, ContentsFacts DEF Q

\* A copy of the writer does not change the queue.
LEMMA CopyKeepsQueue ==
  ASSUME RingInv, RingInv', NEW lo \in Nat, NEW hi \in Nat, 1 <= lo, hi <= Len(wdata),
         buffer' = Store(in + woff, wdata, lo, hi), UNCHANGED <<size, in, out>>
  PROVE  Q' = Q
  <1>1. /\ Q \in Seq(Bytes) /\ Len(Q) = fifo_len /\ fifo_len \in Nat
        /\ \A k \in 1 .. fifo_len : Q[k] = buffer[Slot(out + k - 1)]
    BY QueueFacts
  <1>2. /\ Q' \in Seq(Bytes) /\ Len(Q') = fifo_len'
        /\ \A k \in 1 .. fifo_len' : Q'[k] = buffer'[SlotOf(size', out' + k - 1)]
    BY QueueFactsNext
  <1>3. fifo_len' = fifo_len
    BY DEF fifo_len
  <1>4. ASSUME NEW k \in 1 .. fifo_len PROVE Q'[k] = Q[k]
    <2>1. k - 1 \in Nat /\ k - 1 < fifo_len
      BY <1>1
    <2>2. Store(in + woff, wdata, lo, hi)[Slot(out + (k - 1))] = buffer[Slot(out + (k - 1))]
      BY <2>1, StoreKeepsContents DEF RingInv
    <2>3. out \in Int
      BY DEF RingInv, TypeOK
    <2>4. out + (k - 1) = out + k - 1
      BY <2>1, <2>3
    <2> QED
      BY <1>1, <1>2, <1>3, <2>2, <2>4 DEF Slot
  <1> QED
    BY <1>1, <1>2, <1>3, <1>4, SeqEqual

\* Publishing the in index appends the bytes that the writer has copied.
LEMMA PublishAppends ==
  ASSUME IInv, RingInv', InPublish
  PROVE  Q' = Q \o wdata
  <1>0. /\ Word \in Nat \ {0} /\ size \in Nat /\ size < Word
        /\ Len(wdata) \in Nat /\ fifo_len \in Nat
        /\ fifo_len + woff + Len(wdata) <= size
        /\ in \in Int /\ out \in Int /\ wdata \in Seq(Bytes) /\ woff = 0
    <2>1. TypeOK /\ SpaceInv /\ PlainInv
      BY DEF IInv, RingInv
    <2>2. /\ Word \in Nat \ {0} /\ size \in Nat /\ size < Word
          /\ Len(wdata) \in Nat /\ fifo_len \in Nat
          /\ fifo_len + woff + Len(wdata) <= size
      BY <2>1, RingFacts
    <2>3. in \in Int /\ out \in Int /\ wdata \in Seq(Bytes)
      BY <2>1, <2>2 DEF TypeOK
    <2>4. woff = 0
      BY <2>1 DEF PlainInv
    <2> QED
      BY <2>2, <2>3, <2>4
  <1>1. /\ Q \in Seq(Bytes) /\ Len(Q) = fifo_len
        /\ \A k \in 1 .. fifo_len : Q[k] = buffer[Slot(out + k - 1)]
    BY QueueFacts DEF IInv
  <1>2. /\ Q' \in Seq(Bytes) /\ Len(Q') = fifo_len'
        /\ \A k \in 1 .. fifo_len' : Q'[k] = buffer[Slot(out + k - 1)]
    <2>1. UNCHANGED <<size, buffer, out>>
      BY DEF InPublish
    <2> QED
      BY <2>1, QueueFactsNext DEF Slot
  <1>3. fifo_len' = fifo_len + Len(wdata)
    BY <1>0, PublishFacts DEF IInv
  <1>4. /\ Q \o wdata \in Seq(Bytes) /\ Len(Q \o wdata) = fifo_len + Len(wdata)
        /\ \A k \in 1 .. fifo_len + Len(wdata) :
             (Q \o wdata)[k] = IF k <= fifo_len THEN Q[k] ELSE wdata[k - fifo_len]
    BY <1>0, <1>1, ConcatProperties
  <1>5. ASSUME NEW k \in 1 .. fifo_len + Len(wdata) PROVE Q'[k] = (Q \o wdata)[k]
    <2>1. CASE k <= fifo_len
      <3>1. k \in 1 .. fifo_len
        BY <1>0, <2>1
      <3> QED
        BY <1>1, <1>2, <1>3, <1>4, <2>1, <3>1
    <2>2. CASE k > fifo_len
      <3> DEFINE m == k - fifo_len
      <3>1. m \in 1 .. Len(wdata) /\ m - 1 \in Int /\ fifo_len + m = k
        BY <1>0, <2>2
      <3>2. (Q \o wdata)[k] = wdata[m]
        BY <1>0, <1>4, <2>2
      <3> HIDE DEF m
      <3>3. buffer[Slot(in + woff + m - 1)] = wdata[m]
        BY <3>1 DEF IInv, RingInv, WriteInv, InPublish
      <3>4. in + woff + m - 1 = in + (m - 1) /\ out + (fifo_len + (m - 1)) = out + k - 1
        BY <1>0, <3>1
      <3>5. size \in Pow2
        BY <1>0, <3>1 DEF IInv, RingInv, TypeOK
      <3>6. Slot(in + (m - 1)) = Slot(out + (fifo_len + (m - 1)))
        BY <3>1, <3>5, InSlot DEF IInv, RingInv
      <3>7. Q'[k] = buffer[Slot(out + k - 1)]
        BY <1>2, <1>3
      <3> QED
        BY <3>2, <3>3, <3>4, <3>6, <3>7
    <2>3. k <= fifo_len \/ k > fifo_len
      BY <1>0
    <2> QED
      BY <2>1, <2>2, <2>3
  <1> QED
    BY <1>1, <1>2, <1>3, <1>4, <1>5, SeqEqual

\* Advancing the out index removes the oldest bytes.
LEMMA AdvanceDrops ==
  ASSUME RingInv, RingInv', NEW n \in Nat, n <= fifo_len, fifo_len' = fifo_len - n,
         out' = (out + n) % Word \/ out' = in, UNCHANGED <<size, buffer, in>>
  PROVE  Q' = SubSeq(Q, n + 1, Len(Q))
  <1>0. /\ Word \in Nat \ {0} /\ size \in Nat /\ size < Word
        /\ fifo_len \in Nat /\ fifo_len <= size
        /\ in \in 0 .. Word - 1 /\ out \in 0 .. Word - 1
    <2>1. Word \in Nat \ {0} /\ size \in Nat /\ size < Word
      BY RingFacts DEF RingInv
    <2>2. fifo_len \in Nat /\ fifo_len <= size
      BY QueueFacts
    <2> QED
      BY <2>1, <2>2 DEF RingInv, TypeOK
  <1>1. /\ Q \in Seq(Bytes) /\ Len(Q) = fifo_len
        /\ \A k \in 1 .. fifo_len : Q[k] = buffer[Slot(out + k - 1)]
    BY QueueFacts
  <1>2. /\ Q' \in Seq(Bytes) /\ Len(Q') = fifo_len'
        /\ \A k \in 1 .. fifo_len' : Q'[k] = buffer[SlotOf(size, out' + k - 1)]
    BY QueueFactsNext
  <1>3. /\ SubSeq(Q, n + 1, fifo_len) \in Seq(Bytes)
        /\ Len(SubSeq(Q, n + 1, fifo_len)) = fifo_len - n
        /\ \A k \in 1 .. fifo_len - n : SubSeq(Q, n + 1, fifo_len)[k] = Q[n + k]
    <2> DEFINE m == n + 1
    <2>1. \A k \in m .. fifo_len : Q[k] \in Bytes
      <3>1. \A k \in 1 .. fifo_len : Q[k] \in Bytes
        BY <1>1, ElementOfSeq
      <3> QED
        BY <1>0, <3>1
    <2>2. m \in Int /\ fifo_len \in Int
      BY <1>0
    <2> HIDE DEF m
    <2>3. /\ SubSeq(Q, m, fifo_len) \in Seq(Bytes)
          /\ Len(SubSeq(Q, m, fifo_len)) = IF m <= fifo_len THEN fifo_len - m + 1 ELSE 0
          /\ \A k \in 1 .. fifo_len - m + 1 : SubSeq(Q, m, fifo_len)[k] = Q[m + k - 1]
      BY <2>1, <2>2, SubSeqProperties
    <2>4. \A k \in Int : m + k - 1 = n + k
      BY DEF m
    <2>5. fifo_len - m + 1 = fifo_len - n /\ (m <= fifo_len \/ fifo_len - n = 0)
      BY <1>0 DEF m
    <2> QED
      BY <1>0, <2>3, <2>4, <2>5 DEF m
  <1>4. ASSUME NEW k \in 1 .. fifo_len - n
        PROVE  SlotOf(size, out' + k - 1) = SlotOf(size, out + (n + k) - 1)
    <2>1. size \in Pow2
      BY <1>0 DEF RingInv, TypeOK
    <2>2. out' = out + n \/ out' = out + n - Word
      <3>1. CASE out' = (out + n) % Word
        <4>1. n < Word
          BY <1>0
        <4>2. out + n \in 0 .. Word - 1 \/ out + n \in Word .. 2 * Word - 1
          BY <1>0, <4>1
        <4>3. /\ \A a \in 0 .. Word - 1 : a % Word = a
              /\ \A a \in Word .. 2 * Word - 1 : a % Word = a - Word
          BY <1>0, ModFacts
        <4> DEFINE a == out + n
        <4>4. a \in 0 .. Word - 1 \/ a \in Word .. 2 * Word - 1
          BY <4>2
        <4> HIDE DEF a
        <4>5. a % Word = a \/ a % Word = a - Word
          BY <4>3, <4>4
        <4>6. out' = a % Word
          BY <3>1, Zenon DEF a
        <4>7. out' = a \/ out' = a - Word
          BY <4>5, <4>6, Zenon
        <4>8. out' = out + n \/ out' = (out + n) - Word
          BY <4>7 DEF a
        <4> QED
          BY <1>0, <4>8
      <3>2. CASE out' = in
        <4>1. fifo_len' = 0
          <5>1. fifo_len' = Dist(in, in)
            BY <3>2 DEF fifo_len, Dist
          <5> QED
            BY <1>0, <5>1, DistFacts
        <4> QED
          BY <1>0, <4>1
      <3> QED
        BY <3>1, <3>2
    <2>3. CASE out' = out + n
      <3>1. out' + k - 1 = out + (n + k) - 1
        BY <1>0, <2>3
      <3> QED
        BY <3>1
    <2>4. CASE out' = out + n - Word
      <3>1. out' + k - 1 = (out + (n + k) - 1) - Word /\ out + (n + k) - 1 \in Int
        BY <1>0, <2>4
      <3> QED
        BY <2>1, <3>1, SlotFacts
    <2> QED
      BY <2>2, <2>3, <2>4
  <1>5. ASSUME NEW k \in 1 .. fifo_len - n
        PROVE  Q'[k] = SubSeq(Q, n + 1, fifo_len)[k]
    <2>1. n + k \in 1 .. fifo_len
      BY <1>0
    <2>2. Q[n + k] = buffer[SlotOf(size, out + (n + k) - 1)]
      BY <1>1, <2>1 DEF Slot
    <2> QED
      BY <1>2, <1>3, <1>4, <2>2
  <1> QED
    BY <1>1, <1>2, <1>3, <1>5, SeqEqual

\* Every step of the ring buffer is a step of the queue, or changes nothing that
\* the queue shows.
LEMMA StepRefines ==
  ASSUME IInv, RingInv', Offsets \subseteq {0}, Next
  PROVE  Queue!Next \/ UNCHANGED Queue!vars
  <1> DEFINE S == [q |-> Contents(ser.buffer, ser.size, ser.in, ser.out), cap |-> ser.size]
  <1> USE DEF IInv
  <1>0. /\ Q \in Seq(Bytes) /\ Len(Q) = fifo_len /\ fifo_len \in Nat /\ fifo_len <= size
        /\ \A k \in 1 .. fifo_len : Q[k] = buffer[Slot(out + k - 1)]
        /\ size \in Nat /\ Word \in Nat \ {0}
    <2>1. size \in Pow2 \cup {0}
      BY DEF RingInv, TypeOK
    <2>2. size \in Nat /\ Word \in Nat \ {0}
      BY <2>1, WordFacts
    <2> QED
      BY <2>2, QueueFacts
  <1>1. ASSUME Idle, in' = out', size' \in Pow2 \cup {0}, UNCHANGED <<ser, writer, reader>>
        PROVE  Queue!Reset
    <2>1. /\ buffer' \in [0 .. size' - 1 -> Bytes] /\ in' \in 0 .. Word - 1
      BY DEF RingInv, TypeOK
    <2>2. Q' = <<>>
      BY <1>1, <2>1, ContentsEmpty DEF Q
    <2>3. size' \in Nat
      BY <1>1, WordFacts
    <2>4. wdata = <<>> /\ UNCHANGED <<wdata, to>> /\ S' = S
      BY <1>1 DEF Idle, RingInv, WriteInv, writer, reader
    <2> QED
      BY <2>2, <2>3, <2>4 DEF Queue!Reset, Q
  <1>2. CASE Own
    <2>1. ASSUME NEW n \in Sizes, FifoAlloc(n) \/ FifoInit(n) PROVE Queue!Reset
      <3>1. Idle /\ in' = out' /\ UNCHANGED <<ser, writer, reader>>
        BY <2>1 DEF FifoAlloc, FifoInit, Reinit
      <3>2. size' \in Pow2 \cup {0}
        BY DEF RingInv, TypeOK
      <3> QED
        BY <1>1, <3>1, <3>2
    <2>2. CASE FifoFree \/ FifoReset
      <3>1. Idle /\ in' = out' /\ UNCHANGED <<ser, writer, reader>>
        BY <2>2 DEF FifoFree, FifoReset, Reinit, owner
      <3>2. size' \in Pow2 \cup {0}
        BY DEF RingInv, TypeOK
      <3>3. Queue!Reset
        BY <1>1, <3>1, <3>2
      <3> QED
        BY <3>3 DEF Queue!Next
    <2>3. CASE FifoSerialize
      <3>1. /\ ser' = [size |-> size, in |-> in, out |-> out, buffer |-> buffer]
            /\ UNCHANGED <<fifo, writer, reader>>
        BY <2>3 DEF FifoSerialize
      <3>2. ser'.size = size /\ ser'.in = in /\ ser'.out = out /\ ser'.buffer = buffer
        BY <3>1
      <3>3. Queue!Save
        BY <3>1, <3>2 DEF Queue!Save, fifo, writer, reader
      <3> QED
        BY <3>3 DEF Queue!Next
    <2>4. CASE FifoUnserialize
      <3>1. Idle /\ UNCHANGED <<ser, writer, reader>>
        BY <2>4 DEF FifoUnserialize
      <3>2. CASE Reinit(0)
        <4>1. in' = out' /\ size' \in Pow2 \cup {0}
          BY <3>2 DEF Reinit
        <4>2. Queue!Reset
          BY <1>1, <3>1, <4>1
        <4> QED
          BY <4>2 DEF Queue!Next
      <3>3. CASE size' = ser.size /\ buffer' = ser.buffer /\ in' = ser.in /\ out' = ser.out
        <4>1. wdata = <<>>
          BY <3>1 DEF Idle, RingInv, WriteInv
        <4>2. Queue!Load
          BY <3>1, <3>3, <4>1 DEF Queue!Load, writer, reader
        <4> QED
          BY <4>2 DEF Queue!Next
      <3> QED
        BY <2>4, <3>2, <3>3 DEF FifoUnserialize
    <2> QED
      BY <1>2, <2>1, <2>2, <2>3, <2>4 DEF Own, Queue!Next
  <1>3. ASSUME UNCHANGED <<fifo, ser, wdata, to>> PROVE UNCHANGED Queue!vars
    BY <1>3 DEF Queue!vars, fifo
  <1>4. ASSUME NEW n \in 0 .. MaxLen, NEW s \in [1 .. n -> Bytes], FifoIn(s)
        PROVE  Queue!Offer
    <2>1. /\ wpc = "idle" /\ UNCHANGED <<fifo, owner, reader>>
          /\ wdata' \in Seq(Bytes) /\ fifo_len + Len(wdata') <= size
      BY <1>4, OfferFacts
    <2>2. /\ Len(wdata') \in Nat /\ wdata' \in [1 .. Len(wdata') -> Bytes]
      BY <2>1, LenProperties
    <2>3. Len(wdata') \in 0 .. size - Len(Q)
      BY <1>0, <2>1, <2>2
    <2>4. wdata = <<>> /\ UNCHANGED <<fifo, ser, to>>
      BY <2>1 DEF RingInv, WriteInv, owner, reader
    <2> QED
      BY <2>2, <2>3, <2>4 DEF Queue!Offer, Q, fifo
  <1>5. CASE InFirst \/ InRest
    <2>1. UNCHANGED <<size, in, out, ser, wdata, to>>
      BY <1>5 DEF InFirst, InRest, owner, reader
    <2>2. Len(wdata) \in Nat /\ in + woff \in Int
      BY DEF RingInv, TypeOK
    <2> DEFINE e == ToEnd(in + woff, Len(wdata))
    <2>3. e \in Nat /\ e <= Len(wdata)
      <3> DEFINE i == in + woff
                 n == Len(wdata)
      <3> HIDE DEF i, n
      <3>1. i \in Int /\ n \in Nat
        BY <2>2 DEF i, n
      <3>2. ToEnd(i, n) \in 0 .. n
        BY <3>1, ToEndFacts DEF RingInv
      <3>3. ToEnd(i, n) \in Nat /\ ToEnd(i, n) <= n
        BY <3>1, <3>2
      <3> QED
        BY <3>3 DEF i, n
    <2>4. \/ buffer' = Store(in + woff, wdata, 1, e)
          \/ buffer' = Store(in + woff, wdata, e + 1, Len(wdata))
      BY <1>5 DEF InFirst, InRest
    <2> HIDE DEF e
    <2>5. e + 1 \in Nat /\ 1 <= e + 1 /\ 1 \in Nat /\ 1 <= 1 /\ Len(wdata) <= Len(wdata)
      BY <2>2, <2>3
    <2>6. Q' = Q
      BY <2>1, <2>2, <2>3, <2>4, <2>5, CopyKeepsQueue
    <2> QED
      BY <2>1, <2>6 DEF Queue!vars, Q
  <1>6. CASE InPublish
    <2>1. wdata' = <<>> /\ UNCHANGED <<size, ser, to>>
      BY <1>6 DEF InPublish, owner, reader
    <2>2. Q' = Q \o wdata
      BY <1>6, PublishAppends
    <2>3. Len(Q) + Len(wdata) <= size
      <3>1. /\ fifo_len + woff + Len(wdata) <= size /\ woff \in Nat /\ Len(wdata) \in Nat
        BY RingFacts DEF RingInv, TypeOK
      <3> QED
        BY <1>0, <3>1
    <2>4. Queue!Put
      BY <2>1, <2>2, <2>3 DEF Queue!Put, Q
    <2> QED
      BY <2>4 DEF Queue!Next
  <1>7. ASSUME NEW n \in 0 .. MaxLen, NEW off \in Offsets, FifoOut(n) \/ FifoOutPeek(n, off)
        PROVE  UNCHANGED Queue!vars
    <2>1. UNCHANGED <<fifo, ser, wdata, to>>
      BY <1>7 DEF FifoOut, FifoOutPeek, owner, writer
    <2> QED
      BY <1>3, <2>1
  <1>8. CASE OutFirst \/ OutRest
    <2>1. UNCHANGED <<fifo, ser, wdata, to>>
      BY <1>8 DEF OutFirst, OutRest, owner, writer
    <2> QED
      BY <1>3, <2>1
  <1>9. ASSUME NEW d \in Seq(Bytes), NEW n \in Nat, Len(d) = n, n <= fifo_len,
               \A k \in 1 .. n : d[k] = buffer[Slot(out + k - 1)]
        PROVE  d = SubSeq(Q, 1, n)
    <2>1. \A k \in 1 .. n : Q[k] \in Bytes /\ k \in 1 .. fifo_len
      <3>1. \A k \in 1 .. n : k \in 1 .. fifo_len
        BY <1>0, <1>9
      <3>2. \A k \in 1 .. fifo_len : Q[k] \in Bytes
        BY <1>0, ElementOfSeq
      <3> QED
        BY <3>1, <3>2
    <2>2. /\ SubSeq(Q, 1, n) \in Seq(Bytes)
          /\ Len(SubSeq(Q, 1, n)) = IF 1 <= n THEN n - 1 + 1 ELSE 0
          /\ \A k \in 1 .. n - 1 + 1 : SubSeq(Q, 1, n)[k] = Q[1 + k - 1]
      BY <2>1, SubSeqProperties
    <2>3. n - 1 + 1 = n /\ (1 <= n \/ n = 0) /\ \A k \in 1 .. n : 1 + k - 1 = k
      OBVIOUS
    <2>4. Len(SubSeq(Q, 1, n)) = n /\ \A k \in 1 .. n : SubSeq(Q, 1, n)[k] = Q[k]
      BY <2>2, <2>3
    <2>5. \A k \in 1 .. n : d[k] = SubSeq(Q, 1, n)[k]
      BY <1>0, <1>9, <2>1, <2>4
    <2> QED
      BY <1>9, <2>2, <2>4, <2>5, SeqEqual
  <1>10. CASE PeekRest
    <2>1. /\ rpc = "prest" /\ to' = rdata \o Fetch(out + roff, Len(rdata) + 1, rlen)
          /\ UNCHANGED <<fifo, ser, wdata>>
      BY <1>10 DEF PeekRest, owner, writer
    <2>2. roff = 0 /\ rlen \in Nat /\ rlen <= fifo_len /\ out \in Int
      BY <2>1 DEF PlainInv, RingInv, DataInv, TypeOK
    <2>3. /\ to' \in Seq(Bytes) /\ Len(to') = rlen
          /\ \A k \in 1 .. rlen : to'[k] = buffer[Slot(out + roff + k - 1)]
      BY <2>1, <2>2, LastCopy
    <2>4. out + roff = out
      BY <2>2
    <2>5. to' = SubSeq(Q, 1, rlen)
      BY <1>9, <2>2, <2>3, <2>4
    <2>6. rlen \in 0 .. Len(Q)
      BY <1>0, <2>2
    <2>7. Queue!Peek
      BY <2>1, <2>5, <2>6 DEF Queue!Peek, Queue!Prefix, Q, fifo
    <2> QED
      BY <2>7 DEF Queue!Next
  <1>11. CASE OutPublish
    <2>1. /\ rpc = "publish" /\ to' = rdata /\ out' = (out + rlen + roff) % Word
          /\ UNCHANGED <<size, buffer, in, owner, writer>>
          /\ rpc' = "idle" /\ rlen' = 0 /\ roff' = 0 /\ rdata' = <<>>
      BY <1>11 DEF OutPublish
    <2>2. /\ roff = 0 /\ rlen \in Nat /\ rlen + roff <= fifo_len /\ out \in Int
          /\ rdata \in Seq(Bytes) /\ Len(rdata) = rlen
          /\ \A k \in 1 .. rlen : rdata[k] = buffer[Slot(out + roff + k - 1)]
      <3>1. roff = 0
        BY <2>1 DEF PlainInv
      <3>2. rlen \in Nat /\ out \in Int /\ rdata \in Seq(Bytes)
        BY DEF RingInv, TypeOK
      <3>3. rlen + roff <= fifo_len
        BY <2>1 DEF RingInv, DataInv
      <3>4. /\ Len(rdata) = rlen
            /\ \A k \in 1 .. Len(rdata) : rdata[k] = buffer[Slot(out + roff + k - 1)]
        BY <2>1, Zenon DEF RingInv, ReadInv
      <3> QED
        BY <3>1, <3>2, <3>3, <3>4
    <2>3. out + roff = out /\ rlen <= fifo_len /\ out + rlen + roff = out + rlen
      BY <1>0, <2>2
    <2>4. to' = SubSeq(Q, 1, rlen)
      BY <1>9, <2>1, <2>2, <2>3
    <2>5. fifo_len' = fifo_len - rlen
      <3>1. <<>> \in Seq(Bytes) /\ 0 \in Nat
        BY EmptySeq
      <3> QED
        BY <2>1, <2>2, <2>3, <3>1, AdvanceOut
    <2>6. Q' = SubSeq(Q, rlen + 1, Len(Q))
      BY <2>1, <2>2, <2>3, <2>5, AdvanceDrops
    <2>7. rlen \in 0 .. Len(Q)
      BY <1>0, <2>2, <2>3
    <2>8. Queue!Get
      BY <2>1, <2>4, <2>6, <2>7 DEF Queue!Get, Queue!Prefix, Queue!Rest, Q, owner, writer
    <2> QED
      BY <2>8 DEF Queue!Next
  <1>12. ASSUME NEW n \in Nat, n <= fifo_len, rpc' \in {"idle", "reset"},
                out' = (out + n) % Word \/ (out' = in /\ n = fifo_len),
                UNCHANGED <<size, buffer, in, owner, writer, rlen, roff, rdata, to>>
         PROVE  Queue!Drop
    <2>1. rlen' \in Nat /\ roff' \in Nat /\ rdata' \in Seq(Bytes) /\ to' \in Seq(Bytes)
      BY <1>12 DEF RingInv, TypeOK
    <2>2. fifo_len' = fifo_len - n
      BY <1>12, <2>1, AdvanceOut
    <2>3. Q' = SubSeq(Q, n + 1, Len(Q))
      BY <1>12, <2>2, AdvanceDrops
    <2>4. n \in 0 .. Len(Q)
      BY <1>0, <1>12
    <2> QED
      BY <1>12, <2>3, <2>4 DEF Queue!Drop, Queue!Rest, Q, owner, writer
  <1>13. ASSUME NEW n \in 0 .. MaxLen, FifoSkip(n) PROVE Queue!Drop \/ UNCHANGED Queue!vars
    <2>1. MaxLen \in Nat
      BY <1>0, LenAssumption
    <2>2. n \in Nat /\ rpc = "idle"
          /\ UNCHANGED <<size, buffer, in, owner, writer, rlen, roff, rdata, to>>
      BY <1>13, <2>1 DEF FifoSkip
    <2>3. CASE n < fifo_len /\ out' = (out + n) % Word /\ rpc' = rpc
      <3>1. n <= fifo_len
        BY <1>0, <2>2, <2>3
      <3> QED
        BY <1>12, <2>2, <2>3, <3>1
    <2>4. CASE out' = out
      <3>1. UNCHANGED <<fifo, ser, wdata, to>>
        BY <2>2, <2>4 DEF fifo, owner, writer
      <3> QED
        BY <1>3, <3>1
    <2> QED
      BY <1>13, <2>3, <2>4 DEF FifoSkip
  <1>14. CASE SkipAll \/ FifoResetOut
    <2>1. /\ out' = in /\ rpc' = "idle"
          /\ UNCHANGED <<size, buffer, in, owner, writer, rlen, roff, rdata, to>>
      BY <1>14 DEF SkipAll, FifoResetOut, reader
    <2>2. fifo_len <= fifo_len
      BY <1>0
    <2>3. Queue!Drop
      BY <1>0, <1>12, <2>1, <2>2
    <2> QED
      BY <2>3 DEF Queue!Next
  <1>15. CASE Write
    BY <1>4, <1>5, <1>6, <1>15 DEF Write, Queue!Next
  <1>16. CASE Read
    <2>1. ASSUME NEW n \in 0 .. MaxLen, FifoOut(n) PROVE UNCHANGED Queue!vars
      BY <1>3, <2>1 DEF FifoOut, owner, writer
    <2> QED
      BY <1>7, <1>8, <1>10, <1>11, <1>13, <1>14, <1>16, <2>1 DEF Read, Queue!Next
  <1> QED
    BY <1>2, <1>15, <1>16 DEF Next

\* The ring buffer implements the bounded queue of bytes: under any interleaving
\* of one writer and one reader, for any width of the indices, bytes come out as
\* they were put in, in order, once each; fifo_out_peek is called with offset 0.
THEOREM RingIsQueue == ASSUME Offsets \subseteq {0} PROVE Spec => ImplementsQueue
  <1>1. Init => Queue!Init
    <2> SUFFICES ASSUME Init PROVE Queue!Init
      OBVIOUS
    <2>1. 0 \in 0 .. Word - 1 /\ <<>> \in [0 .. 0 - 1 -> Bytes] /\ 0 \in Pow2 \cup {0}
      BY WordFacts, EmptySeq
    <2>2. Contents(<<>>, 0, 0, 0) = <<>>
      BY <2>1, ContentsEmpty
    <2> QED
      BY <2>2 DEF Init, Queue!Init, EmptyBuffer
  <1>2. IInv /\ IInv' /\ [Next]_vars => [Queue!Next]_(Queue!vars)
    <2> SUFFICES ASSUME IInv, IInv', [Next]_vars
                 PROVE  Queue!Next \/ UNCHANGED Queue!vars
      OBVIOUS
    <2>1. CASE Next
      BY <2>1, StepRefines DEF IInv
    <2>2. CASE UNCHANGED vars
      BY <2>2 DEF vars, fifo, owner, writer, reader, Queue!vars
    <2> QED
      BY <2>1, <2>2
  <1> QED
    BY <1>1, <1>2, RingInvariant, PTL DEF Spec, ImplementsQueue, Queue!Spec

-----------------------------------------------------------------------------
(* Records                                                                 *)

\* The numbers of the length field.
LEMMA FieldFacts ==
  /\ RecSize \in {1, 2} /\ RecSize \in Nat /\ Base \in Nat \ {0} /\ Lengths \in Nat
  /\ Capacity \in Pow2 /\ Capacity \in Nat \ {0} /\ Capacity < Word
  /\ Word \in Nat \ {0} /\ MaxRec \in Nat /\ MaxRec < Lengths
  <1>1. RecSize \in {1, 2} /\ Base \in Nat \ {0} /\ Capacity \in Pow2
        /\ MaxRec \in Nat /\ MaxRec < Lengths
    BY RecAssumption
  <1>2. Base * Base \in Nat
    BY <1>1
  <1> QED
    BY <1>1, <1>2, WordFacts DEF Lengths

\* A length field is RecSize bytes.
LEMMA HeaderFacts ==
  ASSUME NEW n \in Nat
  PROVE  Header(n) \in Seq(Bytes) /\ Len(Header(n)) = RecSize
  <1>1. Base \in Nat \ {0} /\ Bytes = 0 .. Base - 1 /\ RecSize \in {1, 2}
    BY RecAssumption
  <1>2. n \div Base \in Int
    BY <1>1
  <1>3. n % Base \in Bytes /\ (n \div Base) % Base \in Bytes
    BY <1>1, <1>2, ModFacts
  <1>4. CASE RecSize = 1
    <2>1. Header(n) = <<n % Base>>
      BY <1>4 DEF Header
    <2> QED
      BY <1>3, <1>4, <2>1
  <1>5. CASE RecSize = 2
    <2>1. Header(n) = <<n % Base, (n \div Base) % Base>>
      BY <1>5 DEF Header
    <2> QED
      BY <1>3, <1>5, <2>1
  <1> QED
    BY <1>1, <1>4, <1>5

\* The length that __fifo_peek_n reads is the one that __fifo_poke_n wrote.
LEMMA HeaderDecode ==
  ASSUME NEW n \in Nat, n < Lengths
  PROVE  n = Header(n)[1] + (IF RecSize = 2 THEN Base * Header(n)[2] ELSE 0)
  <1> DEFINE B == Base
             q == n \div B
             r == n % B
  <1>1. B \in Nat \ {0} /\ RecSize \in {1, 2}
    BY RecAssumption
  <1> HIDE DEF B
  <1>2. q \in Int /\ r \in 0 .. B - 1 /\ n = q * B + r
    BY <1>1
  <1>3. CASE RecSize = 1
    <2>1. n \in 0 .. B - 1 /\ Header(n)[1] = n % B
      BY <1>1, <1>3 DEF Header, Lengths, B
    <2>2. n % B = n
      BY <1>1, <2>1, ModFacts
    <2> QED
      BY <1>3, <2>1, <2>2
  <1>4. CASE RecSize = 2
    <2>1. n < B * B /\ Header(n)[1] = r /\ Header(n)[2] = q % B
      BY <1>4 DEF Header, Lengths, B
    <2> HIDE DEF q, r
    <2>2. q >= 0
      <3> SUFFICES ASSUME q <= -1 PROVE FALSE
        BY <1>2
      <3>1. (q + 1) * B = q * B + 1 * B /\ q + 1 <= 0 /\ q + 1 \in Int /\ q * B \in Int
        BY <1>1, <1>2, ProductFacts
      <3>2. (q + 1) * B <= 0
        BY <1>1, <1>2, <3>1, ProductFacts
      <3> QED
        BY <1>1, <1>2, <3>1, <3>2
    <2>3. q < B
      <3> SUFFICES ASSUME q - B >= 0 PROVE FALSE
        BY <1>1, <1>2
      <3>1. (q - B) * B = q * B - B * B /\ q - B \in Int /\ q * B \in Int /\ B * B \in Int
        BY <1>1, <1>2, ProductFacts
      <3>2. (q - B) * B >= 0
        <4>1. \A x, y \in Int : x >= 0 /\ y >= 0 => x * y >= 0
          OBVIOUS
        <4> QED
          BY <1>1, <3>1, <4>1
      <3> QED
        BY <1>1, <1>2, <2>1, <3>1, <3>2
    <2>4. q % B = q
      <3>1. q \in 0 .. B - 1
        BY <1>1, <1>2, <2>2, <2>3
      <3> QED
        BY <1>1, <3>1, ModFacts
    <2>5. q * B = B * q /\ B * q \in Int
      BY <1>1, <1>2
    <2> QED
      BY <1>2, <1>4, <2>1, <2>4, <2>5 DEF B
  <1> QED
    BY <1>1, <1>3, <1>4

\* An index is as far from another one as their distance says, in slots too.
LEMMA SlotFrom ==
  ASSUME NEW s \in Pow2, NEW i \in 0 .. Word - 1, NEW o \in 0 .. Word - 1, NEW j \in Int
  PROVE  SlotOf(s, i + j) = SlotOf(s, o + (Dist(i, o) + j))
  <1>1. Word \in Nat \ {0}
    BY WordFacts
  <1>2. Dist(i, o) \in Int /\ (i = o + Dist(i, o) \/ i = o + Dist(i, o) - Word)
    BY <1>1, DistFacts
  <1> DEFINE d == Dist(i, o)
  <1> HIDE DEF d
  <1>3. d \in Int /\ (i = o + d \/ i = o + d - Word)
    BY <1>2 DEF d
  <1>4. CASE i = o + d
    <2>1. i + j = o + (d + j)
      BY <1>1, <1>3, <1>4
    <2> QED
      BY <2>1 DEF d
  <1>5. CASE i = o + d - Word
    <2>1. i + j = (o + (d + j)) - Word /\ o + (d + j) \in Int
      BY <1>1, <1>3, <1>5
    <2> QED
      BY <2>1, SlotFacts DEF d
  <1> QED
    BY <1>3, <1>4, <1>5

\* The parts of a record.
LEMMA RecordFacts ==
  ASSUME NEW r \in Records, NEW o \in 0 .. Word - 1
  PROVE  /\ r.at \in 0 .. Word - 1 /\ r.data \in Seq(Bytes) /\ Len(r.data) \in Nat
         /\ Off(r, o) = Dist(r.at, o) /\ Off(r, o) \in Nat /\ Off(r, o) < Word
         /\ End(r, o) \in Nat /\ End(r, o) = Off(r, o) + RecSize + Len(r.data)
  <1>1. r.at \in 0 .. Word - 1 /\ r.data \in Seq(Bytes) /\ Len(r.data) \in Nat
    BY DEF Records
  <1>2. Off(r, o) = Dist(r.at, o)
    BY DEF Off, Dist
  <1>3. Word \in Nat \ {0} /\ RecSize \in Nat
    BY FieldFacts
  <1>4. Off(r, o) \in 0 .. Word - 1
    BY <1>1, <1>2, DistFacts
  <1> QED
    BY <1>1, <1>2, <1>3, <1>4 DEF End

\* What moves with the out index.
LEMMA OffAdvance ==
  ASSUME NEW r \in Records, NEW o \in 0 .. Word - 1, NEW n \in Nat, n <= Off(r, o)
  PROVE  /\ (o + n) % Word \in 0 .. Word - 1
         /\ Off(r, (o + n) % Word) = Off(r, o) - n
         /\ End(r, (o + n) % Word) = End(r, o) - n
  <1>1. /\ r.at \in 0 .. Word - 1 /\ Len(r.data) \in Nat /\ Off(r, o) = Dist(r.at, o)
        /\ Off(r, o) \in Nat /\ Word \in Nat \ {0} /\ RecSize \in Nat
    BY RecordFacts, FieldFacts
  <1>2. o + n \in Int
    BY <1>1
  <1>3. (o + n) % Word \in 0 .. Word - 1
    BY <1>1, <1>2, ModFacts
  <1>4. Dist(r.at, (o + n) % Word) = Dist(r.at, o) - n
    <2> DEFINE i == r.at
    <2>1. i \in 0 .. Word - 1 /\ n <= Dist(i, o)
      BY <1>1
    <2> HIDE DEF i
    <2>2. \A m \in Nat : m <= Dist(i, o) => Dist(i, (o + m) % Word) = Dist(i, o) - m
      BY <2>1, DistFacts, ZenonT(40)
    <2>3. Dist(i, (o + n) % Word) = Dist(i, o) - n
      BY <2>1, <2>2, Zenon
    <2> QED
      BY <2>3 DEF i
  <1>5. Off(r, (o + n) % Word) = Off(r, o) - n
    BY <1>1, <1>4 DEF Off, Dist
  <1> QED
    BY <1>1, <1>3, <1>5 DEF End

\* No record, no byte.
LEMMA LaidEmpty == ASSUME NEW b, NEW i PROVE Laid(b, <<>>, i, i)
  BY DEF Laid, Tiled, Apart

\* Records stay where they are when only bytes beside them change.
LEMMA LaidKept ==
  ASSUME NEW b, NEW c, NEW rs \in Seq(Records), NEW i \in 0 .. Word - 1, NEW o \in 0 .. Word - 1,
         \A j \in Nat : j < Dist(i, o) => c[SlotOf(Capacity, o + j)] = b[SlotOf(Capacity, o + j)],
         Laid(b, rs, i, o)
  PROVE  Laid(c, rs, i, o)
  <1>1. ASSUME NEW n \in 1 .. Len(rs) PROVE Stored(c, rs[n])
    <2> DEFINE r == rs[n]
    <2>1. r \in Records
      BY ElementOfSeq
    <2>2. Stored(b, r) /\ End(r, o) <= Dist(i, o)
      BY <1>1 DEF Laid, Apart, Dist
    <2> HIDE DEF r
    <2>3. /\ r.at \in 0 .. Word - 1 /\ Len(r.data) \in Nat
          /\ Off(r, o) = Dist(r.at, o) /\ Off(r, o) \in Nat
          /\ End(r, o) = Off(r, o) + RecSize + Len(r.data)
          /\ RecSize \in Nat /\ Capacity \in Pow2 /\ Word \in Nat \ {0}
      BY <2>1, RecordFacts, FieldFacts
    <2>4. Dist(i, o) \in Nat
      BY <2>3, DistFacts
    <2>5. ASSUME NEW j \in Nat, j < RecSize + Len(r.data)
          PROVE  c[SlotOf(Capacity, r.at + j)] = b[SlotOf(Capacity, r.at + j)]
      <3>1. SlotOf(Capacity, r.at + j) = SlotOf(Capacity, o + (Dist(r.at, o) + j))
        <4> DEFINE a == r.at
        <4>1. a \in 0 .. Word - 1 /\ j \in Int
          BY <2>3
        <4> HIDE DEF a
        <4>2. SlotOf(Capacity, a + j) = SlotOf(Capacity, o + (Dist(a, o) + j))
          BY <2>3, <4>1, SlotFrom, Zenon
        <4> QED
          BY <4>2 DEF a
      <3>2. Dist(r.at, o) + j \in Nat /\ Dist(r.at, o) + j < Dist(i, o)
        <4> DEFINE d == Dist(i, o)
                   f == Off(r, o)
                   l == Len(r.data)
        <4>1. d \in Nat /\ f \in Nat /\ l \in Nat /\ f + RecSize + l <= d
          BY <2>2, <2>3, <2>4
        <4>2. j < RecSize + l /\ f = Dist(r.at, o)
          BY <2>3, <2>5
        <4> HIDE DEF d, f, l
        <4>3. RecSize \in Nat
          BY <2>3
        <4>4. f + j \in Nat /\ f + j < d
          BY <4>1, <4>2, <4>3
        <4> QED
          BY <4>2, <4>4 DEF d
      <3> QED
        BY <3>1, <3>2
    <2>6. ASSUME NEW k \in 1 .. RecSize
          PROVE  c[SlotOf(Capacity, r.at + k - 1)] = Header(Len(r.data))[k]
      <3> DEFINE j == k - 1
      <3>1. j \in Nat /\ j < RecSize + Len(r.data) /\ r.at + k - 1 = r.at + j
        BY <2>3
      <3>2. b[SlotOf(Capacity, r.at + k - 1)] = Header(Len(r.data))[k]
        BY <2>2 DEF Stored
      <3> HIDE DEF j
      <3> QED
        BY <2>5, <3>1, <3>2
    <2>7. ASSUME NEW k \in 1 .. Len(r.data)
          PROVE  c[SlotOf(Capacity, r.at + RecSize + k - 1)] = r.data[k]
      <3> DEFINE j == RecSize + k - 1
                 l == Len(r.data)
                 p == r.at
      <3>1. j \in Nat /\ j < RecSize + l /\ p + RecSize + k - 1 = p + j
        <4>1. k \in 1 .. l /\ l \in Nat /\ p \in Int /\ RecSize \in Nat
          BY <2>3
        <4> HIDE DEF l, p
        <4> QED
          BY <4>1
      <3>2. b[SlotOf(Capacity, r.at + RecSize + k - 1)] = r.data[k]
        BY <2>2 DEF Stored
      <3> HIDE DEF j
      <3> QED
        BY <2>5, <3>1, <3>2
    <2>8. Stored(c, r)
      BY <2>6, <2>7 DEF Stored
    <2> QED
      BY <2>8 DEF r
  <1> QED
    BY <1>1 DEF Laid

\* A record that is published goes behind the others.
LEMMA LaidAppend ==
  ASSUME NEW b, NEW rs \in Seq(Records), NEW o \in 0 .. Word - 1, NEW r \in Records,
         NEW i \in 0 .. Word - 1, r.at = i, Stored(b, r), Len(r.data) < Lengths,
         Dist(i, o) + RecSize + Len(r.data) < Word, Laid(b, rs, i, o),
         NEW h \in 0 .. Word - 1, Dist(h, o) = Dist(i, o) + RecSize + Len(r.data)
  PROVE  Laid(b, Append(rs, r), h, o)
  <1> DEFINE t == Append(rs, r)
             N == Len(rs)
  <1>1. /\ t \in Seq(Records) /\ t # <<>> /\ Len(t) = N + 1 /\ N \in Nat
        /\ \A n \in 1 .. N : t[n] = rs[n]
        /\ t[N + 1] = r
    BY AppendProperties
  <1> HIDE DEF t
  <1>2. /\ Len(r.data) \in Nat /\ Off(r, o) = Dist(i, o) /\ Off(r, o) \in Nat
        /\ End(r, o) = Dist(h, o) /\ RecSize \in Nat /\ Dist(h, o) \in Nat
        /\ Off(r, o) <= Dist(h, o)
    <2>1. /\ Len(r.data) \in Nat /\ Off(r, o) = Dist(i, o) /\ Off(r, o) \in Nat
          /\ End(r, o) = Off(r, o) + RecSize + Len(r.data) /\ RecSize \in Nat
      BY RecordFacts, FieldFacts
    <2> QED
      BY <2>1
  <1>3. \A n \in 1 .. N : /\ End(rs[n], o) <= Dist(i, o) /\ End(rs[n], o) \in Nat
                          /\ Stored(b, rs[n]) /\ Len(rs[n].data) < Lengths
    <2> SUFFICES ASSUME NEW n \in 1 .. N
                 PROVE  /\ End(rs[n], o) <= Dist(i, o) /\ End(rs[n], o) \in Nat
                        /\ Stored(b, rs[n]) /\ Len(rs[n].data) < Lengths
      OBVIOUS
    <2>1. rs[n] \in Records
      BY ElementOfSeq
    <2>2. End(rs[n], o) \in Nat
      BY <2>1, RecordFacts
    <2> QED
      BY <2>2 DEF Laid, Apart, Dist
  <1>4. \A n \in 1 .. N + 1 : Stored(b, t[n]) /\ Len(t[n].data) < Lengths
    BY <1>1, <1>3
  <1>5. ASSUME NEW n \in 1 .. N + 1 PROVE End(t[n], o) <= Dist(h, o)
    <2>1. CASE n = N + 1
      BY <1>1, <1>2, <2>1
    <2>2. CASE n # N + 1
      <3>1. n \in 1 .. N
        BY <1>1, <2>2
      <3>2. t[n] = rs[n] /\ End(rs[n], o) <= Dist(i, o) /\ End(rs[n], o) \in Nat
        BY <1>1, <1>3, <3>1
      <3> QED
        BY <1>2, <3>2
    <2> QED
      BY <2>1, <2>2
  <1>6. \A n, m \in 1 .. N + 1 : n < m => End(t[n], o) <= Off(t[m], o)
    <2> SUFFICES ASSUME NEW n \in 1 .. N + 1, NEW m \in 1 .. N + 1, n < m
                 PROVE  End(t[n], o) <= Off(t[m], o)
      OBVIOUS
    <2>1. n \in 1 .. N /\ t[n] = rs[n]
      BY <1>1
    <2>2. CASE m = N + 1
      BY <1>1, <1>2, <1>3, <2>1, <2>2
    <2>3. CASE m # N + 1
      <3>1. m \in 1 .. N /\ t[m] = rs[m]
        BY <1>1, <2>3
      <3> QED
        BY <2>1, <3>1 DEF Laid, Apart
    <2> QED
      BY <2>2, <2>3
  <1>7. Apart(t, h, o)
    BY <1>1, <1>5, <1>6 DEF Apart, Dist
  <1>8. \A n \in 1 .. N : Off(t[n + 1], o) = End(t[n], o)
    <2> SUFFICES ASSUME NEW n \in 1 .. N PROVE Off(t[n + 1], o) = End(t[n], o)
      OBVIOUS
    <2>1. CASE n = N
      <3>1. rs # <<>>
        BY <1>1, <2>1, EmptySeq
      <3>2. End(rs[N], o) = Dist(i, o)
        BY <3>1 DEF Laid, Tiled, Dist
      <3> QED
        BY <1>1, <1>2, <2>1, <3>2
    <2>2. CASE n # N
      <3>1. n \in 1 .. N - 1 /\ n + 1 \in 1 .. N
        BY <1>1, <2>2
      <3>2. Off(rs[n + 1], o) = End(rs[n], o)
        BY <3>1 DEF Laid, Tiled
      <3> QED
        BY <1>1, <3>1, <3>2
    <2> QED
      BY <2>1, <2>2
  <1>9. Off(t[1], o) = 0
    <2>1. CASE N = 0
      <3>1. rs = <<>>
        BY <2>1, EmptySeq
      <3>2. i = o
        BY <3>1 DEF Laid, Tiled
      <3>3. Dist(i, o) = 0
        BY <3>2, DistFacts
      <3> QED
        BY <1>1, <1>2, <2>1, <3>3
    <2>2. CASE N # 0
      <3>1. rs # <<>> /\ 1 \in 1 .. N
        BY <1>1, <2>2, EmptySeq
      <3> QED
        BY <1>1, <3>1 DEF Laid, Tiled
    <2> QED
      BY <2>1, <2>2
  <1>10. Tiled(t, h, o)
    <2>1. Len(t) - 1 = N /\ End(t[Len(t)], o) = Dist(h, o)
      BY <1>1, <1>2
    <2> QED
      BY <1>1, <1>8, <1>9, <2>1 DEF Tiled, Dist
  <1>11. Laid(b, t, h, o)
    BY <1>1, <1>4, <1>7, <1>10 DEF Laid
  <1> QED
    BY <1>11 DEF t

\* The first record begins at the out index.
LEMMA FirstRecord ==
  ASSUME NEW b, NEW rs \in Seq(Records), NEW i \in 0 .. Word - 1, NEW o \in 0 .. Word - 1,
         Laid(b, rs, i, o), rs # <<>>
  PROVE  /\ 1 \in 1 .. Len(rs) /\ rs[1] \in Records /\ rs[1].at = o
         /\ Off(rs[1], o) = 0 /\ End(rs[1], o) = RecSize + Len(rs[1].data)
         /\ End(rs[1], o) <= Dist(i, o) /\ Stored(b, rs[1]) /\ Len(rs[1].data) < Lengths
  <1> DEFINE r == rs[1]
  <1>1. 1 \in 1 .. Len(rs)
    BY EmptySeq
  <1>2. r \in Records
    BY <1>1, ElementOfSeq
  <1>3. /\ Off(r, o) = 0 /\ End(r, o) <= Dist(i, o) /\ Stored(b, r) /\ Len(r.data) < Lengths
    BY <1>1 DEF Laid, Tiled, Apart, Dist
  <1> HIDE DEF r
  <1>4. /\ r.at \in 0 .. Word - 1 /\ Off(r, o) = Dist(r.at, o) /\ Len(r.data) \in Nat
        /\ End(r, o) = Off(r, o) + RecSize + Len(r.data) /\ RecSize \in Nat
        /\ Word \in Nat \ {0}
    BY <1>2, RecordFacts, FieldFacts
  <1>5. r.at = o
    <2>1. r.at = o + Dist(r.at, o) \/ r.at = o + Dist(r.at, o) - Word
      BY <1>4, DistFacts
    <2> QED
      BY <1>3, <1>4, <2>1
  <1>6. End(r, o) = RecSize + Len(r.data)
    BY <1>3, <1>4
  <1> QED
    BY <1>1, <1>2, <1>3, <1>5, <1>6 DEF r

\* Without the first record the others begin at the advanced out index.
LEMMA LaidDrop ==
  ASSUME NEW b, NEW rs \in Seq(Records), NEW i \in 0 .. Word - 1, NEW o \in 0 .. Word - 1,
         Laid(b, rs, i, o), rs # <<>>
  PROVE  Laid(b, Tail(rs), i, (o + (RecSize + Len(rs[1].data))) % Word)
  <1> DEFINE e == RecSize + Len(rs[1].data)
             p == (o + e) % Word
             t == Tail(rs)
             N == Len(rs)
  <1>1. /\ t \in Seq(Records) /\ Len(t) = N - 1 /\ N \in Nat \ {0}
        /\ \A n \in 1 .. N - 1 : t[n] = rs[n + 1]
    BY HeadTailProperties, EmptySeq
  <1>2. /\ 1 \in 1 .. N /\ rs[1] \in Records /\ End(rs[1], o) = e /\ e <= Dist(i, o)
        /\ e \in Nat
    <2>1. /\ 1 \in 1 .. N /\ rs[1] \in Records /\ End(rs[1], o) = e /\ e <= Dist(i, o)
      BY FirstRecord
    <2> QED
      BY <2>1, RecordFacts
  <1> HIDE DEF e, t
  <1>3. p \in 0 .. Word - 1 /\ Dist(i, p) = Dist(i, o) - e
    <2>1. \A m \in Nat : m <= Dist(i, o) => Dist(i, (o + m) % Word) = Dist(i, o) - m
      BY DistFacts, ZenonT(40)
    <2>2. o + e \in Int /\ Word \in Nat \ {0}
      BY <1>2, FieldFacts
    <2>3. p \in 0 .. Word - 1
      BY <2>2, ModFacts
    <2> QED
      BY <1>2, <2>1, <2>3
  <1>4. ASSUME NEW n \in 1 .. N - 1
        PROVE  /\ n + 1 \in 1 .. N /\ t[n] = rs[n + 1] /\ rs[n + 1] \in Records
               /\ Off(t[n], p) = Off(rs[n + 1], o) - e /\ End(t[n], p) = End(rs[n + 1], o) - e
               /\ Off(rs[n + 1], o) \in Nat /\ End(rs[n + 1], o) \in Nat
    <2>1. n + 1 \in 1 .. N /\ t[n] = rs[n + 1] /\ 1 < n + 1
      BY <1>1
    <2>2. rs[n + 1] \in Records
      BY <2>1, ElementOfSeq
    <2>3. e <= Off(rs[n + 1], o)
      <3>1. \A m \in 1 .. N : 1 < m => End(rs[1], o) <= Off(rs[m], o)
        BY <1>2 DEF Laid, Apart
      <3> QED
        BY <1>2, <2>1, <3>1
    <2>4. Off(rs[n + 1], p) = Off(rs[n + 1], o) - e /\ End(rs[n + 1], p) = End(rs[n + 1], o) - e
      BY <1>2, <2>2, <2>3, OffAdvance
    <2>5. Off(rs[n + 1], o) \in Nat /\ End(rs[n + 1], o) \in Nat
      BY <2>2, RecordFacts
    <2> QED
      BY <2>1, <2>2, <2>4, <2>5
  <1> HIDE DEF p
  <1>5. \A n \in 1 .. N - 1 : Stored(b, t[n]) /\ Len(t[n].data) < Lengths
    BY <1>4 DEF Laid
  <1>6. Apart(t, i, p)
    <2>1. ASSUME NEW n \in 1 .. N - 1 PROVE End(t[n], p) <= Dist(i, p)
      <3>1. End(rs[n + 1], o) <= Dist(i, o) /\ Dist(i, o) \in Int
        BY <1>4, DistFacts, FieldFacts DEF Laid, Apart, Dist
      <3> QED
        BY <1>2, <1>3, <1>4, <3>1
    <2>2. ASSUME NEW n \in 1 .. N - 1, NEW m \in 1 .. N - 1, n < m
          PROVE  End(t[n], p) <= Off(t[m], p)
      <3>1. n + 1 < m + 1
        BY <1>1, <2>2
      <3>2. End(rs[n + 1], o) <= Off(rs[m + 1], o)
        BY <1>4, <3>1 DEF Laid, Apart
      <3> QED
        BY <1>2, <1>4, <3>2
    <2> QED
      BY <1>1, <2>1, <2>2 DEF Apart, Dist
  <1>7. Tiled(t, i, p)
    <2>1. \A n \in 1 .. N - 1 : Off(rs[n + 1], o) = End(rs[n], o)
      BY DEF Laid, Tiled
    <2>2. End(rs[N], o) = Dist(i, o)
      BY DEF Laid, Tiled, Dist
    <2>3. CASE N = 1
      <3>1. t = <<>>
        BY <1>1, <2>3, EmptySeq
      <3>2. Dist(i, p) = 0
        BY <1>2, <1>3, <2>2, <2>3
      <3>3. i = p
        <4>1. i = p + Dist(i, p) \/ i = p + Dist(i, p) - Word
          BY <1>3, DistFacts
        <4> QED
          BY <1>3, <3>2, <4>1, FieldFacts
      <3> QED
        BY <3>1, <3>3 DEF Tiled
    <2>4. CASE N # 1
      <3>1. 1 \in 1 .. N - 1 /\ N - 1 \in 1 .. N - 1 /\ t # <<>> /\ (N - 1) + 1 = N
        BY <1>1, <2>4, EmptySeq
      <3>2. Off(t[1], p) = 0
        BY <1>2, <1>4, <2>1, <3>1
      <3>3. End(t[Len(t)], p) = Dist(i, p)
        BY <1>1, <1>3, <1>4, <2>2, <3>1
      <3>4. ASSUME NEW n \in 1 .. Len(t) - 1 PROVE Off(t[n + 1], p) = End(t[n], p)
        <4>1. n \in 1 .. N - 1 /\ n + 1 \in 1 .. N - 1
          BY <1>1
        <4> QED
          BY <1>4, <2>1, <4>1
      <3> QED
        BY <3>1, <3>2, <3>3, <3>4 DEF Tiled, Dist
    <2> QED
      BY <2>3, <2>4
  <1>8. Laid(b, t, i, p)
    BY <1>1, <1>5, <1>6, <1>7 DEF Laid
  <1> QED
    BY <1>8 DEF e, p, t

\* The bytes that __fifo_peek_n finds are those of the first record's length.
LEMMA PeekedLength ==
  ASSUME RecTypeOK, Laid(buffer, recs, in, out), in \in 0 .. Word - 1, out \in 0 .. Word - 1,
         recs # <<>>
  PROVE  /\ buffer[Slot(out)] = Header(Len(recs[1].data))[1]
         /\ rlen = Header(Len(recs[1].data))[1] => PeekN = Len(recs[1].data)
  <1> DEFINE r == recs[1]
  <1>1. r \in Records /\ r.at = out /\ Stored(buffer, r) /\ Len(r.data) < Lengths
    BY FirstRecord DEF RecTypeOK
  <1> HIDE DEF r
  <1>2. Len(r.data) \in Nat /\ RecSize \in {1, 2} /\ Word \in Nat \ {0}
    BY <1>1, RecordFacts, FieldFacts
  <1>3. Len(r.data) = Header(Len(r.data))[1]
                        + (IF RecSize = 2 THEN Base * Header(Len(r.data))[2] ELSE 0)
    BY <1>1, <1>2, HeaderDecode
  <1>4. \A k \in 1 .. RecSize : buffer[SlotOf(Capacity, out + k - 1)] = Header(Len(r.data))[k]
    BY <1>1 DEF Stored
  <1>5. out + 1 - 1 = out /\ out + 2 - 1 = out + 1
    BY <1>2
  <1>6. buffer[Slot(out)] = Header(Len(r.data))[1]
    BY <1>2, <1>4, <1>5 DEF Slot, RecTypeOK
  <1>7. RecSize = 2 => buffer[Slot(out + 1)] = Header(Len(r.data))[2]
    BY <1>2, <1>4, <1>5 DEF Slot, RecTypeOK
  <1>8. rlen = Header(Len(r.data))[1] => PeekN = Len(r.data)
    BY <1>3, <1>7 DEF PeekN
  <1> QED
    BY <1>6, <1>8 DEF r

\* The numbers of a fifo of records.
LEMMA RecNumbers ==
  ASSUME RecInv
  PROVE  /\ TypeOK /\ SpaceInv /\ RingInv /\ RecTypeOK
         /\ size = Capacity /\ size \in Pow2 /\ size \in Nat /\ size < Word
         /\ Word \in Nat \ {0} /\ RecSize \in Nat /\ RecSize \in {1, 2}
         /\ in \in 0 .. Word - 1 /\ out \in 0 .. Word - 1
         /\ fifo_len = Dist(in, out) /\ fifo_len \in Nat
         /\ woff \in Nat /\ Len(wdata) \in Nat /\ wdata \in Seq(Bytes)
         /\ fifo_len + woff + Len(wdata) <= size
         /\ rlen \in Nat /\ roff \in Nat /\ recs \in Seq(Records)
  <1>1. TypeOK /\ SpaceInv /\ RingInv /\ RecTypeOK
    BY DEF RecInv, RingInv
  <1>2. /\ size = Capacity /\ recs \in Seq(Records)
        /\ in \in 0 .. Word - 1 /\ out \in 0 .. Word - 1 /\ woff \in Nat
        /\ wdata \in Seq(Bytes) /\ rlen \in Nat /\ roff \in Nat
    BY <1>1 DEF RecTypeOK, TypeOK
  <1> QED
    BY <1>1, <1>2, RingFacts, FieldFacts

\* A step that changes the buffer only beside the contents moves no record.
LEMMA KeptLaid ==
  ASSUME RecInv, UNCHANGED <<size, in, out, recs, stale>>,
         \A j \in Nat : j < fifo_len => buffer'[Slot(out + j)] = buffer[Slot(out + j)]
  PROVE  ~stale' => Laid(buffer', recs', in', out')
  <1> SUFFICES ASSUME ~stale PROVE Laid(buffer', recs, in, out)
    OBVIOUS
  <1>1. Laid(buffer, recs, in, out)
    BY DEF RecInv
  <1>2. /\ recs \in Seq(Records) /\ in \in 0 .. Word - 1 /\ out \in 0 .. Word - 1
        /\ fifo_len = Dist(in, out) /\ size = Capacity
    BY RecNumbers
  <1>3. \A j \in Nat : j < Dist(in, out) =>
          buffer'[SlotOf(Capacity, out + j)] = buffer[SlotOf(Capacity, out + j)]
    BY <1>2 DEF Slot
  <1> QED
    BY <1>1, <1>2, <1>3, LaidKept

\* The parts that a step must keep, besides the ring.
LEMMA RecParts ==
  ASSUME RingInv', RecTypeOK', PokeInv', LengthInv',
         ~stale' => Laid(buffer', recs', in', out')
  PROVE  RecInv'
  <1>1. (~stale => Laid(buffer, recs, in, out))'
    OBVIOUS
  <1> QED
    BY <1>1 DEF RecInv

\* A record is offered only if it fits with its length field.
LEMMA InRecInv ==
  ASSUME RecInv, NEW n \in 0 .. MaxRec, NEW s \in [1 .. n -> Payload], InRec(s)
  PROVE  RecInv'
  <1>1. /\ wpc = "idle" /\ fifo_avail >= Len(s) + RecSize /\ wdata' = s /\ woff' = RecSize
        /\ wpc' = "first" /\ UNCHANGED <<fifo, owner, reader, ghosts>>
    BY DEF InRec
  <1>2. n \in Nat /\ n < Lengths
    BY FieldFacts
  <1>3. s \in Seq(Bytes) /\ Len(s) = n
    <2>1. s \in [1 .. n -> Bytes]
      BY RecAssumption
    <2> QED
      BY <1>2, <2>1, FcnSeq
  <1>4. /\ fifo_len + RecSize + Len(s) <= size /\ RecSize \in Nat /\ RecSize # 0
    <2>1. size \in Nat /\ fifo_len \in Nat /\ RecSize \in {1, 2}
      BY RecNumbers
    <2> QED
      BY <1>1, <1>2, <1>3, <2>1 DEF fifo_avail
  <1>5. TypeOK'
    BY <1>1, <1>3, <1>4 DEF RecInv, RingInv, TypeOK, fifo, owner, reader
  <1>6. SerInv' /\ DataInv' /\ ReadInv'
    BY <1>1 DEF RecInv, RingInv, SerInv, DataInv, ReadInv, Slot, fifo_len, fifo, owner, reader
  <1>7. SpaceInv'
    <2>1. fifo_len' = fifo_len /\ size' = size
      BY <1>1 DEF fifo_len, fifo
    <2> QED
      BY <1>1, <1>4, <2>1 DEF SpaceInv
  <1>8. WriteInv'
    BY <1>1 DEF WriteInv
  <1>9. RingInv'
    BY <1>5, <1>6, <1>7, <1>8 DEF RingInv
  <1>10. RecTypeOK' /\ LengthInv'
    BY <1>1 DEF RecInv, RecTypeOK, LengthInv, fifo, reader, ghosts
  <1>11. PokeInv'
    BY <1>1, <1>2, <1>3 DEF PokeInv
  <1>12. ~stale' => Laid(buffer', recs', in', out')
    BY <1>1 DEF RecInv, fifo, ghosts
  <1> QED
    BY <1>9, <1>10, <1>11, <1>12, RecParts

\* The data go beside the contents, behind the room for the length field.
LEMMA CopyInInv ==
  ASSUME RecInv, InFirst \/ InRest, UNCHANGED ghosts
  PROVE  RecInv'
  <1> DEFINE e == ToEnd(in + woff, Len(wdata))
  <1>1. /\ wpc \in {"first", "rest"} /\ UNCHANGED <<size, in, out, owner, wdata, woff, reader>>
        /\ wpc' = IF wpc = "first" THEN "rest" ELSE IF woff = 0 THEN "publish" ELSE "poke"
        /\ \/ buffer' = Store(in + woff, wdata, 1, e)
           \/ buffer' = Store(in + woff, wdata, e + 1, Len(wdata))
    BY DEF InFirst, InRest
  <1>2. RingInv'
    BY WriteSteps DEF RecInv, Write
  <1>3. woff = RecSize /\ RecSize # 0
    BY <1>1, FieldFacts DEF RecInv, PokeInv
  <1>4. RecTypeOK' /\ LengthInv'
    BY <1>1 DEF RecInv, RecTypeOK, LengthInv, reader, ghosts
  <1>5. PokeInv'
    BY <1>1, <1>3 DEF RecInv, PokeInv
  <1>6. e \in Nat /\ e <= Len(wdata) /\ e + 1 \in Nat /\ 1 <= e + 1
    <2> DEFINE i == in + woff
               n == Len(wdata)
    <2>1. i \in Int /\ n \in Nat /\ TypeOK
      BY RecNumbers
    <2> HIDE DEF i, n
    <2>2. ToEnd(i, n) \in 0 .. n
      BY <2>1, ToEndFacts
    <2>3. ToEnd(i, n) \in Nat /\ ToEnd(i, n) <= n /\ ToEnd(i, n) + 1 \in Nat
          /\ 1 <= ToEnd(i, n) + 1
      BY <2>1, <2>2
    <2> QED
      BY <2>3 DEF i, n
  <1> HIDE DEF e
  <1>7. \A j \in Nat : j < fifo_len => buffer'[Slot(out + j)] = buffer[Slot(out + j)]
    <2>1. TypeOK /\ SpaceInv /\ Len(wdata) \in Nat /\ Len(wdata) <= Len(wdata) /\ 1 \in Nat /\ 1 <= 1
      BY RecNumbers
    <2> QED
      BY <1>1, <1>6, <2>1, StoreKeepsContents
  <1>8. ~stale' => Laid(buffer', recs', in', out')
    BY <1>1, <1>7, KeptLaid DEF ghosts
  <1> QED
    BY <1>2, <1>4, <1>5, <1>8, RecParts

\* The length field goes between the contents and the data.
LEMMA PokeInvStep ==
  ASSUME RecInv, Poke
  PROVE  RecInv'
  <1> DEFINE H == Header(Len(wdata))
             b == Store(in, H, 1, RecSize)
  <1>1. /\ wpc = "poke" /\ wpc' = "publish" /\ buffer' = b
        /\ UNCHANGED <<size, in, out, owner, wdata, woff, reader, ghosts>>
    BY DEF Poke
  <1>2. /\ TypeOK /\ SpaceInv /\ size \in Pow2 /\ size \in Nat
        /\ RecSize \in Nat /\ in \in 0 .. Word - 1 /\ out \in 0 .. Word - 1
        /\ Word \in Nat \ {0} /\ fifo_len = Dist(in, out)
        /\ fifo_len \in Nat /\ Len(wdata) \in Nat /\ woff = RecSize
        /\ fifo_len + RecSize + Len(wdata) <= size
    <2>1. woff = RecSize
      BY <1>1 DEF RecInv, PokeInv
    <2> QED
      BY <2>1, RecNumbers
  <1>3. H \in Seq(Bytes) /\ Len(H) = RecSize
    BY <1>2, HeaderFacts
  <1> HIDE DEF H
  <1>4. /\ b \in [0 .. size - 1 -> Bytes]
        /\ \A k \in 1 .. RecSize : b[Slot(in + k - 1)] = H[k]
        /\ \A x \in 0 .. size - 1 :
             (\A k \in 1 .. RecSize : Slot(in + k - 1) # x) => b[x] = buffer[x]
    <2>1. /\ in \in Int /\ 1 \in Nat /\ 1 <= 1 /\ RecSize \in Nat /\ RecSize <= Len(H)
          /\ RecSize < 1 + size /\ H \in Seq(Bytes) /\ TypeOK
      BY <1>2, <1>3
    <2>2. /\ Store(in, H, 1, RecSize) \in [0 .. size - 1 -> Bytes]
          /\ \A k \in 1 .. RecSize : Store(in, H, 1, RecSize)[Slot(in + k - 1)] = H[k]
          /\ \A x \in 0 .. size - 1 :
               (\A k \in 1 .. RecSize : Slot(in + k - 1) # x) =>
                 Store(in, H, 1, RecSize)[x] = buffer[x]
      BY <2>1, StoreFacts, Zenon
    <2> QED
      BY <2>2
  <1> HIDE DEF b
  <1>5. \A j \in Int : Slot(in + j) \in 0 .. size - 1 /\ Slot(out + j) \in 0 .. size - 1
    <2>1. \A j \in Int : in + j \in Int /\ out + j \in Int
      BY <1>2
    <2> QED
      BY <1>2, <2>1, SlotFacts DEF Slot
  <1>6. ASSUME NEW j \in Nat, j < fifo_len PROVE b[Slot(out + j)] = buffer[Slot(out + j)]
    <2>1. ASSUME NEW k \in 1 .. RecSize PROVE Slot(in + k - 1) # Slot(out + j)
      <3> DEFINE d == k - 1
      <3>1. d \in Int /\ in + k - 1 = in + d /\ d < RecSize /\ 0 <= d
        BY <1>2
      <3> HIDE DEF d
      <3>2. Slot(in + d) = Slot(out + (fifo_len + d))
        BY <1>2, <3>1, InSlot
      <3>3. /\ out + j \in Int /\ out + (fifo_len + d) \in Int
            /\ out + j < out + (fifo_len + d)
            /\ out + (fifo_len + d) < (out + j) + size
        BY <1>2, <1>6, <3>1
      <3>4. Slot(out + j) # Slot(out + (fifo_len + d))
        BY <1>2, <3>3, SlotFacts DEF Slot
      <3> QED
        BY <3>1, <3>2, <3>4
    <2>2. Slot(out + j) \in 0 .. size - 1
      BY <1>5
    <2> QED
      BY <1>4, <2>1, <2>2
  <1>7. ASSUME NEW k \in 1 .. Len(wdata) PROVE b[Slot(in + woff + k - 1)] = wdata[k]
    <2> DEFINE d == RecSize + k - 1
    <2>1. d \in Int /\ in + woff + k - 1 = in + d /\ RecSize <= d /\ d < RecSize + Len(wdata)
      BY <1>2
    <2>2. buffer[Slot(in + woff + k - 1)] = wdata[k]
      BY <1>1 DEF RecInv, RingInv, WriteInv
    <2> HIDE DEF d
    <2>3. ASSUME NEW m \in 1 .. RecSize PROVE Slot(in + m - 1) # Slot(in + d)
      <3>1. /\ in + m - 1 \in Int /\ in + d \in Int /\ in + m - 1 < in + d
            /\ in + d < (in + m - 1) + size
        BY <1>2, <2>1
      <3> QED
        BY <1>2, <3>1, SlotFacts DEF Slot
    <2>4. Slot(in + d) \in 0 .. size - 1
      BY <1>5, <2>1
    <2>5. b[Slot(in + d)] = buffer[Slot(in + d)]
      BY <1>4, <2>3, <2>4
    <2> QED
      BY <2>1, <2>2, <2>5
  <1>8. TypeOK'
    BY <1>1, <1>4 DEF RecInv, RingInv, TypeOK, owner, reader
  <1>9. SerInv' /\ DataInv' /\ SpaceInv'
    BY <1>1 DEF RecInv, RingInv, SerInv, DataInv, SpaceInv, fifo_len, owner, reader
  <1>10. ReadInv'
    <2>1. DataInv /\ ReadInv
      BY DEF RecInv, RingInv
    <2> QED
      BY <1>1, <1>2, <1>6, <2>1, KeptReadInv
  <1>11. WriteInv'
    BY <1>1, <1>7 DEF WriteInv, Slot
  <1>12. RingInv'
    BY <1>8, <1>9, <1>10, <1>11 DEF RingInv
  <1>13. RecTypeOK' /\ LengthInv'
    BY <1>1 DEF RecInv, RecTypeOK, LengthInv, reader, ghosts
  <1>14. PokeInv'
    BY <1>1, <1>2, <1>4 DEF RecInv, PokeInv, Slot, H
  <1>15. ~stale' => Laid(buffer', recs', in', out')
    BY <1>1, <1>6, KeptLaid DEF ghosts
  <1> QED
    BY <1>12, <1>13, <1>14, <1>15, RecParts

\* Publishing the in index makes the bytes of the record, length field and data,
\* part of the contents.
LEMMA PublishInv ==
  ASSUME RecInv, Publish
  PROVE  RecInv'
  <1> DEFINE r == [at |-> in, data |-> wdata]
  <1>1. /\ InPublish /\ wpc = "publish" /\ wpc' = "idle" /\ wdata' = <<>> /\ woff' = 0
        /\ recs' = (IF stale THEN recs ELSE Append(recs, r))
        /\ UNCHANGED <<size, buffer, out, owner, reader, early, stale>>
    BY DEF Publish, InPublish
  <1>2. RingInv'
    BY <1>1, WriteSteps DEF RecInv, Write
  <1>3. /\ RingInv /\ size = Capacity /\ size \in Nat /\ size < Word
        /\ RecSize \in Nat /\ in \in 0 .. Word - 1 /\ out \in 0 .. Word - 1
        /\ fifo_len = Dist(in, out) /\ Word \in Nat \ {0}
        /\ fifo_len \in Nat /\ Len(wdata) \in Nat /\ wdata \in Seq(Bytes)
        /\ recs \in Seq(Records) /\ woff = RecSize
        /\ fifo_len + RecSize + Len(wdata) <= size /\ Len(wdata) < Lengths
    <2>1. woff = RecSize /\ Len(wdata) < Lengths
      BY <1>1 DEF RecInv, PokeInv
    <2> QED
      BY <2>1, RecNumbers
  <1>4. r \in Records /\ r.at = in /\ r.data = wdata
    BY <1>3 DEF Records
  <1>5. Stored(buffer, r)
    <2>1. \A k \in 1 .. RecSize : buffer[Slot(in + k - 1)] = Header(Len(wdata))[k]
      BY <1>1 DEF RecInv, PokeInv
    <2>2. \A k \in 1 .. Len(wdata) : buffer[Slot(in + woff + k - 1)] = wdata[k]
      BY <1>1 DEF RecInv, RingInv, WriteInv
    <2> QED
      BY <1>3, <2>1, <2>2 DEF Stored, Slot
  <1> HIDE DEF r
  <1>6. /\ Append(recs, r) \in Seq(Records) /\ Append(recs, r) # <<>>
        /\ recs # <<>> => Append(recs, r)[1] = recs[1]
    <2>1. recs # <<>> => 1 \in 1 .. Len(recs)
      BY <1>3, EmptySeq
    <2> QED
      BY <1>3, <1>4, <2>1, AppendProperties
  <1>7. RecTypeOK'
    BY <1>1, <1>3, <1>6 DEF RecInv, RecTypeOK
  <1>8. LengthInv'
    <2>1. stale' = stale /\ rpc' = rpc /\ roff' = roff /\ rlen' = rlen /\ early' = early
      BY <1>1 DEF reader
    <2>2. ~stale /\ recs # <<>> => recs' # <<>> /\ recs'[1] = recs[1]
      BY <1>1, <1>6
    <2> QED
      BY <2>1, <2>2 DEF RecInv, LengthInv
  <1>9. PokeInv'
    <2>1. 0 < Lengths /\ Len(<<>>) = 0
      BY FieldFacts
    <2> QED
      BY <1>1, <2>1 DEF PokeInv
  <1>10. ASSUME ~stale' PROVE Laid(buffer', recs', in', out')
    <2>1. ~stale /\ recs' = Append(recs, r) /\ Laid(buffer, recs, in, out)
      BY <1>1, <1>10 DEF RecInv
    <2>2. in' \in 0 .. Word - 1 /\ fifo_len' = fifo_len + (Len(wdata) + woff)
      BY <1>1, <1>3, PublishFacts
    <2>3. fifo_len' = Dist(in', out)
      BY <1>1 DEF fifo_len, Dist
    <2> DEFINE h == in'
    <2>4. h \in 0 .. Word - 1 /\ Dist(h, out) = Dist(in, out) + RecSize + Len(r.data)
      BY <1>3, <1>4, <2>2, <2>3
    <2>5. Dist(in, out) + RecSize + Len(r.data) < Word /\ Len(r.data) < Lengths
      BY <1>3, <1>4
    <2> HIDE DEF h
    <2>6. Laid(buffer, Append(recs, r), h, out)
      BY <1>3, <1>4, <1>5, <2>1, <2>4, <2>5, LaidAppend
    <2> QED
      BY <1>1, <2>1, <2>6 DEF h
  <1> QED
    BY <1>2, <1>7, <1>8, <1>9, <1>10, RecParts

\* A step of the reader that leaves the fifo alone.
LEMMA ReaderInv ==
  ASSUME RecInv, RingInv', LengthInv', UNCHANGED <<fifo, owner, writer, recs>>,
         early' \in BOOLEAN, stale' \in BOOLEAN, stale => stale'
  PROVE  RecInv'
  <1>1. RecTypeOK'
    BY DEF RecInv, RecTypeOK, fifo
  <1>2. PokeInv'
    BY DEF RecInv, PokeInv, fifo, writer, Slot
  <1>3. ~stale' => Laid(buffer', recs', in', out')
    BY DEF RecInv, fifo
  <1> QED
    BY <1>1, <1>2, <1>3, RecParts

\* The bytes of the length field are bytes.
LEMMA PeekedBytes ==
  ASSUME RecInv
  PROVE  buffer[Slot(out)] \in Nat /\ PeekN \in Nat
  <1>1. /\ size \in Pow2 /\ out \in Int /\ out + 1 \in Int /\ rlen \in Nat
    BY RecNumbers
  <1>2. Slot(out) \in 0 .. size - 1 /\ Slot(out + 1) \in 0 .. size - 1
    BY <1>1, SlotFacts DEF Slot
  <1>3. buffer[Slot(out)] \in Bytes /\ buffer[Slot(out + 1)] \in Bytes
    BY <1>2 DEF RecInv, RingInv, TypeOK
  <1>4. Base \in Nat \ {0} /\ Bytes = 0 .. Base - 1
    BY RecAssumption
  <1>5. buffer[Slot(out)] \in Nat /\ buffer[Slot(out + 1)] \in Nat
    BY <1>3, <1>4
  <1>6. Base * buffer[Slot(out + 1)] \in Nat
    BY <1>4, <1>5
  <1> QED
    BY <1>1, <1>5, <1>6 DEF PeekN

\* A byte read from a fifo that is not empty is of the first record's length.
LEMMA PeekLowInv ==
  ASSUME RecInv, NEW next \in {"len", "slen"}, PeekLow(next)
  PROVE  RecInv'
  <1>1. /\ rlen' = buffer[Slot(out)] /\ roff' = RecSize /\ rpc' = next
        /\ UNCHANGED <<fifo, owner, writer, rdata, to, recs, stale>>
    BY DEF PeekLow
  <1>2. (early' <=> in = out) /\ early' \in BOOLEAN
    BY DEF PeekLow
  <1>3. RingInv'
    <2>1. rdata' \in Seq(Bytes) /\ to' \in Seq(Bytes) /\ rlen' \in Nat /\ roff' \in Nat
      BY <1>1, PeekedBytes, FieldFacts DEF RecInv, RingInv, TypeOK
    <2>2. DataInv' /\ ReadInv'
      BY <1>1 DEF DataInv, ReadInv
    <2> QED
      BY <1>1, <2>1, <2>2, ReaderRing DEF RecInv
  <1>4. ASSUME ~stale, in # out
        PROVE  recs # <<>> /\ buffer[Slot(out)] = Header(Len(recs[1].data))[1]
    <2>1. Laid(buffer, recs, in, out) /\ RecTypeOK
      BY <1>4 DEF RecInv
    <2>2. recs # <<>>
      BY <1>4, <2>1 DEF Laid, Tiled
    <2>3. in \in 0 .. Word - 1 /\ out \in 0 .. Word - 1
      BY RecNumbers
    <2> QED
      BY <2>1, <2>2, <2>3, PeekedLength
  <1>5. LengthInv'
    BY <1>1, <1>2, <1>4 DEF LengthInv, Header
  <1>6. stale' \in BOOLEAN /\ (stale => stale')
    BY <1>1 DEF RecInv, RecTypeOK
  <1> QED
    BY <1>1, <1>2, <1>3, <1>5, <1>6, ReaderInv

\* With the second byte the length is that of the first record, if the first byte
\* was of it: the writer does not touch the length field of a record that is there.
LEMMA PeekHighInv ==
  ASSUME RecInv,
         \/ PeekHigh("len", "test")
         \/ PeekHigh("slen", "stest")
  PROVE  RecInv'
  <1>1. /\ rpc \in {"len", "slen"} /\ rpc' \in {"test", "stest"} /\ rlen' = PeekN
        /\ UNCHANGED <<fifo, owner, writer, roff, rdata, to, recs, early, stale>>
    BY DEF PeekHigh, ghosts
  <1>2. RingInv'
    <2>1. rdata' \in Seq(Bytes) /\ to' \in Seq(Bytes) /\ rlen' \in Nat /\ roff' \in Nat
      BY <1>1, PeekedBytes DEF RecInv, RingInv, TypeOK
    <2>2. DataInv' /\ ReadInv'
      BY <1>1 DEF DataInv, ReadInv
    <2> QED
      BY <1>1, <2>1, <2>2, ReaderRing DEF RecInv
  <1>3. ASSUME ~stale, ~early PROVE recs # <<>> /\ PeekN = Len(recs[1].data)
    <2>1. Laid(buffer, recs, in, out) /\ RecTypeOK
      BY <1>3 DEF RecInv
    <2>2. recs # <<>> /\ rlen = Header(Len(recs[1].data))[1]
      BY <1>1, <1>3 DEF RecInv, LengthInv
    <2>3. in \in 0 .. Word - 1 /\ out \in 0 .. Word - 1
      BY RecNumbers
    <2> QED
      BY <2>1, <2>2, <2>3, PeekedLength
  <1>4. roff = RecSize
    BY <1>1 DEF RecInv, LengthInv
  <1>5. LengthInv'
    BY <1>1, <1>3, <1>4 DEF LengthInv
  <1>6. early' \in BOOLEAN /\ stale' \in BOOLEAN /\ (stale => stale')
    BY <1>1 DEF RecInv, RecTypeOK
  <1> QED
    BY <1>1, <1>2, <1>5, <1>6, ReaderInv

\* A call that gives up.
LEMMA GiveUpInv ==
  ASSUME RecInv, GiveUp, UNCHANGED <<fifo, owner, writer, rdata, to>>
  PROVE  RecInv'
  <1>1. /\ rpc' = "idle" /\ rlen' = 0 /\ roff' = 0 /\ early' = FALSE
        /\ UNCHANGED <<recs, stale>>
    BY DEF GiveUp
  <1>2. rdata' \in Seq(Bytes) /\ to' \in Seq(Bytes) /\ stale \in BOOLEAN
    BY DEF RecInv, RingInv, TypeOK, RecTypeOK
  <1>3. DataInv' /\ ReadInv' /\ LengthInv'
    BY <1>1 DEF DataInv, ReadInv, LengthInv
  <1>4. RingInv'
    BY <1>1, <1>2, <1>3, ReaderRing DEF RecInv
  <1> QED
    BY <1>1, <1>2, <1>3, <1>4, ReaderInv

\* What the use of a length says about it.
LEMMA UseFacts ==
  ASSUME RecInv, Use, rpc \in {"test", "stest"}
  PROVE  /\ early' = FALSE /\ stale' \in BOOLEAN /\ (stale => stale')
         /\ ~stale' => recs # <<>> /\ rlen = Len(recs[1].data)
  <1>1. /\ early' = FALSE
        /\ stale' = (stale \/ (early /\ (recs = <<>> \/ rlen # Len(recs[1].data))))
    BY DEF Use
  <1>2. ~stale => early \/ (recs # <<>> /\ rlen = Len(recs[1].data))
    BY DEF RecInv, LengthInv
  <1>3. stale \in BOOLEAN /\ early \in BOOLEAN
    BY DEF RecInv, RecTypeOK
  <1>4. stale' \in BOOLEAN /\ (stale => stale')
    BY <1>1, <1>3, Zenon
  <1>5. ~stale' => recs # <<>> /\ rlen = Len(recs[1].data)
    BY <1>1, <1>2, Zenon
  <1> QED
    BY <1>1, <1>4, <1>5

\* A call that gives up, or goes on to copy what the fifo holds.
LEMMA OutTestInv ==
  ASSUME RecInv, OutTest
  PROVE  RecInv'
  <1>1. rpc = "test" /\ UNCHANGED <<fifo, owner, writer, rdata, to>>
    BY DEF OutTest
  <1>2. rdata' \in Seq(Bytes) /\ to' \in Seq(Bytes) /\ stale \in BOOLEAN
    BY <1>1 DEF RecInv, RingInv, TypeOK, RecTypeOK
  <1>3. fifo_len' = fifo_len
    BY <1>1 DEF fifo, fifo_len
  <1>4. CASE GiveUp
    BY <1>1, <1>4, GiveUpInv
  <1>5. CASE fifo_len >= rlen + roff /\ rpc' = "first" /\ Use /\ UNCHANGED <<rlen, roff, recs>>
    <2>1. /\ early' = FALSE /\ stale' \in BOOLEAN /\ (stale => stale')
          /\ ~stale' => recs # <<>> /\ rlen = Len(recs[1].data)
      BY <1>1, <1>5, UseFacts
    <2>2. roff = RecSize
      BY <1>1 DEF RecInv, LengthInv
    <2>3. LengthInv'
      BY <1>5, <2>1, <2>2 DEF LengthInv
    <2>4. rlen \in Nat /\ roff \in Nat /\ fifo_len \in Nat
      BY RecNumbers
    <2>5. DataInv' /\ ReadInv'
      BY <1>3, <1>5, <2>4 DEF DataInv, ReadInv
    <2>6. RingInv'
      BY <1>1, <1>2, <1>5, <2>4, <2>5, ReaderRing DEF RecInv
    <2>7. early' \in BOOLEAN
      BY <2>1
    <2> QED
      BY <1>1, <1>5, <2>1, <2>3, <2>6, <2>7, ReaderInv
  <1> QED
    BY <1>4, <1>5 DEF OutTest

\* The copies of the reader.
LEMMA CopyOutInv ==
  ASSUME RecInv, OutFirst \/ OutRest, UNCHANGED ghosts
  PROVE  RecInv'
  <1>1. /\ UNCHANGED <<fifo, owner, writer, rlen, roff, recs, early, stale>>
        /\ rpc \in {"first", "rest"} /\ rpc' \in {"rest", "publish"}
    BY DEF OutFirst, OutRest, ghosts, RecInv, LengthInv
  <1>2. RingInv'
    BY ReadSteps DEF RecInv, Read
  <1>3. LengthInv'
    BY <1>1 DEF RecInv, LengthInv
  <1>4. early' \in BOOLEAN /\ stale' \in BOOLEAN /\ (stale => stale')
    BY <1>1 DEF RecInv, RecTypeOK
  <1> QED
    BY <1>1, <1>2, <1>3, <1>4, ReaderInv

\* The reader advances the out index by a length that it holds to be that of the
\* first record.
LEMMA DropInv ==
  ASSUME RecInv, RingInv', rpc' \in {"idle", "reset"}, early' \in BOOLEAN, stale' \in BOOLEAN,
         stale => stale', roff = RecSize,
         ~stale' => recs # <<>> /\ rlen = Len(recs[1].data),
         out' = (out + rlen + roff) % Word, DropFirst,
         UNCHANGED <<size, buffer, in, owner, writer>>
  PROVE  RecInv'
  <1>1. recs \in Seq(Records) /\ in \in 0 .. Word - 1 /\ out \in 0 .. Word - 1
        /\ rlen \in Nat /\ RecSize \in Nat /\ Word \in Nat \ {0}
    BY RecNumbers
  <1>2. recs' \in Seq(Records)
    <2>1. recs # <<>> => Tail(recs) \in Seq(Records)
      BY <1>1, HeadTailProperties
    <2>2. <<>> \in Seq(Records)
      BY EmptySeq
    <2> QED
      BY <2>1, <2>2 DEF DropFirst
  <1>3. RecTypeOK'
    BY <1>2 DEF RecInv, RecTypeOK
  <1>4. PokeInv'
    BY DEF RecInv, PokeInv, writer, Slot
  <1>5. LengthInv'
    BY DEF LengthInv
  <1>6. ASSUME ~stale' PROVE Laid(buffer', recs', in', out')
    <2>1. recs # <<>> /\ rlen = Len(recs[1].data) /\ recs' = Tail(recs)
      BY <1>6 DEF DropFirst
    <2>2. Laid(buffer, recs, in, out)
      BY <1>6 DEF RecInv
    <2>3. Laid(buffer, Tail(recs), in, (out + (RecSize + Len(recs[1].data))) % Word)
      BY <1>1, <2>1, <2>2, LaidDrop
    <2>4. out + rlen + roff = out + (RecSize + rlen)
      BY <1>1
    <2> QED
      BY <2>1, <2>3, <2>4
  <1> QED
    BY <1>3, <1>4, <1>5, <1>6, RecParts

\* fifo_out_rec ends.
LEMMA OutRecPublishInv ==
  ASSUME RecInv, OutRecPublish
  PROVE  RecInv'
  <1>1. /\ OutPublish /\ rpc = "publish" /\ rpc' = "idle"
        /\ out' = (out + rlen + roff) % Word
        /\ UNCHANGED <<size, buffer, in, owner, writer, early, stale>> /\ DropFirst
    BY DEF OutRecPublish, OutPublish
  <1>2. RingInv'
    BY <1>1, ReadSteps DEF RecInv, Read
  <1>3. /\ roff = RecSize /\ early' \in BOOLEAN /\ stale' \in BOOLEAN
        /\ (stale => stale')
    BY <1>1 DEF RecInv, RecTypeOK, LengthInv
  <1>4. ~stale' => recs # <<>> /\ rlen = Len(recs[1].data)
    BY <1>1 DEF RecInv, LengthInv
  <1> QED
    BY <1>1, <1>2, <1>3, <1>4, DropInv

\* fifo_skip_rec skips a record, or goes on to skip everything.
LEMMA SkipTestInv ==
  ASSUME RecInv, SkipTest
  PROVE  RecInv'
  <1>1. /\ rpc = "stest" /\ rlen' = 0 /\ roff' = 0
        /\ UNCHANGED <<size, buffer, in, owner, writer, rdata, to>>
    BY DEF SkipTest
  <1>2. rdata' \in Seq(Bytes) /\ to' \in Seq(Bytes) /\ roff = RecSize
    BY <1>1 DEF RecInv, RingInv, TypeOK, LengthInv
  <1>3. CASE /\ rlen + roff <= fifo_len /\ out' = (out + rlen + roff) % Word
             /\ rpc' = "idle" /\ Use /\ DropFirst
    <2>1. /\ early' = FALSE /\ stale' \in BOOLEAN /\ (stale => stale')
          /\ ~stale' => recs # <<>> /\ rlen = Len(recs[1].data)
      BY <1>1, <1>3, UseFacts
    <2> DEFINE n == rlen + roff
    <2>2. n \in Nat /\ n <= fifo_len /\ out + rlen + roff = out + n /\ RingInv
      <3>1. rlen \in Nat /\ roff \in Nat /\ out \in 0 .. Word - 1 /\ RingInv /\ Word \in Nat
        BY RecNumbers
      <3> QED
        BY <1>3, <3>1
    <2>3. out' = (out + n) % Word
      BY <1>3, <2>2
    <2> HIDE DEF n
    <2>4. RingInv'
      BY <1>1, <1>2, <1>3, <2>2, <2>3, AdvanceOut
    <2>5. early' \in BOOLEAN
      BY <2>1
    <2> QED
      BY <1>1, <1>2, <1>3, <2>1, <2>4, <2>5, DropInv
  <1>4. CASE rpc' = "reset" /\ early' = FALSE /\ UNCHANGED <<out, recs, stale>>
    <2>1. UNCHANGED <<fifo, owner, writer>>
      BY <1>1, <1>4 DEF fifo
    <2>2. DataInv' /\ ReadInv' /\ LengthInv'
      BY <1>1, <1>4 DEF DataInv, ReadInv, LengthInv
    <2>3. RingInv'
      BY <1>1, <1>2, <1>4, <2>1, <2>2, ReaderRing DEF RecInv
    <2>4. early' \in BOOLEAN /\ stale' \in BOOLEAN /\ (stale => stale')
      BY <1>4 DEF RecInv, RecTypeOK
    <2> QED
      BY <1>4, <2>1, <2>2, <2>3, <2>4, ReaderInv
  <1> QED
    BY <1>3, <1>4 DEF SkipTest

\* fifo_skip_rec empties the fifo.
LEMMA SkipAllInv ==
  ASSUME RecInv, SkipAllRec
  PROVE  RecInv'
  <1>1. /\ SkipAll /\ recs' = <<>> /\ out' = in /\ rpc' = "idle"
        /\ UNCHANGED <<size, buffer, in, owner, writer, early, stale>>
    BY DEF SkipAllRec, SkipAll
  <1>2. RingInv'
    BY <1>1, ReadSteps DEF RecInv, Read
  <1>3. RecTypeOK'
    BY <1>1, EmptySeq DEF RecInv, RecTypeOK
  <1>4. PokeInv' /\ LengthInv'
    BY <1>1 DEF RecInv, PokeInv, LengthInv, writer, Slot
  <1>5. Laid(buffer', recs', in', out')
    BY <1>1, LaidEmpty
  <1> QED
    BY <1>2, <1>3, <1>4, <1>5, RecParts

\* A fifo from fifo_alloc holds no record.
LEMMA RecInitInv == RecInit => RecInv
  <1> SUFFICES ASSUME RecInit PROVE RecInv
    OBVIOUS
  <1>1. /\ Capacity \in Pow2 /\ Capacity \in Nat \ {0} /\ Word \in Nat \ {0} /\ 0 < Lengths
    BY FieldFacts
  <1>2. /\ 0 \in 0 .. Word - 1 /\ Dist(0, 0) = 0 /\ <<>> \in Seq(Bytes) /\ <<>> \in Seq(Records)
        /\ Len(<<>>) = 0 /\ <<>> \in [0 .. 0 - 1 -> Bytes]
    BY <1>1, DistFacts, EmptySeq
  <1>3. TypeOK
    BY <1>1, <1>2 DEF RecInit, TypeOK
  <1>4. SerInv
    <2>1. /\ ser.size = 0 /\ ser.in = 0 /\ ser.out = 0 /\ ser.buffer = <<>>
      BY DEF RecInit, EmptyBuffer
    <2> QED
      BY <1>2, <2>1 DEF SerInv, Dist
  <1>5. SpaceInv
    <2>1. fifo_len = 0
      BY <1>2 DEF RecInit, fifo_len, Dist
    <2> QED
      BY <1>1, <1>2, <2>1 DEF RecInit, SpaceInv
  <1>6. DataInv /\ WriteInv /\ ReadInv
    BY DEF RecInit, DataInv, WriteInv, ReadInv
  <1>7. RecTypeOK /\ PokeInv /\ LengthInv
    BY <1>1, <1>2 DEF RecInit, RecTypeOK, PokeInv, LengthInv
  <1>8. Laid(buffer, recs, in, out)
    BY LaidEmpty DEF RecInit
  <1> QED
    BY <1>3, <1>4, <1>5, <1>6, <1>7, <1>8 DEF RecInv, RingInv

\* The invariant of a fifo of records.
LEMMA RecInvariant == RecSpec => []RecInv
  <1>1. RecInv /\ [RecNext]_recvars => RecInv'
    <2> SUFFICES ASSUME RecInv, [RecNext]_recvars PROVE RecInv'
      OBVIOUS
    <2>1. CASE UNCHANGED recvars
      <3>1. UNCHANGED <<fifo, owner, writer, reader, recs, early, stale>>
        BY <2>1 DEF recvars, vars, ghosts
      <3>2. RingInv'
        BY <3>1 DEF RecInv, RingInv, TypeOK, SerInv, SpaceInv, DataInv, WriteInv, ReadInv,
                    fifo_len, Slot, ToEnd, fifo, owner, writer, reader
      <3>3. LengthInv'
        BY <3>1 DEF RecInv, LengthInv, reader
      <3>4. early' \in BOOLEAN /\ stale' \in BOOLEAN /\ (stale => stale')
        BY <3>1 DEF RecInv, RecTypeOK
      <3> QED
        BY <3>1, <3>2, <3>3, <3>4, ReaderInv
    <2>2. CASE OutRec \/ SkipRec
      BY <2>2, PeekLowInv DEF OutRec, SkipRec
    <2>3. ASSUME NEW n \in 0 .. MaxLen, OutFits(n) \/ OutTooLong(n) PROVE RecInv'
      BY <2>3, PeekHighInv, GiveUpInv DEF OutFits, OutTooLong
    <2>4. CASE SkipPeek
      BY <2>4, PeekHighInv DEF SkipPeek
    <2> QED
      BY <2>1, <2>2, <2>3, <2>4, InRecInv, CopyInInv, PokeInvStep, PublishInv, OutTestInv, CopyOutInv,
         OutRecPublishInv, SkipTestInv, SkipAllInv DEF RecNext
  <1> QED
    BY <1>1, RecInitInv, PTL DEF RecSpec

\* Whatever the reader takes for a length, one read from an empty fifo included,
\* neither index overtakes the other and no call leaves the space or the data
\* that it saw.
THEOREM RecordsKeepRing == RecSpec => []RingInv
  <1>1. RecInv => RingInv
    BY DEF RecInv
  <1> QED
    BY <1>1, RecInvariant, PTL

\* As long as no wrong length read from an empty fifo was used, the fifo holds the
\* records put and not yet taken, one behind the other, and fifo_out_rec returns
\* the oldest one whole, for every width of the indices and either length field.
THEOREM RecordsWhole == RecSpec => []Layout
  <1>1. RecInv => Layout
    <2> SUFFICES ASSUME RecInv, ~stale PROVE Layout
      BY DEF Layout
    <2>1. Laid(buffer, recs, in, out)
      BY DEF RecInv
    <2>2. ASSUME rpc = "publish" PROVE recs # <<>> /\ rdata = recs[1].data
      <3> DEFINE r == recs[1]
      <3>1. recs # <<>> /\ rlen = Len(r.data) /\ roff = RecSize
        BY <2>2 DEF RecInv, LengthInv
      <3>2. r \in Records /\ r.at = out /\ Stored(buffer, r)
        <4>1. recs \in Seq(Records) /\ in \in 0 .. Word - 1 /\ out \in 0 .. Word - 1
          BY RecNumbers
        <4> QED
          BY <2>1, <3>1, <4>1, FirstRecord
      <3> HIDE DEF r
      <3>3. r.data \in Seq(Bytes)
        BY <3>2 DEF Records
      <3>4. /\ rdata \in Seq(Bytes) /\ size = Capacity
            /\ Len(rdata) = rlen
            /\ \A k \in 1 .. Len(rdata) : rdata[k] = buffer[Slot(out + roff + k - 1)]
        BY <2>2 DEF RecInv, RingInv, RecTypeOK, TypeOK, ReadInv
      <3>5. \A k \in 1 .. Len(rdata) : rdata[k] = r.data[k]
        BY <3>1, <3>2, <3>4 DEF Stored, Slot
      <3>6. rdata = r.data
        BY <3>1, <3>3, <3>4, <3>5, SeqEqual
      <3> QED
        BY <3>1, <3>6 DEF r
    <2> QED
      BY <2>1, <2>2 DEF Layout, RecordIntact, Laid
  <1> QED
    BY <1>1, RecInvariant, PTL
=============================================================================
