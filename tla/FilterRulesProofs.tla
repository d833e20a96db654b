-------------------------- MODULE FilterRulesProofs --------------------------
(***************************************************************************)
(* Lemmas about the operators of FilterRules, for octets of any width and  *)
(* addresses of any length: the numbers that masks and octets make, the    *)
(* bits that decide about a subnet, the path in a blob, and the conditions *)
(* of a rule.                                                              *)
(*                                                                         *)
(* What is true of every number is shown by induction stated for a set in  *)
(* place of a predicate: a proof defines the set of the numbers that what  *)
(* it shows holds for, and finds that all numbers are in it.               *)
(***************************************************************************)
EXTENDS FilterRules, FiniteSetTheorems, SequenceTheorems, WellFoundedInduction, TLAPS

----------------------------------------------------------------------------
(* A non-empty set of numbers has a least element.                         *)
LEMMA Least ==
  ASSUME NEW T, T \subseteq Nat, T # {}
  PROVE  \E m \in T : \A n \in T : m <= n
  <1> DEFINE R == OpToRel(<, Nat)
  <1>1. IsWellFoundedOn(R, Nat)
    BY NatLessThanWellFounded, Zenon
  <1>2. \A x, y \in Nat : x < y => <<x, y>> \in R
    BY DEF OpToRel
  <1> HIDE DEF R
  <1>3. PICK m \in T : \A n \in T : ~(<<n, m>> \in R)
    BY <1>1, WFMin, Zenon
  <1>4. ASSUME NEW n \in T PROVE m <= n
    <2>1. m \in Nat /\ n \in Nat /\ ~(n < m)
      BY <1>2, <1>3
    <2> QED BY <2>1
  <1> QED BY <1>4

(* A set that holds 0 and with every number the next holds all of them.    *)
LEMMA Induction ==
  ASSUME NEW S, 0 \in S, \A n \in Nat : n \in S => n + 1 \in S
  PROVE  Nat \subseteq S
  <1> DEFINE T == Nat \ S
  <1> SUFFICES ASSUME T # {} PROVE FALSE
    OBVIOUS
  <1>1. T \subseteq Nat
    OBVIOUS
  <1>2. PICK m \in T : \A n \in T : m <= n
    BY <1>1, Least
  <1>3. m # 0 /\ m - 1 \in Nat
    BY <1>1
  <1>4. m - 1 \in S
    BY <1>2, <1>3
  <1> QED BY <1>2, <1>3, <1>4

----------------------------------------------------------------------------
(* Powers of two, of which the provers know nothing: 2^n is the number of  *)
(* subsets of a set of n elements.                                         *)

(* 2^n counts the sets of numbers up to n.                                 *)
LEMMA PowerCounts ==
  ASSUME NEW n \in Nat
  PROVE  /\ IsFiniteSet(SUBSET (1..n))
         /\ Cardinality(SUBSET (1..n)) = 2^n
  <1>1. IsFiniteSet(1..n) /\ Cardinality(1..n) = n
    BY FS_Interval
  <1> QED BY <1>1, FS_SUBSET

(* A power of two is a positive number.                                    *)
LEMMA PowerType ==
  ASSUME NEW n \in Nat
  PROVE  2^n \in Nat \ {0}
  <1>1. Cardinality(SUBSET (1..n)) \in Nat
    BY PowerCounts, FS_CardinalityType
  <1>2. Cardinality(SUBSET (1..n)) # 0
    <2>1. SUBSET (1..n) # {}
      OBVIOUS
    <2> QED BY <2>1, PowerCounts, FS_EmptySet
  <1> QED BY <1>1, <1>2, PowerCounts

(* The next power is twice as large: of the sets of numbers up to n + 1    *)
(* half have n + 1 as an element.                                          *)
LEMMA PowerNext ==
  ASSUME NEW n \in Nat
  PROVE  2^(n + 1) = 2 * 2^n
  <1> DEFINE X == SUBSET (1..n)
             Y == {T \cup {n + 1} : T \in X}
             f == [T \in X |-> T \cup {n + 1}]
  <1>1. IsFiniteSet(X) /\ Cardinality(X) = 2^n
    BY PowerCounts
  <1>2. SUBSET (1..(n + 1)) = X \cup Y
    <2>1. ASSUME NEW T \in SUBSET (1..(n + 1)) PROVE T \in X \cup Y
      <3>1. CASE n + 1 \in T
        <4>1. T \ {n + 1} \in X
          OBVIOUS
        <4>2. T = (T \ {n + 1}) \cup {n + 1}
          BY <3>1
        <4> QED BY <4>1, <4>2
      <3>2. CASE n + 1 \notin T
        BY <3>2
      <3> QED BY <3>1, <3>2
    <2>2. 1..n \subseteq 1..(n + 1) /\ n + 1 \in 1..(n + 1)
      OBVIOUS
    <2>3. X \cup Y \subseteq SUBSET (1..(n + 1))
      BY <2>2
    <2> QED BY <2>1, <2>3
  <1>3. X \cap Y = {}
    OBVIOUS
  <1>4. f \in Bijection(X, Y)
    <2>1. f \in [X -> Y]
      OBVIOUS
    <2>2. ASSUME NEW S \in X, NEW T \in X, f[S] = f[T] PROVE S = T
      <3>1. S = (S \cup {n + 1}) \ {n + 1} /\ T = (T \cup {n + 1}) \ {n + 1}
        OBVIOUS
      <3> QED BY <2>2, <3>1
    <2>3. ASSUME NEW U \in Y PROVE \E T \in X : f[T] = U
      <3>1. PICK T \in X : U = T \cup {n + 1}
        OBVIOUS
      <3>2. f[T] = U
        BY <3>1
      <3> QED BY <3>2
    <2> HIDE DEF f, X, Y
    <2> QED BY <2>1, <2>2, <2>3 DEF Bijection, Injection, Surjection, IsInjective
  <1> HIDE DEF f, X, Y
  <1>5. IsFiniteSet(Y) /\ Cardinality(Y) = 2^n
    BY <1>1, <1>4, FS_Bijection DEF ExistsBijection
  <1>6. Cardinality(X \cup Y) = Cardinality(X) + Cardinality(Y) - Cardinality(X \cap Y)
    BY <1>1, <1>5, FS_Union
  <1>7. Cardinality(X \cap Y) = 0
    BY <1>3, FS_EmptySet
  <1>8. Cardinality(X \cup Y) = 2^(n + 1)
    <2>1. n + 1 \in Nat
      OBVIOUS
    <2>2. Cardinality(SUBSET (1..(n + 1))) = 2^(n + 1)
      BY <2>1, PowerCounts
    <2> QED BY <1>2, <2>2
  <1>9. 2^n \in Nat
    BY PowerType
  <1> QED BY <1>1, <1>5, <1>6, <1>7, <1>8, <1>9

(* 2^0 is 1.                                                               *)
LEMMA PowerZero == 2^0 = 1
OBVIOUS

(* Powers multiply by adding their exponents.                              *)
LEMMA PowerSum ==
  ASSUME NEW m \in Nat, NEW n \in Nat
  PROVE  2^(m + n) = 2^m * 2^n
  <1> DEFINE S == {k \in Nat : 2^(m + k) = 2^m * 2^k}
  <1>1. 0 \in S
    BY PowerZero, PowerType
  <1>2. ASSUME NEW k \in Nat, k \in S PROVE k + 1 \in S
    <2>1. 2^(m + k) = 2^m * 2^k
      BY <1>2
    <2>2. 2^(m + (k + 1)) = 2 * 2^(m + k)
      <3>1. m + (k + 1) = (m + k) + 1 /\ m + k \in Nat
        OBVIOUS
      <3> QED BY <3>1, PowerNext
    <2>3. 2^(k + 1) = 2 * 2^k
      BY PowerNext
    <2>4. 2^m \in Nat /\ 2^k \in Nat
      BY PowerType
    <2>5. 2 * (2^m * 2^k) = 2^m * (2 * 2^k)
      BY <2>4
    <2> QED BY <2>1, <2>2, <2>3, <2>5
  <1> HIDE DEF S
  <1>3. n \in S
    BY <1>1, <1>2, Induction
  <1> QED BY <1>3 DEF S

----------------------------------------------------------------------------
(* Division.                                                               *)

(* Quotient and remainder, and that no other pair is one.                  *)
LEMMA Division ==
  ASSUME NEW a \in Nat, NEW b \in Nat \ {0}
  PROVE  /\ a \div b \in Nat /\ a % b \in 0..(b - 1)
         /\ a = b * (a \div b) + (a % b)
OBVIOUS

(* Quotient and remainder are unique.                                      *)
LEMMA DivisionUnique ==
  ASSUME NEW b \in Nat \ {0}, NEW q \in Nat, NEW r \in 0..(b - 1)
  PROVE  (b * q + r) \div b = q /\ (b * q + r) % b = r
OBVIOUS

(* Dividing twice.                                                         *)
LEMMA DivisionTwice ==
  ASSUME NEW a \in Nat, NEW b \in Nat \ {0}, NEW c \in Nat \ {0}
  PROVE  (a \div b) \div c = a \div (b * c)
  <1> DEFINE q == a \div b
             p == q \div c
             r == a % b
             s == q % c
  <1>1. q \in Nat /\ r \in 0..(b - 1) /\ a = b * q + r
    BY Division
  <1> HIDE DEF q, r
  <1>2. p \in Nat /\ s \in 0..(c - 1) /\ q = c * p + s
    BY <1>1, Division
  <1> HIDE DEF p, s
  <1>3. b * c \in Nat \ {0}
    OBVIOUS
  <1>4. a = (b * c) * p + (b * s + r)
    <2>1. b * q = b * (c * p) + b * s
      BY <1>2
    <2>2. b * (c * p) = (b * c) * p
      BY <1>2
    <2> QED BY <1>1, <1>2, <2>1, <2>2
  <1>5. b * s + r \in 0..(b * c - 1)
    <2>1. b * s <= b * (c - 1)
      BY <1>2
    <2>2. b * (c - 1) = b * c - b
      OBVIOUS
    <2>3. b * s \in Nat
      BY <1>2
    <2> QED BY <1>1, <1>3, <2>1, <2>2, <2>3
  <1>6. a \div (b * c) = p
    BY <1>2, <1>3, <1>4, <1>5, DivisionUnique
  <1> QED BY <1>6 DEF p, q

(* Powers grow with their exponents.                                       *)
LEMMA PowerMonotonic ==
  ASSUME NEW m \in Nat, NEW n \in Nat, m <= n
  PROVE  2^m <= 2^n
  <1>1. n - m \in Nat /\ m + (n - m) = n
    OBVIOUS
  <1>2. 2^n = 2^m * 2^(n - m)
    BY <1>1, PowerSum
  <1>3. 2^m \in Nat \ {0} /\ 2^(n - m) \in Nat \ {0}
    BY <1>1, PowerType
  <1> DEFINE a == 2^m
             b == 2^(n - m)
  <1>4. a * b >= a
    <2>1. a \in Nat \ {0} /\ b \in Nat \ {0}
      BY <1>3
    <2> HIDE DEF a, b
    <2> QED BY <2>1
  <1> QED BY <1>2, <1>4

----------------------------------------------------------------------------
(* Masks and bits.                                                         *)

(* The bits of an address that a prefix leaves open.                       *)
Low(prefix) == IF prefix >= Width THEN 0 ELSE Width - prefix

(* Addresses have bits.                                                    *)
LEMMA WidthType == Width \in Nat \ {0}
  BY RulesAssumption DEF Width

(* No more bits are open than there are.                                   *)
LEMMA LowType ==
  ASSUME NEW prefix \in Nat
  PROVE  Low(prefix) \in 0..Width
  BY WidthType DEF Low

(* A mask is all ones but the bits left open, for every prefix: none is    *)
(* set for 0, all for the width of an address and whatever is longer.      *)
LEMMA MaskValue ==
  ASSUME NEW prefix \in Nat
  PROVE  prefix_to_v4_mask(prefix) = 2^Width - 2^Low(prefix)
  <1>1. CASE prefix = 0
    <2>1. Low(prefix) = Width /\ 2^Width \in Nat
      BY <1>1, WidthType, PowerType DEF Low
    <2> QED BY <1>1, <2>1 DEF prefix_to_v4_mask
  <1>2. CASE prefix # 0 /\ prefix >= Width
    BY <1>2, PowerZero DEF prefix_to_v4_mask, Ones, Low
  <1>3. CASE prefix # 0 /\ ~(prefix >= Width)
    <2> DEFINE k == Width - prefix
               a == 2^Width
               b == 2^k
    <2>1. k \in Nat /\ k <= Width /\ Width \in Nat /\ Low(prefix) = k
      BY <1>3, WidthType DEF Low
    <2>2. a \in Nat \ {0} /\ b \in Nat \ {0} /\ b <= a
      BY <2>1, PowerType, PowerMonotonic
    <2>3. prefix_to_v4_mask(prefix) = ((a - 1) * b) % a
      BY <1>3 DEF prefix_to_v4_mask, Ones
    <2> HIDE DEF a, b
    <2>4. (a - 1) * b = a * (b - 1) + (a - b)
      BY <2>2
    <2>5. b - 1 \in Nat /\ a - b \in 0..(a - 1)
      BY <2>2
    <2>6. (a * (b - 1) + (a - b)) % a = a - b
      BY <2>2, <2>5, DivisionUnique
    <2>7. prefix_to_v4_mask(prefix) = a - b
      BY <2>3, <2>4, <2>6
    <2> QED BY <2>1, <2>7 DEF a, b
  <1> QED BY <1>1, <1>2, <1>3

(* The bits of a mask that are set are those that are not open.            *)
LEMMA MaskBit ==
  ASSUME NEW low \in 0..Width, NEW i \in 0..(Width - 1)
  PROVE  Bit(2^Width - 2^low, i) = 1 <=> i >= low
  <1>1. Width \in Nat /\ i \in Nat /\ low \in Nat /\ Width - i - 1 \in Nat
    BY WidthType
  <1> DEFINE p == 2^i
             h == 2^(Width - i - 1)
  <1>2. p \in Nat \ {0} /\ h \in Nat \ {0}
    BY <1>1, PowerType
  <1>3. 2^Width = p * (2 * h)
    <2>1. Width - i \in Nat /\ Width = i + (Width - i) /\ Width - i = (Width - i - 1) + 1
      BY <1>1
    <2>2. 2^Width = p * 2^(Width - i)
      BY <1>1, <2>1, PowerSum
    <2>3. 2^(Width - i) = 2 * h
      BY <1>1, <2>1, PowerNext
    <2> QED BY <2>2, <2>3
  <1>4. CASE i >= low
    <2> DEFINE c == 2^low
               d == 2^(i - low)
    <2>1. i - low \in Nat /\ i = low + (i - low)
      BY <1>1, <1>4
    <2>2. c \in Nat \ {0} /\ c <= p
      BY <1>1, <1>4, PowerType, PowerMonotonic
    <2> HIDE DEF p, h, c
    <2>3. p * (2 * h) - c = p * (2 * h - 1) + (p - c)
      BY <1>2, <2>2
    <2>4. 2 * h - 1 \in Nat /\ p - c \in 0..(p - 1)
      BY <1>2, <2>2
    <2>5. (p * (2 * h - 1) + (p - c)) \div p = 2 * h - 1
      BY <1>2, <2>4, DivisionUnique
    <2>6. (2^Width - 2^low) \div 2^i = 2 * h - 1
      BY <1>3, <2>3, <2>5 DEF c, p
    <2>7. (2 * h - 1) % 2 = 1
      BY <1>2
    <2> QED BY <1>4, <2>6, <2>7 DEF Bit
  <1>5. CASE ~(i >= low)
    <2> DEFINE d == 2^(low - i - 1)
    <2>1. low - i - 1 \in Nat /\ low - i \in Nat /\ low = i + (low - i)
          /\ low - i = (low - i - 1) + 1 /\ low - i - 1 <= Width - i - 1
      BY <1>1, <1>5
    <2>2. d \in Nat \ {0} /\ d <= h
      BY <1>1, <2>1, PowerType, PowerMonotonic
    <2>3. 2^low = p * (2 * d)
      <3>1. 2^low = p * 2^(low - i)
        BY <1>1, <2>1, PowerSum
      <3>2. 2^(low - i) = 2 * d
        BY <2>1, PowerNext
      <3> QED BY <3>1, <3>2
    <2> HIDE DEF p, h, d
    <2>4. p * (2 * h) - p * (2 * d) = p * (2 * (h - d)) + 0
      BY <1>2, <2>2
    <2>5. 2 * (h - d) \in Nat /\ 0 \in 0..(p - 1)
      BY <1>2, <2>2
    <2>6. (p * (2 * (h - d)) + 0) \div p = 2 * (h - d)
      BY <1>2, <2>5, DivisionUnique
    <2>7. (2^Width - 2^low) \div 2^i = 2 * (h - d)
      BY <1>3, <2>3, <2>4, <2>6 DEF p
    <2>8. (2 * (h - d)) % 2 = 0
      BY <1>2, <2>2
    <2> QED BY <1>5, <2>7, <2>8 DEF Bit
  <1> QED BY <1>4, <1>5

(* The bits from low on decide about the number that they make.            *)
LEMMA BitsDecide ==
  ASSUME NEW a \in 0..(2^Width - 1), NEW b \in 0..(2^Width - 1), NEW low \in 0..Width
  PROVE  (\A i \in low..(Width - 1) : Bit(a, i) = Bit(b, i)) <=> a \div 2^low = b \div 2^low
  <1>1. Width \in Nat /\ low \in Nat /\ 2^Width \in Nat \ {0} /\ a \in Nat /\ b \in Nat
    BY WidthType, PowerType
  <1>2. ASSUME a \div 2^low = b \div 2^low, NEW i \in low..(Width - 1)
        PROVE  Bit(a, i) = Bit(b, i)
    <2>1. i - low \in Nat /\ i \in Nat /\ i = low + (i - low)
      BY <1>1
    <2>2. 2^low \in Nat \ {0} /\ 2^(i - low) \in Nat \ {0} /\ 2^i = 2^low * 2^(i - low)
      BY <1>1, <2>1, PowerType, PowerSum
    <2> DEFINE x == 2^low
               y == 2^(i - low)
               z == 2^i
    <2> HIDE DEF x, y, z
    <2>3. (a \div x) \div y = a \div z /\ (b \div x) \div y = b \div z
      <3>1. x \in Nat \ {0} /\ y \in Nat \ {0} /\ z = x * y
        BY <2>2 DEF x, y, z
      <3> QED BY <1>1, <3>1, DivisionTwice
    <2> QED BY <1>2, <2>3 DEF Bit, x, y, z
  <1>3. ASSUME \A i \in low..(Width - 1) : Bit(a, i) = Bit(b, i)
        PROVE  a \div 2^low = b \div 2^low
    <2> DEFINE S == {d \in Nat : d <= Width - low =>
                                    a \div 2^(Width - d) = b \div 2^(Width - d)}
    <2>1. 0 \in S
      <3>1. Width - 0 = Width
        BY <1>1
      <3>2. a \div 2^Width = 0 /\ b \div 2^Width = 0
        <4> DEFINE w == 2^Width
        <4>1. w \in Nat \ {0} /\ a \in 0..(w - 1) /\ b \in 0..(w - 1)
          BY <1>1
        <4> HIDE DEF w
        <4>2. a = w * 0 + a /\ b = w * 0 + b
          BY <1>1, <4>1
        <4>3. a \div w = 0 /\ b \div w = 0
          BY <4>1, <4>2, DivisionUnique
        <4> QED BY <4>3 DEF w
      <3> QED BY <3>1, <3>2
    <2>2. ASSUME NEW d \in Nat, d \in S PROVE d + 1 \in S
      <3> SUFFICES ASSUME d + 1 <= Width - low
                   PROVE  a \div 2^(Width - (d + 1)) = b \div 2^(Width - (d + 1))
        OBVIOUS
      <3> DEFINE k == Width - (d + 1)
                 p == a \div 2^k
                 q == b \div 2^k
      <3>1. k \in Nat /\ k \in low..(Width - 1) /\ Width - d = k + 1 /\ d <= Width - low
        BY <1>1
      <3>2. a \div 2^(k + 1) = b \div 2^(k + 1)
        BY <2>2, <3>1
      <3>3. 2^k \in Nat \ {0} /\ 2^(k + 1) = 2^k * 2
        BY <3>1, PowerType, PowerNext
      <3>4. p \div 2 = a \div 2^(k + 1) /\ q \div 2 = b \div 2^(k + 1)
        <4> DEFINE x == 2^k
                   y == 2
                   z == 2^(k + 1)
        <4>1. x \in Nat \ {0} /\ y \in Nat \ {0} /\ z = x * y
          BY <3>3
        <4> HIDE DEF x, y, z, k
        <4>2. (a \div x) \div y = a \div z /\ (b \div x) \div y = b \div z
          BY <1>1, <4>1, DivisionTwice
        <4> QED BY <4>2 DEF x, y, z
      <3>5. p % 2 = q % 2
        BY <1>3, <3>1 DEF Bit
      <3>6. p \in Nat /\ q \in Nat
        BY <1>1, <3>3, Division
      <3> HIDE DEF p, q
      <3>7. p = 2 * (p \div 2) + (p % 2) /\ q = 2 * (q \div 2) + (q % 2)
        BY <3>6
      <3>8. p = q
        BY <3>2, <3>4, <3>5, <3>7
      <3> QED BY <3>8 DEF p, q
    <2> HIDE DEF S
    <2>3. Width - low \in S
      <3>1. Width - low \in Nat
        BY <1>1
      <3> QED BY <2>1, <2>2, <3>1, Induction
    <2>4. Width - (Width - low) = low
      BY <1>1
    <2> QED BY <2>3, <2>4 DEF S
  <1> QED BY <1>2, <1>3

----------------------------------------------------------------------------
(* Octets.                                                                 *)

(* The octets of an address make a number of its width.                    *)
LEMMA FromBeBytesType ==
  ASSUME NEW octets \in Octets
  PROVE  FromBeBytes(octets) \in 0..(2^Width - 1)
  <1> DEFINE base == 2^OctetBits
             Next(v, i) == v * base + octets[i]
             Is(f, n) == f = [i \in 0..n |-> IF i = 0 THEN 0 ELSE Next(f[i - 1], i)]
             value == CHOOSE f : Is(f, NumOctets)
  <1>1. /\ base \in Nat \ {0} /\ OctetBits \in Nat /\ NumOctets \in Nat
        /\ \A i \in 1..NumOctets : octets[i] \in 0..(base - 1)
    BY RulesAssumption, PowerType DEF Octets
  <1>2. FromBeBytes(octets) = value[NumOctets]
    BY DEF FromBeBytes
  <1>3. Is(value, NumOctets)
    <2> DEFINE S == {n \in Nat : \E f : Is(f, n)}
    <2>1. 0 \in S
      <3>1. Is([i \in 0..0 |-> 0], 0)
        OBVIOUS
      <3> QED BY <3>1
    <2>2. ASSUME NEW n \in Nat, n \in S PROVE n + 1 \in S
      <3>1. PICK f : Is(f, n)
        BY <2>2
      <3> DEFINE g == [i \in 0..(n + 1) |-> IF i = n + 1 THEN Next(f[n], n + 1) ELSE f[i]]
      <3>2. \A i \in 0..(n + 1) : g[i] = IF i = 0 THEN 0 ELSE Next(g[i - 1], i)
        <4> HIDE DEF Next
        <4>1. \A i \in 0..n : f[i] = IF i = 0 THEN 0 ELSE Next(f[i - 1], i)
          BY <3>1
        <4>2. ASSUME NEW i \in 0..(n + 1) PROVE g[i] = IF i = 0 THEN 0 ELSE Next(g[i - 1], i)
          <5>1. CASE i = n + 1
            <6>1. g[i] = Next(f[n], n + 1) /\ i - 1 = n /\ g[n] = f[n] /\ i # 0
              BY <5>1
            <6> QED BY <5>1, <6>1
          <5>2. CASE i # n + 1 /\ i # 0
            <6>1. i \in 0..n /\ i - 1 \in 0..n
              BY <5>2
            <6>2. g[i] = f[i] /\ g[i - 1] = f[i - 1]
              BY <6>1
            <6> QED BY <4>1, <5>2, <6>1, <6>2
          <5>3. CASE i = 0
            BY <4>1, <5>3
          <5> QED BY <5>1, <5>2, <5>3
        <4> QED BY <4>2
      <3>3. g = [i \in 0..(n + 1) |-> g[i]]
        OBVIOUS
      <3> HIDE DEF Next, g
      <3>4. Is(g, n + 1)
        BY <3>2, <3>3
      <3> QED BY <3>4
    <2> HIDE DEF S
    <2>3. NumOctets \in S
      BY <1>1, <2>1, <2>2, Induction
    <2> HIDE DEF Is
    <2> QED BY <2>3 DEF S
  <1> DEFINE T == {n \in Nat : n <= NumOctets => value[n] \in 0..(2^(OctetBits * n) - 1)}
  <1> HIDE DEF value
  <1>4. 0 \in T
    <2>1. value[0] = 0 /\ OctetBits * 0 = 0
      BY <1>1, <1>3
    <2>2. 2^(OctetBits * 0) = 1
      BY <2>1, PowerZero
    <2> QED BY <2>1, <2>2
  <1>5. ASSUME NEW n \in Nat, n \in T PROVE n + 1 \in T
    <2> SUFFICES ASSUME n + 1 <= NumOctets
                 PROVE  value[n + 1] \in 0..(2^(OctetBits * (n + 1)) - 1)
      OBVIOUS
    <2> DEFINE p == 2^(OctetBits * n)
               v == value[n]
               o == octets[n + 1]
    <2>1. v \in 0..(p - 1)
      BY <1>1, <1>5
    <2>2. value[n + 1] = v * base + o
      <3>1. n + 1 \in 0..NumOctets /\ n + 1 # 0 /\ (n + 1) - 1 = n
        BY <1>1
      <3> QED BY <1>3, <3>1
    <2>3. o \in 0..(base - 1)
      BY <1>1
    <2>4. OctetBits * n \in Nat /\ OctetBits * (n + 1) = OctetBits * n + OctetBits
      BY <1>1
    <2>5. 2^(OctetBits * (n + 1)) = p * base /\ p \in Nat \ {0}
      BY <1>1, <2>4, PowerSum, PowerType
    <2>6. v * base + o \in 0..(p * base - 1)
      <3>1. base \in Nat \ {0}
        BY <1>1
      <3> HIDE DEF base, p, v, o
      <3>2. v * base <= (p - 1) * base /\ v * base \in Nat
        BY <2>1, <2>5, <3>1
      <3>3. (p - 1) * base = p * base - base /\ p * base \in Nat
        BY <2>5, <3>1
      <3> QED BY <2>3, <3>1, <3>2, <3>3
    <2> QED BY <2>2, <2>5, <2>6
  <1> HIDE DEF T
  <1>6. NumOctets \in T
    BY <1>1, <1>4, <1>5, Induction
  <1>7. value[NumOctets] \in 0..(2^(OctetBits * NumOctets) - 1)
    BY <1>1, <1>6 DEF T
  <1> QED BY <1>2, <1>7 DEF Width

----------------------------------------------------------------------------
(* Paths.                                                                  *)

(* The engine's path of a file up to its terminator is all but its last    *)
(* unit, of which there is at least one.                                   *)
LEMMA KnownPath ==
  ASSUME NEW file \in DOMAIN AppId
  PROVE  /\ UpToNul(AppId[file]) = SubSeq(AppId[file], 1, Len(AppId[file]) - 1)
         /\ UpToNul(AppId[file]) \in Seq(Nat) /\ UpToNul(AppId[file]) # <<>>
         /\ AppId[file] = UpToNul(AppId[file]) \o <<0>>
         /\ Path(Blob(AppId[file])) = UpToNul(AppId[file])
  <1> DEFINE units == AppId[file]
             n     == Len(units)
             stops == {i \in 1..n : units[i] = 0}
             path  == SubSeq(units, 1, n - 1)
  <1>1. /\ units \in Seq(Nat) /\ n \in Nat /\ n > 1
        /\ \A i \in 1..n : units[i] = 0 <=> i = n
    BY PathAssumption
  <1>2. UpToNul(units) = path
    <2>1. stops = {n}
      BY <1>1
    <2>2. (CHOOSE i \in stops : \A j \in stops : i <= j) = n
      BY <1>1, <2>1
    <2>3. UpToNul(units) =
            IF stops = {} THEN units
            ELSE SubSeq(units, 1, (CHOOSE i \in stops : \A j \in stops : i <= j) - 1)
      BY DEF UpToNul
    <2> QED BY <2>1, <2>2, <2>3
  <1>3. /\ path \in Seq(Nat) /\ Len(path) = n - 1
        /\ \A i \in 1..(n - 1) : path[i] = units[i]
    BY <1>1
  <1>4. path # <<>>
    <2>1. Len(path) # 0
      BY <1>1, <1>3
    <2> HIDE DEF path
    <2> QED BY <2>1
  <1>5. units = path \o <<0>>
    <2>1. path \o <<0>> \in Seq(Nat) /\ Len(path \o <<0>>) = n
      BY <1>1, <1>3
    <2>2. ASSUME NEW i \in 1..n PROVE units[i] = (path \o <<0>>)[i]
      <3>1. CASE i = n
        BY <1>1, <1>3, <3>1
      <3>2. CASE i # n
        BY <1>1, <1>3, <3>2
      <3> QED BY <3>1, <3>2
    <2> QED BY <1>1, <2>1, <2>2, SeqEqual
  <1>6. Path(Blob(units)) = UpToNul(units)
    <2>1. (2 * n) \div 2 = n
      BY <1>1
    <2>2. SubSeq(units, 1, n) = units
      BY <1>1
    <2> QED BY <2>1, <2>2 DEF Path, Blob
  <1> QED BY <1>2, <1>3, <1>4, <1>5, <1>6

----------------------------------------------------------------------------
(* The conditions of a rule.                                               *)

(* What is concatenated: elements, length and the first of them.           *)
LEMMA Concatenation ==
  ASSUME NEW s, NEW t, s \in Seq(ToSet(s)), t \in Seq(ToSet(t))
  PROVE  /\ s \o t \in Seq(ToSet(s \o t))
         /\ ToSet(s \o t) = ToSet(s) \cup ToSet(t)
         /\ Len(s \o t) = Len(s) + Len(t)
         /\ Len(s) > 0 => (s \o t)[1] = s[1]
  <1> DEFINE S == ToSet(s)
             T == ToSet(t)
             u == s \o t
  <1>1. /\ Len(s) \in Nat /\ DOMAIN s = 1..Len(s)
        /\ Len(t) \in Nat /\ DOMAIN t = 1..Len(t)
    BY LenProperties
  <1>2. /\ Len(u) = Len(s) + Len(t) /\ DOMAIN u = 1..(Len(s) + Len(t))
        /\ \A i \in 1..(Len(s) + Len(t)) :
             u[i] = IF i <= Len(s) THEN s[i] ELSE t[i - Len(s)]
    BY <1>1, ConcatProperties
  <1>3. ToSet(u) = S \cup T
    <2>1. ASSUME NEW x \in S PROVE x \in ToSet(u)
      <3>1. PICK i \in 1..Len(s) : x = s[i]
        BY <1>1 DEF ToSet
      <3>2. i \in DOMAIN u /\ u[i] = x
        BY <1>1, <1>2, <3>1
      <3> QED BY <3>2 DEF ToSet
    <2>2. ASSUME NEW x \in T PROVE x \in ToSet(u)
      <3>1. PICK i \in 1..Len(t) : x = t[i]
        BY <1>1 DEF ToSet
      <3>2. Len(s) + i \in DOMAIN u /\ ~(Len(s) + i <= Len(s)) /\ (Len(s) + i) - Len(s) = i
        BY <1>1, <1>2
      <3>3. u[Len(s) + i] = x
        BY <1>2, <3>1, <3>2
      <3> QED BY <3>2, <3>3 DEF ToSet
    <2>3. ASSUME NEW x \in ToSet(u) PROVE x \in S \cup T
      <3>1. PICK i \in 1..(Len(s) + Len(t)) : x = u[i]
        BY <1>2 DEF ToSet
      <3>2. CASE i <= Len(s)
        BY <1>1, <1>2, <3>1, <3>2 DEF ToSet
      <3>3. CASE ~(i <= Len(s))
        <4>1. i - Len(s) \in DOMAIN t /\ x = t[i - Len(s)]
          BY <1>1, <1>2, <3>1, <3>3
        <4> QED BY <4>1 DEF ToSet
      <3> QED BY <3>2, <3>3
    <2> QED BY <2>1, <2>2, <2>3
  <1>4. u \in Seq(S \cup T)
    <2>1. s \in Seq(S \cup T) /\ t \in Seq(S \cup T)
      <3>1. \A i \in 1..Len(s) : s[i] \in S
        BY <1>1 DEF ToSet
      <3>2. \A i \in 1..Len(t) : t[i] \in T
        BY <1>1 DEF ToSet
      <3> QED BY <3>1, <3>2
    <2> QED BY <2>1, ConcatProperties
  <1>5. Len(s) > 0 => u[1] = s[1]
    BY <1>1, <1>2
  <1> QED BY <1>2, <1>3, <1>4, <1>5

TheCondition(field, type, value) == [field |-> field, type |-> type, value |-> value]

(* One condition on a field, as a sequence.                                *)
LEMMA OneCondition ==
  ASSUME NEW field, NEW type, NEW value
  PROVE  /\ Condition(field, type, value) \in Seq(ToSet(Condition(field, type, value)))
         /\ ToSet(Condition(field, type, value)) = {TheCondition(field, type, value)}
         /\ Len(Condition(field, type, value)) = 1
         /\ Condition(field, type, value)[1] = TheCondition(field, type, value)
  <1> DEFINE c == TheCondition(field, type, value)
  <1>1. Condition(field, type, value) = <<c>>
    BY DEF Condition, TheCondition
  <1> HIDE DEF c
  <1>2. <<c>> \in Seq({c}) /\ Len(<<c>>) = 1 /\ <<c>>[1] = c /\ DOMAIN <<c>> = 1..1
    OBVIOUS
  <1>3. ToSet(<<c>>) = {c}
    BY <1>2 DEF ToSet
  <1> QED BY <1>1, <1>2, <1>3 DEF c

(* No condition on a field, as a sequence.                                 *)
LEMMA NoCondition ==
  <<>> \in Seq(ToSet(<<>>)) /\ ToSet(<<>>) = {} /\ Len(<<>>) = 0
  BY DEF ToSet

(* The six parts that the conditions of a rule are made of.                *)
AppPart(rule)        == Application(rule.app_path)
RemotePortPart(rule) == Equals("remote_port", rule.remote_port)
LocalPortPart(rule)  == Equals("local_port", rule.local_port)
ProtocolPart(rule)   == Equals("protocol", IF rule.protocol = None THEN None ELSE Protocol[rule.protocol])
RemotePart(rule)     == Address("remote", rule.remote_ip)
LocalPart(rule)      == Address("local", rule.local_ip)

(* A part is at most one condition, on the field of the part.              *)
IsPart(s, field) ==
  /\ s \in Seq(ToSet(s)) /\ Len(s) \in {0, 1}
  /\ \E c : c.field = field /\ ToSet(s) \subseteq {c}

(* Each part of the conditions looks at one field of the packet.           *)
LEMMA PartTypes ==
  ASSUME NEW rule
  PROVE  /\ IsPart(AppPart(rule), "app")
         /\ IsPart(RemotePortPart(rule), "remote_port")
         /\ IsPart(LocalPortPart(rule), "local_port")
         /\ IsPart(ProtocolPart(rule), "protocol")
         /\ IsPart(RemotePart(rule), "remote")
         /\ IsPart(LocalPart(rule), "local")
  <1>1. ASSUME NEW field, NEW type, NEW value PROVE IsPart(Condition(field, type, value), field)
    <2>1. TheCondition(field, type, value).field = field
      BY DEF TheCondition
    <2> QED BY <2>1, OneCondition DEF IsPart
  <1>2. ASSUME NEW field PROVE IsPart(<<>>, field)
    <2>1. [field |-> field].field = field
      OBVIOUS
    <2> QED BY <2>1, NoCondition DEF IsPart
  <1>3. ASSUME NEW field, NEW given PROVE IsPart(Equals(field, given), field)
    BY <1>1, <1>2 DEF Equals
  <1>4. ASSUME NEW field, NEW ip PROVE IsPart(Address(field, ip), field)
    BY <1>1, <1>2 DEF Address
  <1>5. IsPart(AppPart(rule), "app")
    BY <1>1, <1>2 DEF AppPart, Application
  <1> QED BY <1>3, <1>4, <1>5
          DEF RemotePortPart, LocalPortPart, ProtocolPart, RemotePart, LocalPart

(* The conditions of a rule are those of its parts, one after the other.   *)
LEMMA ConditionParts ==
  ASSUME NEW rule
  PROVE  /\ Conditions(rule) \in Seq(ToSet(Conditions(rule)))
         /\ ToSet(Conditions(rule)) =
              ToSet(AppPart(rule)) \cup ToSet(RemotePortPart(rule))
              \cup ToSet(LocalPortPart(rule)) \cup ToSet(ProtocolPart(rule))
              \cup ToSet(RemotePart(rule)) \cup ToSet(LocalPart(rule))
         /\ Len(Conditions(rule)) =
              Len(AppPart(rule)) + Len(RemotePortPart(rule)) + Len(LocalPortPart(rule))
              + Len(ProtocolPart(rule)) + Len(RemotePart(rule)) + Len(LocalPart(rule))
         /\ Len(AppPart(rule)) > 0 => Conditions(rule)[1] = AppPart(rule)[1]
  <1>1. PICK s1, s2, s3, s4, s5, s6 :
          /\ s1 = AppPart(rule) /\ s2 = RemotePortPart(rule) /\ s3 = LocalPortPart(rule)
          /\ s4 = ProtocolPart(rule) /\ s5 = RemotePart(rule) /\ s6 = LocalPart(rule)
    OBVIOUS
  <1>2. PICK t2, t3, t4, t5, t6 :
          t2 = s1 \o s2 /\ t3 = t2 \o s3 /\ t4 = t3 \o s4 /\ t5 = t4 \o s5 /\ t6 = t5 \o s6
    OBVIOUS
  <1>3. /\ s1 \in Seq(ToSet(s1)) /\ s2 \in Seq(ToSet(s2)) /\ s3 \in Seq(ToSet(s3))
        /\ s4 \in Seq(ToSet(s4)) /\ s5 \in Seq(ToSet(s5)) /\ s6 \in Seq(ToSet(s6))
    BY <1>1, PartTypes DEF IsPart
  <1>4. /\ Len(s1) \in Nat /\ Len(s2) \in Nat /\ Len(s3) \in Nat
        /\ Len(s4) \in Nat /\ Len(s5) \in Nat /\ Len(s6) \in Nat
    BY <1>3, LenProperties
  <1>5. /\ t2 \in Seq(ToSet(t2)) /\ ToSet(t2) = ToSet(s1) \cup ToSet(s2)
        /\ Len(t2) = Len(s1) + Len(s2) /\ (Len(s1) > 0 => t2[1] = s1[1])
    BY <1>2, <1>3, Concatenation
  <1>6. /\ t3 \in Seq(ToSet(t3)) /\ ToSet(t3) = ToSet(t2) \cup ToSet(s3)
        /\ Len(t3) = Len(t2) + Len(s3) /\ (Len(t2) > 0 => t3[1] = t2[1])
    BY <1>2, <1>3, <1>5, Concatenation
  <1>7. /\ t4 \in Seq(ToSet(t4)) /\ ToSet(t4) = ToSet(t3) \cup ToSet(s4)
        /\ Len(t4) = Len(t3) + Len(s4) /\ (Len(t3) > 0 => t4[1] = t3[1])
    BY <1>2, <1>3, <1>6, Concatenation
  <1>8. /\ t5 \in Seq(ToSet(t5)) /\ ToSet(t5) = ToSet(t4) \cup ToSet(s5)
        /\ Len(t5) = Len(t4) + Len(s5) /\ (Len(t4) > 0 => t5[1] = t4[1])
    BY <1>2, <1>3, <1>7, Concatenation
  <1>9. /\ t6 \in Seq(ToSet(t6)) /\ ToSet(t6) = ToSet(t5) \cup ToSet(s6)
        /\ Len(t6) = Len(t5) + Len(s6) /\ (Len(t5) > 0 => t6[1] = t5[1])
    BY <1>2, <1>3, <1>8, Concatenation
  <1>10. Len(t6) = Len(s1) + Len(s2) + Len(s3) + Len(s4) + Len(s5) + Len(s6)
    BY <1>4, <1>5, <1>6, <1>7, <1>8, <1>9
  <1>11. Len(s1) > 0 => t6[1] = s1[1]
    BY <1>4, <1>5, <1>6, <1>7, <1>8, <1>9
  <1>12. ToSet(t6) = ToSet(s1) \cup ToSet(s2) \cup ToSet(s3)
                    \cup ToSet(s4) \cup ToSet(s5) \cup ToSet(s6)
    BY <1>5, <1>6, <1>7, <1>8, <1>9
  <1>13. Conditions(rule) = t6
    BY <1>1, <1>2
    DEF Conditions, AppPart, RemotePortPart, LocalPortPart, ProtocolPart, RemotePart, LocalPart
  <1> QED BY <1>1, <1>9, <1>10, <1>11, <1>12, <1>13

(* No two conditions of a rule are on the same field, so none of them is   *)
(* an alternative to another.                                              *)
LEMMA OnePerField ==
  ASSUME NEW rule, NEW c \in ToSet(Conditions(rule)), NEW d \in ToSet(Conditions(rule)),
         c.field = d.field
  PROVE  c = d
  <1>1. PICK c1 : c1.field = "app" /\ ToSet(AppPart(rule)) \subseteq {c1}
    BY PartTypes DEF IsPart
  <1>2. PICK c2 : c2.field = "remote_port" /\ ToSet(RemotePortPart(rule)) \subseteq {c2}
    BY PartTypes DEF IsPart
  <1>3. PICK c3 : c3.field = "local_port" /\ ToSet(LocalPortPart(rule)) \subseteq {c3}
    BY PartTypes DEF IsPart
  <1>4. PICK c4 : c4.field = "protocol" /\ ToSet(ProtocolPart(rule)) \subseteq {c4}
    BY PartTypes DEF IsPart
  <1>5. PICK c5 : c5.field = "remote" /\ ToSet(RemotePart(rule)) \subseteq {c5}
    BY PartTypes DEF IsPart
  <1>6. PICK c6 : c6.field = "local" /\ ToSet(LocalPart(rule)) \subseteq {c6}
    BY PartTypes DEF IsPart
  <1>7. ToSet(Conditions(rule)) \subseteq {c1, c2, c3, c4, c5, c6}
    BY <1>1, <1>2, <1>3, <1>4, <1>5, <1>6, ConditionParts
  <1> QED BY <1>1, <1>2, <1>3, <1>4, <1>5, <1>6, <1>7

(* The path that an enumeration shows for the filter of a rule is that of  *)
(* the file the rule names; there is none if it names none.                *)
LEMMA ShownPath ==
  ASSUME NEW rule, AppIdKnown(rule)
  PROVE  extract_app_path(Filter(rule)) =
           IF rule.app_path = None THEN None ELSE UpToNul(AppId[rule.app_path])
  <1> DEFINE filter == Filter(rule)
             conds  == Conditions(rule)
             apps   == {i \in DOMAIN conds : conds[i].field = "app"}
             least  == CHOOSE i \in apps : \A j \in apps : i <= j
             blob   == conds[least].value
  <1>1. filter.conditions = conds
    BY DEF Filter
  <1>2. extract_app_path(filter) =
          IF apps = {} \/ conds[least].type # "blob" \/ blob = None THEN None
          ELSE IF blob.size = 0 \/ blob.size % 2 # 0 THEN None
          ELSE IF Lone \in ToSet(Path(blob)) THEN None
          ELSE Path(blob)
    <2> HIDE DEF filter, conds
    <2> QED BY <1>1 DEF extract_app_path, filter
  <1>3. CASE rule.app_path = None
    <2>1. AppPart(rule) = <<>>
      BY <1>3, RulesAssumption DEF AppPart, Application
    <2>2. ASSUME NEW c \in ToSet(conds) PROVE c.field # "app"
      <3>1. \/ c \in ToSet(RemotePortPart(rule)) \/ c \in ToSet(LocalPortPart(rule))
            \/ c \in ToSet(ProtocolPart(rule)) \/ c \in ToSet(RemotePart(rule))
            \/ c \in ToSet(LocalPart(rule))
        BY <2>1, <2>2, ConditionParts, NoCondition
      <3> QED BY <3>1, PartTypes DEF IsPart
    <2>3. apps = {}
      BY <2>2 DEF ToSet
    <2> HIDE DEF conds, apps, least, blob
    <2> QED BY <1>2, <1>3, <2>3
  <1>4. CASE rule.app_path # None
    <2> DEFINE file  == rule.app_path
               units == AppId[file]
    <2>1. file \in DOMAIN AppId
      BY <1>4 DEF AppIdKnown
    <2>2. AppPart(rule) = Condition("app", "blob", Blob(units))
      BY <2>1 DEF AppPart, Application
    <2>3. /\ Len(AppPart(rule)) = 1
          /\ AppPart(rule)[1] = [field |-> "app", type |-> "blob", value |-> Blob(units)]
      BY <2>2, OneCondition DEF TheCondition
    <2>4. conds[1] = [field |-> "app", type |-> "blob", value |-> Blob(units)]
      BY <2>3, ConditionParts
    <2>5. DOMAIN conds = 1..Len(conds) /\ 1 \in DOMAIN conds
      <3>1. conds \in Seq(ToSet(conds)) /\ Len(conds) >= 1
        <4>1. /\ Len(RemotePortPart(rule)) \in Nat /\ Len(LocalPortPart(rule)) \in Nat
              /\ Len(ProtocolPart(rule)) \in Nat /\ Len(RemotePart(rule)) \in Nat
              /\ Len(LocalPart(rule)) \in Nat
          BY PartTypes DEF IsPart
        <4>2. Len(conds) =
                Len(AppPart(rule)) + Len(RemotePortPart(rule)) + Len(LocalPortPart(rule))
                + Len(ProtocolPart(rule)) + Len(RemotePart(rule)) + Len(LocalPart(rule))
          BY ConditionParts
        <4>3. conds \in Seq(ToSet(conds))
          BY ConditionParts
        <4> HIDE DEF conds
        <4> QED BY <2>3, <4>1, <4>2, <4>3
      <3> HIDE DEF conds
      <3>2. Len(conds) \in Nat /\ DOMAIN conds = 1..Len(conds)
        BY <3>1, LenProperties
      <3> QED BY <3>1, <3>2
    <2>6. 1 \in apps /\ \A j \in apps : j \in Nat /\ 1 <= j
      BY <2>4, <2>5
    <2>7. least = 1
      <3> HIDE DEF apps
      <3>1. least \in apps /\ \A j \in apps : least <= j
        BY <2>6
      <3> HIDE DEF least
      <3> QED BY <2>6, <3>1
    <2>8. conds[least].type = "blob" /\ blob = Blob(units)
      <3>1. conds[least] = [field |-> "app", type |-> "blob", value |-> Blob(units)]
        BY <2>4, <2>7
      <3> HIDE DEF conds, least, units
      <3> QED BY <3>1
    <2>9. units \in Seq(Nat) /\ Len(units) > 1 /\ Blob(units) # None
      BY <2>1, PathAssumption
    <2>10. Blob(units).size # 0 /\ Blob(units).size % 2 = 0
      <3>1. Blob(units).size = 2 * Len(units) /\ Len(units) \in Nat
        BY <2>9 DEF Blob
      <3> HIDE DEF units
      <3>2. (2 * Len(units)) % 2 = 0 /\ 2 * Len(units) # 0
        BY <2>9, <3>1
      <3> QED BY <3>1, <3>2
    <2>11. Path(Blob(units)) = UpToNul(units) /\ UpToNul(units) \in Seq(Nat)
      BY <2>1, KnownPath
    <2>12. Lone \notin ToSet(UpToNul(units))
      <3>1. \A i \in DOMAIN UpToNul(units) : UpToNul(units)[i] \in Nat
        BY <2>11
      <3> QED BY <3>1, RulesAssumption DEF ToSet
    <2> HIDE DEF conds, apps, least, blob, units
    <2> QED BY <1>2, <1>4, <2>6, <2>8, <2>9, <2>10, <2>11, <2>12 DEF units
  <1> QED BY <1>3, <1>4

============================================================================
