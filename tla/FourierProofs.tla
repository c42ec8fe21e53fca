---------------------------- MODULE FourierProofs ----------------------------
(***************************************************************************)
(* What the arithmetic under FFT.tla computes, for every field with the    *)
(* roots of unity its settings ask for and every power of two: fft is the  *)
(* Fourier transform and its inverse undoes it, and dASFFTExtension gives  *)
(* the values at the odd powers of the root of the polynomial with the     *)
(* given ones at the even powers.                                          *)
(* Sums, convolutions and values of polynomials, and the reverse bit       *)
(* order, are what DataAvailabilityProofs goes on from.                    *)
(*                                                                         *)
(* The recursions of the code are functions on 0 .. n. What is proved of   *)
(* them for every n goes through CountTo, which says for a set what the    *)
(* induction theorems of the library say for a predicate, and through      *)
(* Loop, which says what a function defined by its first value and its     *)
(* steps is; both from the order on the subsets of a finite set.           *)
(*                                                                         *)
(* The parts: induction and loops; the field; sums; powers; roots of       *)
(* unity; the transform and what undoes it; slices; fft; the inverse       *)
(* transform; the extension; the settings; values of polynomials;          *)
(* quotients; convolutions; the reverse bit order.                         *)
(***************************************************************************)
EXTENDS FFT, FiniteSetTheorems, TLAPS

(* The operations of the field, written between their arguments.           *)
a \oplus b == AddModFr(a, b)
a \ominus b == SubModFr(a, b)
a \odot b == MulModFr(a, b)

USE DEF \oplus, \ominus, \odot

-----------------------------------------------------------------------------
(* Induction and recursion on 0 .. n, for sets and functions.              *)

(* What holds of 0 and of every successor holds up to n.                   *)
LEMMA CountTo ==
    ASSUME NEW n \in Nat, NEW S, 0 \in S,
           \A i \in 0 .. n - 1 : i \in S => i + 1 \in S
    PROVE  \A i \in 0 .. n : i \in S
<1> DEFINE Left == {i \in 0 .. n : i \notin S}
<1>1. SUFFICES ASSUME Left # {} PROVE FALSE
  OBVIOUS
<1> DEFINE Upto(x) == 1 .. x
           U == {Upto(x) : x \in Left}
<1>2. PICK X \in U : \A Y \in U : <<Y, X>> \notin StrictSubsetOrdering(0 .. n)
  <2>1. U \subseteq FiniteSubsetsOf(0 .. n) /\ U # {}
    <3>1. FiniteSubsetsOf(0 .. n) = SUBSET (0 .. n)
      <4>1. IsFiniteSet(0 .. n)
        BY FS_Interval
      <4> QED BY <4>1, FS_FiniteSubsetsOfFinite
    <3>2. \A x \in Left : Upto(x) \in SUBSET (0 .. n)
      OBVIOUS
    <3> HIDE DEF Upto, Left
    <3> QED BY <1>1, <3>1, <3>2
  <2>2. IsWellFoundedOn(StrictSubsetOrdering(0 .. n), FiniteSubsetsOf(0 .. n))
    BY FS_StrictSubsetOrderingWellFounded
  <2> HIDE DEF U
  <2> QED BY <2>1, <2>2, WFMin
<1>3. PICK x \in Left : X = Upto(x)
  BY <1>2
<1>4. x \in 1 .. n /\ x - 1 \in 0 .. n - 1 /\ x - 1 \notin Left
  <2>1. x \in 1 .. n
    OBVIOUS
  <2>2. <<Upto(x - 1), Upto(x)>> \in StrictSubsetOrdering(0 .. n)
    <3>1. Upto(x - 1) \subseteq Upto(x) /\ x \in Upto(x) /\ x \notin Upto(x - 1)
      BY <2>1
    <3>2. Upto(x - 1) \in SUBSET (0 .. n) /\ Upto(x) \in SUBSET (0 .. n)
      BY <2>1
    <3> HIDE DEF Upto
    <3> QED BY <3>1, <3>2 DEF StrictSubsetOrdering
  <2>3. x - 1 \notin Left
    <3> HIDE DEF Upto, Left
    <3> QED BY <1>2, <1>3, <2>2
  <2> QED BY <2>1, <2>3
<1>5. x - 1 \in S
  BY <1>4
<1> QED BY <1>3, <1>4, <1>5

(* So what holds of 0 and of every successor holds of every number.        *)
LEMMA CountAll ==
    ASSUME NEW S, 0 \in S, \A i \in Nat : i \in S => i + 1 \in S
    PROVE  \A n \in Nat : n \in S
<1>1. SUFFICES ASSUME NEW n \in Nat PROVE n \in S
  OBVIOUS
<1>2. \A i \in 0 .. n : i \in S
  BY CountTo
<1> QED BY <1>2

(* A first value and a step function determine the values of a loop; value *)
(* i is in V[i].                                                           *)
Loop(g, n, V, v0, step) ==
    /\ g = [i \in 0 .. n |-> IF i = 0 THEN v0 ELSE step[i][g[i - 1]]]
    /\ \A i \in 0 .. n : g[i] \in V[i]

(* There is a function that does what the loop does.                       *)
LEMMA LoopRuns ==
    ASSUME NEW n \in Nat, NEW V, NEW v0, NEW step, v0 \in V[0],
           \A i \in 1 .. n : \A v \in V[i - 1] : step[i][v] \in V[i]
    PROVE  \E g : Loop(g, n, V, v0, step)
<1> DEFINE S == {m \in 0 .. n : \E g : Loop(g, m, V, v0, step)}
<1>1. 0 \in S
  <2> DEFINE g == [i \in 0 .. 0 |-> v0]
  <2>1. g[0] = v0
    OBVIOUS
  <2>2. g = [i \in 0 .. 0 |-> IF i = 0 THEN v0 ELSE step[i][g[i - 1]]]
    OBVIOUS
  <2>3. Loop(g, 0, V, v0, step)
    <3> HIDE DEF g
    <3> QED BY <2>1, <2>2 DEF Loop
  <2> HIDE DEF g
  <2> QED BY <2>3
<1>2. ASSUME NEW m \in 0 .. n - 1, m \in S
      PROVE  m + 1 \in S
  <2>1. PICK g : Loop(g, m, V, v0, step)
    BY <1>2
  <2> DEFINE h == [i \in 0 .. m + 1 |-> IF i = m + 1 THEN step[m + 1][g[m]] ELSE g[i]]
  <2>2. step[m + 1][g[m]] \in V[m + 1]
    <3>1. g[m] \in V[m] /\ m + 1 \in 1 .. n /\ (m + 1) - 1 = m
      BY <2>1 DEF Loop
    <3> QED BY <3>1
  <2>3. /\ \A i \in 0 .. m : h[i] = g[i]
        /\ h[m + 1] = step[m + 1][g[m]]
    OBVIOUS
  <2>4. h = [i \in 0 .. m + 1 |-> h[i]]
    OBVIOUS
  <2> HIDE DEF h
  <2>5. ASSUME NEW i \in 0 .. m + 1
        PROVE  /\ h[i] = IF i = 0 THEN v0 ELSE step[i][h[i - 1]]
               /\ h[i] \in V[i]
    <3>1. CASE i = m + 1
      <4>1. i # 0 /\ i - 1 = m /\ m \in 0 .. m
        BY <3>1
      <4> QED BY <2>2, <2>3, <3>1, <4>1
    <3>2. CASE i \in 0 .. m
      <4>1. g[i] = IF i = 0 THEN v0 ELSE step[i][g[i - 1]]
        BY <2>1, <3>2 DEF Loop
      <4>2. g[i] \in V[i]
        BY <2>1, <3>2 DEF Loop
      <4>3. i # 0 => i - 1 \in 0 .. m
        BY <3>2
      <4> QED BY <2>3, <3>2, <4>1, <4>2, <4>3
    <3> QED BY <3>1, <3>2
  <2>6. [i \in 0 .. m + 1 |-> h[i]]
            = [i \in 0 .. m + 1 |-> IF i = 0 THEN v0 ELSE step[i][h[i - 1]]]
    BY <2>5
  <2>7. Loop(h, m + 1, V, v0, step)
    BY <2>4, <2>5, <2>6 DEF Loop
  <2> QED BY <2>7
<1>3. \A m \in 0 .. n : m \in S
  <2> HIDE DEF S
  <2> QED BY <1>1, <1>2, CountTo
<1> QED BY <1>3

(* What takes the steps of a loop has its values.                          *)
Follows(f, n, V, v0, step) ==
    /\ f[0] = v0
    /\ \A i \in 1 .. n : f[i - 1] \in V[i - 1] => f[i] = step[i][f[i - 1]]

(* A function that follows the steps of the loop from its first value is   *)
(* the function the loop computes.                                         *)
LEMMA LoopFollowed ==
    ASSUME NEW n \in Nat, NEW g, NEW f, NEW v0, NEW V, NEW step,
           Loop(g, n, V, v0, step), Follows(f, n, V, v0, step)
    PROVE  \A i \in 0 .. n : f[i] = g[i]
<1> USE DEF Follows
<1> DEFINE S == {i \in 0 .. n : f[i] = g[i]}
<1>1. 0 \in S
  BY DEF Loop
<1>2. ASSUME NEW i \in 0 .. n - 1, i \in S
      PROVE  i + 1 \in S
  <2>1. /\ i + 1 \in 0 .. n /\ i + 1 \in 1 .. n /\ i + 1 # 0 /\ (i + 1) - 1 = i
        /\ f[i] = g[i] /\ g[i] \in V[i]
    BY <1>2 DEF Loop
  <2>2. g[i + 1] = step[i + 1][g[i]]
    BY <2>1 DEF Loop
  <2>3. f[i + 1] = step[i + 1][f[i]]
    BY <2>1
  <2> QED BY <2>1, <2>2, <2>3
<1>3. \A i \in 0 .. n : i \in S
  <2> HIDE DEF S
  <2> QED BY <1>1, <1>2, CountTo
<1> QED BY <1>3

-----------------------------------------------------------------------------
(* The field.                                                              *)

(* There are at least 0 and 1 in the field, and its elements are           *)
(* integers.                                                               *)
LEMMA ModulusFacts ==
    Modulus \in Nat /\ Modulus > 1 /\ 0 \in Fr /\ 1 \in Fr /\ Fr \subseteq Int
BY ModulusAssumption DEF Fr

(* There is only one remainder.                                            *)
LEMMA OneRemainder ==
    ASSUME NEW q \in Int, NEW r \in Fr
    PROVE  (Modulus * q + r) % Modulus = r
<1>1. Modulus \in Nat /\ Modulus > 1 /\ r \in Int /\ 0 <= r /\ r < Modulus
  BY ModulusAssumption DEF Fr
<1> DEFINE a == Modulus * q + r
           k == a \div Modulus
           s == a % Modulus
<1>2. a \in Int
  BY <1>1
<1>3. k \in Int /\ s \in Int /\ 0 <= s /\ s < Modulus /\ a = Modulus * k + s
  <2> HIDE DEF a
  <2> QED BY <1>1, <1>2
<1>4. Modulus * (q - k) = s - r
  BY <1>1, <1>2, <1>3
<1>5. q - k = 0
  <2> DEFINE d == q - k
  <2>1. d \in Int /\ Modulus * d < Modulus /\ Modulus * d > 0 - Modulus
    BY <1>1, <1>3, <1>4
  <2>2. ~ (d >= 1)
    <3> HIDE DEF d
    <3> QED BY <1>1, <2>1
  <2>3. ~ (d <= -1)
    <3> HIDE DEF d
    <3> QED BY <1>1, <2>1
  <2>4. d = 0
    <3> HIDE DEF d
    <3> QED BY <2>1, <2>2, <2>3
  <2> QED BY <2>4
<1>6. s = r
  <2>1. s - r = Modulus * 0
    BY <1>4, <1>5
  <2>2. Modulus * 0 = 0
    BY <1>1
  <2>3. s \in Int /\ r \in Int
    BY <1>1, <1>3
  <2> HIDE DEF s
  <2> QED BY <2>1, <2>2, <2>3
<1> QED BY <1>6

(* Numbers that differ by a multiple of the order have one remainder.      *)
LEMMA SameRemainder ==
    ASSUME NEW a \in Int, NEW b \in Int, NEW q \in Int, a = b + Modulus * q
    PROVE  a % Modulus = b % Modulus
<1>1. Modulus \in Nat /\ Modulus > 1
  BY ModulusFacts
<1> DEFINE k == b \div Modulus
           r == b % Modulus
<1>2. k \in Int /\ r \in Fr /\ r \in Int /\ b = Modulus * k + r
  BY <1>1 DEF Fr
<1> HIDE DEF k
<1>3. a = Modulus * (k + q) + r
  <2> HIDE DEF r
  <2> QED BY <1>1, <1>2
<1>4. (Modulus * (k + q) + r) % Modulus = r
  <2> HIDE DEF r
  <2> QED BY <1>2, OneRemainder
<1> QED BY <1>3, <1>4

(* A remainder can be taken before or after.                               *)
LEMMA RemainderFirst ==
    ASSUME NEW a \in Int, NEW b \in Int
    PROVE  /\ a % Modulus \in Fr /\ (a % Modulus) % Modulus = a % Modulus
           /\ ((a % Modulus) + b) % Modulus = (a + b) % Modulus
           /\ ((a % Modulus) * b) % Modulus = (a * b) % Modulus
           /\ ((a % Modulus) - b) % Modulus = (a - b) % Modulus
<1>1. Modulus \in Nat /\ Modulus > 1
  BY ModulusFacts
<1> DEFINE k == a \div Modulus
           r == a % Modulus
<1>2. k \in Int /\ r \in Fr /\ r \in Int /\ a = Modulus * k + r
  BY <1>1 DEF Fr
<1> HIDE DEF k, r
<1>3. a + b = (r + b) + Modulus * k /\ a - b = (r - b) + Modulus * k /\ a = r + Modulus * k
  BY <1>1, <1>2
<1>4. a * b = (r * b) + Modulus * (k * b)
  BY <1>1, <1>2
<1>5. k * b \in Int /\ r * b \in Int /\ a * b \in Int /\ r + b \in Int /\ a + b \in Int
      /\ r - b \in Int /\ a - b \in Int
  BY <1>2
<1>6. a % Modulus = r % Modulus /\ (a + b) % Modulus = (r + b) % Modulus
      /\ (a * b) % Modulus = (r * b) % Modulus /\ (a - b) % Modulus = (r - b) % Modulus
  BY <1>2, <1>3, <1>4, <1>5, SameRemainder
<1> QED BY <1>2, <1>6 DEF r

(* The operations stay in the field.                                       *)
LEMMA FrClosed == \A a, b \in Fr : a \oplus b \in Fr /\ a \odot b \in Fr /\ a \ominus b \in Fr
BY ModulusAssumption DEF Fr, AddModFr, MulModFr, SubModFr

(* What 0 and 1 do to an element.                                          *)
LEMMA FrUnits ==
    \A a \in Fr : /\ a \oplus 0 = a /\ 0 \oplus a = a /\ a \ominus 0 = a /\ a \ominus a = 0
                  /\ a \odot 1 = a /\ 1 \odot a = a /\ a \odot 0 = 0 /\ 0 \odot a = 0
BY ModulusAssumption DEF Fr, AddModFr, MulModFr, SubModFr

(* Sums and products do not depend on the order of two.                    *)
LEMMA FrCommutes == \A a, b \in Fr : a \oplus b = b \oplus a /\ a \odot b = b \odot a
<1>1. SUFFICES ASSUME NEW a \in Fr, NEW b \in Fr
               PROVE  a \oplus b = b \oplus a /\ a \odot b = b \odot a
  OBVIOUS
<1>2. a + b = b + a /\ a * b = b * a
  BY ModulusFacts
<1> QED BY <1>2 DEF AddModFr, MulModFr

(* Sums and products of three do not depend on which two are taken         *)
(* first.                                                                  *)
LEMMA FrAssociates ==
    \A a, b, c \in Fr : /\ (a \oplus b) \oplus c = a \oplus (b \oplus c)
                        /\ (a \odot b) \odot c = a \odot (b \odot c)
<1>1. SUFFICES ASSUME NEW a \in Fr, NEW b \in Fr, NEW c \in Fr
               PROVE  /\ (a \oplus b) \oplus c = a \oplus (b \oplus c)
                      /\ (a \odot b) \odot c = a \odot (b \odot c)
  OBVIOUS
<1>2. a \in Int /\ b \in Int /\ c \in Int
  BY ModulusFacts
<1>3. a + b \in Int /\ a * b \in Int /\ b + c \in Int /\ b * c \in Int
  BY <1>2
<1>4. /\ (((a + b) % Modulus) + c) % Modulus = ((a + b) + c) % Modulus
      /\ (((b + c) % Modulus) + a) % Modulus = ((b + c) + a) % Modulus
      /\ (((a * b) % Modulus) * c) % Modulus = ((a * b) * c) % Modulus
      /\ (((b * c) % Modulus) * a) % Modulus = ((b * c) * a) % Modulus
  BY <1>2, <1>3, RemainderFirst
<1>5. (a + b) + c = (b + c) + a /\ (a * b) * c = (b * c) * a
  BY <1>2
<1>6. /\ (a \oplus b) \oplus c = (b \oplus c) \oplus a
      /\ (a \odot b) \odot c = (b \odot c) \odot a
  BY <1>4, <1>5 DEF AddModFr, MulModFr
<1> QED BY <1>6, FrCommutes, FrClosed

(* Products go over sums.                                                  *)
LEMMA FrDistributes ==
    \A a, b, c \in Fr : /\ a \odot (b \oplus c) = (a \odot b) \oplus (a \odot c)
                        /\ (b \oplus c) \odot a = (b \odot a) \oplus (c \odot a)
<1>1. SUFFICES ASSUME NEW a \in Fr, NEW b \in Fr, NEW c \in Fr
               PROVE  (b \oplus c) \odot a = (b \odot a) \oplus (c \odot a)
  BY FrCommutes, FrClosed
<1>2. a \in Int /\ b \in Int /\ c \in Int
  BY ModulusFacts
<1>3. b + c \in Int /\ b * a \in Int /\ c * a \in Int /\ (c * a) % Modulus \in Int
  BY <1>2, ModulusFacts
<1>4. /\ (((b + c) % Modulus) * a) % Modulus = ((b + c) * a) % Modulus
      /\ (((b * a) % Modulus) + ((c * a) % Modulus)) % Modulus = (b * a + ((c * a) % Modulus)) % Modulus
      /\ (((c * a) % Modulus) + b * a) % Modulus = (c * a + b * a) % Modulus
  BY <1>2, <1>3, RemainderFirst
<1>5. (b + c) * a = c * a + b * a /\ b * a + ((c * a) % Modulus) = ((c * a) % Modulus) + b * a
  BY <1>2, <1>3
<1> QED BY <1>4, <1>5 DEF AddModFr, MulModFr

(* Subtraction undoes addition.                                            *)
LEMMA FrDifference ==
    \A a, b \in Fr : (a \ominus b) \oplus b = a /\ (a \oplus b) \ominus b = a
<1>1. SUFFICES ASSUME NEW a \in Fr, NEW b \in Fr
               PROVE  (a \ominus b) \oplus b = a /\ (a \oplus b) \ominus b = a
  OBVIOUS
<1>2. a \in Int /\ b \in Int
  BY ModulusFacts
<1>3. a + b \in Int /\ a - b \in Int
  BY <1>2
<1>4. /\ (((a - b) % Modulus) + b) % Modulus = ((a - b) + b) % Modulus
      /\ (((a + b) % Modulus) - b) % Modulus = ((a + b) - b) % Modulus
  BY <1>2, <1>3, RemainderFirst
<1>5. (a - b) + b = a /\ (a + b) - b = a /\ a % Modulus = a
  BY <1>2, ModulusFacts DEF Fr
<1> QED BY <1>4, <1>5 DEF AddModFr, SubModFr

(* Two sums, two differences and two products, their parts exchanged.      *)
LEMMA FrExchange ==
    \A a, b, c, d \in Fr : /\ (a \oplus b) \oplus (c \oplus d) = (a \oplus c) \oplus (b \oplus d)
                           /\ (a \odot b) \odot (c \odot d) = (a \odot c) \odot (b \odot d)
<1>1. SUFFICES ASSUME NEW a \in Fr, NEW b \in Fr, NEW c \in Fr, NEW d \in Fr
      PROVE  /\ (a \oplus b) \oplus (c \oplus d) = (a \oplus c) \oplus (b \oplus d)
             /\ (a \odot b) \odot (c \odot d) = (a \odot c) \odot (b \odot d)
  OBVIOUS
<1>2. (a \oplus b) \oplus (c \oplus d) = (a \oplus c) \oplus (b \oplus d)
  <2>1. /\ (a \oplus b) \oplus (c \oplus d) = a \oplus (b \oplus (c \oplus d))
        /\ (a \oplus c) \oplus (b \oplus d) = a \oplus (c \oplus (b \oplus d))
    BY FrAssociates, FrClosed
  <2>2. b \oplus (c \oplus d) = (b \oplus c) \oplus d /\ c \oplus (b \oplus d) = (c \oplus b) \oplus d
    BY FrAssociates
  <2>3. b \oplus c = c \oplus b
    BY FrCommutes
  <2> QED BY <2>1, <2>2, <2>3
<1>3. (a \odot b) \odot (c \odot d) = (a \odot c) \odot (b \odot d)
  <2>1. /\ (a \odot b) \odot (c \odot d) = a \odot (b \odot (c \odot d))
        /\ (a \odot c) \odot (b \odot d) = a \odot (c \odot (b \odot d))
    BY FrAssociates, FrClosed
  <2>2. b \odot (c \odot d) = (b \odot c) \odot d /\ c \odot (b \odot d) = (c \odot b) \odot d
    BY FrAssociates
  <2>3. b \odot c = c \odot b
    BY FrCommutes
  <2> QED BY <2>1, <2>2, <2>3
<1> QED BY <1>2, <1>3

(* What added to b gives a is the difference.                              *)
LEMMA FrDifferenceIs ==
    \A a, b, c \in Fr : c \oplus b = a => a \ominus b = c
BY FrDifference

(* Differences of sums, products of differences, and what differs by 0.    *)
LEMMA FrDifferences ==
    \A a, b, c, d \in Fr :
        /\ (a \oplus b) \ominus (c \oplus d) = (a \ominus c) \oplus (b \ominus d)
        /\ a \odot (b \ominus c) = (a \odot b) \ominus (a \odot c)
        /\ (b \ominus c) \odot a = (b \odot a) \ominus (c \odot a)
        /\ (a \ominus b = 0) => a = b
<1>1. SUFFICES ASSUME NEW a \in Fr, NEW b \in Fr, NEW c \in Fr, NEW d \in Fr
      PROVE /\ (a \oplus b) \ominus (c \oplus d) = (a \ominus c) \oplus (b \ominus d)
            /\ a \odot (b \ominus c) = (a \odot b) \ominus (a \odot c)
            /\ (b \ominus c) \odot a = (b \odot a) \ominus (c \odot a)
            /\ (a \ominus b = 0) => a = b
  OBVIOUS
<1>2. (a \oplus b) \ominus (c \oplus d) = (a \ominus c) \oplus (b \ominus d)
  <2>1. /\ a \ominus c \in Fr /\ b \ominus d \in Fr /\ a \oplus b \in Fr /\ c \oplus d \in Fr
        /\ (a \ominus c) \oplus (b \ominus d) \in Fr
    BY FrClosed
  <2>2. ((a \ominus c) \oplus (b \ominus d)) \oplus (c \oplus d)
            = ((a \ominus c) \oplus c) \oplus ((b \ominus d) \oplus d)
    BY <2>1, FrExchange
  <2>3. (a \ominus c) \oplus c = a /\ (b \ominus d) \oplus d = b
    BY FrDifference
  <2> QED BY <2>1, <2>2, <2>3, FrDifferenceIs
<1>3. a \odot (b \ominus c) = (a \odot b) \ominus (a \odot c)
  <2>1. b \ominus c \in Fr /\ a \odot b \in Fr /\ a \odot c \in Fr /\ a \odot (b \ominus c) \in Fr
    BY FrClosed
  <2>2. (a \odot (b \ominus c)) \oplus (a \odot c) = a \odot ((b \ominus c) \oplus c)
    BY <2>1, FrDistributes
  <2>3. (b \ominus c) \oplus c = b
    BY FrDifference
  <2> QED BY <2>1, <2>2, <2>3, FrDifferenceIs
<1>4. (b \ominus c) \odot a = (b \odot a) \ominus (c \odot a)
  BY <1>3, FrCommutes, FrClosed
<1>5. ASSUME a \ominus b = 0 PROVE a = b
  BY <1>5, FrDifference, FrUnits
<1> QED BY <1>2, <1>3, <1>4, <1>5

(* InvModFr finds the inverse of what is not 0, and has type Fr.           *)
LEMMA FrInverse ==
    \A a \in Fr : /\ InvModFr(a) \in Fr
                  /\ a # 0 => a \odot InvModFr(a) = 1 /\ InvModFr(a) \odot a = 1
<1>1. SUFFICES ASSUME NEW a \in Fr
      PROVE  InvModFr(a) \in Fr /\ (a # 0 => a \odot InvModFr(a) = 1)
  BY FrCommutes
<1>2. InvModFr(a) = IF a = 0 THEN 0 ELSE CHOOSE b \in Fr : a \odot b = 1
  BY DEF InvModFr, InverseOf, Slice
<1>3. CASE a = 0
  BY <1>2, <1>3
<1>4. CASE a # 0
  <2>1. a \in 1 .. Modulus - 1
    BY <1>4, ModulusFacts DEF Fr
  <2>2. \E b \in Fr : a \odot b = 1
    BY <2>1, ModulusAssumption
  <2> QED BY <1>2, <1>4, <2>2
<1> QED BY <1>3, <1>4

(* A factor that is not 0 is cancelled.                                    *)
LEMMA FrCancel ==
    \A a, b, c \in Fr : /\ c # 0 /\ a \odot c = b \odot c => a = b
                        /\ c # 0 /\ a \odot c = 0 => a = 0
                        /\ c # 0 => DivModFr(a \odot c, c) = a
<1>1. \A a, c \in Fr : c # 0 => (a \odot c) \odot InvModFr(c) = a
  <2>1. SUFFICES ASSUME NEW a \in Fr, NEW c \in Fr, c # 0
                 PROVE  (a \odot c) \odot InvModFr(c) = a
    OBVIOUS
  <2>2. InvModFr(c) \in Fr /\ c \odot InvModFr(c) = 1
    BY <2>1, FrInverse
  <2>3. (a \odot c) \odot InvModFr(c) = a \odot (c \odot InvModFr(c))
    BY <2>2, FrAssociates
  <2> QED BY <2>2, <2>3, FrUnits
<1>2. \A c \in Fr : 0 \odot InvModFr(c) = 0
  BY FrInverse, FrUnits
<1> QED BY <1>1, <1>2 DEF DivModFr
-----------------------------------------------------------------------------
(* Sums: what they are, and what holds of them whatever is summed.         *)

SumStep(a, n) == [i \in 1 .. n |-> [v \in Fr |-> v \oplus a[i - 1]]]

(* The sums of the first elements are what the loop of SumFr computes.     *)
LEMMA SumIsLoop ==
    ASSUME NEW n \in Nat, NEW a, \A i \in 0 .. n - 1 : a[i] \in Fr
    PROVE  \E g : /\ Loop(g, n, [i \in 0 .. n |-> Fr], 0, SumStep(a, n))
                  /\ SumFr(a, n) = g[n]
<1> DEFINE V == [i \in 0 .. n |-> Fr]
           F(g) == g = [i \in 0 .. n |-> IF i = 0 THEN 0 ELSE g[i - 1] \oplus a[i - 1]]
           sum == CHOOSE g : F(g)
<1>1. PICK g : Loop(g, n, V, 0, SumStep(a, n))
  <2>1. 0 \in V[0]
    BY ModulusFacts
  <2>2. ASSUME NEW i \in 1 .. n, NEW v \in V[i - 1]
        PROVE  SumStep(a, n)[i][v] \in V[i]
    <3>1. v \in Fr /\ i - 1 \in 0 .. n - 1 /\ a[i - 1] \in Fr
      BY <2>2
    <3>2. SumStep(a, n)[i][v] = v \oplus a[i - 1]
      BY <3>1 DEF SumStep
    <3> QED BY <3>1, <3>2, FrClosed
  <2> HIDE DEF V
  <2> QED BY <2>1, <2>2, LoopRuns
<1>2. F(g)
  <2>1. \A i \in 0 .. n : g[i] \in Fr
    BY <1>1 DEF Loop
  <2>2. ASSUME NEW i \in 0 .. n
        PROVE  (IF i = 0 THEN 0 ELSE SumStep(a, n)[i][g[i - 1]])
                   = IF i = 0 THEN 0 ELSE g[i - 1] \oplus a[i - 1]
    BY <2>1 DEF SumStep
  <2>3. g = [i \in 0 .. n |-> IF i = 0 THEN 0 ELSE SumStep(a, n)[i][g[i - 1]]]
    BY <1>1 DEF Loop
  <2>4. [i \in 0 .. n |-> IF i = 0 THEN 0 ELSE SumStep(a, n)[i][g[i - 1]]]
            = [i \in 0 .. n |-> IF i = 0 THEN 0 ELSE g[i - 1] \oplus a[i - 1]]
    BY <2>2
  <2> QED BY <2>3, <2>4
<1>3. F(sum)
  <2> HIDE DEF F
  <2> QED BY <1>2
<1>4. SumFr(a, n) = sum[n]
  BY DEF SumFr
<1>5. \A i \in 0 .. n : sum[i] = g[i]
  <2>1. \A i \in 0 .. n : g[i] \in Fr
    BY <1>1 DEF Loop
  <2>2. sum[0] = 0 /\ \A i \in 1 .. n : sum[i] = sum[i - 1] \oplus a[i - 1]
    <3> HIDE DEF sum
    <3> QED BY <1>3
  <2>3. \A i \in 1 .. n : sum[i - 1] \in V[i - 1] => sum[i] = SumStep(a, n)[i][sum[i - 1]]
    <3> HIDE DEF sum
    <3> QED BY <2>2 DEF SumStep
  <2> HIDE DEF sum, F, V
  <2>4. Follows(sum, n, V, 0, SumStep(a, n))
    <3> HIDE DEF sum, F, V
    <3> QED BY <2>2, <2>3 DEF Follows
  <2> HIDE DEF sum, F, V
  <2> QED BY <1>1, <2>4, LoopFollowed
<1>6. SumFr(a, n) = g[n]
  <2> HIDE DEF sum
  <2> QED BY <1>4, <1>5
<1> HIDE DEF F, sum
<1> QED BY <1>1, <1>6

(* The empty sum, and one element more.                                    *)
LEMMA SumEmpty == \A a : SumFr(a, 0) = 0
<1>1. SUFFICES ASSUME NEW a PROVE SumFr(a, 0) = 0
  OBVIOUS
<1>2. PICK g : Loop(g, 0, [i \in 0 .. 0 |-> Fr], 0, SumStep(a, 0)) /\ SumFr(a, 0) = g[0]
  BY SumIsLoop
<1> QED BY <1>2 DEF Loop

(* The sum of one more value.                                              *)
LEMMA SumNext ==
    ASSUME NEW n \in Nat, NEW a, \A i \in 0 .. n : a[i] \in Fr
    PROVE  SumFr(a, n) \in Fr /\ SumFr(a, n + 1) = SumFr(a, n) \oplus a[n]
<1> DEFINE step == SumStep(a, n + 1)
<1>1. PICK g : Loop(g, n, [i \in 0 .. n |-> Fr], 0, SumStep(a, n)) /\ SumFr(a, n) = g[n]
  <2>1. \A i \in 0 .. n - 1 : a[i] \in Fr
    OBVIOUS
  <2> QED BY <2>1, SumIsLoop
<1>2. PICK h : /\ Loop(h, n + 1, [i \in 0 .. n + 1 |-> Fr], 0, step)
               /\ SumFr(a, n + 1) = h[n + 1]
  BY SumIsLoop
<1>3. Loop(g, n, [i \in 0 .. n |-> Fr], 0, step)
  <2>1. \A i \in 1 .. n : SumStep(a, n)[i] = step[i]
    BY DEF SumStep
  <2>2. [i \in 0 .. n |-> IF i = 0 THEN 0 ELSE SumStep(a, n)[i][g[i - 1]]]
            = [i \in 0 .. n |-> IF i = 0 THEN 0 ELSE step[i][g[i - 1]]]
    <3> HIDE DEF step
    <3> QED BY <2>1
  <2> HIDE DEF step
  <2> QED BY <1>1, <2>2 DEF Loop
<1>4. h[n] = g[n]
  <2>1. \A i \in 0 .. n : h[i] = g[i]
    <3>1. Follows(h, n, [i \in 0 .. n |-> Fr], 0, step)
      <4> HIDE DEF step
      <4> QED BY <1>2 DEF Loop, Follows
    <3> HIDE DEF step
    <3> QED BY <1>3, <3>1, LoopFollowed
  <2> QED BY <2>1
<1>5. g[n] \in Fr
  BY <1>1 DEF Loop
<1>6. h[n + 1] = step[n + 1][h[n]]
  <2>1. n + 1 \in 0 .. n + 1 /\ n + 1 # 0 /\ (n + 1) - 1 = n
    OBVIOUS
  <2> HIDE DEF step
  <2> QED BY <1>2, <2>1 DEF Loop
<1>7. step[n + 1][h[n]] = h[n] \oplus a[n]
  BY <1>4, <1>5 DEF SumStep
<1> QED BY <1>1, <1>2, <1>4, <1>5, <1>6, <1>7

(* A sum of elements is an element.                                        *)
LEMMA SumType ==
    ASSUME NEW n \in Nat, NEW a, \A i \in 0 .. n - 1 : a[i] \in Fr
    PROVE  SumFr(a, n) \in Fr
<1>1. PICK g : Loop(g, n, [i \in 0 .. n |-> Fr], 0, SumStep(a, n)) /\ SumFr(a, n) = g[n]
  BY SumIsLoop
<1> QED BY <1>1 DEF Loop

(* The sum of sums.                                                        *)
LEMMA SumAdds ==
    ASSUME NEW n \in Nat, NEW a, NEW b, NEW c,
           \A i \in 0 .. n - 1 : a[i] \in Fr /\ b[i] \in Fr /\ c[i] = a[i] \oplus b[i]
    PROVE  SumFr(c, n) = SumFr(a, n) \oplus SumFr(b, n)
<1> DEFINE S == {m \in 0 .. n : SumFr(c, m) = SumFr(a, m) \oplus SumFr(b, m)}
<1>1. 0 \in S
  BY SumEmpty, FrUnits, ModulusFacts
<1>2. ASSUME NEW m \in 0 .. n - 1, m \in S
      PROVE  m + 1 \in S
  <2>1. \A i \in 0 .. m : a[i] \in Fr /\ b[i] \in Fr /\ c[i] \in Fr
    BY FrClosed
  <2>2. /\ SumFr(a, m) \in Fr /\ SumFr(a, m + 1) = SumFr(a, m) \oplus a[m]
        /\ SumFr(b, m) \in Fr /\ SumFr(b, m + 1) = SumFr(b, m) \oplus b[m]
        /\ SumFr(c, m + 1) = SumFr(c, m) \oplus c[m]
    BY <2>1, SumNext
  <2>3. SumFr(c, m) = SumFr(a, m) \oplus SumFr(b, m) /\ c[m] = a[m] \oplus b[m]
        /\ a[m] \in Fr /\ b[m] \in Fr
    BY <1>2, <2>1
  <2>4. SumFr(c, m + 1) = SumFr(a, m + 1) \oplus SumFr(b, m + 1)
    BY <2>2, <2>3, FrExchange
  <2> QED BY <2>4
<1>3. n \in S
  <2> HIDE DEF S
  <2> QED BY <1>1, <1>2, CountTo
<1> QED BY <1>3

(* The sum of differences is the difference of the sums.                   *)
LEMMA SumSubtracts ==
    ASSUME NEW n \in Nat, NEW a, NEW b, NEW c,
           \A i \in 0 .. n - 1 : a[i] \in Fr /\ b[i] \in Fr /\ c[i] = a[i] \ominus b[i]
    PROVE  SumFr(c, n) = SumFr(a, n) \ominus SumFr(b, n)
<1>1. \A i \in 0 .. n - 1 : c[i] \in Fr /\ b[i] \in Fr /\ a[i] = c[i] \oplus b[i]
  <2>1. SUFFICES ASSUME NEW i \in 0 .. n - 1
                 PROVE  c[i] \in Fr /\ b[i] \in Fr /\ a[i] = c[i] \oplus b[i]
    OBVIOUS
  <2>2. a[i] \in Fr /\ b[i] \in Fr /\ c[i] = a[i] \ominus b[i]
    OBVIOUS
  <2>3. c[i] \in Fr
    BY <2>2, FrClosed
  <2> QED BY <2>2, <2>3, FrDifference
<1>2. SumFr(a, n) = SumFr(c, n) \oplus SumFr(b, n)
  BY <1>1, SumAdds
<1>3. SumFr(c, n) \in Fr /\ SumFr(b, n) \in Fr
  BY <1>1, SumType
<1> QED BY <1>2, <1>3, FrDifference

(* A common factor.                                                        *)
LEMMA SumTimes ==
    ASSUME NEW n \in Nat, NEW x \in Fr, NEW a, NEW c,
           \A i \in 0 .. n - 1 : a[i] \in Fr /\ c[i] = x \odot a[i]
    PROVE  SumFr(c, n) = x \odot SumFr(a, n)
<1> DEFINE S == {m \in 0 .. n : SumFr(c, m) = x \odot SumFr(a, m)}
<1>1. 0 \in S
  BY SumEmpty, FrUnits, ModulusFacts
<1>2. ASSUME NEW m \in 0 .. n - 1, m \in S
      PROVE  m + 1 \in S
  <2>1. \A i \in 0 .. m : a[i] \in Fr /\ c[i] \in Fr
    BY FrClosed
  <2>2. /\ SumFr(a, m) \in Fr /\ SumFr(a, m + 1) = SumFr(a, m) \oplus a[m]
        /\ SumFr(c, m + 1) = SumFr(c, m) \oplus c[m]
    BY <2>1, SumNext
  <2>3. SumFr(c, m) = x \odot SumFr(a, m) /\ c[m] = x \odot a[m] /\ a[m] \in Fr
    BY <1>2, <2>1
  <2>4. SumFr(c, m + 1) = x \odot SumFr(a, m + 1)
    BY <2>2, <2>3, FrDistributes
  <2> QED BY <2>4
<1>3. n \in S
  <2> HIDE DEF S
  <2> QED BY <1>1, <1>2, CountTo
<1> QED BY <1>3

(* Equal values have equal sums.                                           *)
LEMMA SumEqual ==
    ASSUME NEW n \in Nat, NEW a, NEW b, \A i \in 0 .. n - 1 : a[i] \in Fr /\ b[i] = a[i]
    PROVE  SumFr(b, n) = SumFr(a, n)
<1>1. \A i \in 0 .. n - 1 : b[i] = 1 \odot a[i]
  BY FrUnits
<1>2. SumFr(b, n) = 1 \odot SumFr(a, n)
  BY <1>1, SumTimes, ModulusFacts
<1> QED BY <1>2, SumType, FrUnits

(* Zeros sum to 0.                                                         *)
LEMMA SumZero ==
    ASSUME NEW n \in Nat, NEW a, \A i \in 0 .. n - 1 : a[i] = 0
    PROVE  SumFr(a, n) = 0
<1>1. \A i \in 0 .. n - 1 : a[i] \in Fr /\ a[i] = 0 \odot a[i]
  BY FrUnits, ModulusFacts
<1>2. SumFr(a, n) = 0 \odot SumFr(a, n)
  BY <1>1, SumTimes, ModulusFacts
<1> QED BY <1>1, <1>2, SumType, FrUnits

(* A part, and the rest.                                                   *)
LEMMA SumParts ==
    ASSUME NEW n \in Nat, NEW m \in Nat, NEW a, NEW b,
           \A i \in 0 .. n + m - 1 : a[i] \in Fr,
           \A i \in 0 .. m - 1 : b[i] = a[n + i]
    PROVE  SumFr(a, n + m) = SumFr(a, n) \oplus SumFr(b, m)
<1> DEFINE S == {k \in 0 .. m : SumFr(a, n + k) = SumFr(a, n) \oplus SumFr(b, k)}
<1>1. 0 \in S
  <2>1. SumFr(a, n) \in Fr
    <3>1. \A i \in 0 .. n - 1 : a[i] \in Fr
      OBVIOUS
    <3> QED BY <3>1, SumType
  <2> QED BY <2>1, SumEmpty, FrUnits
<1>2. ASSUME NEW k \in 0 .. m - 1, k \in S
      PROVE  k + 1 \in S
  <2>1. /\ \A i \in 0 .. n - 1 : a[i] \in Fr
        /\ \A i \in 0 .. n + k : a[i] \in Fr
        /\ \A i \in 0 .. k : b[i] \in Fr /\ b[i] = a[n + i]
    OBVIOUS
  <2>2. n + k \in Nat /\ SumFr(a, n) \in Fr
    BY <2>1, SumType
  <2>3. /\ SumFr(a, (n + k) + 1) = SumFr(a, n + k) \oplus a[n + k]
        /\ SumFr(b, k) \in Fr /\ SumFr(b, k + 1) = SumFr(b, k) \oplus b[k]
    BY <2>1, <2>2, SumNext
  <2>4. SumFr(a, n + k) = SumFr(a, n) \oplus SumFr(b, k) /\ b[k] = a[n + k] /\ b[k] \in Fr
    BY <1>2, <2>1
  <2>5. (SumFr(a, n) \oplus SumFr(b, k)) \oplus b[k] = SumFr(a, n) \oplus (SumFr(b, k) \oplus b[k])
    BY <2>2, <2>3, <2>4, FrAssociates
  <2>6. (n + k) + 1 = n + (k + 1)
    OBVIOUS
  <2> QED BY <2>3, <2>4, <2>5, <2>6
<1>3. m \in S
  <2> HIDE DEF S
  <2> QED BY <1>1, <1>2, CountTo
<1> QED BY <1>3

(* One element that is not 0.                                              *)
LEMMA SumSingle ==
    ASSUME NEW n \in Nat, NEW k \in 0 .. n - 1, NEW a, a[k] \in Fr,
           \A i \in 0 .. n - 1 : i # k => a[i] = 0
    PROVE  SumFr(a, n) = a[k]
<1> DEFINE b == [i \in 0 .. (n - 1 - k) - 1 |-> a[(k + 1) + i]]
<1>1. /\ k \in Nat /\ k + 1 \in Nat /\ n - 1 - k \in Nat /\ n = (k + 1) + (n - 1 - k)
      /\ \A i \in 0 .. k - 1 : a[i] = 0
      /\ \A i \in 0 .. n - 1 : a[i] \in Fr
      /\ \A i \in 0 .. k : a[i] \in Fr
      /\ \A i \in 0 .. (n - 1 - k) - 1 : b[i] = a[(k + 1) + i] /\ b[i] = 0
  BY ModulusFacts
<1> HIDE DEF b
<1>2. SumFr(a, (k + 1) + (n - 1 - k)) = SumFr(a, k + 1) \oplus SumFr(b, n - 1 - k)
  BY <1>1, SumParts
<1>3. SumFr(b, n - 1 - k) = 0 /\ SumFr(a, k) = 0
  BY <1>1, SumZero
<1>4. SumFr(a, k + 1) = SumFr(a, k) \oplus a[k]
  BY <1>1, SumNext
<1> QED BY <1>1, <1>2, <1>3, <1>4, FrUnits

(* r[i] is the sum of the m elements of row i of e, for each of n rows.    *)
RowSums(e, r, n, m) == \A i \in 0 .. n - 1 : r[i] = SumFr(e[i], m)

(* The order of two sums.                                                  *)
LEMMA SumExchanges ==
    ASSUME NEW n \in Nat, NEW m \in Nat, NEW e, NEW f, NEW r, NEW c,
           \A i \in 0 .. n - 1 : \A j \in 0 .. m - 1 : e[i][j] \in Fr /\ f[j][i] = e[i][j],
           RowSums(e, r, n, m), RowSums(f, c, m, n)
    PROVE  SumFr(r, n) = SumFr(c, m)
<1> USE DEF RowSums
<1> DEFINE col(k) == [j \in 0 .. m - 1 |-> SumFr(f[j], k)]
           S == {k \in 0 .. n : SumFr(r, k) = SumFr(col(k), m)}
<1>1. 0 \in S
  <2>1. \A j \in 0 .. m - 1 : col(0)[j] = 0
    BY SumEmpty
  <2>2. SumFr(col(0), m) = 0
    <3> HIDE DEF col
    <3> QED BY <2>1, SumZero
  <2> QED BY <2>2, SumEmpty
<1>2. ASSUME NEW k \in 0 .. n - 1, k \in S
      PROVE  k + 1 \in S
  <2>1. \A j \in 0 .. m - 1 : /\ col(k)[j] = SumFr(f[j], k)
                              /\ col(k + 1)[j] = SumFr(f[j], k + 1)
    OBVIOUS
  <2>2. SumFr(r, k) = SumFr(col(k), m)
    BY <1>2
  <2> HIDE DEF col
  <2>3. ASSUME NEW j \in 0 .. m - 1
        PROVE  /\ col(k)[j] \in Fr /\ e[k][j] \in Fr
               /\ col(k + 1)[j] = col(k)[j] \oplus e[k][j]
    <3>1. \A i \in 0 .. k : f[j][i] \in Fr /\ f[j][i] = e[i][j]
      OBVIOUS
    <3>2. SumFr(f[j], k) \in Fr /\ SumFr(f[j], k + 1) = SumFr(f[j], k) \oplus f[j][k]
      BY <3>1, SumNext
    <3> QED BY <2>1, <3>1, <3>2
  <2>4. SumFr(col(k + 1), m) = SumFr(col(k), m) \oplus SumFr(e[k], m)
    BY <2>3, SumAdds
  <2>5. SumFr(r, k + 1) = SumFr(r, k) \oplus r[k]
    <3>1. ASSUME NEW i \in 0 .. k PROVE r[i] \in Fr
      <4>1. \A j \in 0 .. m - 1 : e[i][j] \in Fr
        OBVIOUS
      <4>2. SumFr(e[i], m) \in Fr
        BY <4>1, SumType
      <4> QED BY <4>2
    <3> QED BY <3>1, SumNext
  <2>6. r[k] = SumFr(e[k], m)
    OBVIOUS
  <2> QED BY <2>2, <2>4, <2>5, <2>6
<1>3. n \in S
  <2>1. 0 \in S /\ \A k \in 0 .. n - 1 : k \in S => k + 1 \in S
    BY <1>1, <1>2
  <2> HIDE DEF S
  <2>2. \A k \in 0 .. n : k \in S
    BY <2>1, CountTo
  <2> QED BY <2>2
<1>4. SumFr(r, n) = SumFr(col(n), m)
  BY <1>3
<1>5. \A j \in 0 .. m - 1 : col(n)[j] = c[j] /\ c[j] \in Fr
  <2>1. SUFFICES ASSUME NEW j \in 0 .. m - 1 PROVE col(n)[j] = c[j] /\ c[j] \in Fr
    OBVIOUS
  <2>2. \A i \in 0 .. n - 1 : f[j][i] \in Fr
    OBVIOUS
  <2>3. SumFr(f[j], n) \in Fr
    BY <2>2, SumType
  <2> QED BY <2>3
<1> HIDE DEF col
<1> QED BY <1>4, <1>5, SumEqual

(* The elements at the even indices, and those at the odd ones.            *)
LEMMA SumEvenOdd ==
    ASSUME NEW n \in Nat, NEW a, NEW b, NEW c,
           \A i \in 0 .. 2 * n - 1 : a[i] \in Fr,
           \A i \in 0 .. n - 1 : b[i] = a[2 * i] /\ c[i] = a[2 * i + 1]
    PROVE  SumFr(a, 2 * n) = SumFr(b, n) \oplus SumFr(c, n)
<1> DEFINE S == {m \in 0 .. n : SumFr(a, 2 * m) = SumFr(b, m) \oplus SumFr(c, m)}
<1>1. 0 \in S
  BY SumEmpty, FrUnits, ModulusFacts
<1>2. ASSUME NEW m \in 0 .. n - 1, m \in S
      PROVE  m + 1 \in S
  <2>1. /\ \A i \in 0 .. 2 * m + 1 : a[i] \in Fr
        /\ \A i \in 0 .. 2 * m : a[i] \in Fr
        /\ \A i \in 0 .. m : b[i] \in Fr /\ c[i] \in Fr
    OBVIOUS
  <2>2. /\ 2 * m \in Nat /\ 2 * m + 1 \in Nat /\ b[m] = a[2 * m] /\ c[m] = a[2 * m + 1]
        /\ b[m] \in Fr /\ c[m] \in Fr /\ (2 * m + 1) + 1 = 2 * (m + 1)
    BY <2>1
  <2>3. /\ SumFr(a, 2 * m + 1) = SumFr(a, 2 * m) \oplus a[2 * m]
        /\ SumFr(a, (2 * m + 1) + 1) = SumFr(a, 2 * m + 1) \oplus a[2 * m + 1]
    BY <2>1, <2>2, SumNext
  <2>4. /\ SumFr(b, m) \in Fr /\ SumFr(b, m + 1) = SumFr(b, m) \oplus b[m]
        /\ SumFr(c, m) \in Fr /\ SumFr(c, m + 1) = SumFr(c, m) \oplus c[m]
    BY <2>1, SumNext
  <2>5. SumFr(a, 2 * m) = SumFr(b, m) \oplus SumFr(c, m)
    BY <1>2
  <2>6. ((SumFr(b, m) \oplus SumFr(c, m)) \oplus b[m]) \oplus c[m]
            = (SumFr(b, m) \oplus b[m]) \oplus (SumFr(c, m) \oplus c[m])
    <3>1. \A w, x, y, z \in Fr : ((w \oplus x) \oplus y) \oplus z = (w \oplus y) \oplus (x \oplus z)
      <4>1. SUFFICES ASSUME NEW w \in Fr, NEW x \in Fr, NEW y \in Fr, NEW z \in Fr
            PROVE  ((w \oplus x) \oplus y) \oplus z = (w \oplus y) \oplus (x \oplus z)
        OBVIOUS
      <4>2. w \oplus x \in Fr
        BY FrClosed
      <4>3. ((w \oplus x) \oplus y) \oplus z = (w \oplus x) \oplus (y \oplus z)
        BY <4>2, FrAssociates
      <4> QED BY <4>3, FrExchange
    <3> QED BY <2>2, <2>4, <3>1
  <2> QED BY <2>2, <2>3, <2>4, <2>5, <2>6
<1>3. \A m \in 0 .. n : m \in S
  <2> HIDE DEF S
  <2> QED BY <1>1, <1>2, CountTo
<1> QED BY <1>3
-----------------------------------------------------------------------------
(* Powers.                                                                 *)

ExpStep(v, n) == [i \in 1 .. n |-> [w \in Fr |-> w \odot v]]

(* The square of a power is the power to twice the exponent.               *)
LEMMA ExpSquare ==
    ASSUME NEW n \in Nat, NEW v \in Fr, NEW g,
           Loop(g, n, [i \in 0 .. n |-> Fr], 1, ExpStep(v, n))
    PROVE  /\ g[0] = 1
           /\ \A i \in 0 .. n : g[i] \in Fr
           /\ \A i \in 1 .. n : g[i] = g[i - 1] \odot v
           /\ \A h \in 0 .. n : 2 * h <= n => g[2 * h] = g[h] \odot g[h]
<1> DEFINE S == {h \in 0 .. n : 2 * h <= n => g[2 * h] = g[h] \odot g[h]}
<1>1. \A i \in 0 .. n : g[i] \in Fr
  BY DEF Loop
<1>2. g[0] = 1
  BY DEF Loop
<1>3. \A i \in 1 .. n : g[i] = g[i - 1] \odot v
  <2>1. SUFFICES ASSUME NEW i \in 1 .. n PROVE g[i] = g[i - 1] \odot v
    OBVIOUS
  <2>2. g[i] = ExpStep(v, n)[i][g[i - 1]]
    BY DEF Loop
  <2>3. g[i - 1] \in Fr
    BY <1>1
  <2> QED BY <2>2, <2>3 DEF ExpStep
<1>4. 0 \in S
  <2>1. 1 \odot 1 = 1 /\ 2 * 0 = 0
    BY FrUnits, ModulusFacts
  <2> QED BY <1>2, <2>1
<1>5. ASSUME NEW h \in 0 .. n - 1, h \in S
      PROVE  h + 1 \in S
  <2>1. SUFFICES ASSUME 2 * (h + 1) <= n
                 PROVE  g[2 * (h + 1)] = g[h + 1] \odot g[h + 1]
    OBVIOUS
  <2>2. /\ 2 * h + 1 \in 1 .. n /\ 2 * h + 2 \in 1 .. n /\ 2 * (h + 1) = 2 * h + 2
        /\ h + 1 \in 1 .. n /\ 2 * h \in 0 .. n /\ 2 * h <= n
        /\ (2 * h + 1) - 1 = 2 * h /\ (2 * h + 2) - 1 = 2 * h + 1 /\ (h + 1) - 1 = h
    BY <2>1
  <2>3. /\ g[2 * h + 1] = g[2 * h] \odot v
        /\ g[2 * h + 2] = g[2 * h + 1] \odot v
        /\ g[h + 1] = g[h] \odot v
    BY <1>3, <2>2
  <2>4. g[2 * h] = g[h] \odot g[h] /\ g[h] \in Fr
    BY <1>1, <1>5, <2>2
  <2>5. ((g[h] \odot g[h]) \odot v) \odot v = (g[h] \odot v) \odot (g[h] \odot v)
    <3>1. g[h] \odot g[h] \in Fr
      BY <2>4, FrClosed
    <3>2. ((g[h] \odot g[h]) \odot v) \odot v = (g[h] \odot g[h]) \odot (v \odot v)
      BY <3>1, FrAssociates
    <3> QED BY <2>4, <3>2, FrExchange
  <2> QED BY <2>2, <2>3, <2>4, <2>5
<1>6. \A h \in 0 .. n : h \in S
  <2> HIDE DEF S
  <2> QED BY <1>4, <1>5, CountTo
<1> QED BY <1>1, <1>2, <1>3, <1>6

(* The powers are what a loop that multiplies e times computes.            *)
LEMMA ExpIsLoop ==
    ASSUME NEW n \in Nat, NEW v \in Fr
    PROVE  \E g : /\ Loop(g, n, [i \in 0 .. n |-> Fr], 1, ExpStep(v, n))
                  /\ ExpModFr(v, n) = g[n]
<1> DEFINE V == [i \in 0 .. n |-> Fr]
           next(g, i) == IF i = 0 THEN 1
                         ELSE IF i % 2 = 0 THEN g[i \div 2] \odot g[i \div 2]
                         ELSE g[i - 1] \odot v
           F(g) == g = [i \in 0 .. n |-> next(g, i)]
           power == CHOOSE g : F(g)
<1>1. PICK g : Loop(g, n, V, 1, ExpStep(v, n))
  <2>1. 1 \in V[0]
    BY ModulusFacts
  <2>2. ASSUME NEW i \in 1 .. n, NEW w \in V[i - 1]
        PROVE  ExpStep(v, n)[i][w] \in V[i]
    <3>1. w \in Fr
      BY <2>2
    <3>2. ExpStep(v, n)[i][w] = w \odot v
      BY <3>1 DEF ExpStep
    <3> QED BY <3>1, <3>2, FrClosed
  <2> HIDE DEF V
  <2> QED BY <2>1, <2>2, LoopRuns
<1>2. /\ g[0] = 1
      /\ \A i \in 1 .. n : g[i] = g[i - 1] \odot v
      /\ \A h \in 0 .. n : 2 * h <= n => g[2 * h] = g[h] \odot g[h]
  BY <1>1, ExpSquare
<1>3. \A i \in 0 .. n : g[i] = next(g, i)
  <2>1. SUFFICES ASSUME NEW i \in 0 .. n PROVE g[i] = next(g, i)
    OBVIOUS
  <2>2. CASE i = 0
    BY <1>2, <2>2
  <2>3. CASE i # 0 /\ i % 2 = 0
    <3>1. i \div 2 \in 0 .. n /\ 2 * (i \div 2) = i
      BY <2>3
    <3> QED BY <1>2, <2>3, <3>1
  <2>4. CASE i # 0 /\ i % 2 # 0
    BY <1>2, <2>4
  <2> QED BY <2>2, <2>3, <2>4
<1>4. F(g)
  <2>1. g = [i \in 0 .. n |-> IF i = 0 THEN 1 ELSE ExpStep(v, n)[i][g[i - 1]]]
    BY <1>1 DEF Loop
  <2> HIDE DEF next
  <2> QED BY <1>3, <2>1
<1>5. F(power)
  <2> HIDE DEF F
  <2> QED BY <1>4
<1>6. ExpModFr(v, n) = power[n]
  BY DEF ExpModFr
<1>7. \A i \in 0 .. n : power[i] = next(power, i)
  <2> HIDE DEF power, next
  <2> QED BY <1>5
<1> DEFINE S == {i \in 0 .. n : \A j \in 0 .. i : power[j] = g[j]}
<1>8. \A i \in 0 .. n : i \in S
  <2> HIDE DEF power
  <2>1. 0 \in S
    BY <1>2, <1>7
  <2>2. ASSUME NEW i \in 0 .. n - 1, i \in S
        PROVE  i + 1 \in S
    <3>1. /\ (i + 1) \div 2 \in 0 .. i /\ (i + 1) - 1 \in 0 .. i
          /\ i + 1 \in 0 .. n /\ i + 1 # 0
      OBVIOUS
    <3>2. \A j \in 0 .. i : power[j] = g[j]
      BY <2>2
    <3>3. power[(i + 1) \div 2] = g[(i + 1) \div 2] /\ power[(i + 1) - 1] = g[(i + 1) - 1]
      BY <3>1, <3>2
    <3>4. next(power, i + 1) = next(g, i + 1)
      BY <3>3
    <3>5. power[i + 1] = g[i + 1]
      <4> HIDE DEF next
      <4> QED BY <1>3, <1>7, <3>1, <3>4
    <3> QED BY <3>1, <3>2, <3>5
  <2> HIDE DEF S
  <2> QED BY <2>1, <2>2, CountTo
<1>9. ExpModFr(v, n) = g[n]
  <2>1. n \in 0 .. n
    OBVIOUS
  <2> HIDE DEF power
  <2> QED BY <1>6, <1>8, <2>1
<1> HIDE DEF F, power
<1> QED BY <1>1, <1>9

(* The power 0 is 1.                                                       *)
LEMMA ExpZero == \A v \in Fr : ExpModFr(v, 0) = 1
<1>1. SUFFICES ASSUME NEW v \in Fr PROVE ExpModFr(v, 0) = 1
  OBVIOUS
<1>2. PICK g : Loop(g, 0, [i \in 0 .. 0 |-> Fr], 1, ExpStep(v, 0)) /\ ExpModFr(v, 0) = g[0]
  BY ExpIsLoop
<1> QED BY <1>2 DEF Loop

(* One more factor.                                                        *)
LEMMA ExpNext ==
    ASSUME NEW n \in Nat, NEW v \in Fr
    PROVE  ExpModFr(v, n) \in Fr /\ ExpModFr(v, n + 1) = ExpModFr(v, n) \odot v
<1> DEFINE step == ExpStep(v, n + 1)
<1>1. PICK g : Loop(g, n, [i \in 0 .. n |-> Fr], 1, ExpStep(v, n)) /\ ExpModFr(v, n) = g[n]
  BY ExpIsLoop
<1>2. PICK h : /\ Loop(h, n + 1, [i \in 0 .. n + 1 |-> Fr], 1, step)
               /\ ExpModFr(v, n + 1) = h[n + 1]
  BY ExpIsLoop
<1>3. Loop(g, n, [i \in 0 .. n |-> Fr], 1, step)
  <2>1. \A i \in 1 .. n : ExpStep(v, n)[i] = step[i]
    BY DEF ExpStep
  <2>2. [i \in 0 .. n |-> IF i = 0 THEN 1 ELSE ExpStep(v, n)[i][g[i - 1]]]
            = [i \in 0 .. n |-> IF i = 0 THEN 1 ELSE step[i][g[i - 1]]]
    <3> HIDE DEF step
    <3> QED BY <2>1
  <2> HIDE DEF step
  <2> QED BY <1>1, <2>2 DEF Loop
<1>4. h[n] = g[n]
  <2>1. \A i \in 0 .. n : h[i] = g[i]
    <3>1. Follows(h, n, [i \in 0 .. n |-> Fr], 1, step)
      <4> HIDE DEF step
      <4> QED BY <1>2 DEF Loop, Follows
    <3> HIDE DEF step
    <3> QED BY <1>3, <3>1, LoopFollowed
  <2> QED BY <2>1
<1>5. g[n] \in Fr
  BY <1>1 DEF Loop
<1>6. h[n + 1] = step[n + 1][h[n]]
  <2>1. n + 1 \in 0 .. n + 1 /\ n + 1 # 0 /\ (n + 1) - 1 = n
    OBVIOUS
  <2> HIDE DEF step
  <2> QED BY <1>2, <2>1 DEF Loop
<1>7. step[n + 1][h[n]] = h[n] \odot v
  BY <1>4, <1>5 DEF ExpStep
<1> QED BY <1>1, <1>2, <1>4, <1>5, <1>6, <1>7

TwoToStep(n) == [i \in 1 .. n |-> [w \in Nat |-> 2 * w]]

(* The same for the powers of two.                                         *)
LEMMA TwoToIsLoop ==
    ASSUME NEW n \in Nat
    PROVE  \E g : /\ Loop(g, n, [i \in 0 .. n |-> Nat], 1, TwoToStep(n))
                  /\ TwoTo(n) = g[n]
<1> DEFINE V == [i \in 0 .. n |-> Nat]
           F(g) == g = [i \in 0 .. n |-> IF i = 0 THEN 1 ELSE 2 * g[i - 1]]
           power == CHOOSE g : F(g)
<1>1. PICK g : Loop(g, n, V, 1, TwoToStep(n))
  <2>1. 1 \in V[0]
    BY ModulusFacts
  <2>2. ASSUME NEW i \in 1 .. n, NEW w \in V[i - 1]
        PROVE  TwoToStep(n)[i][w] \in V[i]
    <3>1. w \in Nat
      BY <2>2
    <3>2. TwoToStep(n)[i][w] = 2 * w
      BY <3>1 DEF TwoToStep
    <3> QED BY <3>1, <3>2
  <2> HIDE DEF V
  <2> QED BY <2>1, <2>2, LoopRuns
<1>2. F(g)
  <2>1. \A i \in 0 .. n : g[i] \in Nat
    BY <1>1 DEF Loop
  <2>2. ASSUME NEW i \in 0 .. n
        PROVE  (IF i = 0 THEN 1 ELSE TwoToStep(n)[i][g[i - 1]])
                   = IF i = 0 THEN 1 ELSE 2 * g[i - 1]
    BY <2>1 DEF TwoToStep
  <2>3. g = [i \in 0 .. n |-> IF i = 0 THEN 1 ELSE TwoToStep(n)[i][g[i - 1]]]
    BY <1>1 DEF Loop
  <2>4. [i \in 0 .. n |-> IF i = 0 THEN 1 ELSE TwoToStep(n)[i][g[i - 1]]]
            = [i \in 0 .. n |-> IF i = 0 THEN 1 ELSE 2 * g[i - 1]]
    BY <2>2
  <2> QED BY <2>3, <2>4
<1>3. F(power)
  <2> HIDE DEF F
  <2> QED BY <1>2
<1>4. TwoTo(n) = power[n]
  BY DEF TwoTo
<1>5. \A i \in 0 .. n : power[i] = g[i]
  <2>1. power[0] = 1 /\ \A i \in 1 .. n : power[i] = 2 * power[i - 1]
    <3> HIDE DEF power
    <3> QED BY <1>3
  <2>2. \A i \in 1 .. n : power[i - 1] \in V[i - 1] => power[i] = TwoToStep(n)[i][power[i - 1]]
    <3>1. \A i \in 1 .. n : \A w \in V[i - 1] : TwoToStep(n)[i][w] = 2 * w
      BY DEF TwoToStep
    <3> HIDE DEF power, F, V
    <3> QED BY <2>1, <3>1
  <2>3. Follows(power, n, V, 1, TwoToStep(n))
    <3> HIDE DEF power, F, V
    <3> QED BY <2>1, <2>2 DEF Follows
  <2> HIDE DEF power, F, V
  <2> QED BY <1>1, <2>3, LoopFollowed
<1>6. TwoTo(n) = g[n]
  <2> HIDE DEF power
  <2> QED BY <1>4, <1>5
<1> HIDE DEF F, power
<1> QED BY <1>1, <1>6

(* 2 ** 0 is 1.                                                            *)
LEMMA TwoToZero == TwoTo(0) = 1
<1>2. PICK g : Loop(g, 0, [i \in 0 .. 0 |-> Nat], 1, TwoToStep(0)) /\ TwoTo(0) = g[0]
  BY TwoToIsLoop
<1> QED BY <1>2 DEF Loop

(* Twice as much.                                                          *)
LEMMA TwoToNext ==
    ASSUME NEW n \in Nat
    PROVE  TwoTo(n) \in Nat /\ TwoTo(n + 1) = 2 * TwoTo(n)
<1> DEFINE step == TwoToStep(n + 1)
<1>1. PICK g : Loop(g, n, [i \in 0 .. n |-> Nat], 1, TwoToStep(n)) /\ TwoTo(n) = g[n]
  BY TwoToIsLoop
<1>2. PICK h : /\ Loop(h, n + 1, [i \in 0 .. n + 1 |-> Nat], 1, step)
               /\ TwoTo(n + 1) = h[n + 1]
  BY TwoToIsLoop
<1>3. Loop(g, n, [i \in 0 .. n |-> Nat], 1, step)
  <2>1. \A i \in 1 .. n : TwoToStep(n)[i] = step[i]
    BY DEF TwoToStep
  <2>2. [i \in 0 .. n |-> IF i = 0 THEN 1 ELSE TwoToStep(n)[i][g[i - 1]]]
            = [i \in 0 .. n |-> IF i = 0 THEN 1 ELSE step[i][g[i - 1]]]
    <3> HIDE DEF step
    <3> QED BY <2>1
  <2> HIDE DEF step
  <2> QED BY <1>1, <2>2 DEF Loop
<1>4. h[n] = g[n]
  <2>1. \A i \in 0 .. n : h[i] = g[i]
    <3>1. Follows(h, n, [i \in 0 .. n |-> Nat], 1, step)
      <4> HIDE DEF step
      <4> QED BY <1>2 DEF Loop, Follows
    <3> HIDE DEF step
    <3> QED BY <1>3, <3>1, LoopFollowed
  <2> QED BY <2>1
<1>5. g[n] \in Nat
  BY <1>1 DEF Loop
<1>6. h[n + 1] = step[n + 1][h[n]]
  <2>1. n + 1 \in 0 .. n + 1 /\ n + 1 # 0 /\ (n + 1) - 1 = n
    OBVIOUS
  <2> HIDE DEF step
  <2> QED BY <1>2, <2>1 DEF Loop
<1>7. step[n + 1][h[n]] = 2 * h[n]
  BY <1>4, <1>5 DEF TwoToStep
<1> QED BY <1>1, <1>2, <1>4, <1>5, <1>6, <1>7

(* Powers are elements of the field.                                       *)
LEMMA ExpType == \A v \in Fr : \A n \in Nat : ExpModFr(v, n) \in Fr
BY ExpNext

(* The power 1 is the value.                                               *)
LEMMA ExpUnit == \A v \in Fr : ExpModFr(v, 1) = v
<1>1. SUFFICES ASSUME NEW v \in Fr PROVE ExpModFr(v, 1) = v
  OBVIOUS
<1>2. ExpModFr(v, 0 + 1) = ExpModFr(v, 0) \odot v /\ ExpModFr(v, 0) = 1 /\ 0 + 1 = 1
  BY ExpNext, ExpZero
<1> QED BY <1>2, FrUnits

(* Powers of one value multiply by adding the exponents.                   *)
LEMMA ExpAdds ==
    ASSUME NEW v \in Fr, NEW m \in Nat, NEW n \in Nat
    PROVE  ExpModFr(v, m + n) = ExpModFr(v, m) \odot ExpModFr(v, n)
<1> DEFINE S == {i \in Nat : ExpModFr(v, m + i) = ExpModFr(v, m) \odot ExpModFr(v, i)}
<1>1. 0 \in S
  BY ExpZero, ExpType, FrUnits
<1>2. ASSUME NEW i \in Nat, i \in S
      PROVE  i + 1 \in S
  <2>1. /\ ExpModFr(v, m + i) = ExpModFr(v, m) \odot ExpModFr(v, i)
        /\ (m + i) + 1 = m + (i + 1) /\ m + i \in Nat
    BY <1>2
  <2>2. /\ ExpModFr(v, (m + i) + 1) = ExpModFr(v, m + i) \odot v
        /\ ExpModFr(v, i + 1) = ExpModFr(v, i) \odot v
        /\ ExpModFr(v, m) \in Fr /\ ExpModFr(v, i) \in Fr
    BY <2>1, ExpNext
  <2>3. (ExpModFr(v, m) \odot ExpModFr(v, i)) \odot v = ExpModFr(v, m) \odot (ExpModFr(v, i) \odot v)
    BY <2>2, FrAssociates
  <2> QED BY <2>1, <2>2, <2>3
<1>3. n \in S
  <2> HIDE DEF S
  <2> QED BY <1>1, <1>2, CountAll
<1> QED BY <1>3

(* The power of a product is the product of the powers.                    *)
LEMMA ExpProduct ==
    ASSUME NEW u \in Fr, NEW v \in Fr, NEW n \in Nat
    PROVE  ExpModFr(u \odot v, n) = ExpModFr(u, n) \odot ExpModFr(v, n)
<1> DEFINE w == u \odot v
           S == {i \in Nat : ExpModFr(w, i) = ExpModFr(u, i) \odot ExpModFr(v, i)}
<1>0. w \in Fr /\ w = u \odot v
  BY FrClosed
<1> HIDE DEF w
<1>1. 0 \in S
  BY <1>0, ExpZero, FrUnits, ModulusFacts
<1>2. ASSUME NEW i \in Nat, i \in S
      PROVE  i + 1 \in S
  <2>1. ExpModFr(w, i) = ExpModFr(u, i) \odot ExpModFr(v, i)
    BY <1>2
  <2>2. /\ ExpModFr(w, i + 1) = ExpModFr(w, i) \odot w
        /\ ExpModFr(u, i + 1) = ExpModFr(u, i) \odot u /\ ExpModFr(u, i) \in Fr
        /\ ExpModFr(v, i + 1) = ExpModFr(v, i) \odot v /\ ExpModFr(v, i) \in Fr
    BY <1>0, ExpNext
  <2>3. ExpModFr(w, i + 1) = ExpModFr(u, i + 1) \odot ExpModFr(v, i + 1)
    BY <1>0, <2>1, <2>2, FrExchange
  <2> QED BY <2>3
<1>3. n \in S
  <2> HIDE DEF S
  <2> QED BY <1>1, <1>2, CountAll
<1> QED BY <1>3 DEF w

(* The powers of 1 are 1.                                                  *)
LEMMA ExpOfOne == \A n \in Nat : ExpModFr(1, n) = 1
<1> DEFINE S == {i \in Nat : ExpModFr(1, i) = 1}
<1>1. 0 \in S
  BY ExpZero, ModulusFacts
<1>2. ASSUME NEW i \in Nat, i \in S
      PROVE  i + 1 \in S
  BY <1>2, ExpNext, FrUnits, ModulusFacts
<1> HIDE DEF S
<1>3. \A n \in Nat : n \in S
  BY <1>1, <1>2, CountAll
<1> QED BY <1>3 DEF S

(* A power of a power multiplies the exponents.                            *)
LEMMA ExpTimes ==
    ASSUME NEW v \in Fr, NEW m \in Nat, NEW n \in Nat
    PROVE  ExpModFr(v, m * n) = ExpModFr(ExpModFr(v, m), n)
<1> DEFINE w == ExpModFr(v, m)
           S == {i \in Nat : ExpModFr(v, m * i) = ExpModFr(w, i)}
<1>0. w \in Fr
  BY ExpType
<1>1. 0 \in S
  <2>1. m * 0 = 0
    OBVIOUS
  <2> HIDE DEF w
  <2> QED BY <1>0, <2>1, ExpZero
<1>2. ASSUME NEW i \in Nat, i \in S
      PROVE  i + 1 \in S
  <2>1. m * i \in Nat /\ m * (i + 1) = m * i + m
    OBVIOUS
  <2>2. ExpModFr(v, m * i + m) = ExpModFr(v, m * i) \odot ExpModFr(v, m)
    BY <2>1, ExpAdds
  <2>3. ExpModFr(w, i + 1) = ExpModFr(w, i) \odot w
    <3> HIDE DEF w
    <3> QED BY <1>0, ExpNext
  <2>4. ExpModFr(v, m * i) = ExpModFr(w, i)
    BY <1>2
  <2> QED BY <2>1, <2>2, <2>3, <2>4
<1>3. n \in S
  <2> HIDE DEF S
  <2> QED BY <1>1, <1>2, CountAll
<1> QED BY <1>3

(* The powers of two.                                                      *)
LEMMA TwoToType == \A n \in Nat : TwoTo(n) \in Nat /\ TwoTo(n) > 0 /\ TwoTo(n) > n
<1> DEFINE S == {i \in Nat : TwoTo(i) > 0 /\ TwoTo(i) > i}
<1>1. 0 \in S
  BY TwoToZero
<1>2. ASSUME NEW i \in Nat, i \in S
      PROVE  i + 1 \in S
  <2>1. TwoTo(i) \in Nat /\ TwoTo(i + 1) = 2 * TwoTo(i) /\ TwoTo(i) > 0 /\ TwoTo(i) > i
    BY <1>2, TwoToNext
  <2> QED BY <2>1
<1> HIDE DEF S
<1>3. \A n \in Nat : n \in S
  BY <1>1, <1>2, CountAll
<1> QED BY <1>3, TwoToNext DEF S

(* The powers of two multiply by adding the exponents.                     *)
LEMMA TwoToAdds == \A m, n \in Nat : TwoTo(m + n) = TwoTo(m) * TwoTo(n)
<1>1. SUFFICES ASSUME NEW m \in Nat, NEW n \in Nat PROVE TwoTo(m + n) = TwoTo(m) * TwoTo(n)
  OBVIOUS
<1> DEFINE S == {i \in Nat : TwoTo(m + i) = TwoTo(m) * TwoTo(i)}
<1>2. 0 \in S
  BY TwoToZero, TwoToType
<1>3. ASSUME NEW i \in Nat, i \in S
      PROVE  i + 1 \in S
  <2>1. TwoTo((m + i) + 1) = 2 * TwoTo(m + i) /\ TwoTo(i + 1) = 2 * TwoTo(i) /\ (m + i) + 1 = m + (i + 1)
    BY TwoToNext
  <2>2. TwoTo(m + i) = TwoTo(m) * TwoTo(i)
    BY <1>3
  <2>3. \A x, y \in Nat : 2 * (x * y) = x * (2 * y)
    OBVIOUS
  <2>4. TwoTo(m) \in Nat /\ TwoTo(i) \in Nat
    BY TwoToType
  <2> QED BY <2>1, <2>2, <2>3, <2>4
<1>4. n \in S
  <2> HIDE DEF S
  <2> QED BY <1>2, <1>3, CountAll
<1> QED BY <1>4

(* The powers of two grow at least twofold.                                *)
LEMMA TwoToGrows == \A m, n \in Nat : m < n => 2 * TwoTo(m) <= TwoTo(n) /\ TwoTo(m) < TwoTo(n)
<1>1. SUFFICES ASSUME NEW m \in Nat, NEW n \in Nat, m < n
               PROVE  2 * TwoTo(m) <= TwoTo(n) /\ TwoTo(m) < TwoTo(n)
  OBVIOUS
<1>2. TwoTo(m + 1) = 2 * TwoTo(m) /\ TwoTo(m) \in Nat /\ TwoTo(m) > 0
  BY TwoToNext, TwoToType
<1>3. PICK i \in Nat : n = (m + 1) + i
  <2>1. n - (m + 1) \in Nat /\ n = (m + 1) + (n - (m + 1))
    BY <1>1
  <2> QED BY <2>1
<1>4. TwoTo(n) = TwoTo(m + 1) * TwoTo(i) /\ TwoTo(i) \in Nat /\ TwoTo(i) > 0 /\ TwoTo(m + 1) \in Nat
  <2>1. m + 1 \in Nat
    OBVIOUS
  <2>2. TwoTo((m + 1) + i) = TwoTo(m + 1) * TwoTo(i)
    BY <2>1, TwoToAdds
  <2> QED BY <1>3, <2>1, <2>2, TwoToType
<1>5. \A x, y \in Nat : y > 0 => x <= x * y
  OBVIOUS
<1>6. TwoTo(m + 1) <= TwoTo(n)
  BY <1>4, <1>5
<1>7. TwoTo(n) \in Nat
  BY TwoToType
<1> QED BY <1>2, <1>6, <1>7

-----------------------------------------------------------------------------
(* Roots of unity.                                                         *)

MinusOne == Modulus - 1

(* The element before 0 is its own inverse, and turns a difference into    *)
(* a sum.                                                                  *)
LEMMA MinusOneFacts ==
    /\ MinusOne \in Fr /\ MinusOne \odot MinusOne = 1
    /\ \A a \in Fr : a \oplus (MinusOne \odot a) = 0
    /\ \A a, b \in Fr : a \ominus b = a \oplus (MinusOne \odot b)
<1>1. MinusOne \in Fr /\ MinusOne \in Int /\ Modulus \in Nat /\ Modulus > 1
  BY ModulusFacts DEF MinusOne, Fr
<1>2. 1 \oplus MinusOne = 0
  <2>1. 1 + MinusOne = Modulus * 1 + 0
    BY <1>1 DEF MinusOne
  <2>2. (Modulus * 1 + 0) % Modulus = 0
    BY OneRemainder, ModulusFacts
  <2> QED BY <2>1, <2>2 DEF AddModFr
<1>3. ASSUME NEW a \in Fr PROVE a \oplus (MinusOne \odot a) = 0
  <2>1. (1 \oplus MinusOne) \odot a = (1 \odot a) \oplus (MinusOne \odot a)
    BY <1>1, FrDistributes, ModulusFacts
  <2> QED BY <1>2, <2>1, FrUnits
<1>4. ASSUME NEW a \in Fr, NEW b \in Fr PROVE a \ominus b = a \oplus (MinusOne \odot b)
  <2> DEFINE c == MinusOne \odot b
  <2>1. c \in Fr /\ b \oplus c = 0
    BY <1>1, <1>3, FrClosed
  <2> HIDE DEF c
  <2>2. (a \oplus c) \oplus b = a \oplus (b \oplus c)
    BY <2>1, FrAssociates, FrCommutes
  <2>3. (a \oplus c) \oplus b = a /\ a \oplus c \in Fr
    BY <2>1, <2>2, FrUnits, FrClosed
  <2>4. a \ominus b = a \oplus c
    BY <2>3, FrDifferenceIs
  <2> QED BY <2>4 DEF c
<1>5. MinusOne \odot MinusOne = 1
  <2>1. MinusOne \oplus (MinusOne \odot MinusOne) = 0 /\ MinusOne \odot MinusOne \in Fr
    BY <1>1, <1>3, FrClosed
  <2>2. (MinusOne \odot MinusOne) \oplus MinusOne = 0
    BY <1>1, <2>1, FrCommutes
  <2>3. 0 \ominus MinusOne = MinusOne \odot MinusOne
    BY <1>1, <2>1, <2>2, FrDifferenceIs, ModulusFacts
  <2>4. 0 \ominus MinusOne = 1
    BY <1>1, <1>2, FrDifferenceIs, ModulusFacts
  <2> QED BY <2>3, <2>4
<1> QED BY <1>1, <1>3, <1>4, <1>5

(* w is a root of unity of order 2 ** k.                                   *)
IsRoot(w, k) ==
    /\ w \in Fr
    /\ ExpModFr(w, TwoTo(k)) = 1
    /\ k > 0 => ExpModFr(w, TwoTo(k - 1)) = MinusOne

(* Dropping the first m squarings of a root leaves a root of lower         *)
(* order.                                                                  *)
LEMMA RootOfRoot ==
    ASSUME NEW k \in Nat, NEW m \in Nat, NEW w, IsRoot(w, m + k)
    PROVE  IsRoot(ExpModFr(w, TwoTo(m)), k)
<1>1. w \in Fr /\ TwoTo(m) \in Nat /\ TwoTo(k) \in Nat
  BY TwoToType DEF IsRoot
<1>2. ExpModFr(ExpModFr(w, TwoTo(m)), TwoTo(k)) = ExpModFr(w, TwoTo(m) * TwoTo(k))
  BY <1>1, ExpTimes
<1>3. TwoTo(m) * TwoTo(k) = TwoTo(m + k)
  BY TwoToAdds
<1>4. ASSUME k > 0
      PROVE  ExpModFr(ExpModFr(w, TwoTo(m)), TwoTo(k - 1)) = MinusOne
  <2>1. k - 1 \in Nat /\ (m + k) - 1 = m + (k - 1) /\ m + k > 0
    BY <1>4
  <2>2. TwoTo(m + (k - 1)) = TwoTo(m) * TwoTo(k - 1) /\ TwoTo(k - 1) \in Nat
    BY <2>1, TwoToAdds, TwoToType
  <2>3. ExpModFr(ExpModFr(w, TwoTo(m)), TwoTo(k - 1)) = ExpModFr(w, TwoTo(m) * TwoTo(k - 1))
    BY <1>1, <2>2, ExpTimes
  <2> QED BY <2>1, <2>2, <2>3 DEF IsRoot
<1> QED BY <1>1, <1>2, <1>3, <1>4, ExpType DEF IsRoot

(* The square of a root has half its order.                                *)
LEMMA RootSquare ==
    ASSUME NEW k \in Nat, NEW w, IsRoot(w, k + 1)
    PROVE  IsRoot(w \odot w, k) /\ w \odot w = ExpModFr(w, 2)
<1>1. w \in Fr
  BY DEF IsRoot
<1>2. ExpModFr(w, 1 + 1) = w \odot w
  BY <1>1, ExpUnit, ExpNext
<1>3. TwoTo(1) = 2
  <2>1. TwoTo(0 + 1) = 2 * TwoTo(0) /\ TwoTo(0) = 1
    BY TwoToNext, TwoToZero
  <2> QED BY <2>1
<1>4. 1 + 1 = 2 /\ k + 1 = 1 + k
  OBVIOUS
<1> QED BY <1>2, <1>3, <1>4, RootOfRoot

(* Half way round, the sign changes; once round, nothing does.             *)
LEMMA RootHalf ==
    ASSUME NEW k \in Nat, NEW w, IsRoot(w, k + 1), NEW i \in Nat
    PROVE  ExpModFr(w, TwoTo(k) + i) = MinusOne \odot ExpModFr(w, i)
<1>1. w \in Fr /\ ExpModFr(w, TwoTo(k)) = MinusOne /\ TwoTo(k) \in Nat
  <2>1. (k + 1) - 1 = k /\ k + 1 > 0
    OBVIOUS
  <2> QED BY <2>1, TwoToType DEF IsRoot
<1> QED BY <1>1, ExpAdds

(* The powers of a root repeat after its order.                            *)
LEMMA RootPeriod ==
    ASSUME NEW k \in Nat, NEW w, IsRoot(w, k), NEW i \in Nat, NEW q \in Nat
    PROVE  ExpModFr(w, TwoTo(k) * q + i) = ExpModFr(w, i)
<1>1. w \in Fr /\ ExpModFr(w, TwoTo(k)) = 1 /\ TwoTo(k) \in Nat
  BY TwoToType DEF IsRoot
<1>2. ExpModFr(w, TwoTo(k) * q) = ExpModFr(1, q)
  BY <1>1, ExpTimes
<1>3. TwoTo(k) * q \in Nat
  BY <1>1
<1> QED BY <1>1, <1>2, <1>3, ExpAdds, ExpOfOne, ExpType, FrUnits

(* Only the remainder of an exponent matters.                              *)
LEMMA RootRemainder ==
    ASSUME NEW k \in Nat, NEW w, IsRoot(w, k), NEW i \in Nat
    PROVE  /\ i % TwoTo(k) \in 0 .. TwoTo(k) - 1
           /\ ExpModFr(w, i % TwoTo(k)) = ExpModFr(w, i)
<1> DEFINE n == TwoTo(k)
           q == i \div n
           r == i % n
<1>1. n \in Nat /\ n > 0
  BY TwoToType
<1>2. q \in Nat /\ r \in 0 .. n - 1 /\ i = n * q + r
  <2> HIDE DEF n
  <2> QED BY <1>1
<1>3. ExpModFr(w, n * q + r) = ExpModFr(w, r)
  <2> HIDE DEF q, r
  <2>1. r \in Nat
    BY <1>1, <1>2
  <2> QED BY <1>2, <2>1, RootPeriod
<1> QED BY <1>2, <1>3

(* No lower power of a root is 1.                                          *)
LEMMA RootNotOne ==
    ASSUME NEW k \in Nat, NEW w, IsRoot(w, k), MinusOne # 1
    PROVE  \A j \in 1 .. TwoTo(k) - 1 : ExpModFr(w, j) # 1
<1> DEFINE S == {m \in Nat : \A v : IsRoot(v, m) =>
                                \A j \in 1 .. TwoTo(m) - 1 : ExpModFr(v, j) # 1}
<1>1. 0 \in S
  BY TwoToZero
<1>2. ASSUME NEW m \in Nat, m \in S
      PROVE  m + 1 \in S
  <2>1. SUFFICES ASSUME NEW v, IsRoot(v, m + 1), NEW j \in 1 .. TwoTo(m + 1) - 1,
                        ExpModFr(v, j) = 1
                 PROVE  FALSE
    OBVIOUS
  <2>2. /\ v \in Fr /\ TwoTo(m) \in Nat /\ TwoTo(m + 1) = 2 * TwoTo(m)
        /\ ExpModFr(v, TwoTo(m)) = MinusOne /\ j \in Nat
    <3>1. (m + 1) - 1 = m /\ m + 1 > 0
      OBVIOUS
    <3> QED BY <2>1, <3>1, TwoToNext DEF IsRoot
  <2>3. CASE j % 2 = 0
    <3>1. PICK i \in 1 .. TwoTo(m) - 1 : j = 2 * i
      <4>1. j = 2 * (j \div 2) /\ j \div 2 \in Int
        BY <2>2, <2>3
      <4>2. j \div 2 \in 1 .. TwoTo(m) - 1
        <5> DEFINE i == j \div 2
        <5>1. i \in Int /\ j = 2 * i /\ j >= 1 /\ j <= 2 * TwoTo(m) - 1
          BY <2>1, <2>2, <4>1
        <5> HIDE DEF i
        <5>2. i \in 1 .. TwoTo(m) - 1
          BY <2>2, <5>1
        <5> QED BY <5>2 DEF i
      <4> QED BY <4>1, <4>2
    <3>2. IsRoot(v \odot v, m) /\ v \odot v = ExpModFr(v, 2)
      BY <2>1, RootSquare
    <3>3. ExpModFr(v \odot v, i) = ExpModFr(v, 2 * i)
      BY <2>2, <3>1, <3>2, ExpTimes
    <3> QED BY <1>2, <2>1, <3>1, <3>2, <3>3
  <2>4. CASE j % 2 # 0
    <3>1. PICK i \in Nat : j = 2 * i + 1
      <4>1. j = 2 * (j \div 2) + 1 /\ j \div 2 \in Nat
        BY <2>2, <2>4
      <4> QED BY <4>1
    <3>2. ExpModFr(ExpModFr(v, TwoTo(m)), j) = ExpModFr(v, TwoTo(m) * j)
      BY <2>2, ExpTimes
    <3>3. ExpModFr(v, j * TwoTo(m)) = ExpModFr(ExpModFr(v, j), TwoTo(m))
      BY <2>2, ExpTimes
    <3>4. TwoTo(m) * j = j * TwoTo(m)
      BY <2>2
    <3>5. ExpModFr(MinusOne, j) = 1
      BY <2>1, <2>2, <3>2, <3>3, <3>4, ExpOfOne
    <3>6. ExpModFr(MinusOne, 2 * i) = 1
      <4>1. ExpModFr(MinusOne, 2) = 1
        <5>1. ExpModFr(MinusOne, 1 + 1) = ExpModFr(MinusOne, 1) \odot MinusOne /\ 1 + 1 = 2
          BY ExpNext, MinusOneFacts
        <5> QED BY <5>1, ExpUnit, MinusOneFacts
      <4>2. ExpModFr(MinusOne, 2 * i) = ExpModFr(ExpModFr(MinusOne, 2), i)
        BY <3>1, ExpTimes, MinusOneFacts
      <4> QED BY <4>1, <4>2, <3>1, ExpOfOne
    <3>7. ExpModFr(MinusOne, 2 * i + 1) = ExpModFr(MinusOne, 2 * i) \odot MinusOne
      <4>1. 2 * i \in Nat
        BY <3>1
      <4> QED BY <4>1, ExpNext, MinusOneFacts
    <3> QED BY <3>1, <3>5, <3>6, <3>7, FrUnits, MinusOneFacts
  <2> QED BY <2>3, <2>4
<1>3. k \in S
  <2> HIDE DEF S
  <2> QED BY <1>1, <1>2, CountAll
<1> QED BY <1>3

(* The inverse of a root is a root.                                        *)
InverseRoot(w, k) == ExpModFr(w, TwoTo(k) - 1)

(* The power before a full turn is a root too, and its powers are the      *)
(* inverses, which are the powers from the end.                            *)
LEMMA RootInverse ==
    ASSUME NEW k \in Nat, NEW w, IsRoot(w, k)
    PROVE  /\ IsRoot(InverseRoot(w, k), k)
           /\ w \odot InverseRoot(w, k) = 1
           /\ \A i \in Nat : ExpModFr(w, i) \odot ExpModFr(InverseRoot(w, k), i) = 1
           /\ \A i \in 0 .. TwoTo(k) : ExpModFr(w, TwoTo(k) - i) = ExpModFr(InverseRoot(w, k), i)
<1> DEFINE v == InverseRoot(w, k)
<1>1. w \in Fr /\ TwoTo(k) - 1 \in Nat /\ TwoTo(k) \in Nat /\ v \in Fr
  <2>1. w \in Fr /\ TwoTo(k) \in Nat /\ TwoTo(k) > 0
    BY TwoToType DEF IsRoot
  <2>2. TwoTo(k) - 1 \in Nat
    BY <2>1
  <2> QED BY <2>1, <2>2, ExpType DEF InverseRoot
<1>2. w \odot v = 1
  <2>1. ExpModFr(w, (TwoTo(k) - 1) + 1) = v \odot w
    BY <1>1, ExpNext DEF InverseRoot
  <2>2. (TwoTo(k) - 1) + 1 = TwoTo(k)
    BY <1>1
  <2> HIDE DEF v
  <2> QED BY <1>1, <2>1, <2>2, FrCommutes DEF IsRoot
<1> HIDE DEF v
<1>3. \A i \in Nat : ExpModFr(w, i) \odot ExpModFr(v, i) = 1
  <2>1. SUFFICES ASSUME NEW i \in Nat PROVE ExpModFr(w, i) \odot ExpModFr(v, i) = 1
    OBVIOUS
  <2>2. ExpModFr(w \odot v, i) = ExpModFr(w, i) \odot ExpModFr(v, i)
    BY <1>1, ExpProduct
  <2> QED BY <1>2, <2>2, ExpOfOne
<1>4. ExpModFr(v, TwoTo(k)) = 1
  <2>1. ExpModFr(w, TwoTo(k)) \odot ExpModFr(v, TwoTo(k)) = 1
    BY <1>1, <1>3
  <2>2. ExpModFr(w, TwoTo(k)) = 1
    BY DEF IsRoot
  <2> QED BY <1>1, <2>1, <2>2, ExpType, FrUnits
<1>5. ASSUME k > 0 PROVE ExpModFr(v, TwoTo(k - 1)) = MinusOne
  <2>1. k - 1 \in Nat /\ TwoTo(k - 1) \in Nat
    BY <1>5, TwoToType
  <2>2. MinusOne \odot ExpModFr(v, TwoTo(k - 1)) = 1 /\ ExpModFr(v, TwoTo(k - 1)) \in Fr
    BY <1>1, <1>3, <1>5, <2>1, ExpType DEF IsRoot
  <2>3. MinusOne \odot (MinusOne \odot ExpModFr(v, TwoTo(k - 1))) = ExpModFr(v, TwoTo(k - 1))
    BY <2>2, FrAssociates, FrUnits, MinusOneFacts
  <2> QED BY <2>2, <2>3, FrUnits, MinusOneFacts
<1>6. ASSUME NEW i \in 0 .. TwoTo(k)
      PROVE  ExpModFr(w, TwoTo(k) - i) = ExpModFr(v, i)
  <2> DEFINE e == TwoTo(k) - i
  <2>1. e \in Nat /\ i \in Nat /\ e + i = TwoTo(k)
    BY <1>1
  <2> HIDE DEF e
  <2>2. ExpModFr(w, e) \odot ExpModFr(w, i) = 1
    BY <1>1, <2>1, ExpAdds DEF IsRoot
  <2>3. /\ ExpModFr(w, e) \in Fr /\ ExpModFr(w, i) \in Fr /\ ExpModFr(v, i) \in Fr
        /\ ExpModFr(w, i) \odot ExpModFr(v, i) = 1
    BY <1>1, <1>3, <2>1, ExpType
  <2>4. (ExpModFr(w, e) \odot ExpModFr(w, i)) \odot ExpModFr(v, i)
            = ExpModFr(w, e) \odot (ExpModFr(w, i) \odot ExpModFr(v, i))
    BY <2>3, FrAssociates
  <2>5. ExpModFr(w, e) = ExpModFr(v, i)
    BY <2>2, <2>3, <2>4, FrUnits
  <2> QED BY <2>5 DEF e
<1>7. IsRoot(v, k)
  BY <1>1, <1>4, <1>5 DEF IsRoot
<1> QED BY <1>2, <1>3, <1>6, <1>7 DEF v

(* The middle of two differences that follow each other goes.              *)
LEMMA FrTelescopes == \A p, q, r \in Fr : (p \ominus q) \oplus (r \ominus p) = r \ominus q
<1>1. SUFFICES ASSUME NEW p \in Fr, NEW q \in Fr, NEW r \in Fr
               PROVE  (p \ominus q) \oplus (r \ominus p) = r \ominus q
  OBVIOUS
<1>2. /\ (p \oplus r) \ominus (q \oplus p) = (p \ominus q) \oplus (r \ominus p)
      /\ (r \oplus p) \ominus (q \oplus p) = (r \ominus q) \oplus (p \ominus p)
      /\ p \oplus r = r \oplus p /\ p \ominus p = 0 /\ r \ominus q \in Fr
  BY FrDifferences, FrCommutes, FrUnits, FrClosed
<1> QED BY <1>2, FrUnits

(* The sum of the first powers.                                            *)
LEMMA GeometricSum ==
    ASSUME NEW n \in Nat, NEW x \in Fr, NEW a, \A i \in 0 .. n - 1 : a[i] = ExpModFr(x, i)
    PROVE  (x \ominus 1) \odot SumFr(a, n) = ExpModFr(x, n) \ominus 1
<1> DEFINE S == {m \in 0 .. n : (x \ominus 1) \odot SumFr(a, m) = ExpModFr(x, m) \ominus 1}
<1>0. x \ominus 1 \in Fr /\ 1 \in Fr
  BY FrClosed, ModulusFacts
<1>1. 0 \in S
  BY <1>0, SumEmpty, ExpZero, FrUnits
<1>2. ASSUME NEW m \in 0 .. n - 1, m \in S
      PROVE  m + 1 \in S
  <2>1. \A i \in 0 .. m : a[i] \in Fr
    BY ExpType
  <2>2. /\ SumFr(a, m) \in Fr /\ SumFr(a, m + 1) = SumFr(a, m) \oplus a[m]
        /\ a[m] = ExpModFr(x, m) /\ ExpModFr(x, m) \in Fr
        /\ ExpModFr(x, m + 1) = ExpModFr(x, m) \odot x /\ ExpModFr(x, m + 1) \in Fr
    BY <2>1, SumNext, ExpNext, ExpType
  <2>3. (x \ominus 1) \odot SumFr(a, m) = ExpModFr(x, m) \ominus 1
    BY <1>2
  <2>4. (x \ominus 1) \odot ExpModFr(x, m) = ExpModFr(x, m + 1) \ominus ExpModFr(x, m)
    <3>1. (x \ominus 1) \odot ExpModFr(x, m) = (x \odot ExpModFr(x, m)) \ominus (1 \odot ExpModFr(x, m))
      BY <1>0, <2>2, FrDifferences
    <3> QED BY <2>2, <3>1, FrCommutes, FrUnits
  <2>5. (x \ominus 1) \odot SumFr(a, m + 1)
            = ((x \ominus 1) \odot SumFr(a, m)) \oplus ((x \ominus 1) \odot ExpModFr(x, m))
    BY <1>0, <2>2, FrDistributes
  <2>6. (x \ominus 1) \odot SumFr(a, m + 1) = ExpModFr(x, m + 1) \ominus 1
    BY <1>0, <2>2, <2>3, <2>4, <2>5, FrTelescopes
  <2> QED BY <2>6
<1>3. n \in S
  <2> HIDE DEF S
  <2> QED BY <1>1, <1>2, CountTo
<1> QED BY <1>3

(* The sum of n ones is n.                                                 *)
LEMMA SumOnes ==
    ASSUME NEW n \in Fr, NEW a, \A i \in 0 .. n - 1 : a[i] = 1
    PROVE  SumFr(a, n) = n
<1> DEFINE S == {m \in 0 .. n : SumFr(a, m) = m}
<1>0. n \in Nat /\ n < Modulus /\ Modulus \in Nat /\ 1 \in Fr
  BY ModulusFacts DEF Fr
<1>1. 0 \in S
  BY <1>0, SumEmpty
<1>2. ASSUME NEW m \in 0 .. n - 1, m \in S
      PROVE  m + 1 \in S
  <2>1. m \in Nat /\ \A i \in 0 .. m : a[i] \in Fr
    BY <1>0
  <2>2. SumFr(a, m + 1) = m \oplus 1
    <3>1. SumFr(a, m + 1) = SumFr(a, m) \oplus a[m] /\ a[m] = 1 /\ SumFr(a, m) = m
      BY <1>0, <1>2, <2>1, SumNext
    <3> QED BY <3>1
  <2>3. m \oplus 1 = m + 1
    <3>1. Modulus * 0 + (m + 1) = m + 1 /\ m + 1 \in Fr
      BY <1>0 DEF Fr
    <3> QED BY <3>1, OneRemainder DEF AddModFr
  <2>4. m + 1 \in 0 .. n
    BY <1>0
  <2> QED BY <2>2, <2>3, <2>4
<1>3. n \in S
  <2> HIDE DEF S
  <2> QED BY <1>0, <1>1, <1>2, CountTo
<1> QED BY <1>3

(* The powers of a root that is not 1 add up to 0.                         *)
LEMMA RootSum ==
    ASSUME NEW k \in Nat, NEW w, IsRoot(w, k), MinusOne # 1, NEW j \in 1 .. TwoTo(k) - 1, NEW a,
           \A i \in 0 .. TwoTo(k) - 1 : a[i] = ExpModFr(w, j * i)
    PROVE  SumFr(a, TwoTo(k)) = 0
<1> DEFINE n == TwoTo(k)
           x == ExpModFr(w, j)
<1>1. n \in Nat /\ n > 0 /\ w \in Fr /\ ExpModFr(w, n) = 1 /\ x \in Fr /\ x # 1 /\ j \in Nat
  <2>1. n \in Nat /\ n > 0 /\ w \in Fr /\ ExpModFr(w, n) = 1
    BY TwoToType DEF IsRoot
  <2>2. j \in Nat /\ x # 1
    BY <2>1, RootNotOne
  <2> QED BY <2>1, <2>2, ExpType
<1>2. ASSUME NEW i \in 0 .. n - 1 PROVE a[i] = ExpModFr(x, i)
  <2>1. i \in Nat
    BY <1>1
  <2> QED BY <1>1, <2>1, ExpTimes
<1>3. ExpModFr(x, n) = 1
  <2>1. ExpModFr(w, j * n) = ExpModFr(x, n) /\ ExpModFr(w, n * j) = ExpModFr(ExpModFr(w, n), j)
    BY <1>1, ExpTimes
  <2>2. j * n = n * j
    BY <1>1
  <2> QED BY <1>1, <2>1, <2>2, ExpOfOne
<1> HIDE DEF n, x
<1>4. (x \ominus 1) \odot SumFr(a, n) = 0
  <2>1. (x \ominus 1) \odot SumFr(a, n) = ExpModFr(x, n) \ominus 1
    BY <1>1, <1>2, GeometricSum
  <2> QED BY <1>3, <2>1, FrUnits, ModulusFacts
<1>5. SumFr(a, n) \in Fr /\ x \ominus 1 \in Fr /\ x \ominus 1 # 0
  <2>1. \A i \in 0 .. n - 1 : a[i] \in Fr
    BY <1>1, <1>2, ExpType
  <2> QED BY <1>1, <2>1, SumType, FrClosed, FrDifferences, ModulusFacts
<1>6. SumFr(a, n) \odot (x \ominus 1) = 0
  BY <1>4, <1>5, FrCommutes
<1>7. SumFr(a, n) = 0
  BY <1>5, <1>6, FrCancel
<1> QED BY <1>7 DEF n

(* Powers of a root and of its inverse are orthogonal.                     *)
LEMMA RootsOrthogonal ==
    ASSUME NEW k \in Nat, NEW w, IsRoot(w, k), MinusOne # 1, TwoTo(k) \in Fr,
           NEW j \in 0 .. TwoTo(k) - 1, NEW m \in 0 .. TwoTo(k) - 1, NEW c,
           \A i \in 0 .. TwoTo(k) - 1 :
               c[i] = ExpModFr(w, j * i) \odot ExpModFr(InverseRoot(w, k), m * i)
    PROVE  SumFr(c, TwoTo(k)) = IF j = m THEN TwoTo(k) ELSE 0
<1> DEFINE n == TwoTo(k)
           v == InverseRoot(w, k)
<1>1. /\ n \in Nat /\ w \in Fr /\ v \in Fr /\ j \in Nat /\ m \in Nat
      /\ IsRoot(v, k) /\ \A i \in Nat : ExpModFr(w, i) \odot ExpModFr(v, i) = 1
  BY TwoToType, RootInverse DEF IsRoot
<1> HIDE DEF v
<1>2. \A i \in 0 .. n - 1 : c[i] = ExpModFr(w, j * i) \odot ExpModFr(v, m * i)
  BY DEF v
<1>3. CASE j = m
  <2>1. ASSUME NEW i \in 0 .. n - 1 PROVE c[i] = 1
    <3>1. m * i \in Nat
      BY <1>1
    <3> QED BY <1>1, <1>2, <1>3, <3>1
  <2>2. SumFr(c, n) = n
    BY <2>1, SumOnes
  <2> QED BY <1>3, <2>2
<1>4. CASE j > m
  <2>1. ASSUME NEW i \in 0 .. n - 1 PROVE c[i] = ExpModFr(w, (j - m) * i)
    <3>1. (j - m) * i \in Nat /\ m * i \in Nat /\ j * i = (j - m) * i + m * i
      BY <1>1, <1>4
    <3>2. ExpModFr(w, (j - m) * i + m * i) = ExpModFr(w, (j - m) * i) \odot ExpModFr(w, m * i)
      BY <1>1, <3>1, ExpAdds
    <3>3. /\ ExpModFr(w, (j - m) * i) \in Fr /\ ExpModFr(w, m * i) \in Fr
          /\ ExpModFr(v, m * i) \in Fr /\ ExpModFr(w, m * i) \odot ExpModFr(v, m * i) = 1
      BY <1>1, <3>1, ExpType
    <3>4. (ExpModFr(w, (j - m) * i) \odot ExpModFr(w, m * i)) \odot ExpModFr(v, m * i)
              = ExpModFr(w, (j - m) * i) \odot (ExpModFr(w, m * i) \odot ExpModFr(v, m * i))
      BY <3>3, FrAssociates
    <3>5. c[i] = ExpModFr(w, j * i) \odot ExpModFr(v, m * i)
      BY <1>2
    <3>6. ExpModFr(w, j * i) = ExpModFr(w, (j - m) * i + m * i)
      BY <3>1
    <3> QED BY <3>2, <3>3, <3>4, <3>5, <3>6, FrUnits
  <2>2. j - m \in 1 .. TwoTo(k) - 1
    BY <1>1, <1>4
  <2>3. SumFr(c, n) = 0
    BY <2>1, <2>2, RootSum
  <2> QED BY <1>4, <2>3
<1>5. CASE j < m
  <2>1. ASSUME NEW i \in 0 .. n - 1 PROVE c[i] = ExpModFr(v, (m - j) * i)
    <3>1. (m - j) * i \in Nat /\ j * i \in Nat /\ m * i = j * i + (m - j) * i
      BY <1>1, <1>5
    <3>2. ExpModFr(v, m * i) = ExpModFr(v, j * i) \odot ExpModFr(v, (m - j) * i)
      BY <1>1, <3>1, ExpAdds
    <3>3. /\ ExpModFr(v, (m - j) * i) \in Fr /\ ExpModFr(w, j * i) \in Fr
          /\ ExpModFr(v, j * i) \in Fr /\ ExpModFr(w, j * i) \odot ExpModFr(v, j * i) = 1
      BY <1>1, <3>1, ExpType
    <3>4. ExpModFr(w, j * i) \odot (ExpModFr(v, j * i) \odot ExpModFr(v, (m - j) * i))
              = (ExpModFr(w, j * i) \odot ExpModFr(v, j * i)) \odot ExpModFr(v, (m - j) * i)
      BY <3>3, FrAssociates
    <3> QED BY <1>2, <3>2, <3>3, <3>4, FrUnits
  <2>2. m - j \in 1 .. TwoTo(k) - 1
    BY <1>1, <1>5
  <2>3. SumFr(c, n) = 0
    BY <1>1, <2>1, <2>2, RootSum
  <2> QED BY <1>5, <2>3
<1> QED BY <1>1, <1>3, <1>4, <1>5

-----------------------------------------------------------------------------
(* The Fourier transform over a root of unity, and what undoes it.         *)

(* The value at w ** i of the polynomial whose coefficients are a.         *)
TransformAt(a, w, k, i) ==
    SumFr([j \in 0 .. TwoTo(k) - 1 |-> a[j] \odot ExpModFr(w, i * j)], TwoTo(k))

Transform(a, w, k) == [i \in 0 .. TwoTo(k) - 1 |-> TransformAt(a, w, k, i)]

IsSlice(a, k) == a \in [0 .. TwoTo(k) - 1 -> Fr]

(* A transform is a slice of elements, as long as what it transforms.      *)
LEMMA TransformType ==
    ASSUME NEW k \in Nat, NEW w \in Fr, NEW a, IsSlice(a, k)
    PROVE  IsSlice(Transform(a, w, k), k) /\ \A i \in Nat : TransformAt(a, w, k, i) \in Fr
<1>1. TwoTo(k) \in Nat
  BY TwoToType
<1>2. ASSUME NEW i \in Nat
      PROVE  TransformAt(a, w, k, i) \in Fr
  <2>1. ASSUME NEW j \in 0 .. TwoTo(k) - 1
        PROVE  a[j] \odot ExpModFr(w, i * j) \in Fr
    <3>1. a[j] \in Fr /\ i * j \in Nat
      BY <1>1 DEF IsSlice
    <3> QED BY <3>1, ExpType, FrClosed
  <2> DEFINE t == [j \in 0 .. TwoTo(k) - 1 |-> a[j] \odot ExpModFr(w, i * j)]
  <2>2. \A j \in 0 .. TwoTo(k) - 1 : t[j] \in Fr
    BY <2>1
  <2>3. SumFr(t, TwoTo(k)) \in Fr
    <3> HIDE DEF t
    <3> QED BY <1>1, <2>2, SumType
  <2> QED BY <2>3 DEF TransformAt
<1>3. \A i \in 0 .. TwoTo(k) - 1 : i \in Nat
  BY <1>1
<1> QED BY <1>2, <1>3 DEF Transform, IsSlice

(* The transform over the inverse root takes the transform back to n times *)
(* what it was made of.                                                    *)
LEMMA TransformInverted ==
    ASSUME NEW k \in Nat, NEW w, IsRoot(w, k), MinusOne # 1, TwoTo(k) \in Fr,
           NEW a, IsSlice(a, k), NEW m \in 0 .. TwoTo(k) - 1
    PROVE  TransformAt(Transform(a, w, k), InverseRoot(w, k), k, m) = TwoTo(k) \odot a[m]
<1> DEFINE n == TwoTo(k)
           v == InverseRoot(w, k)
           b == Transform(a, w, k)
           e == [i \in 0 .. n - 1 |-> [j \in 0 .. n - 1 |->
                    (a[j] \odot ExpModFr(w, i * j)) \odot ExpModFr(v, m * i)]]
           f == [j \in 0 .. n - 1 |-> [i \in 0 .. n - 1 |->
                    (a[j] \odot ExpModFr(w, i * j)) \odot ExpModFr(v, m * i)]]
           r == [i \in 0 .. n - 1 |-> b[i] \odot ExpModFr(v, m * i)]
           c == [j \in 0 .. n - 1 |-> IF j = m THEN a[m] \odot n ELSE 0]
<1>1. n \in Nat /\ w \in Fr /\ v \in Fr /\ n \in Fr /\ m \in Nat
  BY TwoToType, RootInverse DEF IsRoot
<1>2. ASSUME NEW i \in 0 .. n - 1, NEW j \in 0 .. n - 1
      PROVE  /\ a[j] \in Fr /\ ExpModFr(w, i * j) \in Fr /\ ExpModFr(v, m * i) \in Fr
             /\ i * j = j * i
             /\ a[j] \odot ExpModFr(w, i * j) \in Fr
             /\ e[i][j] \in Fr /\ f[j][i] = e[i][j]
  <2>1. i * j \in Nat /\ m * i \in Nat /\ a[j] \in Fr /\ i * j = j * i
    BY <1>1 DEF IsSlice
  <2>2. a[j] \odot ExpModFr(w, i * j) \in Fr /\ ExpModFr(v, m * i) \in Fr /\ ExpModFr(w, i * j) \in Fr
    BY <1>1, <2>1, ExpType, FrClosed
  <2>3. /\ e[i][j] = (a[j] \odot ExpModFr(w, i * j)) \odot ExpModFr(v, m * i)
        /\ f[j][i] = (a[j] \odot ExpModFr(w, i * j)) \odot ExpModFr(v, m * i)
    OBVIOUS
  <2> HIDE DEF e, f
  <2> QED BY <2>1, <2>2, <2>3, FrClosed
<1>3. ASSUME NEW i \in 0 .. n - 1 PROVE r[i] = SumFr(e[i], n)
  <2> DEFINE t == [j \in 0 .. n - 1 |-> a[j] \odot ExpModFr(w, i * j)]
             x == ExpModFr(v, m * i)
  <2>1. x \in Fr /\ r[i] = b[i] \odot x /\ b[i] = SumFr(t, n)
    BY <1>1, ExpType DEF Transform, TransformAt
  <2>2. \A j \in 0 .. n - 1 : e[i][j] = t[j] \odot x /\ t[j] \in Fr
    <3>1. \A j \in 0 .. n - 1 : e[i][j] = t[j] \odot x
      OBVIOUS
    <3>2. \A j \in 0 .. n - 1 : t[j] \in Fr
      BY <1>2
    <3> QED BY <3>1, <3>2
  <2> HIDE DEF t, x, e, r, b, n
  <2>3. \A j \in 0 .. n - 1 : t[j] \in Fr /\ e[i][j] = x \odot t[j]
    BY <2>1, <2>2, FrCommutes
  <2>4. SumFr(e[i], n) = x \odot SumFr(t, n) /\ SumFr(t, n) \in Fr
    <3> DEFINE u == e[i]
    <3>1. \A j \in 0 .. n - 1 : t[j] \in Fr /\ u[j] = x \odot t[j]
      BY <2>3
    <3> HIDE DEF u
    <3>2. SumFr(u, n) = x \odot SumFr(t, n)
      BY <1>1, <2>1, <3>1, SumTimes
    <3>3. SumFr(t, n) \in Fr
      BY <1>1, <3>1, SumType
    <3> QED BY <3>2, <3>3 DEF u
  <2> QED BY <2>1, <2>4, FrCommutes
<1>4. ASSUME NEW j \in 0 .. n - 1 PROVE c[j] = SumFr(f[j], n)
  <2> DEFINE t == [i \in 0 .. n - 1 |-> ExpModFr(w, j * i) \odot ExpModFr(v, m * i)]
  <2>1. SumFr(t, n) = IF j = m THEN n ELSE 0
    BY RootsOrthogonal
  <2>2. ASSUME NEW i \in 0 .. n - 1 PROVE f[j][i] = a[j] \odot t[i] /\ t[i] \in Fr
    <3>1. t[i] = ExpModFr(w, i * j) \odot ExpModFr(v, m * i)
      BY <1>2
    <3>2. f[j][i] = (a[j] \odot ExpModFr(w, i * j)) \odot ExpModFr(v, m * i)
      OBVIOUS
    <3>3. /\ a[j] \in Fr /\ ExpModFr(w, i * j) \in Fr /\ ExpModFr(v, m * i) \in Fr
      BY <1>2
    <3> HIDE DEF f, t, v
    <3>4. ExpModFr(w, i * j) \odot ExpModFr(v, m * i) \in Fr
      BY <3>3, FrClosed
    <3> QED BY <3>1, <3>2, <3>3, <3>4, FrAssociates
  <2>3. a[j] \in Fr
    BY DEF IsSlice
  <2>4. SumFr(f[j], n) = a[j] \odot SumFr(t, n)
    <3> DEFINE u == f[j]
               x == a[j]
    <3>1. x \in Fr /\ \A i \in 0 .. n - 1 : t[i] \in Fr /\ u[i] = x \odot t[i]
      BY <2>2, <2>3
    <3> HIDE DEF f, t, n, u, x
    <3>2. SumFr(u, n) = x \odot SumFr(t, n)
      BY <1>1, <3>1, SumTimes
    <3> QED BY <3>2 DEF u, x
  <2>5. c[j] = IF j = m THEN a[m] \odot n ELSE 0
    OBVIOUS
  <2> HIDE DEF c, f, t
  <2> QED BY <2>1, <2>3, <2>4, <2>5, FrUnits
<1>5. SumFr(r, n) = SumFr(c, n)
  <2>1. /\ RowSums(e, r, n, n) /\ RowSums(f, c, n, n)
        /\ \A i \in 0 .. n - 1 : \A j \in 0 .. n - 1 : e[i][j] \in Fr /\ f[j][i] = e[i][j]
    <3> HIDE DEF r, c, e, f
    <3> QED BY <1>2, <1>3, <1>4 DEF RowSums
  <2> HIDE DEF r, c, e, f, n
  <2> QED BY <1>1, <2>1, SumExchanges
<1>6. SumFr(c, n) = a[m] \odot n
  <2>1. c[m] = a[m] \odot n /\ c[m] \in Fr /\ \A i \in 0 .. n - 1 : i # m => c[i] = 0
    BY <1>1, FrClosed DEF IsSlice
  <2>2. m \in 0 .. n - 1
    OBVIOUS
  <2> HIDE DEF c, n
  <2> QED BY <1>1, <2>1, <2>2, SumSingle
<1>7. TransformAt(b, v, k, m) = SumFr(r, n)
  BY DEF TransformAt
<1>8. a[m] \odot n = n \odot a[m]
  BY <1>1, FrCommutes DEF IsSlice
<1> HIDE DEF b, v, r, c
<1>9. TransformAt(b, v, k, m) = n \odot a[m]
  BY <1>5, <1>6, <1>7, <1>8
<1> QED BY <1>9 DEF b, v

-----------------------------------------------------------------------------
(* Slices, and the logarithms of their lengths.                            *)

(* A slice is the function it is made of.                                  *)
LEMMA SliceIs == \A f : Slice(f) = f
BY DEF Slice

(* The length of a slice on 0 .. n - 1 is n.                               *)
LEMMA LengthIs ==
    ASSUME NEW n \in Nat, NEW a, DOMAIN a = 0 .. n - 1
    PROVE  Length(a) = n
<1>1. n - 1 \in Int /\ 0 \in Int
  OBVIOUS
<1>2. Cardinality(0 .. n - 1) = IF 0 > n - 1 THEN 0 ELSE (n - 1) - 0 + 1
  BY <1>1, FS_Interval
<1> QED BY <1>2 DEF Length

(* A slice of 2 ** k scalars has that length.                              *)
LEMMA SliceLength ==
    ASSUME NEW k \in Nat, NEW a, IsSlice(a, k)
    PROVE  Length(a) = TwoTo(k) /\ DOMAIN a = 0 .. TwoTo(k) - 1
<1>1. TwoTo(k) \in Nat /\ DOMAIN a = 0 .. TwoTo(k) - 1
  BY TwoToType DEF IsSlice
<1> QED BY <1>1, LengthIs

(* The index of the highest bit of 2 ** k is k.                            *)
LEMMA BitIndexIs == \A k \in Nat : bitIndex(TwoTo(k)) = k
<1>1. SUFFICES ASSUME NEW k \in Nat PROVE bitIndex(TwoTo(k)) = k
  OBVIOUS
<1> DEFINE v == TwoTo(k)
           First(i) == TwoTo(i) <= v /\ v < TwoTo(i + 1)
<1>2. v \in Nat /\ v > 0 /\ k \in 0 .. v /\ First(k)
  BY TwoToType, TwoToNext
<1>3. ASSUME NEW i \in 0 .. v, First(i)
      PROVE  i = k
  <2>1. i \in Nat /\ i + 1 \in Nat /\ TwoTo(i) \in Nat /\ TwoTo(i + 1) \in Nat /\ v \in Nat
    BY TwoToType
  <2>2. CASE i < k
    <3>1. i + 1 = k \/ i + 1 < k
      BY <2>1, <2>2
    <3>2. TwoTo(i + 1) <= v
      BY <2>1, <3>1, TwoToGrows
    <3> QED BY <1>3, <2>1, <3>2
  <2>3. CASE i > k
    <3>1. v < TwoTo(i)
      BY <2>1, <2>3, TwoToGrows
    <3> QED BY <1>3, <2>1, <3>1
  <2> QED BY <2>1, <2>2, <2>3
<1>4. bitIndex(v) = CHOOSE i \in 0 .. v : First(i)
  BY <1>2 DEF bitIndex
<1> HIDE DEF v, First
<1>5. bitIndex(v) = k
  BY <1>2, <1>3, <1>4
<1> QED BY <1>5 DEF v

(* The power of two next to a power of two is itself.                      *)
LEMMA NextPowOf2Is == \A k \in Nat : nextPowOf2(TwoTo(k)) = TwoTo(k)
<1>1. SUFFICES ASSUME NEW k \in Nat PROVE nextPowOf2(TwoTo(k)) = TwoTo(k)
  OBVIOUS
<1> DEFINE v == TwoTo(k)
           First(i) == TwoTo(i) >= v /\ \A j \in 0 .. i - 1 : TwoTo(j) < v
<1>2. v \in Nat /\ v > 0 /\ k \in 0 .. v
  BY TwoToType
<1>3. First(k)
  <2>1. ASSUME NEW j \in 0 .. k - 1
        PROVE  TwoTo(j) < v
    <3>1. j \in Nat /\ j < k
      OBVIOUS
    <3> QED BY <3>1, TwoToGrows
  <2> QED BY <1>2, <2>1
<1>4. ASSUME NEW i \in 0 .. v, First(i)
      PROVE  i = k
  <2>1. i \in Nat /\ TwoTo(i) \in Nat
    BY TwoToType
  <2>2. CASE i < k
    BY <1>2, <1>4, <2>1, <2>2, TwoToGrows
  <2>3. CASE i > k
    <3>1. k \in 0 .. i - 1
      BY <2>1, <2>3
    <3> QED BY <1>2, <1>4, <3>1
  <2> QED BY <2>1, <2>2, <2>3
<1>5. nextPowOf2(v) = TwoTo(CHOOSE i \in 0 .. v : First(i))
  BY <1>2 DEF nextPowOf2
<1> HIDE DEF v, First
<1>6. nextPowOf2(v) = TwoTo(k)
  BY <1>2, <1>3, <1>4, <1>5
<1> QED BY <1>6 DEF v

(* The powers of two are the numbers IsPowerOfTwo accepts besides 0.       *)
LEMMA PowerOfTwo ==
    /\ \A v \in Nat \ {0} : IsPowerOfTwo(v) => \E k \in Nat : v = TwoTo(k)
    /\ \A k \in Nat : IsPowerOfTwo(TwoTo(k))
<1>1. ASSUME NEW k \in Nat PROVE IsPowerOfTwo(TwoTo(k))
  <2>1. k \in 0 .. TwoTo(k)
    BY TwoToType
  <2> QED BY <2>1 DEF IsPowerOfTwo
<1>2. \A v \in Nat \ {0} : IsPowerOfTwo(v) => \E k \in Nat : v = TwoTo(k)
  BY DEF IsPowerOfTwo
<1> QED BY <1>1, <1>2

-----------------------------------------------------------------------------
(* A transform from the transforms of the halves.                          *)

(* The terms of a value of the transform, however they are written.        *)
LEMMA TransformIs ==
    ASSUME NEW k \in Nat, NEW w \in Fr, NEW a, IsSlice(a, k), NEW i \in Nat, NEW t,
           \A j \in 0 .. TwoTo(k) - 1 : t[j] = a[j] \odot ExpModFr(w, i * j)
    PROVE  TransformAt(a, w, k, i) = SumFr(t, TwoTo(k))
<1> DEFINE n == TwoTo(k)
           u == [j \in 0 .. n - 1 |-> a[j] \odot ExpModFr(w, i * j)]
<1>1. n \in Nat
  BY TwoToType
<1>2. ASSUME NEW j \in 0 .. n - 1
      PROVE  u[j] \in Fr /\ t[j] = u[j]
  <2>1. a[j] \in Fr /\ i * j \in Nat
    BY <1>1 DEF IsSlice
  <2>2. u[j] = a[j] \odot ExpModFr(w, i * j)
    OBVIOUS
  <2> HIDE DEF u
  <2> QED BY <2>1, <2>2, ExpType, FrClosed
<1>3. SumFr(t, n) = SumFr(u, n)
  <2> HIDE DEF u, n
  <2> QED BY <1>1, <1>2, SumEqual
<1> QED BY <1>3 DEF TransformAt

(* Transforms of slices with the same elements are the same.               *)
LEMMA TransformEqual ==
    ASSUME NEW k \in Nat, NEW w \in Fr, NEW a, IsSlice(a, k), NEW b,
           \A j \in 0 .. TwoTo(k) - 1 : b[j] = a[j], NEW i \in Nat
    PROVE  TransformAt(b, w, k, i) = TransformAt(a, w, k, i)
<1> DEFINE u == [j \in 0 .. TwoTo(k) - 1 |-> b[j] \odot ExpModFr(w, i * j)]
<1>1. \A j \in 0 .. TwoTo(k) - 1 : u[j] = a[j] \odot ExpModFr(w, i * j)
  OBVIOUS
<1>2. TransformAt(b, w, k, i) = SumFr(u, TwoTo(k))
  BY DEF TransformAt
<1> HIDE DEF u
<1> QED BY <1>1, <1>2, TransformIs

(* A common factor of the coefficients.                                    *)
LEMMA TransformTimes ==
    ASSUME NEW k \in Nat, NEW w \in Fr, NEW a, IsSlice(a, k), NEW x \in Fr, NEW b,
           \A j \in 0 .. TwoTo(k) - 1 : b[j] = x \odot a[j], NEW i \in Nat
    PROVE  TransformAt(b, w, k, i) = x \odot TransformAt(a, w, k, i)
<1> DEFINE n == TwoTo(k)
           u == [j \in 0 .. n - 1 |-> a[j] \odot ExpModFr(w, i * j)]
           v == [j \in 0 .. n - 1 |-> b[j] \odot ExpModFr(w, i * j)]
<1>1. n \in Nat
  BY TwoToType
<1>2. ASSUME NEW j \in 0 .. n - 1
      PROVE  u[j] \in Fr /\ v[j] = x \odot u[j]
  <2>1. a[j] \in Fr /\ ExpModFr(w, i * j) \in Fr /\ b[j] = x \odot a[j]
    <3>1. a[j] \in Fr /\ i * j \in Nat
      BY <1>1 DEF IsSlice
    <3> QED BY <3>1, ExpType
  <2>2. u[j] = a[j] \odot ExpModFr(w, i * j) /\ v[j] = b[j] \odot ExpModFr(w, i * j)
    OBVIOUS
  <2> HIDE DEF u, v
  <2>3. (x \odot a[j]) \odot ExpModFr(w, i * j) = x \odot (a[j] \odot ExpModFr(w, i * j))
    BY <2>1, FrAssociates
  <2> QED BY <2>1, <2>2, <2>3, FrClosed
<1>3. SumFr(v, n) = x \odot SumFr(u, n)
  <2> HIDE DEF u, v, n
  <2> QED BY <1>1, <1>2, SumTimes
<1> QED BY <1>3 DEF TransformAt

(* The transform over a root of order 2 ** k has that period.              *)
LEMMA TransformPeriod ==
    ASSUME NEW k \in Nat, NEW w, IsRoot(w, k), NEW a, IsSlice(a, k), NEW i \in Nat
    PROVE  TransformAt(a, w, k, TwoTo(k) + i) = TransformAt(a, w, k, i)
<1> DEFINE n == TwoTo(k)
           u == [j \in 0 .. n - 1 |-> a[j] \odot ExpModFr(w, i * j)]
<1>1. n \in Nat /\ n + i \in Nat /\ w \in Fr
  BY TwoToType DEF IsRoot
<1>2. ASSUME NEW j \in 0 .. n - 1
      PROVE  u[j] = a[j] \odot ExpModFr(w, (n + i) * j)
  <2>1. j \in Nat /\ i * j \in Nat /\ (n + i) * j = n * j + i * j
    BY <1>1
  <2>2. ExpModFr(w, n * j + i * j) = ExpModFr(w, i * j)
    BY <2>1, RootPeriod
  <2> QED BY <2>1, <2>2
<1>3. TransformAt(a, w, k, n + i) = SumFr(u, n)
  <2> HIDE DEF u
  <2> QED BY <1>1, <1>2, TransformIs
<1> QED BY <1>3 DEF TransformAt

(* Even and odd are the elements of a at the even and at the odd indices.  *)
Halves(a, even, odd, k) ==
    /\ IsSlice(even, k) /\ IsSlice(odd, k)
    /\ \A j \in 0 .. TwoTo(k) - 1 : a[2 * j] = even[j] /\ a[2 * j + 1] = odd[j]

(* A value of the transform is that of the even half, and that of the      *)
(* odd half times the power.                                               *)
LEMMA TransformSplits ==
    ASSUME NEW k \in Nat, NEW w \in Fr, NEW a, IsSlice(a, k + 1), NEW even, NEW odd,
           Halves(a, even, odd, k), NEW i \in Nat
    PROVE  TransformAt(a, w, k + 1, i) =
               TransformAt(even, w \odot w, k, i)
                   \oplus (TransformAt(odd, w \odot w, k, i) \odot ExpModFr(w, i))
<1> DEFINE n == TwoTo(k)
           z == w \odot w
           t == [j \in 0 .. 2 * n - 1 |-> a[j] \odot ExpModFr(w, i * j)]
           b == [j \in 0 .. n - 1 |-> even[j] \odot ExpModFr(z, i * j)]
           c == [j \in 0 .. n - 1 |-> odd[j] \odot ExpModFr(z, i * j)]
           d == [j \in 0 .. n - 1 |-> ExpModFr(w, i) \odot c[j]]
<1>1. n \in Nat /\ TwoTo(k + 1) = 2 * n /\ k + 1 \in Nat /\ z \in Fr /\ z = ExpModFr(w, 2)
  <2>1. ExpModFr(w, 1 + 1) = w \odot w
    BY ExpUnit, ExpNext
  <2>2. 1 + 1 = 2
    OBVIOUS
  <2> QED BY <2>1, <2>2, TwoToNext, FrClosed
<1>2. ASSUME NEW j \in 0 .. n - 1
      PROVE  /\ b[j] \in Fr /\ c[j] \in Fr /\ d[j] = ExpModFr(w, i) \odot c[j]
             /\ t[2 * j] = b[j] /\ t[2 * j + 1] = d[j]
  <2>1. /\ even[j] \in Fr /\ odd[j] \in Fr /\ a[2 * j] = even[j] /\ a[2 * j + 1] = odd[j]
        /\ j \in Nat /\ i * j \in Nat /\ 2 * (i * j) \in Nat
        /\ i * (2 * j) = 2 * (i * j) /\ i * (2 * j + 1) = 2 * (i * j) + i
    BY <1>1 DEF Halves, IsSlice
  <2>2. /\ ExpModFr(w, 2 * (i * j)) = ExpModFr(z, i * j)
        /\ ExpModFr(w, 2 * (i * j) + i) = ExpModFr(w, 2 * (i * j)) \odot ExpModFr(w, i)
        /\ ExpModFr(z, i * j) \in Fr /\ ExpModFr(w, i) \in Fr
    <3>1. 2 \in Nat
      OBVIOUS
    <3> HIDE DEF z
    <3>2. ExpModFr(z, i * j) \in Fr /\ ExpModFr(w, i) \in Fr
      BY <1>1, <2>1, ExpType
    <3>3. ExpModFr(w, 2 * (i * j) + i) = ExpModFr(w, 2 * (i * j)) \odot ExpModFr(w, i)
      BY <2>1, ExpAdds
    <3>4. ExpModFr(w, 2 * (i * j)) = ExpModFr(ExpModFr(w, 2), i * j)
      BY <2>1, <3>1, ExpTimes
    <3> QED BY <1>1, <3>2, <3>3, <3>4
  <2>3. 2 * j \in 0 .. 2 * n - 1 /\ 2 * j + 1 \in 0 .. 2 * n - 1
    BY <1>1, <2>1
  <2>4. /\ t[2 * j] = even[j] \odot ExpModFr(z, i * j)
        /\ t[2 * j + 1] = odd[j] \odot (ExpModFr(z, i * j) \odot ExpModFr(w, i))
        /\ b[j] = even[j] \odot ExpModFr(z, i * j) /\ c[j] = odd[j] \odot ExpModFr(z, i * j)
        /\ d[j] = ExpModFr(w, i) \odot c[j]
    <3>1. /\ t[2 * j] = a[2 * j] \odot ExpModFr(w, i * (2 * j))
          /\ t[2 * j + 1] = a[2 * j + 1] \odot ExpModFr(w, i * (2 * j + 1))
      <4> HIDE DEF z, n
      <4> QED BY <2>3
    <3>2. /\ b[j] = even[j] \odot ExpModFr(z, i * j) /\ c[j] = odd[j] \odot ExpModFr(z, i * j)
          /\ d[j] = ExpModFr(w, i) \odot c[j]
      OBVIOUS
    <3> HIDE DEF z, n, t, b, c, d
    <3> QED BY <2>1, <2>2, <3>1, <3>2
  <2> HIDE DEF t, b, c, d, z
  <2>5. b[j] \in Fr /\ c[j] \in Fr
    BY <2>1, <2>2, <2>4, FrClosed
  <2>6. t[2 * j + 1] = c[j] \odot ExpModFr(w, i)
    BY <2>1, <2>2, <2>4, FrAssociates
  <2> QED BY <2>2, <2>4, <2>5, <2>6, FrCommutes
<1>3. \A j \in 0 .. 2 * n - 1 : t[j] \in Fr
  <2>1. ASSUME NEW j \in 0 .. 2 * n - 1
        PROVE  a[j] \odot ExpModFr(w, i * j) \in Fr
    <3>1. a[j] \in Fr /\ i * j \in Nat
      BY <1>1 DEF IsSlice
    <3> QED BY <3>1, ExpType, FrClosed
  <2> QED BY <2>1
<1>4. SumFr(t, 2 * n) = SumFr(b, n) \oplus SumFr(d, n)
  <2> HIDE DEF t, b, c, d, n
  <2> QED BY <1>1, <1>2, <1>3, SumEvenOdd
<1>5. SumFr(d, n) = SumFr(c, n) \odot ExpModFr(w, i)
  <2>1. \A j \in 0 .. n - 1 : c[j] \in Fr /\ d[j] = ExpModFr(w, i) \odot c[j]
    BY <1>2
  <2>2. ExpModFr(w, i) \in Fr
    BY ExpType
  <2> HIDE DEF c, d, n
  <2>3. SumFr(d, n) = ExpModFr(w, i) \odot SumFr(c, n) /\ SumFr(c, n) \in Fr
    BY <1>1, <2>1, <2>2, SumTimes, SumType
  <2> QED BY <2>2, <2>3, FrCommutes
<1>6. /\ TransformAt(a, w, k + 1, i) = SumFr(t, 2 * n)
      /\ TransformAt(even, z, k, i) = SumFr(b, n) /\ TransformAt(odd, z, k, i) = SumFr(c, n)
  BY <1>1 DEF TransformAt
<1> HIDE DEF z, n, t, b, c, d
<1>7. TransformAt(a, w, k + 1, i) = TransformAt(even, z, k, i) \oplus (TransformAt(odd, z, k, i) \odot ExpModFr(w, i))
  BY <1>4, <1>5, <1>6
<1> QED BY <1>7 DEF z

(* The butterfly: both halves of the transform from the same two values.   *)
LEMMA Butterfly ==
    ASSUME NEW k \in Nat, NEW w, IsRoot(w, k + 1), NEW a, IsSlice(a, k + 1), NEW even, NEW odd,
           Halves(a, even, odd, k), NEW i \in Nat, NEW x, NEW y,
           x = TransformAt(even, w \odot w, k, i),
           y = TransformAt(odd, w \odot w, k, i) \odot ExpModFr(w, i)
    PROVE  /\ x \in Fr /\ y \in Fr
           /\ TransformAt(a, w, k + 1, i) = x \oplus y
           /\ TransformAt(a, w, k + 1, TwoTo(k) + i) = x \ominus y
<1> DEFINE z == w \odot w
           r == TransformAt(odd, z, k, i)
           e == ExpModFr(w, i)
<1>1. w \in Fr /\ IsSlice(even, k) /\ IsSlice(odd, k) /\ TwoTo(k) + i \in Nat /\ IsRoot(z, k)
  BY RootSquare, TwoToType DEF IsRoot, Halves
<1>2. z \in Fr
  BY <1>1 DEF IsRoot
<1>3. /\ TransformAt(a, w, k + 1, i) = x \oplus y
      /\ TransformAt(a, w, k + 1, TwoTo(k) + i)
            = TransformAt(even, z, k, TwoTo(k) + i)
                  \oplus (TransformAt(odd, z, k, TwoTo(k) + i) \odot ExpModFr(w, TwoTo(k) + i))
  BY <1>1, TransformSplits
<1> HIDE DEF z
<1>4. /\ TransformAt(even, z, k, TwoTo(k) + i) = x
      /\ TransformAt(odd, z, k, TwoTo(k) + i) = r
  BY <1>1, TransformPeriod DEF z
<1>5. ExpModFr(w, TwoTo(k) + i) = MinusOne \odot e
  BY RootHalf
<1>6. r \in Fr /\ e \in Fr /\ x \in Fr /\ y = r \odot e
  BY <1>1, <1>2, TransformType, ExpType DEF z
<1> HIDE DEF r, e
<1>7. y \in Fr /\ r \odot (MinusOne \odot e) = MinusOne \odot y
  <2>1. y \in Fr /\ MinusOne \in Fr
    BY <1>6, FrClosed, MinusOneFacts
  <2>2. (r \odot MinusOne) \odot e = r \odot (MinusOne \odot e) /\ r \odot MinusOne = MinusOne \odot r
        /\ (MinusOne \odot r) \odot e = MinusOne \odot (r \odot e)
    BY <1>6, <2>1, FrAssociates, FrCommutes
  <2> QED BY <1>6, <2>1, <2>2
<1>8. x \ominus y = x \oplus (MinusOne \odot y)
  BY <1>6, <1>7, MinusOneFacts
<1> QED BY <1>3, <1>4, <1>5, <1>6, <1>7, <1>8

-----------------------------------------------------------------------------
(* fft computes the transform.                                             *)

(* The first 2 ** k powers of w, and the next 1.                           *)
Powers(roots, w, k) ==
    IsRoot(w, k) /\ \A i \in 0 .. TwoTo(k) : roots[i] = ExpModFr(w, i)

(* The 2 ** m elements of a slice of 2 ** k from offset on, stride apart.  *)
Strided(a, k, m, offset) == [j \in 0 .. TwoTo(m) - 1 |-> a[offset + j * TwoTo(k - m)]]

(* One level of the recursion of fft, from the level f below it.           *)
FftLevel(f, vals, roots, rootsStride, k) ==
    LET n == Length(vals)
        l == TwoTo(k)
        half == l \div 2
        stride == n \div l
        step == stride * rootsStride
    IN  [offset \in 0 .. stride - 1 |->
            IF l <= 4 THEN simpleFT(vals, offset, stride, roots, step, l)
            ELSE LET L == f[k - 1][offset]
                     R == f[k - 1][offset + stride]
                     yTimesRoot(i) == MulModFr(R[i], roots[i * step])
                 IN  Slice([i \in 0 .. l - 1 |->
                         IF i < half THEN AddModFr(L[i], yTimesRoot(i))
                         ELSE SubModFr(L[i - half], yTimesRoot(i - half))])]

(* fft is the top level of its levels, as FFT.tla defines it, written      *)
(* with FftLevel.                                                          *)
LEMMA FftIs ==
    ASSUME NEW vals, NEW roots, NEW rootsStride
    PROVE  fft(vals, roots, rootsStride) =
               (CHOOSE f : f = [k \in 0 .. bitIndex(Length(vals)) |->
                   FftLevel(f, vals, roots, rootsStride, k)])[bitIndex(Length(vals))][0]
BY DEF fft, FftLevel

(* What is divided by a factor of it.                                      *)
LEMMA FactorDivides == \A a \in Nat \ {0} : \A b \in Nat : (a * b) \div a = b
<1>1. SUFFICES ASSUME NEW a \in Nat \ {0}, NEW b \in Nat PROVE (a * b) \div a = b
  OBVIOUS
<1> DEFINE c == a * b
           q == c \div a
           r == c % a
<1>2. c \in Nat
  OBVIOUS
<1>3. q \in Int /\ r \in 0 .. a - 1 /\ c = a * q + r
  <2> HIDE DEF c
  <2> QED BY <1>2
<1>4. a * (b - q) = r
  <2>1. a * b = a * q + r /\ q \in Int /\ r \in Int
    BY <1>3
  <2> HIDE DEF q, r
  <2>2. \A x, y, z \in Int : x * (y - z) = x * y - x * z
    OBVIOUS
  <2>3. a * (b - q) = a * b - a * q /\ a * q \in Int /\ a * b \in Int
    BY <2>1, <2>2
  <2> QED BY <2>1, <2>3
<1> HIDE DEF c, q, r
<1>5. b - q = 0
  <2>1. CASE b - q >= 1
    <3>1. a * (b - q) >= a * 1
      <4>1. \A x, y \in Nat : y >= 1 => x * y >= x * 1
        OBVIOUS
      <4> QED BY <1>3, <2>1, <4>1
    <3> QED BY <1>3, <1>4, <3>1
  <2>2. CASE b - q <= -1
    <3>1. \A x \in Nat, y \in Int : y <= -1 => x * y <= -x
      OBVIOUS
    <3>2. a * (b - q) <= -a /\ b - q \in Int
      BY <1>3, <2>2, <3>1
    <3> QED BY <1>3, <1>4, <3>2
  <2> QED BY <1>3, <2>1, <2>2
<1> QED BY <1>3, <1>5 DEF c, q

(* Lengths and strides that are powers of two.                             *)
LEMMA TwoToDivides ==
    ASSUME NEW k \in Nat, NEW m \in 0 .. k
    PROVE  /\ k - m \in Nat /\ m \in Nat
           /\ TwoTo(k) \div TwoTo(m) = TwoTo(k - m)
           /\ TwoTo(k) = TwoTo(m) * TwoTo(k - m)
           /\ TwoTo(k) = TwoTo(k - m) * TwoTo(m)
<1>1. k - m \in Nat /\ m \in Nat /\ m + (k - m) = k /\ (k - m) + m = k
  OBVIOUS
<1>2. TwoTo(m + (k - m)) = TwoTo(m) * TwoTo(k - m) /\ TwoTo((k - m) + m) = TwoTo(k - m) * TwoTo(m)
  BY <1>1, TwoToAdds
<1>3. TwoTo(m) \in Nat \ {0} /\ TwoTo(k - m) \in Nat
  BY <1>1, TwoToType
<1>4. (TwoTo(m) * TwoTo(k - m)) \div TwoTo(m) = TwoTo(k - m)
  BY <1>3, FactorDivides
<1> QED BY <1>1, <1>2, <1>4

(* Element o of row j, of n rows of s elements.                            *)
LEMMA RowElement ==
    ASSUME NEW n \in Nat, NEW s \in Nat, NEW j \in 0 .. n - 1, NEW o \in 0 .. s - 1
    PROVE  o + j * s \in 0 .. n * s - 1
<1>1. \A x, y, z \in Nat : x <= y => x * z <= y * z
  OBVIOUS
<1>2. j \in Nat /\ n - 1 \in Nat /\ j <= n - 1 /\ s \in Nat
  OBVIOUS
<1>3. j * s <= (n - 1) * s
  BY <1>1, <1>2
<1>4. (n - 1) * s = n * s - s /\ n * s \in Nat /\ j * s \in Nat
  OBVIOUS
<1> QED BY <1>3, <1>4

(* The values fft takes at a level are a slice of that length.             *)
LEMMA StridedIsSlice ==
    ASSUME NEW k \in Nat, NEW m \in 0 .. k, NEW vals, IsSlice(vals, k),
           NEW offset \in 0 .. TwoTo(k - m) - 1
    PROVE  IsSlice(Strided(vals, k, m, offset), m)
<1>1. TwoTo(k) = TwoTo(m) * TwoTo(k - m) /\ TwoTo(m) \in Nat /\ TwoTo(k - m) \in Nat
  BY TwoToDivides, TwoToType
<1>2. ASSUME NEW j \in 0 .. TwoTo(m) - 1
      PROVE  vals[offset + j * TwoTo(k - m)] \in Fr
  <2>1. offset + j * TwoTo(k - m) \in 0 .. TwoTo(k) - 1
    BY <1>1, RowElement
  <2> QED BY <2>1 DEF IsSlice
<1> QED BY <1>2 DEF Strided, IsSlice

(* The transform of few values, term by term.                              *)
LEMMA SimpleFTTransforms ==
    ASSUME NEW m \in Nat, NEW y, IsRoot(y, m), NEW a, IsSlice(a, m),
           NEW vals, NEW offset, NEW stride, NEW roots, NEW step,
           \A j \in 0 .. TwoTo(m) - 1 : vals[offset + j * stride] = a[j],
           \A r \in 0 .. TwoTo(m) - 1 : roots[r * step] = ExpModFr(y, r)
    PROVE  simpleFT(vals, offset, stride, roots, step, TwoTo(m)) = Transform(a, y, m)
<1> DEFINE l == TwoTo(m)
           t(i) == [j \in 0 .. l - 1 |->
                       MulModFr(vals[offset + j * stride], roots[((i * j) % l) * step])]
<1>1. y \in Fr /\ l \in Nat
  BY TwoToType DEF IsRoot
<1>2. ASSUME NEW i \in 0 .. l - 1
      PROVE  SumFr(t(i), l) = TransformAt(a, y, m, i)
  <2>1. ASSUME NEW j \in 0 .. l - 1
        PROVE  t(i)[j] = a[j] \odot ExpModFr(y, i * j)
    <3>1. i * j \in Nat
      BY <1>1
    <3>2. /\ (i * j) % l \in 0 .. l - 1
          /\ ExpModFr(y, (i * j) % l) = ExpModFr(y, i * j)
      BY <3>1, RootRemainder
    <3>3. roots[((i * j) % l) * step] = ExpModFr(y, i * j)
      BY <3>2
    <3>4. t(i)[j] = MulModFr(vals[offset + j * stride], roots[((i * j) % l) * step])
      OBVIOUS
    <3> QED BY <3>3, <3>4
  <2>2. i \in Nat
    BY <1>1
  <2> HIDE DEF t
  <2> QED BY <1>1, <2>1, <2>2, TransformIs
<1>3. simpleFT(vals, offset, stride, roots, step, l) = [i \in 0 .. l - 1 |-> SumFr(t(i), l)]
  BY SliceIs DEF simpleFT
<1>4. Transform(a, y, m) = [i \in 0 .. l - 1 |-> TransformAt(a, y, m, i)]
  BY DEF Transform
<1>5. [i \in 0 .. l - 1 |-> SumFr(t(i), l)] = [i \in 0 .. l - 1 |-> TransformAt(a, y, m, i)]
  <2> HIDE DEF t
  <2> QED BY <1>2
<1> QED BY <1>3, <1>4, <1>5

(* What the call on the values from offset on returns, for every offset.   *)
FftValues(vals, w, order, k, m) ==
    [offset \in 0 .. TwoTo(k - m) - 1 |->
        Transform(Strided(vals, k, m, offset), ExpModFr(w, TwoTo(order - m)), m)]

(* The root of the calls on 2 ** m values, and where its powers are.       *)
LEMMA LevelRoot ==
    ASSUME NEW order \in Nat, NEW k \in 0 .. order, NEW m \in 0 .. k, NEW w, NEW roots,
           Powers(roots, w, order)
    PROVE  /\ IsRoot(ExpModFr(w, TwoTo(order - m)), m)
           /\ TwoTo(k - m) * TwoTo(order - k) = TwoTo(order - m)
           /\ \A r \in 0 .. TwoTo(m) :
                  roots[r * TwoTo(order - m)] = ExpModFr(ExpModFr(w, TwoTo(order - m)), r)
           /\ m > 0 => ExpModFr(w, TwoTo(order - m)) \odot ExpModFr(w, TwoTo(order - m))
                           = ExpModFr(w, TwoTo(order - (m - 1)))
<1>1. /\ order - m \in Nat /\ m \in Nat /\ (order - m) + m = order /\ k - m \in Nat /\ order - k \in Nat
      /\ (k - m) + (order - k) = order - m /\ m \in 0 .. order
  OBVIOUS
<1>2. IsRoot(w, order) /\ w \in Fr
  BY DEF Powers, IsRoot
<1>3. IsRoot(ExpModFr(w, TwoTo(order - m)), m)
  BY <1>1, <1>2, RootOfRoot
<1>4. TwoTo(k - m) * TwoTo(order - k) = TwoTo(order - m)
  <2>1. TwoTo((k - m) + (order - k)) = TwoTo(k - m) * TwoTo(order - k)
    BY <1>1, TwoToAdds
  <2> QED BY <1>1, <2>1
<1>5. ASSUME NEW r \in 0 .. TwoTo(m)
      PROVE  roots[r * TwoTo(order - m)] = ExpModFr(ExpModFr(w, TwoTo(order - m)), r)
  <2> DEFINE s == TwoTo(order - m)
             n == TwoTo(m)
  <2>1. s \in Nat /\ n \in Nat /\ TwoTo(order) = n * s /\ r \in Nat /\ r <= n
    BY <1>1, TwoToType, TwoToDivides
  <2>2. r * s \in 0 .. TwoTo(order) /\ r * s = s * r
    <3> HIDE DEF s, n
    <3>1. \A x, z \in Nat : x <= z => x * s <= z * s
      BY <2>1
    <3>2. r * s <= n * s /\ r * s \in Nat /\ r * s = s * r /\ n * s \in Nat
      BY <2>1, <3>1
    <3> QED BY <2>1, <3>2
  <2>3. roots[r * s] = ExpModFr(w, r * s)
    BY <2>2 DEF Powers
  <2>4. ExpModFr(w, s * r) = ExpModFr(ExpModFr(w, s), r)
    <3> HIDE DEF s
    <3> QED BY <1>2, <2>1, ExpTimes
  <2> QED BY <2>2, <2>3, <2>4
<1>6. ASSUME m > 0
      PROVE  ExpModFr(w, TwoTo(order - m)) \odot ExpModFr(w, TwoTo(order - m))
                 = ExpModFr(w, TwoTo(order - (m - 1)))
  <2> DEFINE s == TwoTo(order - m)
  <2>1. s \in Nat /\ TwoTo((order - m) + 1) = 2 * s /\ (order - m) + 1 = order - (m - 1)
    BY <1>1, TwoToNext
  <2>2. ExpModFr(w, s + s) = ExpModFr(w, s) \odot ExpModFr(w, s)
    BY <1>2, <2>1, ExpAdds
  <2> HIDE DEF s
  <2>3. s + s = 2 * s
    BY <2>1
  <2>4. ExpModFr(w, s) \odot ExpModFr(w, s) = ExpModFr(w, TwoTo(order - (m - 1)))
    BY <2>1, <2>2, <2>3
  <2> QED BY <2>4 DEF s
<1> QED BY <1>3, <1>4, <1>5, <1>6

(* A level of fft returns the transforms of its slices when the one below  *)
(* it does.                                                                *)
LEMMA LevelTransforms ==
    ASSUME NEW order \in Nat, NEW k \in 0 .. order, NEW m \in 0 .. k, NEW w, NEW roots,
           Powers(roots, w, order), NEW vals, IsSlice(vals, k), NEW f,
           m > 0 => f[m - 1] = FftValues(vals, w, order, k, m - 1)
    PROVE  FftLevel(f, vals, roots, TwoTo(order - k), m) = FftValues(vals, w, order, k, m)
<1> DEFINE l == TwoTo(m)
           half == l \div 2
           stride == TwoTo(k - m)
           step == TwoTo(order - m)
           y == ExpModFr(w, step)
           slice(offset) == Strided(vals, k, m, offset)
<1>1. /\ k \in Nat /\ m \in Nat /\ k - m \in Nat /\ l \in Nat /\ stride \in Nat /\ step \in Nat
      /\ Length(vals) = TwoTo(k) /\ TwoTo(k) \div l = stride /\ stride * TwoTo(order - k) = step
      /\ TwoTo(order - k) \in Nat
  <2>1. k \in Nat /\ m \in Nat /\ k - m \in Nat /\ order - m \in Nat /\ order - k \in Nat
    OBVIOUS
  <2> QED BY <2>1, TwoToType, TwoToDivides, LevelRoot, SliceLength
<1>2. /\ IsRoot(y, m) /\ y \in Fr
      /\ \A r \in 0 .. l : roots[r * step] = ExpModFr(y, r)
  BY LevelRoot DEF IsRoot
<1>3. ASSUME NEW offset \in 0 .. stride - 1
      PROVE  /\ IsSlice(slice(offset), m)
             /\ \A j \in 0 .. l - 1 : vals[offset + j * stride] = slice(offset)[j]
  BY StridedIsSlice DEF Strided
<1> DEFINE value(offset) ==
               IF l <= 4 THEN simpleFT(vals, offset, stride, roots, step, l)
               ELSE LET L == f[m - 1][offset]
                        R == f[m - 1][offset + stride]
                        yTimesRoot(i) == MulModFr(R[i], roots[i * step])
                    IN  Slice([i \in 0 .. l - 1 |->
                            IF i < half THEN AddModFr(L[i], yTimesRoot(i))
                            ELSE SubModFr(L[i - half], yTimesRoot(i - half))])
<1>4. FftLevel(f, vals, roots, TwoTo(order - k), m) = [offset \in 0 .. stride - 1 |-> value(offset)]
  BY <1>1 DEF FftLevel
<1>5. ASSUME NEW offset \in 0 .. stride - 1, l <= 4
      PROVE  value(offset) = Transform(slice(offset), y, m)
  <2>1. value(offset) = simpleFT(vals, offset, stride, roots, step, l)
    BY <1>5
  <2>2. \A r \in 0 .. l - 1 : roots[r * step] = ExpModFr(y, r)
    BY <1>1, <1>2
  <2>3. simpleFT(vals, offset, stride, roots, step, l) = Transform(slice(offset), y, m)
    <3> HIDE DEF y, slice, step, stride
    <3> QED BY <1>1, <1>2, <1>3, <2>2, SimpleFTTransforms
  <2> QED BY <2>1, <2>3
<1>6. ASSUME NEW offset \in 0 .. stride - 1, ~ (l <= 4)
      PROVE  value(offset) = Transform(slice(offset), y, m)
  <2> DEFINE p == m - 1
             even == Strided(vals, k, p, offset)
             odd == Strided(vals, k, p, offset + stride)
             z == y \odot y
             L == Transform(even, z, p)
             R == Transform(odd, z, p)
  <2>1. /\ p \in Nat /\ p \in 0 .. k /\ p + 1 = m /\ m > 0 /\ k - p \in Nat /\ k - p = (k - m) + 1
        /\ TwoTo(k - p) = 2 * stride /\ l = 2 * TwoTo(p) /\ half = TwoTo(p) /\ TwoTo(p) \in Nat
    <3>1. m # 0
      BY <1>6, TwoToZero
    <3>2. p \in Nat /\ p \in 0 .. k /\ p + 1 = m /\ m > 0 /\ k - p \in Nat /\ k - p = (k - m) + 1
      BY <1>1, <3>1
    <3>3. TwoTo((k - m) + 1) = 2 * stride /\ TwoTo(p + 1) = 2 * TwoTo(p) /\ TwoTo(p) \in Nat
      BY <1>1, <3>2, TwoToNext
    <3>4. (2 * TwoTo(p)) \div 2 = TwoTo(p)
      BY <3>3
    <3> QED BY <3>2, <3>3, <3>4
  <2>2. offset \in 0 .. TwoTo(k - p) - 1 /\ offset + stride \in 0 .. TwoTo(k - p) - 1
        /\ offset \in Nat
    <3> HIDE DEF stride, p
    <3> QED BY <1>1, <2>1
  <2>3. f[p][offset] = L /\ f[p][offset + stride] = R
    <3>1. f[p] = FftValues(vals, w, order, k, p)
      BY <2>1
    <3>2. z = ExpModFr(w, TwoTo(order - p))
      BY <2>1, LevelRoot
    <3>3. FftValues(vals, w, order, k, p) =
              [o \in 0 .. TwoTo(k - p) - 1 |->
                  Transform(Strided(vals, k, p, o), ExpModFr(w, TwoTo(order - p)), p)]
      BY DEF FftValues
    <3> HIDE DEF p, z, stride, y
    <3> QED BY <2>2, <3>1, <3>2, <3>3
  <2>4. Halves(slice(offset), even, odd, p)
    <3>1. IsSlice(even, p) /\ IsSlice(odd, p)
      <4> HIDE DEF p, stride
      <4> QED BY <1>1, <2>1, <2>2, StridedIsSlice
    <3>2. ASSUME NEW j \in 0 .. TwoTo(p) - 1
          PROVE  slice(offset)[2 * j] = even[j] /\ slice(offset)[2 * j + 1] = odd[j]
      <4>1. j \in Nat /\ 2 * j \in 0 .. l - 1 /\ 2 * j + 1 \in 0 .. l - 1
        <5> HIDE DEF p, l
        <5> QED BY <2>1
      <4>2. /\ slice(offset)[2 * j] = vals[offset + (2 * j) * stride]
            /\ slice(offset)[2 * j + 1] = vals[offset + (2 * j + 1) * stride]
        BY <4>1 DEF Strided
      <4>3. /\ even[j] = vals[offset + j * TwoTo(k - p)]
            /\ odd[j] = vals[(offset + stride) + j * TwoTo(k - p)]
        <5> HIDE DEF p, stride
        <5> QED BY DEF Strided
      <4>4. /\ offset + (2 * j) * stride = offset + j * (2 * stride)
            /\ offset + (2 * j + 1) * stride = (offset + stride) + j * (2 * stride)
        <5> HIDE DEF stride
        <5>1. \A x, s \in Int : (2 * x) * s = x * (2 * s) /\ (2 * x + 1) * s = x * (2 * s) + s
          OBVIOUS
        <5>2. (2 * j) * stride = j * (2 * stride) /\ (2 * j + 1) * stride = j * (2 * stride) + stride
              /\ j * (2 * stride) \in Int /\ offset \in Int /\ stride \in Int
          BY <1>1, <2>2, <4>1, <5>1
        <5> QED BY <5>2
      <4> HIDE DEF slice, even, odd, p, stride
      <4> QED BY <2>1, <4>2, <4>3, <4>4
    <3> HIDE DEF slice, even, odd
    <3> QED BY <3>1, <3>2 DEF Halves
  <2>5. ASSUME NEW i \in 0 .. TwoTo(p) - 1
        PROVE  /\ TransformAt(slice(offset), y, m, i) = L[i] \oplus (R[i] \odot roots[i * step])
               /\ TransformAt(slice(offset), y, m, half + i)
                      = L[i] \ominus (R[i] \odot roots[i * step])
    <3>1. i \in Nat /\ i \in 0 .. l
      <4> HIDE DEF p, l
      <4> QED BY <2>1
    <3>2. L[i] = TransformAt(even, z, p, i) /\ R[i] = TransformAt(odd, z, p, i)
      <4> HIDE DEF p, even, odd, z
      <4> QED BY DEF Transform
    <3>3. roots[i * step] = ExpModFr(y, i)
      BY <1>2, <3>1
    <3>4. IsSlice(slice(offset), p + 1) /\ IsRoot(y, p + 1)
      BY <1>2, <1>3, <2>1
    <3> DEFINE x == TransformAt(even, z, p, i)
               u == TransformAt(odd, z, p, i) \odot ExpModFr(y, i)
    <3>5. /\ TransformAt(slice(offset), y, p + 1, i) = x \oplus u
          /\ TransformAt(slice(offset), y, p + 1, TwoTo(p) + i) = x \ominus u
      <4> HIDE DEF slice, y, p, even, odd
      <4> QED BY <2>1, <2>4, <3>1, <3>4, Butterfly
    <3> HIDE DEF slice, y, p, even, odd, z, L, R, half, step
    <3> QED BY <2>1, <3>2, <3>3, <3>5
  <2>6. value(offset) = [i \in 0 .. l - 1 |->
            IF i < half THEN L[i] \oplus (R[i] \odot roots[i * step])
            ELSE L[i - half] \ominus (R[i - half] \odot roots[(i - half) * step])]
    <3> HIDE DEF L, R, half, stride, step, l
    <3> QED BY <1>6, <2>3, SliceIs
  <2>7. ASSUME NEW i \in 0 .. l - 1
        PROVE  TransformAt(slice(offset), y, m, i) =
                   IF i < half THEN L[i] \oplus (R[i] \odot roots[i * step])
                   ELSE L[i - half] \ominus (R[i - half] \odot roots[(i - half) * step])
    <3> HIDE DEF L, R, half, stride, step, l, p, slice, y
    <3>1. CASE i < half
      <4>1. i \in 0 .. TwoTo(p) - 1
        BY <2>1, <3>1
      <4> QED BY <2>5, <3>1, <4>1
    <3>2. CASE ~ (i < half)
      <4>1. i - half \in 0 .. TwoTo(p) - 1 /\ half + (i - half) = i
        BY <2>1, <3>2
      <4>2. TransformAt(slice(offset), y, m, half + (i - half))
                = L[i - half] \ominus (R[i - half] \odot roots[(i - half) * step])
        BY <2>5, <4>1
      <4> QED BY <3>2, <4>1, <4>2
    <3> QED BY <3>1, <3>2
  <2> HIDE DEF L, R, half, stride, step, p, slice, y, value
  <2>8. Transform(slice(offset), y, m) = [i \in 0 .. l - 1 |-> TransformAt(slice(offset), y, m, i)]
    BY DEF Transform
  <2>9. [i \in 0 .. l - 1 |-> TransformAt(slice(offset), y, m, i)] = [i \in 0 .. l - 1 |->
            IF i < half THEN L[i] \oplus (R[i] \odot roots[i * step])
            ELSE L[i - half] \ominus (R[i - half] \odot roots[(i - half) * step])]
    <3> HIDE DEF l
    <3> QED BY <2>7
  <2> QED BY <2>6, <2>8, <2>9
<1>7. \A offset \in 0 .. stride - 1 : value(offset) = Transform(slice(offset), y, m)
  <2> HIDE DEF value, stride, slice, y
  <2> QED BY <1>5, <1>6
<1>8. FftValues(vals, w, order, k, m) = [offset \in 0 .. stride - 1 |-> Transform(slice(offset), y, m)]
  BY DEF FftValues
<1> HIDE DEF value, stride, slice, y
<1> QED BY <1>4, <1>7, <1>8

(* fft over the powers of a root is the transform over the root that its   *)
(* slice asks for.                                                         *)
THEOREM FftTransforms ==
    ASSUME NEW order \in Nat, NEW k \in 0 .. order, NEW w, NEW roots, Powers(roots, w, order),
           NEW vals, IsSlice(vals, k)
    PROVE  fft(vals, roots, TwoTo(order - k)) = Transform(vals, ExpModFr(w, TwoTo(order - k)), k)
<1> DEFINE rs == TwoTo(order - k)
           F(f) == [m \in 0 .. k |-> FftLevel(f, vals, roots, rs, m)]
           E == [m \in 0 .. k |-> FftValues(vals, w, order, k, m)]
           C == CHOOSE f : f = F(f)
<1>1. k \in Nat /\ bitIndex(Length(vals)) = k
  BY BitIndexIs, SliceLength
<1>2. fft(vals, roots, rs) = C[k][0]
  <2>1. fft(vals, roots, rs) =
               (CHOOSE f : f = [m \in 0 .. bitIndex(Length(vals)) |->
                   FftLevel(f, vals, roots, rs, m)])[bitIndex(Length(vals))][0]
    BY FftIs
  <2> QED BY <1>1, <2>1
<1>3. ASSUME NEW f, NEW m \in 0 .. k, m > 0 => f[m - 1] = E[m - 1]
      PROVE  FftLevel(f, vals, roots, rs, m) = E[m]
  <2>1. E[m] = FftValues(vals, w, order, k, m)
        /\ (m > 0 => E[m - 1] = FftValues(vals, w, order, k, m - 1))
    OBVIOUS
  <2> HIDE DEF E
  <2> QED BY <1>3, <2>1, LevelTransforms
<1>4. E = F(E)
  <2>1. \A m \in 0 .. k : FftLevel(E, vals, roots, rs, m) = E[m]
    <3> HIDE DEF E
    <3> QED BY <1>3
  <2>2. E = [m \in 0 .. k |-> E[m]]
    OBVIOUS
  <2> HIDE DEF E
  <2> QED BY <2>1, <2>2
<1>5. C = F(C)
  <2> HIDE DEF F, E
  <2> QED BY <1>4
<1>6. C[k] = E[k]
  <2> DEFINE S == {m \in 0 .. k : C[m] = E[m]}
  <2>1. \A m \in 0 .. k : C[m] = FftLevel(C, vals, roots, rs, m)
    <3> HIDE DEF C
    <3> QED BY <1>5
  <2> HIDE DEF C, E
  <2>2. 0 \in S
    BY <1>1, <1>3, <2>1
  <2>3. ASSUME NEW m \in 0 .. k - 1, m \in S
        PROVE  m + 1 \in S
    <3>1. m + 1 \in 0 .. k /\ (m + 1) - 1 = m /\ C[m] = E[m]
      BY <2>3
    <3>2. FftLevel(C, vals, roots, rs, m + 1) = E[m + 1]
      BY <1>3, <3>1
    <3> QED BY <2>1, <3>1, <3>2
  <2>4. k \in S
    <3> HIDE DEF S
    <3> QED BY <1>1, <2>2, <2>3, CountTo
  <2> QED BY <2>4
<1>7. E[k][0] = Transform(Strided(vals, k, k, 0), ExpModFr(w, rs), k)
  <2>1. E[k] = FftValues(vals, w, order, k, k)
    BY <1>1
  <2>2. k - k = 0 /\ TwoTo(0) = 1 /\ 0 \in 0 .. 0 /\ 1 - 1 = 0
    BY <1>1, TwoToZero
  <2>3. FftValues(vals, w, order, k, k)[0] = Transform(Strided(vals, k, k, 0), ExpModFr(w, rs), k)
    <3> HIDE DEF rs
    <3> QED BY <2>2 DEF FftValues, rs
  <2> QED BY <2>1, <2>3
<1>8. Strided(vals, k, k, 0) = vals
  <2>1. \A j \in 0 .. TwoTo(k) - 1 : 0 + j * TwoTo(k - k) = j
    <3>1. k - k = 0 /\ TwoTo(0) = 1 /\ TwoTo(k) \in Nat
      BY <1>1, TwoToZero, TwoToType
    <3> QED BY <3>1
  <2>2. vals = [j \in 0 .. TwoTo(k) - 1 |-> vals[j]]
    BY DEF IsSlice
  <2> QED BY <2>1, <2>2 DEF Strided
<1> HIDE DEF C, E
<1> QED BY <1>2, <1>6, <1>7, <1>8

-----------------------------------------------------------------------------
(* The coefficients that have given values: the inverse transform.         *)

(* The inverse of the inverse of a root is the root.                       *)
LEMMA RootInverseTwice ==
    ASSUME NEW k \in Nat, NEW w, IsRoot(w, k)
    PROVE  InverseRoot(InverseRoot(w, k), k) = w
<1> DEFINE v == InverseRoot(w, k)
           u == InverseRoot(v, k)
<1>1. IsRoot(v, k) /\ w \odot v = 1 /\ w \in Fr
  BY RootInverse DEF IsRoot
<1> HIDE DEF v
<1>2. IsRoot(u, k) /\ v \odot u = 1 /\ v \in Fr
  BY <1>1, RootInverse DEF IsRoot
<1>3. u \in Fr
  BY <1>2 DEF IsRoot
<1> HIDE DEF u
<1>4. w \odot (v \odot u) = (w \odot v) \odot u
  BY <1>1, <1>2, <1>3, FrAssociates
<1>5. u = w
  BY <1>1, <1>2, <1>3, <1>4, FrUnits
<1> QED BY <1>5 DEF u, v

(* 2 ** k can be divided by, and 1 and - 1 are two.                        *)
Divides(k) == TwoTo(k) \in Fr /\ MinusOne # 1

(* Then 2 ** k has an inverse in the field, and so has every smaller power *)
(* of two.                                                                 *)
LEMMA DividesFacts ==
    ASSUME NEW k \in Nat, Divides(k)
    PROVE  /\ TwoTo(k) \in Fr /\ TwoTo(k) # 0 /\ InvModFr(TwoTo(k)) \in Fr
           /\ InvModFr(TwoTo(k)) \odot TwoTo(k) = 1 /\ TwoTo(k) \odot InvModFr(TwoTo(k)) = 1
           /\ \A m \in 0 .. k : Divides(m)
<1>1. TwoTo(k) \in Fr /\ TwoTo(k) # 0 /\ MinusOne # 1
  BY TwoToType DEF Divides
<1>2. ASSUME NEW m \in 0 .. k
      PROVE  TwoTo(m) \in Fr
  <2>1. m \in Nat /\ (m = k \/ m < k) /\ TwoTo(m) \in Nat /\ TwoTo(k) \in Nat
    BY TwoToType
  <2>2. TwoTo(m) <= TwoTo(k)
    BY <2>1, TwoToGrows
  <2> QED BY <1>1, <2>1, <2>2, ModulusFacts DEF Fr
<1> QED BY <1>1, <1>2, FrInverse DEF Divides

Coefficients(b, w, k) ==
    [j \in 0 .. TwoTo(k) - 1 |-> TransformAt(b, InverseRoot(w, k), k, j) \odot InvModFr(TwoTo(k))]

(* The coefficients of the values of a polynomial are its own.             *)
THEOREM TransformUndone ==
    ASSUME NEW k \in Nat, NEW w, IsRoot(w, k), Divides(k), NEW a, IsSlice(a, k)
    PROVE  Coefficients(Transform(a, w, k), w, k) = a
<1> DEFINE n == TwoTo(k)
           b == Transform(a, w, k)
           v == InverseRoot(w, k)
<1>1. \A m \in 0 .. n - 1 : TransformAt(b, v, k, m) = n \odot a[m] /\ a[m] \in Fr
  BY TransformInverted DEF Divides, IsSlice
<1>2. n \in Fr /\ InvModFr(n) \in Fr /\ n \odot InvModFr(n) = 1
  BY DividesFacts
<1> HIDE DEF b, v
<1>3. ASSUME NEW m \in 0 .. n - 1
      PROVE  TransformAt(b, v, k, m) \odot InvModFr(n) = a[m]
  <2>1. TransformAt(b, v, k, m) = a[m] \odot n /\ a[m] \in Fr
    BY <1>1, <1>2, FrCommutes
  <2>2. (a[m] \odot n) \odot InvModFr(n) = a[m] \odot (n \odot InvModFr(n))
    BY <1>2, <2>1, FrAssociates
  <2> QED BY <1>2, <2>1, <2>2, FrUnits
<1>4. Coefficients(b, w, k) = [m \in 0 .. n - 1 |-> TransformAt(b, v, k, m) \odot InvModFr(n)]
  BY DEF Coefficients, v
<1>5. a = [m \in 0 .. n - 1 |-> a[m]]
  BY DEF IsSlice
<1>6. Coefficients(b, w, k) = a
  <2> HIDE DEF n
  <2> QED BY <1>3, <1>4, <1>5
<1> QED BY <1>6 DEF b

(* Any values are those of the polynomial that has their coefficients.     *)
LEMMA TransformDone ==
    ASSUME NEW k \in Nat, NEW w, IsRoot(w, k), Divides(k), NEW b, IsSlice(b, k)
    PROVE  /\ IsSlice(Coefficients(b, w, k), k)
           /\ Transform(Coefficients(b, w, k), w, k) = b
<1> DEFINE n == TwoTo(k)
           v == InverseRoot(w, k)
           t == Transform(b, v, k)
           c == Coefficients(b, w, k)
           d == InvModFr(n)
<1>1. n \in Fr /\ d \in Fr /\ d \odot n = 1
  BY DividesFacts
<1>2. IsRoot(v, k) /\ v \in Fr /\ w \in Fr /\ InverseRoot(v, k) = w /\ n \in Nat
  BY RootInverse, RootInverseTwice, TwoToType DEF IsRoot
<1> HIDE DEF v
<1>3. IsSlice(t, k)
  BY <1>2, TransformType
<1>4. \A j \in 0 .. n - 1 : t[j] \in Fr /\ c[j] = d \odot t[j] /\ c[j] \in Fr
  <2>1. ASSUME NEW j \in 0 .. n - 1
        PROVE  t[j] \in Fr /\ c[j] = t[j] \odot d
    <3>1. t[j] \in Fr
      BY <1>3 DEF IsSlice
    <3>2. t[j] = TransformAt(b, v, k, j)
      BY DEF Transform
    <3>3. c[j] = TransformAt(b, v, k, j) \odot d
      BY DEF Coefficients, v
    <3> QED BY <3>1, <3>2, <3>3
  <2> HIDE DEF c, t, n, d
  <2> QED BY <1>1, <2>1, FrCommutes, FrClosed
<1>5. IsSlice(c, k)
  <2>1. c = [j \in 0 .. n - 1 |-> c[j]]
    BY DEF Coefficients
  <2> HIDE DEF c
  <2> QED BY <1>4, <2>1 DEF IsSlice
<1>6. ASSUME NEW i \in 0 .. n - 1
      PROVE  TransformAt(c, w, k, i) = b[i]
  <2>1. i \in Nat /\ b[i] \in Fr
    BY <1>2 DEF IsSlice
  <2>2. TransformAt(t, w, k, i) = n \odot b[i]
    BY <1>2, TransformInverted DEF Divides
  <2>3. TransformAt(c, w, k, i) = d \odot TransformAt(t, w, k, i)
    <3> HIDE DEF c, t, d
    <3> QED BY <1>1, <1>2, <1>3, <1>4, <2>1, TransformTimes
  <2>4. d \odot (n \odot b[i]) = (d \odot n) \odot b[i]
    BY <1>1, <2>1, FrAssociates
  <2> QED BY <1>1, <2>1, <2>2, <2>3, <2>4, FrUnits
<1>7. Transform(c, w, k) = [i \in 0 .. n - 1 |-> TransformAt(c, w, k, i)]
  BY DEF Transform
<1>8. b = [i \in 0 .. n - 1 |-> b[i]]
  BY DEF IsSlice
<1>9. Transform(c, w, k) = b
  <2> HIDE DEF c, n
  <2> QED BY <1>6, <1>7, <1>8
<1> QED BY <1>5, <1>9

-----------------------------------------------------------------------------
(* dASFFTExtension computes the values between those it is given.          *)

Two == 1 \oplus 1

(* Half sums and half differences give back twice the values.              *)
LEMMA TwoFacts ==
    /\ Two \in Fr
    /\ \A x, y \in Fr : /\ (x \oplus y) \oplus (x \ominus y) = Two \odot x
                        /\ (x \oplus y) \ominus (x \ominus y) = Two \odot y
<1>1. Two \in Fr /\ \A x \in Fr : x \oplus x = Two \odot x
  <2>1. Two \in Fr
    BY FrClosed, ModulusFacts DEF Two
  <2>2. ASSUME NEW x \in Fr PROVE x \oplus x = Two \odot x
    <3>1. (1 \oplus 1) \odot x = (1 \odot x) \oplus (1 \odot x)
      BY FrDistributes, ModulusFacts
    <3> QED BY <3>1, FrUnits DEF Two
  <2> QED BY <2>1, <2>2
<1>2. ASSUME NEW x \in Fr, NEW y \in Fr
      PROVE  /\ (x \oplus y) \oplus (x \ominus y) = Two \odot x
             /\ (x \oplus y) \ominus (x \ominus y) = Two \odot y
  <2> DEFINE d == x \ominus y
  <2>1. d \in Fr /\ d \oplus y = x
    BY FrClosed, FrDifference
  <2> HIDE DEF d
  <2>2. (x \oplus y) \oplus d = x \oplus (y \oplus d) /\ y \oplus d = x
    BY <2>1, FrAssociates, FrCommutes
  <2>3. (y \oplus y) \oplus d = y \oplus (y \oplus d) /\ y \oplus x = x \oplus y
    BY <2>1, FrAssociates, FrCommutes
  <2>4. (x \oplus y) \ominus d = y \oplus y
    BY <2>1, <2>2, <2>3, FrDifferenceIs, FrClosed
  <2> QED BY <1>1, <2>2, <2>4 DEF d
<1> QED BY <1>1, <1>2

(* The next power of two, in the field.                                    *)
LEMMA TwoTimes ==
    ASSUME NEW p \in Nat, Divides(p + 1)
    PROVE  TwoTo(p) \in Fr /\ TwoTo(p + 1) = TwoTo(p) \odot Two
<1>1. TwoTo(p) \in Fr /\ TwoTo(p + 1) \in Fr /\ TwoTo(p + 1) = 2 * TwoTo(p) /\ TwoTo(p) \in Nat
  <2>1. p + 1 \in Nat /\ p \in 0 .. p + 1
    OBVIOUS
  <2> QED BY <2>1, DividesFacts, TwoToNext DEF Divides
<1>2. TwoTo(p) \oplus TwoTo(p) = TwoTo(p + 1)
  <2>1. TwoTo(p) + TwoTo(p) = TwoTo(p + 1) /\ TwoTo(p + 1) < Modulus /\ TwoTo(p + 1) \in Nat
    BY <1>1, ModulusFacts DEF Fr
  <2> QED BY <2>1, ModulusFacts DEF AddModFr
<1>3. TwoTo(p) \odot Two = (TwoTo(p) \odot 1) \oplus (TwoTo(p) \odot 1)
  BY <1>1, FrDistributes, ModulusFacts DEF Two
<1> QED BY <1>1, <1>2, <1>3, FrUnits

(* The coefficients of the polynomial with the argument multiplied by y.   *)
Twist(c, y, k) == [j \in 0 .. TwoTo(k) - 1 |-> c[j] \odot ExpModFr(y, j)]

(* Twisted coefficients are a slice.                                       *)
LEMMA TwistType ==
    ASSUME NEW k \in Nat, NEW c, IsSlice(c, k), NEW y \in Fr
    PROVE  IsSlice(Twist(c, y, k), k)
<1>1. TwoTo(k) \in Nat
  BY TwoToType
<1>2. ASSUME NEW j \in 0 .. TwoTo(k) - 1
      PROVE  c[j] \odot ExpModFr(y, j) \in Fr
  <2>1. c[j] \in Fr /\ j \in Nat
    BY <1>1 DEF IsSlice
  <2> QED BY <2>1, ExpType, FrClosed
<1> QED BY <1>2 DEF Twist, IsSlice

(* Sums and differences of the halves are twice the transforms of the even *)
(* and of the odd coefficients.                                            *)
LEMMA HalvesAdded ==
    ASSUME NEW p \in Nat, NEW z, IsRoot(z, p + 1), NEW c, IsSlice(c, p + 1), NEW even, NEW odd,
           Halves(c, even, odd, p), NEW i \in 0 .. TwoTo(p) - 1, NEW ab,
           ab = Transform(c, z, p + 1)
    PROVE  /\ ab[i] \oplus ab[TwoTo(p) + i] = Two \odot TransformAt(even, z \odot z, p, i)
           /\ ab[i] \ominus ab[TwoTo(p) + i]
                  = Two \odot (TransformAt(odd, z \odot z, p, i) \odot ExpModFr(z, i))
<1> DEFINE h == TwoTo(p)
           x == TransformAt(even, z \odot z, p, i)
           y == TransformAt(odd, z \odot z, p, i) \odot ExpModFr(z, i)
<1>1. h \in Nat /\ TwoTo(p + 1) = 2 * h /\ i \in Nat
  <2>1. h \in Nat /\ TwoTo(p + 1) = 2 * h
    BY TwoToNext
  <2> QED BY <2>1
<1>2. /\ x \in Fr /\ y \in Fr
      /\ TransformAt(c, z, p + 1, i) = x \oplus y /\ TransformAt(c, z, p + 1, h + i) = x \ominus y
  BY <1>1, Butterfly
<1>3. ab[i] = TransformAt(c, z, p + 1, i) /\ ab[h + i] = TransformAt(c, z, p + 1, h + i)
  <2>1. i \in 0 .. 2 * h - 1 /\ h + i \in 0 .. 2 * h - 1
    BY <1>1
  <2> QED BY <1>1, <2>1 DEF Transform
<1> HIDE DEF x, y
<1>4. ab[i] \oplus ab[h + i] = Two \odot x /\ ab[i] \ominus ab[h + i] = Two \odot y
  BY <1>2, <1>3, TwoFacts
<1> QED BY <1>4 DEF x, y

(* The halves of the transform between the powers of y.                    *)
LEMMA TwistSplits ==
    ASSUME NEW p \in Nat, NEW y, IsRoot(y, p + 2), NEW c, IsSlice(c, p + 1), NEW even, NEW odd,
           Halves(c, even, odd, p), NEW i \in Nat, NEW z, z = y \odot y, NEW l, NEW r,
           l = TransformAt(Twist(even, z, p), z \odot z, p, i),
           r = TransformAt(Twist(odd, z, p), z \odot z, p, i) \odot (y \odot ExpModFr(z, i))
    PROVE  /\ l \in Fr /\ r \in Fr
           /\ TransformAt(Twist(c, y, p + 1), z, p + 1, i) = l \oplus r
           /\ TransformAt(Twist(c, y, p + 1), z, p + 1, TwoTo(p) + i) = l \ominus r
<1> DEFINE te == Twist(even, z, p)
           tr == Twist(odd, z, p)
           to == [j \in 0 .. TwoTo(p) - 1 |-> y \odot tr[j]]
           t == Twist(c, y, p + 1)
           n == TwoTo(p)
<1>1. /\ p + 1 \in Nat /\ n \in Nat /\ TwoTo(p + 1) = 2 * n /\ y \in Fr /\ z \in Fr
      /\ IsRoot(z, p + 1) /\ z = ExpModFr(y, 2)
  <2>1. (p + 1) + 1 = p + 2 /\ p + 1 \in Nat
    OBVIOUS
  <2>2. IsRoot(y, (p + 1) + 1)
    BY <2>1
  <2> QED BY <2>1, <2>2, RootSquare, TwoToNext DEF IsRoot
<1>2. IsSlice(even, p) /\ IsSlice(odd, p)
  BY DEF Halves
<1>3. IsSlice(te, p) /\ IsSlice(tr, p) /\ IsSlice(t, p + 1)
  BY <1>1, <1>2, TwistType
<1>4. \A j \in 0 .. n - 1 : tr[j] \in Fr /\ to[j] = y \odot tr[j] /\ to[j] \in Fr
  <2>1. \A j \in 0 .. n - 1 : tr[j] \in Fr /\ to[j] = y \odot tr[j]
    BY <1>3 DEF IsSlice
  <2> HIDE DEF tr, to
  <2> QED BY <1>1, <2>1, FrClosed
<1>5. IsSlice(to, p)
  <2>1. to = [j \in 0 .. n - 1 |-> to[j]]
    OBVIOUS
  <2> HIDE DEF to
  <2> QED BY <1>4, <2>1 DEF IsSlice
<1>6. ASSUME NEW j \in 0 .. n - 1
      PROVE  t[2 * j] = te[j] /\ t[2 * j + 1] = to[j]
  <2>1. /\ j \in Nat /\ 2 * j \in 0 .. 2 * n - 1 /\ 2 * j + 1 \in 0 .. 2 * n - 1 /\ 2 * j \in Nat
        /\ c[2 * j] = even[j] /\ c[2 * j + 1] = odd[j] /\ odd[j] \in Fr
    <3>1. j \in Nat /\ 2 * j \in 0 .. 2 * n - 1 /\ 2 * j + 1 \in 0 .. 2 * n - 1 /\ 2 * j \in Nat
      <4> HIDE DEF n
      <4> QED BY <1>1
    <3> QED BY <1>2, <3>1 DEF Halves, IsSlice
  <2>2. /\ t[2 * j] = c[2 * j] \odot ExpModFr(y, 2 * j)
        /\ t[2 * j + 1] = c[2 * j + 1] \odot ExpModFr(y, 2 * j + 1)
        /\ te[j] = even[j] \odot ExpModFr(z, j) /\ tr[j] = odd[j] \odot ExpModFr(z, j)
        /\ to[j] = y \odot tr[j]
    BY <1>1, <2>1 DEF Twist
  <2>3. /\ ExpModFr(y, 2 * j) = ExpModFr(z, j) /\ ExpModFr(z, j) \in Fr
        /\ ExpModFr(y, 2 * j + 1) = ExpModFr(y, 2 * j) \odot y
    <3>1. 2 \in Nat
      OBVIOUS
    <3>2. ExpModFr(y, 2 * j) = ExpModFr(ExpModFr(y, 2), j)
      BY <1>1, <2>1, <3>1, ExpTimes
    <3>3. ExpModFr(y, 2 * j + 1) = ExpModFr(y, 2 * j) \odot y /\ ExpModFr(z, j) \in Fr
      BY <1>1, <2>1, ExpNext, ExpType
    <3> QED BY <1>1, <3>2, <3>3
  <2> HIDE DEF t, te, tr, to
  <2>4. odd[j] \odot (ExpModFr(z, j) \odot y) = (odd[j] \odot ExpModFr(z, j)) \odot y
    BY <1>1, <2>1, <2>3, FrAssociates
  <2>5. (odd[j] \odot ExpModFr(z, j)) \odot y = y \odot (odd[j] \odot ExpModFr(z, j))
    BY <1>1, <2>1, <2>3, FrCommutes, FrClosed
  <2> QED BY <2>1, <2>2, <2>3, <2>4, <2>5
<1>7. Halves(t, te, to, p)
  <2> HIDE DEF t, te, to
  <2> QED BY <1>3, <1>5, <1>6 DEF Halves
<1> DEFINE zz == z \odot z
           e == ExpModFr(z, i)
           s == TransformAt(tr, zz, p, i)
<1>8. zz \in Fr /\ e \in Fr
  BY <1>1, FrClosed, ExpType
<1>9. TransformAt(to, zz, p, i) = y \odot s /\ s \in Fr /\ l \in Fr
  <2>1. l = TransformAt(te, zz, p, i) /\ i \in Nat /\ p \in Nat
    OBVIOUS
  <2> HIDE DEF te, tr, to, zz, s, e
  <2>2. TransformAt(to, zz, p, i) = y \odot TransformAt(tr, zz, p, i)
    <3>1. /\ IsSlice(tr, p) /\ zz \in Fr /\ y \in Fr
          /\ \A j \in 0 .. TwoTo(p) - 1 : to[j] = y \odot tr[j]
      BY <1>1, <1>3, <1>4, <1>8
    <3> QED BY <3>1, TransformTimes
  <2>3. TransformAt(tr, zz, p, i) \in Fr /\ TransformAt(te, zz, p, i) \in Fr
    BY <1>3, <1>8, <2>1, TransformType
  <2> QED BY <2>1, <2>2, <2>3 DEF s
<1>10. TransformAt(to, zz, p, i) \odot e = r
  <2> HIDE DEF to, zz, s, e
  <2>1. (y \odot s) \odot e = (s \odot y) \odot e
    BY <1>1, <1>9, FrCommutes
  <2>2. (s \odot y) \odot e = s \odot (y \odot e)
    BY <1>1, <1>8, <1>9, FrAssociates
  <2> QED BY <1>9, <2>1, <2>2 DEF s, e, zz
<1> HIDE DEF t, te, to, tr
<1>11. /\ l = TransformAt(te, z \odot z, p, i) /\ r = TransformAt(to, z \odot z, p, i) \odot ExpModFr(z, i)
  BY <1>10 DEF te
<1>12. /\ l \in Fr /\ r \in Fr
       /\ TransformAt(t, z, p + 1, i) = l \oplus r
       /\ TransformAt(t, z, p + 1, TwoTo(p) + i) = l \ominus r
  <2> HIDE DEF zz, e, s
  <2> QED BY <1>1, <1>3, <1>7, <1>11, Butterfly
<1> QED BY <1>12 DEF t

(* One level of the recursion of dASFFTExtension, from the one below it.   *)
ExtensionLevel(f, fs, n, k) ==
    [ab \in [0 .. TwoTo(k) - 1 -> Fr] |->
        LET half == TwoTo(k) \div 2
            domainStride == n \div TwoTo(k)
            root(i) == fs.ExpandedRootsOfUnity[(1 + 2 * i) * domainStride]
            inverseRoot(i) == fs.ReverseRootsOfUnity[2 * i * domainStride]
            sum == Slice([i \in 0 .. half - 1 |-> AddModFr(ab[i], ab[half + i])])
            difference == Slice([i \in 0 .. half - 1 |-> SubModFr(ab[i], ab[half + i])])
            L == IF half = 1 THEN sum ELSE f[k - 1][sum]
            R == IF half = 1 THEN difference
                 ELSE f[k - 1][Slice([i \in 0 .. half - 1 |->
                          MulModFr(difference[i], inverseRoot(i))])]
            yTimesRoot(i) == MulModFr(R[i], root(i))
        IN  Slice([i \in 0 .. 2 * half - 1 |->
                IF i < half THEN AddModFr(L[i], yTimesRoot(i))
                ELSE SubModFr(L[i - half], yTimesRoot(i - half))])]

(* dASFFTExtension is the top level of its levels, as FFT.tla defines      *)
(* it, written with ExtensionLevel.                                        *)
LEMMA ExtensionIs ==
    ASSUME NEW fs, NEW vals
    PROVE  dASFFTExtension(fs, vals) =
               (CHOOSE f : f = [k \in 1 .. bitIndex(Length(vals)) |->
                   ExtensionLevel(f, fs, Length(vals), k)])[bitIndex(Length(vals))][vals]
BY DEF dASFFTExtension, ExtensionLevel

(* 2 ** k times the values at the odd powers of y of the polynomial that   *)
(* has the values ab at the even ones.                                     *)
OddValues(ab, y, k) ==
    [i \in 0 .. TwoTo(k) - 1 |->
        TwoTo(k) \odot TransformAt(Twist(Coefficients(ab, y \odot y, k), y, k), y \odot y, k, i)]

(* The odd values of a polynomial are the even ones of the twisted one,    *)
(* before its length is divided out.                                       *)
LEMMA OddValuesOf ==
    ASSUME NEW k \in Nat, NEW y, IsRoot(y, k + 1), Divides(k), NEW c, IsSlice(c, k)
    PROVE  OddValues(Transform(c, y \odot y, k), y, k) =
               [i \in 0 .. TwoTo(k) - 1 |->
                   TwoTo(k) \odot TransformAt(Twist(c, y, k), y \odot y, k, i)]
<1>1. Coefficients(Transform(c, y \odot y, k), y \odot y, k) = c
  BY RootSquare, TransformUndone
<1> QED BY <1>1 DEF OddValues

(* The level below it computed for one half, whatever the length.          *)
LEMMA HalfExtended ==
    ASSUME NEW p \in Nat, NEW z, IsRoot(z, p + 1), Divides(p), NEW c, IsSlice(c, p), NEW g,
           p > 0 => g[Transform(c, z \odot z, p)] = OddValues(Transform(c, z \odot z, p), z, p),
           NEW i \in 0 .. TwoTo(p) - 1
    PROVE  (IF TwoTo(p) = 1 THEN Transform(c, z \odot z, p)
            ELSE g[Transform(c, z \odot z, p)])[i]
               = TwoTo(p) \odot TransformAt(Twist(c, z, p), z \odot z, p, i)
<1> DEFINE zz == z \odot z
           t == Transform(c, zz, p)
<1>1. z \in Fr /\ zz \in Fr /\ TwoTo(p) \in Nat /\ i \in Nat
  BY FrClosed, TwoToType DEF IsRoot
<1>2. CASE p > 0
  <2>1. TwoTo(p) # 1
    BY <1>2, TwoToType
  <2>2. OddValues(t, z, p) = [j \in 0 .. TwoTo(p) - 1 |-> TwoTo(p) \odot TransformAt(Twist(c, z, p), zz, p, j)]
    BY OddValuesOf
  <2>3. g[t] = OddValues(t, z, p)
    BY <1>2
  <2> HIDE DEF t, zz
  <2>4. g[t][i] = TwoTo(p) \odot TransformAt(Twist(c, z, p), zz, p, i)
    BY <2>2, <2>3
  <2> QED BY <2>1, <2>4 DEF t, zz
<1>3. CASE p = 0
  <2>1. TwoTo(p) = 1 /\ i = 0
    BY <1>3, TwoToZero
  <2>2. t[0] = TransformAt(c, zz, p, 0)
    BY <2>1 DEF Transform
  <2>3. \A j \in 0 .. TwoTo(p) - 1 : Twist(c, z, p)[j] = c[j]
    <3>1. c[0] \in Fr /\ Twist(c, z, p)[0] = c[0] \odot ExpModFr(z, 0)
      BY <2>1 DEF Twist, IsSlice
    <3>2. ExpModFr(z, 0) = 1
      BY <1>1, ExpZero
    <3> QED BY <2>1, <3>1, <3>2, FrUnits
  <2>4. TransformAt(Twist(c, z, p), zz, p, 0) = TransformAt(c, zz, p, 0)
    <3> HIDE DEF zz
    <3> QED BY <1>1, <2>3, TransformEqual
  <2>5. TransformAt(c, zz, p, 0) \in Fr
    <3> HIDE DEF zz
    <3> QED BY <1>1, TransformType
  <2> HIDE DEF t, zz
  <2>6. t[0] = 1 \odot TransformAt(Twist(c, z, p), zz, p, 0)
    BY <2>2, <2>4, <2>5, FrUnits
  <2> QED BY <2>1, <2>6 DEF t, zz
<1> QED BY <1>2, <1>3

(* The transform of coefficients with a common factor.                     *)
LEMMA TransformOfTimes ==
    ASSUME NEW k \in Nat, NEW w \in Fr, NEW a, IsSlice(a, k), NEW x \in Fr, NEW y \in Fr
    PROVE  LET b == [j \in 0 .. TwoTo(k) - 1 |-> x \odot a[j]]
           IN  /\ IsSlice(b, k)
               /\ \A i \in Nat : TransformAt(b, w, k, i) = x \odot TransformAt(a, w, k, i)
               /\ \A i \in Nat : TransformAt(Twist(b, y, k), w, k, i)
                                     = x \odot TransformAt(Twist(a, y, k), w, k, i)
<1> DEFINE b == [j \in 0 .. TwoTo(k) - 1 |-> x \odot a[j]]
           t == Twist(a, y, k)
           u == Twist(b, y, k)
<1>1. TwoTo(k) \in Nat
  BY TwoToType
<1>2. \A j \in 0 .. TwoTo(k) - 1 : a[j] \in Fr /\ b[j] = x \odot a[j] /\ b[j] \in Fr
  <2>1. \A j \in 0 .. TwoTo(k) - 1 : a[j] \in Fr /\ b[j] = x \odot a[j]
    BY DEF IsSlice
  <2> HIDE DEF b
  <2> QED BY <2>1, FrClosed
<1>3. IsSlice(b, k)
  <2>1. b = [j \in 0 .. TwoTo(k) - 1 |-> b[j]]
    OBVIOUS
  <2> HIDE DEF b
  <2> QED BY <1>2, <2>1 DEF IsSlice
<1>4. IsSlice(t, k)
  BY TwistType
<1>5. ASSUME NEW j \in 0 .. TwoTo(k) - 1
      PROVE  u[j] = x \odot t[j]
  <2>1. a[j] \in Fr /\ j \in Nat /\ ExpModFr(y, j) \in Fr
    BY <1>1, <1>2, ExpType
  <2>2. u[j] = b[j] \odot ExpModFr(y, j) /\ t[j] = a[j] \odot ExpModFr(y, j)
    BY DEF Twist
  <2>3. (x \odot a[j]) \odot ExpModFr(y, j) = x \odot (a[j] \odot ExpModFr(y, j))
    BY <2>1, FrAssociates
  <2>4. b[j] = x \odot a[j]
    BY <1>2
  <2> HIDE DEF u, t, b
  <2> QED BY <2>2, <2>3, <2>4
<1> HIDE DEF u, t, b
<1>6. \A i \in Nat : TransformAt(b, w, k, i) = x \odot TransformAt(a, w, k, i)
  BY <1>2, TransformTimes
<1>7. \A i \in Nat : TransformAt(u, w, k, i) = x \odot TransformAt(t, w, k, i)
  BY <1>4, <1>5, TransformTimes
<1> QED BY <1>3, <1>6, <1>7 DEF u, t, b

(* What the calls on 2 ** m values return, for all values.                 *)
ExtensionValues(w, k, m) ==
    [ab \in [0 .. TwoTo(m) - 1 -> Fr] |-> OddValues(ab, ExpModFr(w, TwoTo(k - m)), m)]

(* The settings have the powers of a root of order 2 ** k, and those of    *)
(* its inverse.                                                            *)
HasRoots(fs, w, k) ==
    /\ Powers(fs.ExpandedRootsOfUnity, w, k)
    /\ Powers(fs.ReverseRootsOfUnity, InverseRoot(w, k), k)

(* The root of a level, and where the roots of the level are.              *)
LEMMA ExtensionRoots ==
    ASSUME NEW k \in Nat, NEW m \in 1 .. k, NEW w, NEW fs, HasRoots(fs, w, k + 1), NEW y,
           y = ExpModFr(w, TwoTo(k - m))
    PROVE  /\ IsRoot(y, m + 1) /\ y \odot y = ExpModFr(w, TwoTo(k - (m - 1)))
           /\ \A i \in 0 .. TwoTo(m - 1) - 1 :
                  /\ fs.ExpandedRootsOfUnity[(1 + 2 * i) * TwoTo(k - m)]
                         = y \odot ExpModFr(y \odot y, i)
                  /\ fs.ReverseRootsOfUnity[2 * i * TwoTo(k - m)] \in Fr
                  /\ ExpModFr(y \odot y, i) \odot fs.ReverseRootsOfUnity[2 * i * TwoTo(k - m)] = 1
<1> DEFINE s == TwoTo(k - m)
           v == InverseRoot(w, k + 1)
           x == ExpModFr(v, s)
           z == y \odot y
           h == TwoTo(m - 1)
<1>1. /\ k + 1 \in Nat /\ k + 1 \in 0 .. k + 1 /\ m + 1 \in 0 .. k + 1 /\ m + 1 > 0
      /\ (k + 1) - (m + 1) = k - m /\ (k + 1) - ((m + 1) - 1) = k - (m - 1)
      /\ k - m \in Nat /\ m - 1 \in Nat /\ (m - 1) + 1 = m /\ m \in Nat
  OBVIOUS
<1>2. IsRoot(w, k + 1) /\ w \in Fr /\ v \in Fr /\ s \in Nat
      /\ \A i \in Nat : ExpModFr(w, i) \odot ExpModFr(v, i) = 1
  BY <1>1, RootInverse, TwoToType DEF HasRoots, Powers, IsRoot
<1>3. /\ IsRoot(y, m + 1) /\ z = ExpModFr(w, TwoTo(k - (m - 1)))
      /\ \A r \in 0 .. TwoTo(m + 1) : fs.ExpandedRootsOfUnity[r * s] = ExpModFr(y, r)
  <2>1. Powers(fs.ExpandedRootsOfUnity, w, k + 1)
    BY DEF HasRoots
  <2> QED BY <1>1, <2>1, LevelRoot
<1>4. \A r \in 0 .. TwoTo(m + 1) : fs.ReverseRootsOfUnity[r * s] = ExpModFr(x, r)
  <2>1. Powers(fs.ReverseRootsOfUnity, v, k + 1)
    BY DEF HasRoots
  <2> HIDE DEF v
  <2>2. \A r \in 0 .. TwoTo(m + 1) :
            fs.ReverseRootsOfUnity[r * TwoTo((k + 1) - (m + 1))]
                = ExpModFr(ExpModFr(v, TwoTo((k + 1) - (m + 1))), r)
    BY <1>1, <2>1, LevelRoot
  <2> QED BY <1>1, <2>2
<1>5. y \in Fr /\ x \in Fr /\ z = ExpModFr(y, 2)
  <2>1. y \in Fr /\ x \in Fr
    BY <1>2, ExpType
  <2>2. ExpModFr(y, 1 + 1) = y \odot y /\ 1 + 1 = 2
    BY <2>1, ExpUnit, ExpNext
  <2> QED BY <2>1, <2>2
<1>6. h \in Nat /\ TwoTo(m + 1) = 4 * h
  <2>1. TwoTo(m + 1) = 2 * TwoTo(m) /\ TwoTo((m - 1) + 1) = 2 * h /\ h \in Nat
    BY <1>1, TwoToNext
  <2> HIDE DEF h
  <2> QED BY <1>1, <2>1
<1>7. ASSUME NEW i \in 0 .. h - 1
      PROVE  /\ fs.ExpandedRootsOfUnity[(1 + 2 * i) * s] = y \odot ExpModFr(z, i)
             /\ fs.ReverseRootsOfUnity[2 * i * s] \in Fr
             /\ ExpModFr(z, i) \odot fs.ReverseRootsOfUnity[2 * i * s] = 1
  <2>1. /\ i \in Nat /\ 2 * i \in Nat /\ 1 + 2 * i \in 0 .. TwoTo(m + 1)
        /\ 2 * i \in 0 .. TwoTo(m + 1) /\ 1 + 2 * i = 2 * i + 1 /\ 2 \in Nat
    <3> HIDE DEF h
    <3> QED BY <1>6
  <2>2. /\ fs.ExpandedRootsOfUnity[(1 + 2 * i) * s] = ExpModFr(y, 2 * i + 1)
        /\ fs.ReverseRootsOfUnity[2 * i * s] = ExpModFr(x, 2 * i)
    <3>1. fs.ExpandedRootsOfUnity[(1 + 2 * i) * s] = ExpModFr(y, 1 + 2 * i)
      <4> HIDE DEF s
      <4> QED BY <1>3, <2>1
    <3>2. fs.ReverseRootsOfUnity[(2 * i) * s] = ExpModFr(x, 2 * i)
      <4> HIDE DEF s, x
      <4> QED BY <1>4, <2>1
    <3> QED BY <2>1, <3>1, <3>2
  <2>3. ExpModFr(y, 2 * i + 1) = ExpModFr(y, 2 * i) \odot y /\ ExpModFr(y, 2 * i) \in Fr
    BY <1>5, <2>1, ExpNext
  <2>4. ExpModFr(y, 2 * i) = ExpModFr(z, i)
    <3>1. ExpModFr(y, 2 * i) = ExpModFr(ExpModFr(y, 2), i)
      BY <1>5, <2>1, ExpTimes
    <3> QED BY <1>5, <3>1
  <2>5. ExpModFr(y, 2 * i) \odot ExpModFr(x, 2 * i) = 1 /\ ExpModFr(x, 2 * i) \in Fr
    <3> DEFINE e == s * (2 * i)
    <3>1. e \in Nat
      BY <1>2, <2>1
    <3>2. ExpModFr(w, e) = ExpModFr(y, 2 * i) /\ ExpModFr(v, e) = ExpModFr(x, 2 * i)
      <4> HIDE DEF v, s
      <4> QED BY <1>2, <2>1, ExpTimes DEF s
    <3> HIDE DEF e, x, v
    <3> QED BY <1>2, <1>5, <2>1, <3>1, <3>2, ExpType
  <2> HIDE DEF x, z
  <2> QED BY <1>5, <2>2, <2>3, <2>4, <2>5, FrCommutes
<1> QED BY <1>3, <1>7

(* A level of dASFFTExtension computes what it should when the one below   *)
(* it does.                                                                *)
LEMMA LevelExtends ==
    ASSUME NEW k \in Nat, NEW m \in 1 .. k, NEW w, NEW fs, HasRoots(fs, w, k + 1), Divides(k),
           NEW f, m > 1 => f[m - 1] = ExtensionValues(w, k, m - 1), NEW ab, IsSlice(ab, m)
    PROVE  ExtensionLevel(f, fs, TwoTo(k), m)[ab] = ExtensionValues(w, k, m)[ab]
<1> DEFINE p == m - 1
           h == TwoTo(p)
           s == TwoTo(k - m)
           y == ExpModFr(w, s)
           z == y \odot y
           zz == z \odot z
           c == Coefficients(ab, z, m)
           even == [j \in 0 .. h - 1 |-> c[2 * j]]
           odd == [j \in 0 .. h - 1 |-> c[2 * j + 1]]
           even2 == [j \in 0 .. h - 1 |-> Two \odot even[j]]
           odd2 == [j \in 0 .. h - 1 |-> Two \odot odd[j]]
           root(i) == fs.ExpandedRootsOfUnity[(1 + 2 * i) * s]
           inverseRoot(i) == fs.ReverseRootsOfUnity[2 * i * s]
           sum == [i \in 0 .. h - 1 |-> AddModFr(ab[i], ab[h + i])]
           difference == [i \in 0 .. h - 1 |-> SubModFr(ab[i], ab[h + i])]
           turned == [i \in 0 .. h - 1 |-> MulModFr(difference[i], inverseRoot(i))]
           L == IF h = 1 THEN sum ELSE f[m - 1][sum]
           R == IF h = 1 THEN difference ELSE f[m - 1][turned]
           yTimesRoot(i) == MulModFr(R[i], root(i))
           value == [i \in 0 .. 2 * h - 1 |->
                        IF i < h THEN AddModFr(L[i], yTimesRoot(i))
                        ELSE SubModFr(L[i - h], yTimesRoot(i - h))]
<1>1. /\ p \in Nat /\ m = p + 1 /\ m \in Nat /\ h \in Nat /\ TwoTo(m) = 2 * h /\ (2 * h) \div 2 = h
      /\ TwoTo(k) \div TwoTo(m) = s /\ p + 2 = m + 1 /\ m \in 0 .. k /\ p \in 0 .. k
  <2>1. p \in Nat /\ m = p + 1 /\ m \in Nat /\ p + 2 = m + 1 /\ m \in 0 .. k /\ p \in 0 .. k
    OBVIOUS
  <2>2. h \in Nat /\ TwoTo(p + 1) = 2 * h
    BY <2>1, TwoToNext
  <2>3. (2 * h) \div 2 = h
    BY <2>2
  <2>4. TwoTo(k) \div TwoTo(m) = s
    BY <2>1, TwoToDivides
  <2> HIDE DEF p, h, s
  <2> QED BY <2>1, <2>2, <2>3, <2>4
<1>2. /\ IsRoot(y, p + 2) /\ IsRoot(z, p + 1) /\ IsRoot(zz, p) /\ z = ExpModFr(w, TwoTo(k - p))
      /\ y \in Fr /\ z \in Fr /\ zz \in Fr
      /\ \A i \in 0 .. h - 1 : /\ root(i) = y \odot ExpModFr(z, i)
                               /\ inverseRoot(i) \in Fr
                               /\ ExpModFr(z, i) \odot inverseRoot(i) = 1
  <2>1. /\ IsRoot(y, p + 2) /\ z = ExpModFr(w, TwoTo(k - p))
        /\ \A i \in 0 .. h - 1 : /\ root(i) = y \odot ExpModFr(z, i)
                                 /\ inverseRoot(i) \in Fr
                                 /\ ExpModFr(z, i) \odot inverseRoot(i) = 1
    BY <1>1, ExtensionRoots
  <2> HIDE DEF y
  <2>2. IsRoot(z, p + 1)
    <3>1. (p + 1) + 1 = p + 2 /\ p + 1 \in Nat
      BY <1>1
    <3> HIDE DEF p
    <3> QED BY <2>1, <3>1, RootSquare
  <2>3. IsRoot(zz, p)
    <3> HIDE DEF p, z
    <3> QED BY <1>1, <2>2, RootSquare
  <2> QED BY <2>1, <2>2, <2>3 DEF IsRoot
<1>3. Divides(m) /\ Divides(p) /\ Divides(p + 1) /\ TwoTo(m) \in Fr
  BY <1>1, DividesFacts
<1> HIDE DEF p
<1>4. /\ ab = Transform(c, z, p + 1) /\ IsSlice(c, p + 1)
  <2> HIDE DEF z
  <2> QED BY <1>1, <1>2, <1>3, TransformDone
<1> HIDE DEF c
<1>5. Halves(c, even, odd, p)
  <2>1. ASSUME NEW j \in 0 .. h - 1
        PROVE  c[2 * j] \in Fr /\ c[2 * j + 1] \in Fr
    <3>1. 2 * j \in 0 .. 2 * h - 1 /\ 2 * j + 1 \in 0 .. 2 * h - 1
      <4> HIDE DEF h
      <4> QED BY <1>1
    <3> QED BY <1>1, <1>4, <3>1 DEF IsSlice
  <2> QED BY <2>1 DEF Halves, IsSlice
<1>6. IsSlice(even, p) /\ IsSlice(odd, p)
  BY <1>5 DEF Halves
<1> HIDE DEF even, odd
<1>7. /\ IsSlice(even2, p) /\ IsSlice(odd2, p)
      /\ \A i \in Nat : /\ TransformAt(even2, zz, p, i) = Two \odot TransformAt(even, zz, p, i)
                        /\ TransformAt(odd2, zz, p, i) = Two \odot TransformAt(odd, zz, p, i)
                        /\ TransformAt(Twist(even2, z, p), zz, p, i)
                               = Two \odot TransformAt(Twist(even, z, p), zz, p, i)
                        /\ TransformAt(Twist(odd2, z, p), zz, p, i)
                               = Two \odot TransformAt(Twist(odd, z, p), zz, p, i)
  <2> HIDE DEF z, zz
  <2> QED BY <1>1, <1>2, <1>6, TwoFacts, TransformOfTimes
<1> HIDE DEF even2, odd2
<1>8. sum = Transform(even2, zz, p) /\ turned = Transform(odd2, zz, p) /\ (h = 1 => difference = turned)
  <2>1. ASSUME NEW i \in 0 .. h - 1
        PROVE  /\ i \in Nat
               /\ sum[i] = TransformAt(even2, zz, p, i) /\ turned[i] = TransformAt(odd2, zz, p, i)
               /\ difference[i] \in Fr
    <3> DEFINE x == TransformAt(odd, zz, p, i)
               e == ExpModFr(z, i)
    <3>1. i \in Nat
      BY <1>1
    <3>2. /\ ab[i] \oplus ab[h + i] = Two \odot TransformAt(even, zz, p, i)
          /\ ab[i] \ominus ab[h + i] = Two \odot (x \odot e)
      <4> HIDE DEF z
      <4> QED BY <1>1, <1>2, <1>4, <1>5, HalvesAdded
    <3>3. x \in Fr /\ e \in Fr /\ Two \in Fr /\ inverseRoot(i) \in Fr /\ e \odot inverseRoot(i) = 1
      <4>1. x \in Fr
        <5> HIDE DEF zz
        <5> QED BY <1>1, <1>2, <1>6, <3>1, TransformType
      <4>2. e \in Fr
        <5> HIDE DEF z
        <5> QED BY <1>2, <3>1, ExpType
      <4> QED BY <1>2, <4>1, <4>2, TwoFacts
    <3>4. sum[i] = ab[i] \oplus ab[h + i] /\ difference[i] = ab[i] \ominus ab[h + i]
          /\ turned[i] = difference[i] \odot inverseRoot(i)
      OBVIOUS
    <3> HIDE DEF sum, difference, turned, inverseRoot, x, e, zz
    <3>5. (Two \odot (x \odot e)) \odot inverseRoot(i) = Two \odot x
      <4>1. (Two \odot (x \odot e)) \odot inverseRoot(i) = Two \odot ((x \odot e) \odot inverseRoot(i))
            /\ (x \odot e) \odot inverseRoot(i) = x \odot (e \odot inverseRoot(i))
        <5> DEFINE v == inverseRoot(i)
        <5>1. Two \in Fr /\ x \in Fr /\ e \in Fr /\ v \in Fr
          BY <3>3
        <5> HIDE DEF v
        <5>2. (x \odot e) \odot v = x \odot (e \odot v)
          BY <5>1, FrAssociates
        <5>3. x \odot e \in Fr
          BY <5>1, FrClosed
        <5>4. (Two \odot (x \odot e)) \odot v = Two \odot ((x \odot e) \odot v)
          BY <5>1, <5>3, FrAssociates
        <5> QED BY <5>2, <5>4 DEF v
      <4> QED BY <3>3, <4>1, FrUnits
    <3>6. Two \odot (x \odot e) \in Fr
      BY <3>3, FrClosed
    <3> QED BY <1>7, <3>1, <3>2, <3>3, <3>4, <3>5, <3>6 DEF x
  <2>2. /\ sum = [i \in 0 .. h - 1 |-> sum[i]] /\ turned = [i \in 0 .. h - 1 |-> turned[i]]
        /\ difference = [i \in 0 .. h - 1 |-> difference[i]]
    OBVIOUS
  <2>3. ASSUME h = 1
        PROVE  difference = turned
    <3>1. inverseRoot(0) = 1
      <4>1. ExpModFr(z, 0) \odot inverseRoot(0) = 1 /\ inverseRoot(0) \in Fr /\ ExpModFr(z, 0) = 1
        <5> HIDE DEF z, inverseRoot
        <5> QED BY <1>2, <2>3, ExpZero
      <4> HIDE DEF inverseRoot, z
      <4> QED BY <4>1, FrUnits
    <3>2. turned[0] = difference[0] \odot inverseRoot(0) /\ difference[0] \in Fr
      <4>1. turned[0] = difference[0] \odot inverseRoot(0)
        BY <2>3
      <4> HIDE DEF difference, turned, inverseRoot, sum
      <4> QED BY <2>1, <2>3, <4>1
    <3>3. turned[0] = difference[0]
      <4> HIDE DEF difference, turned, inverseRoot
      <4> QED BY <3>1, <3>2, FrUnits
    <3> HIDE DEF difference, turned
    <3> QED BY <2>2, <2>3, <3>3
  <2> HIDE DEF sum, turned, difference, zz
  <2>4. /\ sum = Transform(even2, zz, p) /\ turned = Transform(odd2, zz, p)
    <3>1. /\ [i \in 0 .. h - 1 |-> sum[i]] = [i \in 0 .. h - 1 |-> TransformAt(even2, zz, p, i)]
          /\ [i \in 0 .. h - 1 |-> turned[i]] = [i \in 0 .. h - 1 |-> TransformAt(odd2, zz, p, i)]
      <4> HIDE DEF h
      <4> QED BY <2>1
    <3> QED BY <2>2, <3>1 DEF Transform
  <2> QED BY <2>3, <2>4
<1> DEFINE g == f[m - 1]
<1>9. ASSUME p > 0, NEW a, IsSlice(a, p)
      PROVE  g[a] = OddValues(a, z, p)
  <2>1. g = ExtensionValues(w, k, p)
    BY <1>1, <1>9 DEF p
  <2>2. ExtensionValues(w, k, p) = [b \in [0 .. TwoTo(p) - 1 -> Fr] |-> OddValues(b, z, p)]
    <3> HIDE DEF z
    <3> QED BY <1>2 DEF ExtensionValues
  <2> HIDE DEF g, z
  <2> QED BY <1>9, <2>1, <2>2 DEF IsSlice
<1> DEFINE A(i) == TransformAt(Twist(even, z, p), zz, p, i)
           B(i) == TransformAt(Twist(odd, z, p), zz, p, i)
<1>10. ASSUME NEW i \in 0 .. h - 1
       PROVE  L[i] = h \odot (Two \odot A(i)) /\ R[i] = h \odot (Two \odot B(i))
  <2> DEFINE te == Transform(even2, zz, p)
             to == Transform(odd2, zz, p)
  <2>1. i \in Nat
    BY <1>1
  <2>2. IsSlice(te, p) /\ IsSlice(to, p)
    <3> HIDE DEF zz
    <3> QED BY <1>1, <1>2, <1>7, TransformType
  <2>3. /\ (IF h = 1 THEN te ELSE g[te])[i] = h \odot TransformAt(Twist(even2, z, p), zz, p, i)
        /\ (IF h = 1 THEN to ELSE g[to])[i] = h \odot TransformAt(Twist(odd2, z, p), zz, p, i)
    <3>1. p > 0 => g[te] = OddValues(te, z, p) /\ g[to] = OddValues(to, z, p)
      <4> HIDE DEF g, te, to, z
      <4> QED BY <1>9, <2>2
    <3>2. /\ p \in Nat /\ IsRoot(z, p + 1) /\ Divides(p) /\ IsSlice(even2, p) /\ IsSlice(odd2, p)
          /\ i \in 0 .. TwoTo(p) - 1
      BY <1>1, <1>2, <1>3, <1>7
    <3> HIDE DEF g, z
    <3>3. (IF TwoTo(p) = 1 THEN te ELSE g[te])[i] = TwoTo(p) \odot TransformAt(Twist(even2, z, p), zz, p, i)
      BY <3>1, <3>2, HalfExtended
    <3>4. (IF TwoTo(p) = 1 THEN to ELSE g[to])[i] = TwoTo(p) \odot TransformAt(Twist(odd2, z, p), zz, p, i)
      BY <3>1, <3>2, HalfExtended
    <3> QED BY <3>3, <3>4
  <2>4. L = IF h = 1 THEN te ELSE g[te]
    <3> HIDE DEF sum, te
    <3> QED BY <1>8 DEF te
  <2>5. R = IF h = 1 THEN to ELSE g[to]
    <3> HIDE DEF difference, turned, to
    <3> QED BY <1>8 DEF to
  <2>6. /\ TransformAt(Twist(even2, z, p), zz, p, i) = Two \odot A(i)
        /\ TransformAt(Twist(odd2, z, p), zz, p, i) = Two \odot B(i)
    BY <1>7, <2>1
  <2> HIDE DEF te, to, g, L, R, A, B, z, zz, h
  <2> QED BY <2>3, <2>4, <2>5, <2>6
<1> DEFINE T(i) == TransformAt(Twist(c, y, m), z, m, i)
<1>11. ASSUME NEW i \in 0 .. h - 1
       PROVE  /\ L[i] \oplus yTimesRoot(i) = TwoTo(m) \odot T(i)
              /\ L[i] \ominus yTimesRoot(i) = TwoTo(m) \odot T(h + i)
  <2> DEFINE a == A(i)
             b == B(i)
             q == y \odot ExpModFr(z, i)
  <2>1. i \in Nat
    BY <1>1
  <2>2. /\ a \in Fr /\ b \odot q \in Fr
        /\ T(i) = a \oplus (b \odot q) /\ T(h + i) = a \ominus (b \odot q)
    <3> HIDE DEF y, z
    <3> QED BY <1>1, <1>2, <1>4, <1>5, <2>1, TwistSplits DEF z
  <2>3. b \in Fr /\ q \in Fr /\ Two \in Fr /\ h \in Fr /\ TwoTo(m) = h \odot Two
    <3>1. b \in Fr
      <4> HIDE DEF z, zz
      <4> QED BY <1>1, <1>2, <1>6, <2>1, TwistType, TransformType
    <3>2. q \in Fr
      <4> HIDE DEF y, z
      <4> QED BY <1>2, <2>1, ExpType, FrClosed
    <3>3. h \in Fr /\ TwoTo(m) = h \odot Two
      BY <1>1, <1>3, TwoTimes
    <3> QED BY <3>1, <3>2, <3>3, TwoFacts
  <2>4. L[i] = h \odot (Two \odot a) /\ yTimesRoot(i) = (h \odot (Two \odot b)) \odot q
    <3>1. root(i) = q /\ yTimesRoot(i) = R[i] \odot root(i)
      BY <1>2
    <3> HIDE DEF L, R, A, B, root, yTimesRoot, q
    <3> QED BY <1>10, <3>1
  <2> HIDE DEF a, b, q, A, B, T, L, R, yTimesRoot, h, y, z
  <2>5. /\ h \odot (Two \odot a) = TwoTo(m) \odot a
        /\ h \odot (Two \odot b) = TwoTo(m) \odot b
        /\ (TwoTo(m) \odot b) \odot q = TwoTo(m) \odot (b \odot q)
    BY <1>3, <2>2, <2>3, FrAssociates
  <2>6. TwoTo(m) \odot (a \oplus (b \odot q)) = (TwoTo(m) \odot a) \oplus (TwoTo(m) \odot (b \odot q))
    BY <1>3, <2>2, FrDistributes
  <2>7. TwoTo(m) \odot (a \ominus (b \odot q)) = (TwoTo(m) \odot a) \ominus (TwoTo(m) \odot (b \odot q))
    BY <1>3, <2>2, FrDifferences
  <2> QED BY <2>2, <2>4, <2>5, <2>6, <2>7
<1>12. ExtensionLevel(f, fs, TwoTo(k), m)[ab] = value
  <2> DEFINE half == TwoTo(m) \div 2
             stride == TwoTo(k) \div TwoTo(m)
             rootOf(i) == fs.ExpandedRootsOfUnity[(1 + 2 * i) * stride]
             inverseRootOf(i) == fs.ReverseRootsOfUnity[2 * i * stride]
             sums == Slice([i \in 0 .. half - 1 |-> AddModFr(ab[i], ab[half + i])])
             differences == Slice([i \in 0 .. half - 1 |-> SubModFr(ab[i], ab[half + i])])
             products == Slice([i \in 0 .. half - 1 |-> MulModFr(differences[i], inverseRootOf(i))])
             left == IF half = 1 THEN sums ELSE f[m - 1][sums]
             right == IF half = 1 THEN differences ELSE f[m - 1][products]
             times(i) == MulModFr(right[i], rootOf(i))
             result == Slice([i \in 0 .. 2 * half - 1 |->
                           IF i < half THEN AddModFr(left[i], times(i))
                           ELSE SubModFr(left[i - half], times(i - half))])
  <2>1. ab \in [0 .. TwoTo(m) - 1 -> Fr] /\ half = h /\ stride = s
    BY <1>1 DEF IsSlice
  <2>2. ExtensionLevel(f, fs, TwoTo(k), m)[ab] = result
    BY <2>1 DEF ExtensionLevel
  <2>3. sums = sum /\ differences = difference
    <3> HIDE DEF half, h
    <3> QED BY <2>1, SliceIs
  <2>4. products = turned
    <3> HIDE DEF half, h, stride, s, differences, difference
    <3> QED BY <2>1, <2>3, SliceIs
  <2>5. left = L /\ right = R
    <3> HIDE DEF half, h, sums, sum, differences, difference, products, turned
    <3> QED BY <2>1, <2>3, <2>4
  <2>6. result = value
    <3> HIDE DEF half, h, stride, s, left, L, right, R
    <3> QED BY <2>1, <2>5, SliceIs
  <2> QED BY <2>2, <2>6
<1>13. ExtensionValues(w, k, m)[ab] = [i \in 0 .. 2 * h - 1 |-> TwoTo(m) \odot T(i)]
  <2>1. ab \in [0 .. TwoTo(m) - 1 -> Fr]
    BY DEF IsSlice
  <2>2. ExtensionValues(w, k, m)[ab] = OddValues(ab, y, m)
    BY <2>1 DEF ExtensionValues
  <2> HIDE DEF h, y
  <2> QED BY <1>1, <2>2 DEF OddValues, c
<1>14. ASSUME NEW i \in 0 .. 2 * h - 1
       PROVE  (IF i < h THEN AddModFr(L[i], yTimesRoot(i))
               ELSE SubModFr(L[i - h], yTimesRoot(i - h))) = TwoTo(m) \odot T(i)
  <2> HIDE DEF h, L, R, yTimesRoot, T
  <2>1. CASE i < h
    <3>1. i \in 0 .. h - 1
      BY <1>1, <2>1
    <3> QED BY <1>11, <2>1, <3>1
  <2>2. CASE ~ (i < h)
    <3>1. i - h \in 0 .. h - 1 /\ h + (i - h) = i
      BY <1>1, <2>2
    <3>2. L[i - h] \ominus yTimesRoot(i - h) = TwoTo(m) \odot T(h + (i - h))
      BY <1>11, <3>1
    <3> QED BY <2>2, <3>1, <3>2
  <2> QED BY <2>1, <2>2
<1>15. value = [i \in 0 .. 2 * h - 1 |-> TwoTo(m) \odot T(i)]
  <2> HIDE DEF h, L, R, yTimesRoot, T
  <2> QED BY <1>14
<1> HIDE DEF value, T
<1> QED BY <1>12, <1>13, <1>15

(* dASFFTExtension returns 2 ** k times the values at the odd powers.      *)
THEOREM ExtensionExtends ==
    ASSUME NEW k \in Nat \ {0}, NEW w, NEW fs, HasRoots(fs, w, k + 1), Divides(k),
           NEW vals, IsSlice(vals, k)
    PROVE  dASFFTExtension(fs, vals) = OddValues(vals, w, k)
<1> DEFINE n == TwoTo(k)
           F(f) == [m \in 1 .. k |-> ExtensionLevel(f, fs, n, m)]
           E == [m \in 1 .. k |-> ExtensionValues(w, k, m)]
           C == CHOOSE f : f = F(f)
<1>1. k \in Nat /\ Length(vals) = n /\ bitIndex(n) = k
  BY BitIndexIs, SliceLength
<1>2. dASFFTExtension(fs, vals) = C[k][vals]
  <2>1. dASFFTExtension(fs, vals) =
               (CHOOSE f : f = [m \in 1 .. bitIndex(Length(vals)) |->
                   ExtensionLevel(f, fs, Length(vals), m)])[bitIndex(Length(vals))][vals]
    BY ExtensionIs
  <2> QED BY <1>1, <2>1
<1>3. ASSUME NEW f, NEW m \in 1 .. k, m > 1 => f[m - 1] = E[m - 1]
      PROVE  ExtensionLevel(f, fs, n, m) = E[m]
  <2>1. E[m] = ExtensionValues(w, k, m) /\ (m > 1 => E[m - 1] = ExtensionValues(w, k, m - 1))
    BY <1>1
  <2> HIDE DEF E, n
  <2>2. ASSUME NEW ab \in [0 .. TwoTo(m) - 1 -> Fr]
        PROVE  ExtensionLevel(f, fs, n, m)[ab] = ExtensionValues(w, k, m)[ab]
    <3>1. IsSlice(ab, m)
      BY DEF IsSlice
    <3> QED BY <1>1, <1>3, <2>1, <3>1, LevelExtends DEF n
  <2>3. /\ ExtensionLevel(f, fs, n, m) =
               [ab \in [0 .. TwoTo(m) - 1 -> Fr] |-> ExtensionLevel(f, fs, n, m)[ab]]
        /\ ExtensionValues(w, k, m) =
               [ab \in [0 .. TwoTo(m) - 1 -> Fr] |-> ExtensionValues(w, k, m)[ab]]
    <3>1. DOMAIN ExtensionLevel(f, fs, n, m) = [0 .. TwoTo(m) - 1 -> Fr]
      BY DEF ExtensionLevel
    <3>2. ExtensionLevel(f, fs, n, m) =
              [ab \in DOMAIN ExtensionLevel(f, fs, n, m) |-> ExtensionLevel(f, fs, n, m)[ab]]
      BY DEF ExtensionLevel
    <3>3. ExtensionValues(w, k, m) =
              [ab \in [0 .. TwoTo(m) - 1 -> Fr] |-> ExtensionValues(w, k, m)[ab]]
      BY DEF ExtensionValues
    <3> QED BY <3>1, <3>2, <3>3
  <2>4. [ab \in [0 .. TwoTo(m) - 1 -> Fr] |-> ExtensionLevel(f, fs, n, m)[ab]]
            = [ab \in [0 .. TwoTo(m) - 1 -> Fr] |-> ExtensionValues(w, k, m)[ab]]
    BY <2>2
  <2> QED BY <2>1, <2>3, <2>4
<1>4. E = F(E)
  <2>1. \A m \in 1 .. k : ExtensionLevel(E, fs, n, m) = E[m]
    <3> HIDE DEF E
    <3> QED BY <1>3
  <2>2. E = [m \in 1 .. k |-> E[m]]
    OBVIOUS
  <2> HIDE DEF E, n
  <2> QED BY <2>1, <2>2
<1>5. C = F(C)
  <2> HIDE DEF F, E
  <2> QED BY <1>4
<1>6. C[k] = E[k]
  <2> DEFINE S == {m \in 0 .. k : m > 0 => C[m] = E[m]}
  <2>1. \A m \in 1 .. k : C[m] = ExtensionLevel(C, fs, n, m)
    <3> HIDE DEF C, n
    <3> QED BY <1>5
  <2> HIDE DEF C, E
  <2>2. 0 \in S
    BY <1>1
  <2>3. ASSUME NEW m \in 0 .. k - 1, m \in S
        PROVE  m + 1 \in S
    <3>1. m + 1 \in 1 .. k /\ (m + 1) - 1 = m /\ (m + 1 > 1 => C[m] = E[m])
      BY <1>1, <2>3
    <3>2. ExtensionLevel(C, fs, n, m + 1) = E[m + 1]
      <4> HIDE DEF n
      <4> QED BY <1>3, <3>1
    <3> HIDE DEF n
    <3> QED BY <1>1, <2>1, <3>1, <3>2
  <2>4. k \in S
    <3> HIDE DEF S
    <3> QED BY <1>1, <2>2, <2>3, CountTo
  <2> QED BY <1>1, <2>4
<1>7. E[k][vals] = OddValues(vals, w, k)
  <2>1. E[k] = ExtensionValues(w, k, k)
    BY <1>1
  <2>2. vals \in [0 .. TwoTo(k) - 1 -> Fr]
    BY DEF IsSlice
  <2>3. ExpModFr(w, TwoTo(k - k)) = w
    <3>1. k - k = 0 /\ TwoTo(0) = 1 /\ w \in Fr
      BY <1>1, TwoToZero DEF HasRoots, Powers, IsRoot
    <3> QED BY <3>1, ExpUnit
  <2> HIDE DEF E
  <2> QED BY <2>1, <2>2, <2>3 DEF ExtensionValues
<1> HIDE DEF C, E
<1> QED BY <1>2, <1>6, <1>7

(* The coefficients c with as many zeros after them.                       *)
Padded(c, k) == [j \in 0 .. TwoTo(k + 1) - 1 |-> IF j < TwoTo(k) THEN c[j] ELSE 0]

(* At the even powers the padded polynomial has the values over the square *)
(* of the root, at the odd ones those of the polynomial with the argument  *)
(* multiplied by the root.                                                 *)
LEMMA TransformPadded ==
    ASSUME NEW k \in Nat, NEW w \in Fr, NEW c, IsSlice(c, k)
    PROVE  /\ IsSlice(Padded(c, k), k + 1)
           /\ \A i \in Nat :
                  /\ TransformAt(Padded(c, k), w, k + 1, 2 * i) = TransformAt(c, w \odot w, k, i)
                  /\ TransformAt(Padded(c, k), w, k + 1, 2 * i + 1)
                         = TransformAt(Twist(c, w, k), w \odot w, k, i)
<1> DEFINE n == TwoTo(k)
           a == Padded(c, k)
           z == w \odot w
<1>1. n \in Nat /\ TwoTo(k + 1) = n + n /\ k + 1 \in Nat /\ z \in Fr /\ z = ExpModFr(w, 2)
  <2>1. n \in Nat /\ TwoTo(k + 1) = 2 * n
    BY TwoToNext
  <2>2. ExpModFr(w, 1 + 1) = w \odot w /\ 1 + 1 = 2
    BY ExpUnit, ExpNext
  <2> QED BY <2>1, <2>2, FrClosed
<1>2. /\ \A j \in 0 .. n + n - 1 : a[j] \in Fr
      /\ \A j \in 0 .. n - 1 : a[j] = c[j] /\ c[j] \in Fr
      /\ \A j \in 0 .. n - 1 : a[n + j] = 0
      /\ IsSlice(a, k + 1)
  <2>1. a = [j \in 0 .. n + n - 1 |-> IF j < n THEN c[j] ELSE 0]
    BY <1>1 DEF Padded
  <2>2. \A j \in 0 .. n - 1 : c[j] \in Fr
    BY DEF IsSlice
  <2> HIDE DEF a, n
  <2>3. \A j \in 0 .. n + n - 1 : a[j] \in Fr
    <3>1. SUFFICES ASSUME NEW j \in 0 .. n + n - 1 PROVE a[j] \in Fr
      OBVIOUS
    <3>2. j < n => j \in 0 .. n - 1
      BY <1>1
    <3> QED BY <2>1, <2>2, <3>2, ModulusFacts
  <2>4. /\ \A j \in 0 .. n - 1 : a[j] = c[j]
        /\ \A j \in 0 .. n - 1 : a[n + j] = 0
    BY <1>1, <2>1
  <2> QED BY <1>1, <2>1, <2>2, <2>3, <2>4 DEF IsSlice
<1> HIDE DEF a
<1>3. ASSUME NEW i \in Nat
      PROVE  TransformAt(a, w, k + 1, i)
                 = SumFr([j \in 0 .. n - 1 |-> c[j] \odot ExpModFr(w, i * j)], n)
  <2> DEFINE t == [j \in 0 .. n + n - 1 |-> a[j] \odot ExpModFr(w, i * j)]
             u == [j \in 0 .. n - 1 |-> c[j] \odot ExpModFr(w, i * j)]
             r == [j \in 0 .. n - 1 |-> t[n + j]]
  <2>1. ASSUME NEW j \in 0 .. n + n - 1
        PROVE  ExpModFr(w, i * j) \in Fr
    <3>1. i * j \in Nat
      BY <1>1
    <3> QED BY <3>1, ExpType
  <2>2. \A j \in 0 .. n + n - 1 : t[j] = a[j] \odot ExpModFr(w, i * j) /\ t[j] \in Fr
    <3>1. \A j \in 0 .. n + n - 1 : t[j] = a[j] \odot ExpModFr(w, i * j)
      OBVIOUS
    <3> HIDE DEF t
    <3> QED BY <1>2, <2>1, <3>1, FrClosed
  <2>3. ASSUME NEW j \in 0 .. n - 1
        PROVE  r[j] = 0 /\ r[j] = t[n + j] /\ u[j] = t[j] /\ t[j] \in Fr
    <3>1. j \in 0 .. n + n - 1 /\ n + j \in 0 .. n + n - 1
      <4> HIDE DEF n
      <4> QED BY <1>1
    <3>2. r[j] = t[n + j] /\ u[j] = c[j] \odot ExpModFr(w, i * j)
      <4> HIDE DEF t
      <4> QED OBVIOUS
    <3> HIDE DEF t, u, r, n
    <3> QED BY <1>2, <2>1, <2>2, <3>1, <3>2, FrUnits
  <2>4. TransformAt(a, w, k + 1, i) = SumFr(t, n + n)
    BY <1>1 DEF TransformAt
  <2> HIDE DEF t, u, r, n
  <2>5. SumFr(t, n + n) = SumFr(t, n) \oplus SumFr(r, n)
    <3>1. /\ n \in Nat /\ \A j \in 0 .. n + n - 1 : t[j] \in Fr
          /\ \A j \in 0 .. n - 1 : r[j] = t[n + j]
      BY <1>1, <2>2, <2>3
    <3> QED BY <3>1, SumParts
  <2>6. SumFr(r, n) = 0 /\ SumFr(u, n) = SumFr(t, n) /\ SumFr(t, n) \in Fr
    BY <1>1, <2>3, SumZero, SumEqual, SumType
  <2>7. TransformAt(a, w, k + 1, i) = SumFr(u, n)
    BY <2>4, <2>5, <2>6, FrUnits
  <2> QED BY <2>7 DEF u
<1>4. ASSUME NEW i \in Nat
      PROVE  /\ TransformAt(a, w, k + 1, 2 * i) = TransformAt(c, z, k, i)
             /\ TransformAt(a, w, k + 1, 2 * i + 1) = TransformAt(Twist(c, w, k), z, k, i)
  <2>1. 2 * i \in Nat /\ 2 * i + 1 \in Nat
    OBVIOUS
  <2> DEFINE t(e) == [j \in 0 .. n - 1 |-> c[j] \odot ExpModFr(w, e * j)]
             d == Twist(c, w, k)
  <2>2. ASSUME NEW j \in 0 .. n - 1
        PROVE  /\ t(2 * i)[j] = c[j] \odot ExpModFr(z, i * j)
               /\ t(2 * i + 1)[j] = d[j] \odot ExpModFr(z, i * j)
    <3>1. /\ j \in Nat /\ i * j \in Nat /\ 2 * (i * j) \in Nat /\ (2 * i) * j = 2 * (i * j)
          /\ (2 * i + 1) * j = j + 2 * (i * j) /\ 2 \in Nat
      BY <1>1
    <3>2. /\ t(2 * i)[j] = c[j] \odot ExpModFr(w, (2 * i) * j)
          /\ t(2 * i + 1)[j] = c[j] \odot ExpModFr(w, (2 * i + 1) * j)
          /\ d[j] = c[j] \odot ExpModFr(w, j)
      BY DEF Twist
    <3>3. /\ ExpModFr(w, 2 * (i * j)) = ExpModFr(ExpModFr(w, 2), i * j)
          /\ ExpModFr(w, j + 2 * (i * j)) = ExpModFr(w, j) \odot ExpModFr(w, 2 * (i * j))
          /\ ExpModFr(w, j) \in Fr
      BY <3>1, ExpTimes, ExpAdds, ExpType
    <3>4. ExpModFr(z, i * j) \in Fr /\ c[j] \in Fr
      <4> HIDE DEF z
      <4> QED BY <1>1, <1>2, <3>1, ExpType
    <3> HIDE DEF t, d, z
    <3>5. c[j] \odot (ExpModFr(w, j) \odot ExpModFr(z, i * j)) = (c[j] \odot ExpModFr(w, j)) \odot ExpModFr(z, i * j)
      BY <3>3, <3>4, FrAssociates
    <3> QED BY <1>1, <3>1, <3>2, <3>3, <3>5
  <2>3. IsSlice(d, k)
    BY TwistType
  <2>4. /\ TransformAt(a, w, k + 1, 2 * i) = SumFr(t(2 * i), n)
        /\ TransformAt(a, w, k + 1, 2 * i + 1) = SumFr(t(2 * i + 1), n)
    BY <1>3, <2>1
  <2>5. /\ TransformAt(c, z, k, i) = SumFr(t(2 * i), n)
        /\ TransformAt(d, z, k, i) = SumFr(t(2 * i + 1), n)
    <3> HIDE DEF t, d, z
    <3> QED BY <1>1, <2>2, <2>3, TransformIs
  <2> HIDE DEF t
  <2> QED BY <2>4, <2>5
<1> QED BY <1>2, <1>4 DEF a

-----------------------------------------------------------------------------
(* The settings of NewFFTSettings have the roots.                          *)

(* NewFFTSettings expands the root into all its powers, and reverses       *)
(* them: the settings are the ones fft and the extension are proved for.   *)
LEMMA SettingsRoots ==
    ASSUME NEW k \in Nat \ {0}, (Modulus - 1) % TwoTo(k) = 0, NEW fs, fs = NewFFTSettings(k),
           NEW w, w = Scale2RootOfUnity(k)
    PROVE  /\ HasRoots(fs, w, k) /\ Divides(k) /\ fs.MaxWidth = TwoTo(k)
           /\ DOMAIN fs.ExpandedRootsOfUnity = 0 .. TwoTo(k)
           /\ DOMAIN fs.ReverseRootsOfUnity = 0 .. TwoTo(k)
<1> DEFINE n == TwoTo(k)
           h == TwoTo(k - 1)
           q == (Modulus - 1) \div n
           rootz == expandRootOfUnity(w)
           First(o) == ExpModFr(w, o) = 1 /\ \A j \in 1 .. o - 1 : ExpModFr(w, j) # 1
<1>1. /\ k \in Nat /\ k - 1 \in Nat /\ h \in Nat /\ h > 0 /\ n = 2 * h /\ n \in Nat /\ n > 1
      /\ Modulus \in Nat /\ Modulus > 1 /\ (k - 1) + 1 = k
  <2>1. k \in Nat /\ k - 1 \in Nat /\ (k - 1) + 1 = k
    OBVIOUS
  <2>2. TwoTo((k - 1) + 1) = 2 * h /\ h \in Nat /\ h > 0
    BY <2>1, TwoToNext, TwoToType
  <2> HIDE DEF h
  <2> QED BY <2>1, <2>2, ModulusFacts
<1>2. /\ q \in Nat /\ Modulus - 1 = n * q /\ n <= Modulus - 1 /\ (Modulus - 1) \div 2 = h * q
  <2>1. q \in Int /\ Modulus - 1 = n * q
    <3>1. (Modulus - 1) % n = 0
      OBVIOUS
    <3> HIDE DEF n
    <3> QED BY <1>1, <3>1
  <2> HIDE DEF q, n, h
  <2>2. q >= 1
    <3>1. \A x \in Nat, y \in Int : y <= 0 => x * y <= 0
      OBVIOUS
    <3> QED BY <1>1, <2>1, <3>1
  <2>3. n <= n * q
    <3>1. \A x, y \in Nat : y >= 1 => x <= x * y
      OBVIOUS
    <3> QED BY <1>1, <2>1, <2>2, <3>1
  <2>4. n * q = 2 * (h * q) /\ h * q \in Nat
    <3>1. \A x, y \in Int : (2 * x) * y = 2 * (x * y)
      OBVIOUS
    <3> QED BY <1>1, <2>1, <2>2, <3>1
  <2>5. (2 * (h * q)) \div 2 = h * q
    BY <2>4
  <2> QED BY <1>1, <2>1, <2>2, <2>3, <2>4, <2>5
<1>3. PrimitiveRoot \in Fr /\ ExpModFr(PrimitiveRoot, h * q) = MinusOne /\ w = ExpModFr(PrimitiveRoot, q)
  BY <1>1, <1>2, PrimitiveRootAssumption DEF Fr, MinusOne, Scale2RootOfUnity
<1>4. MinusOne # 1
  BY <1>1, <1>2 DEF MinusOne
<1>5. Divides(k)
  BY <1>1, <1>2, <1>4 DEF Divides, Fr
<1>6. IsRoot(w, k)
  <2> HIDE DEF q, n, h
  <2>1. w \in Fr
    BY <1>2, <1>3, ExpType
  <2>2. ExpModFr(w, h) = MinusOne
    <3>1. ExpModFr(PrimitiveRoot, q * h) = ExpModFr(w, h)
      BY <1>1, <1>2, <1>3, ExpTimes
    <3>2. q * h = h * q
      BY <1>1, <1>2
    <3> QED BY <1>3, <3>1, <3>2
  <2>3. ExpModFr(w, n) = 1
    <3>1. ExpModFr(w, h + h) = ExpModFr(w, h) \odot ExpModFr(w, h)
      BY <1>1, <2>1, ExpAdds
    <3>2. h + h = n
      BY <1>1
    <3> QED BY <2>2, <3>1, <3>2, MinusOneFacts
  <2> QED BY <2>1, <2>2, <2>3 DEF IsRoot, n, h
<1>7. rootz = [i \in 0 .. n |-> ExpModFr(w, i)]
  <2>1. First(n)
    BY <1>1, <1>4, <1>6, RootNotOne DEF IsRoot
  <2>2. n \in 1 .. Modulus - 1
    BY <1>1, <1>2
  <2>3. ASSUME NEW o \in 1 .. Modulus - 1, First(o)
        PROVE  o = n
    <3> HIDE DEF n
    <3>1. ~ (o < n)
      <4>1. o < n => o \in 1 .. n - 1
        BY <1>1
      <4> QED BY <2>1, <2>3, <4>1
    <3>2. ~ (n < o)
      <4>1. n < o => n \in 1 .. o - 1
        BY <1>1
      <4> QED BY <2>1, <2>3, <4>1
    <3> QED BY <1>1, <3>1, <3>2
  <2>4. (CHOOSE o \in 1 .. Modulus - 1 : First(o)) = n
    <3> HIDE DEF First, n
    <3> QED BY <2>1, <2>2, <2>3
  <2>5. rootz = [i \in 0 .. (CHOOSE o \in 1 .. Modulus - 1 : First(o)) |-> ExpModFr(w, i)]
    BY SliceIs DEF expandRootOfUnity
  <2> HIDE DEF First, n
  <2> QED BY <2>4, <2>5
<1>8. /\ fs.MaxWidth = n /\ fs.ExpandedRootsOfUnity = rootz
      /\ fs.ReverseRootsOfUnity = [i \in 0 .. n |-> rootz[n - i]]
  <2> HIDE DEF rootz, n
  <2> QED BY SliceIs DEF NewFFTSettings, rootz, n
<1>9. ASSUME NEW i \in 0 .. n
      PROVE  rootz[n - i] = ExpModFr(InverseRoot(w, k), i)
  <2>1. n - i \in 0 .. n
    BY <1>1
  <2>2. rootz[n - i] = ExpModFr(w, n - i)
    <3> HIDE DEF n, rootz
    <3> QED BY <1>7, <2>1
  <2> QED BY <1>1, <1>6, <2>2, RootInverse
<1> HIDE DEF rootz
<1>10. Powers(fs.ExpandedRootsOfUnity, w, k)
  BY <1>6, <1>7, <1>8 DEF Powers
<1>11. Powers(fs.ReverseRootsOfUnity, InverseRoot(w, k), k)
  <2>1. IsRoot(InverseRoot(w, k), k)
    BY <1>1, <1>6, RootInverse
  <2> HIDE DEF n
  <2>2. \A i \in 0 .. n : fs.ReverseRootsOfUnity[i] = ExpModFr(InverseRoot(w, k), i)
    BY <1>8, <1>9
  <2> QED BY <2>1, <2>2 DEF Powers, n
<1> QED BY <1>5, <1>7, <1>8, <1>10, <1>11 DEF HasRoots

(* FFT pads to a power of two: 2 ** k values stay as they are.             *)
LEMMA FourierTransformIs ==
    ASSUME NEW k \in Nat, NEW fs, NEW vals, IsSlice(vals, k), NEW inv
    PROVE  FourierTransform(fs, vals, inv) = InplaceFFT(fs, vals, inv)
<1>1. Length(vals) = TwoTo(k) /\ nextPowOf2(TwoTo(k)) = TwoTo(k)
  BY SliceLength, NextPowOf2Is
<1>2. padPoly(TwoTo(k), vals) = vals
  <2>1. padPoly(TwoTo(k), vals) = [i \in 0 .. TwoTo(k) - 1 |-> IF i < TwoTo(k) THEN vals[i] ELSE 0]
    BY <1>1, SliceIs DEF padPoly
  <2>2. vals = [i \in 0 .. TwoTo(k) - 1 |-> vals[i]]
    BY DEF IsSlice
  <2>3. \A i \in 0 .. TwoTo(k) - 1 : i < TwoTo(k)
    BY TwoToType
  <2> QED BY <2>1, <2>2, <2>3
<1> QED BY <1>1, <1>2 DEF FourierTransform

(* The transforms of the settings, of scalars and of points, both ways.    *)
Values(fs, vals) == FourierTransform(fs, vals, FALSE)
FromValues(fs, vals) == FourierTransform(fs, vals, TRUE)
ValuesG1(fs, vals) == FFTG1(fs, vals, FALSE)
FromValuesG1(fs, vals) == FFTG1(fs, vals, TRUE)

(* Over 2 ** k values all four are what they stand for.                    *)
LEMMA TransformsComputed ==
    ASSUME NEW order \in Nat, NEW k \in 0 .. order, NEW w, NEW fs, HasRoots(fs, w, order),
           Divides(order), fs.MaxWidth = TwoTo(order), NEW vals, IsSlice(vals, k), NEW y,
           y = ExpModFr(w, TwoTo(order - k))
    PROVE  /\ IsRoot(y, k)
           /\ Values(fs, vals) = Transform(vals, y, k) /\ FromValues(fs, vals) = Coefficients(vals, y, k)
           /\ ValuesG1(fs, vals) = Transform(vals, y, k)
           /\ FromValuesG1(fs, vals) = Coefficients(vals, y, k)
<1> DEFINE n == TwoTo(k)
           s == TwoTo(order - k)
           v == InverseRoot(w, order)
           x == InverseRoot(y, k)
<1>1. k \in Nat /\ Length(vals) = n /\ TwoTo(order) \div n = s /\ order - k \in Nat /\ n \in Nat /\ s \in Nat
  <2>1. k \in Nat /\ order - k \in Nat
    OBVIOUS
  <2> QED BY <2>1, SliceLength, TwoToDivides, TwoToType
<1>2. IsRoot(w, order) /\ IsRoot(v, order) /\ w \in Fr /\ v \in Fr
  BY DEF HasRoots, Powers, IsRoot
<1>3. IsRoot(y, k) /\ y \in Fr
  <2>1. (order - k) + k = order
    OBVIOUS
  <2>2. IsRoot(w, (order - k) + k)
    BY <1>2, <2>1
  <2> QED BY <1>1, <2>2, RootOfRoot DEF IsRoot
<1>4. ExpModFr(v, s) = x
  <2> DEFINE e == TwoTo(order) - 1
             d == n - 1
  <2>1. e \in Nat /\ d \in Nat /\ e = s * d + (s - 1) /\ s - 1 \in Nat
    <3>1. TwoTo(order) = n * s /\ n > 0 /\ s > 0 /\ TwoTo(order) \in Nat
      BY <1>1, TwoToDivides, TwoToType
    <3>2. \A a, b \in Int : a * b - 1 = b * (a - 1) + (b - 1)
      OBVIOUS
    <3> HIDE DEF n, s
    <3> QED BY <1>1, <3>1, <3>2
  <2>2. ExpModFr(y, n) = 1 /\ x \in Fr /\ x \odot y = 1
    <3>1. IsRoot(x, k) /\ y \odot x = 1
      BY <1>1, <1>3, RootInverse
    <3> HIDE DEF x
    <3> QED BY <1>3, <3>1, FrCommutes DEF IsRoot
  <2>3. ExpModFr(v, s) \odot y = 1 /\ ExpModFr(v, s) \in Fr
    <3>1. ExpModFr(w, s) \odot ExpModFr(v, s) = 1
      BY <1>1, <1>2, RootInverse
    <3> HIDE DEF v, s
    <3> QED BY <1>1, <1>2, <1>3, <3>1, ExpType, FrCommutes DEF s
  <2> DEFINE u == ExpModFr(v, s)
  <2>4. u \odot y = x \odot y /\ u \in Fr /\ y # 0
    <3>1. y # 0
      <4>1. x \odot 0 = 0
        BY <2>2, FrUnits
      <4> HIDE DEF x
      <4> QED BY <2>2, <4>1, ModulusFacts
    <3> QED BY <2>2, <2>3, <3>1
  <2> HIDE DEF u, x
  <2>5. u = x
    BY <1>3, <2>2, <2>4, FrCancel
  <2> QED BY <2>5 DEF u
<1>5. /\ fft(vals, fs.ExpandedRootsOfUnity, s) = Transform(vals, y, k)
      /\ fft(vals, fs.ReverseRootsOfUnity, s) = Transform(vals, x, k)
  <2>1. fft(vals, fs.ExpandedRootsOfUnity, s) = Transform(vals, y, k)
    BY FftTransforms DEF HasRoots
  <2>2. fft(vals, fs.ReverseRootsOfUnity, s) = Transform(vals, ExpModFr(v, s), k)
    BY FftTransforms DEF HasRoots
  <2> QED BY <1>4, <2>1, <2>2
<1>6. InplaceFFT(fs, vals, FALSE) = Transform(vals, y, k)
  <2>1. InplaceFFT(fs, vals, FALSE) = [i \in 0 .. n - 1 |-> MulModFr(Transform(vals, y, k)[i], 1)]
    <3> HIDE DEF n, s
    <3> QED BY <1>1, <1>5, SliceIs DEF InplaceFFT
  <2>2. Transform(vals, y, k) = [i \in 0 .. n - 1 |-> Transform(vals, y, k)[i]]
    BY DEF Transform
  <2>3. \A i \in 0 .. n - 1 : MulModFr(Transform(vals, y, k)[i], 1) = Transform(vals, y, k)[i]
    <3>1. \A i \in 0 .. n - 1 : Transform(vals, y, k)[i] \in Fr
      BY <1>1, <1>3, TransformType DEF IsSlice
    <3> QED BY <3>1, FrUnits
  <2> HIDE DEF n
  <2> QED BY <2>1, <2>2, <2>3
<1>7. InplaceFFT(fs, vals, TRUE) = Coefficients(vals, y, k)
  <2>1. InplaceFFT(fs, vals, TRUE) = [i \in 0 .. n - 1 |-> MulModFr(Transform(vals, x, k)[i], InvModFr(n))]
    <3> HIDE DEF n, s, x
    <3> QED BY <1>1, <1>5, SliceIs DEF InplaceFFT
  <2>2. \A i \in 0 .. n - 1 : Transform(vals, x, k)[i] = TransformAt(vals, x, k, i)
    BY DEF Transform
  <2> HIDE DEF n
  <2>3. [i \in 0 .. n - 1 |-> MulModFr(Transform(vals, x, k)[i], InvModFr(n))]
            = [i \in 0 .. n - 1 |-> TransformAt(vals, x, k, i) \odot InvModFr(n)]
    BY <2>2
  <2> QED BY <2>1, <2>3 DEF Coefficients, n
<1>8. Values(fs, vals) = Transform(vals, y, k) /\ FromValues(fs, vals) = Coefficients(vals, y, k)
  <2>1. \A inv : FourierTransform(fs, vals, inv) = InplaceFFT(fs, vals, inv)
    BY <1>1, FourierTransformIs
  <2>2. Values(fs, vals) = InplaceFFT(fs, vals, FALSE)
    BY <2>1 DEF Values
  <2>3. FromValues(fs, vals) = InplaceFFT(fs, vals, TRUE)
    BY <2>1 DEF FromValues
  <2> QED BY <1>6, <1>7, <2>2, <2>3
<1>9. ValuesG1(fs, vals) = Transform(vals, y, k)
  <2> HIDE DEF n, s
  <2> QED BY <1>1, <1>5 DEF ValuesG1, FFTG1, fftG1
<1>10. FromValuesG1(fs, vals) = Coefficients(vals, y, k)
  <2>1. FromValuesG1(fs, vals) = [i \in 0 .. n - 1 |-> MulModFr(Transform(vals, x, k)[i], InvModFr(n))]
    <3> HIDE DEF n, s, x
    <3> QED BY <1>1, <1>5, SliceIs DEF FromValuesG1, FFTG1, fftG1, MulG1
  <2>2. \A i \in 0 .. n - 1 : Transform(vals, x, k)[i] = TransformAt(vals, x, k, i)
    BY DEF Transform
  <2> HIDE DEF n
  <2>3. [i \in 0 .. n - 1 |-> MulModFr(Transform(vals, x, k)[i], InvModFr(n))]
            = [i \in 0 .. n - 1 |-> TransformAt(vals, x, k, i) \odot InvModFr(n)]
    BY <2>2
  <2> QED BY <2>1, <2>3 DEF Coefficients, n
<1> QED BY <1>3, <1>8, <1>9, <1>10

(* Over the whole domain the root is that of the settings.                 *)
LEMMA TransformsOfAll ==
    ASSUME NEW k \in Nat, NEW w, NEW fs, HasRoots(fs, w, k), Divides(k), fs.MaxWidth = TwoTo(k),
           NEW vals, IsSlice(vals, k)
    PROVE  /\ Values(fs, vals) = Transform(vals, w, k) /\ FromValues(fs, vals) = Coefficients(vals, w, k)
           /\ ValuesG1(fs, vals) = Transform(vals, w, k)
           /\ FromValuesG1(fs, vals) = Coefficients(vals, w, k)
<1>1. k - k = 0 /\ k \in 0 .. k /\ w \in Fr
  BY DEF HasRoots, Powers, IsRoot
<1>2. w = ExpModFr(w, TwoTo(k - k))
  BY <1>1, TwoToZero, ExpUnit
<1> QED BY <1>1, <1>2, TransformsComputed
-----------------------------------------------------------------------------
(* Values of polynomials.                                                  *)

(* The value at x of the polynomial with the first n coefficients of a.    *)
Monomials(a, n, x) == [i \in 0 .. n - 1 |-> a[i] \odot ExpModFr(x, i)]
PolyAt(a, n, x) == SumFr(Monomials(a, n, x), n)

(* The value is a scalar.                                                  *)
LEMMA PolyAtType ==
    ASSUME NEW n \in Nat, NEW a, \A i \in 0 .. n - 1 : a[i] \in Fr, NEW x \in Fr
    PROVE  /\ PolyAt(a, n, x) \in Fr
           /\ \A i \in 0 .. n - 1 : /\ Monomials(a, n, x)[i] = a[i] \odot ExpModFr(x, i)
                                    /\ Monomials(a, n, x)[i] \in Fr
<1>1. ASSUME NEW i \in 0 .. n - 1
      PROVE  /\ Monomials(a, n, x)[i] = a[i] \odot ExpModFr(x, i)
             /\ Monomials(a, n, x)[i] \in Fr
  <2>1. Monomials(a, n, x)[i] = a[i] \odot ExpModFr(x, i)
    BY DEF Monomials
  <2>2. a[i] \in Fr /\ ExpModFr(x, i) \in Fr
    BY ExpType
  <2> QED BY <2>1, <2>2, FrClosed
<1>2. \A i \in 0 .. n - 1 : Monomials(a, n, x)[i] \in Fr
  BY <1>1
<1> QED BY <1>1, <1>2, SumType DEF PolyAt

(* The first coefficient apart, as Horner's rule takes them.               *)
LEMMA PolyAtFirst ==
    ASSUME NEW n \in Nat, NEW a, \A i \in 0 .. n : a[i] \in Fr, NEW x \in Fr, NEW b,
           \A i \in 0 .. n - 1 : b[i] = a[i + 1]
    PROVE  PolyAt(a, n + 1, x) = (PolyAt(b, n, x) \odot x) \oplus a[0]
<1> DEFINE m == Monomials(a, n + 1, x)
           r == [i \in 0 .. n - 1 |-> m[1 + i]]
           c == Monomials(b, n, x)
<1>1. /\ \A i \in 0 .. (n + 1) - 1 : a[i] \in Fr
      /\ \A i \in 0 .. n - 1 : b[i] \in Fr /\ b[i] = a[i + 1]
  OBVIOUS
<1>2. \A i \in 0 .. n : m[i] = a[i] \odot ExpModFr(x, i) /\ m[i] \in Fr
  <2>1. n + 1 \in Nat /\ \A i \in 0 .. n : i \in 0 .. (n + 1) - 1
    OBVIOUS
  <2> HIDE DEF m
  <2> QED BY <1>1, <2>1, PolyAtType DEF m
<1>3. \A i \in 0 .. n - 1 : c[i] = b[i] \odot ExpModFr(x, i) /\ c[i] \in Fr
  <2> HIDE DEF c
  <2> QED BY <1>1, PolyAtType DEF c
<1> HIDE DEF m, c
<1>4. SumFr(m, 1 + n) = SumFr(m, 1) \oplus SumFr(r, n)
  <2>1. /\ \A i \in 0 .. 1 + n - 1 : m[i] \in Fr
        /\ \A i \in 0 .. n - 1 : r[i] = m[1 + i]
    BY <1>2
  <2> HIDE DEF r
  <2>2. 1 \in Nat
    OBVIOUS
  <2> QED BY ONLY n \in Nat, <2>1, <2>2, SumParts
<1>5. SumFr(m, 1) = a[0]
  <2>1. m[0] = a[0] \odot 1 /\ m[0] \in Fr /\ a[0] \in Fr
    BY <1>2, ExpZero
  <2>2. SumFr(m, 0 + 1) = SumFr(m, 0) \oplus m[0]
    BY <2>1, SumNext
  <2> QED BY <2>1, <2>2, SumEmpty, FrUnits
<1>6. SumFr(r, n) = x \odot SumFr(c, n)
  <2>1. ASSUME NEW i \in 0 .. n - 1
        PROVE  c[i] \in Fr /\ r[i] = x \odot c[i]
    <3>1. /\ r[i] = a[i + 1] \odot ExpModFr(x, i + 1) /\ a[i + 1] \in Fr /\ ExpModFr(x, i) \in Fr
          /\ ExpModFr(x, i + 1) = ExpModFr(x, i) \odot x /\ b[i] = a[i + 1] /\ c[i] \in Fr
          /\ c[i] = b[i] \odot ExpModFr(x, i)
      BY <1>1, <1>2, <1>3, ExpNext, ExpType
    <3>2. (a[i + 1] \odot ExpModFr(x, i)) \odot x = a[i + 1] \odot (ExpModFr(x, i) \odot x)
      BY <3>1, FrAssociates
    <3>3. c[i] \odot x = x \odot c[i]
      BY <3>1, FrCommutes
    <3> QED BY <3>1, <3>2, <3>3
  <2> HIDE DEF r
  <2> QED BY <2>1, SumTimes
<1>7. SumFr(c, n) \in Fr /\ a[0] \in Fr
  BY <1>1, <1>3, SumType
<1>8. x \odot SumFr(c, n) = SumFr(c, n) \odot x /\ SumFr(c, n) \odot x \in Fr
  BY <1>7, FrCommutes, FrClosed
<1>9. a[0] \oplus (SumFr(c, n) \odot x) = (SumFr(c, n) \odot x) \oplus a[0]
  BY <1>7, <1>8, FrCommutes
<1>10. 1 + n = n + 1
  OBVIOUS
<1> QED BY <1>4, <1>5, <1>6, <1>8, <1>9, <1>10 DEF PolyAt, m, c

(* EvalPolyAt computes the value, from the last coefficient down.          *)
LEMMA EvalPolyIs ==
    ASSUME NEW n \in Nat, NEW a \in [0 .. n - 1 -> Fr], NEW x \in Fr
    PROVE  EvalPolyAt(a, x) = PolyAt(a, n, x)
<1> DEFINE F(f) == [i \in 0 .. n |-> IF i = n THEN 0 ELSE (f[i + 1] \odot x) \oplus a[i]]
           from(i) == [j \in 0 .. n - i - 1 |-> a[i + j]]
           E == [i \in 0 .. n |-> PolyAt(from(i), n - i, x)]
           C == CHOOSE f : f = F(f)
<1>1. EvalPolyAt(a, x) = C[0]
  <2>1. Length(a) = n
    BY LengthIs
  <2> QED BY <2>1 DEF EvalPolyAt
<1>2. ASSUME NEW i \in 0 .. n - 1
      PROVE  E[i] = (E[i + 1] \odot x) \oplus a[i]
  <2> DEFINE m == n - (i + 1)
  <2>1. m \in Nat /\ n - i = m + 1 /\ i \in 0 .. n /\ i + 1 \in 0 .. n
    OBVIOUS
  <2>2. /\ \A j \in 0 .. m : from(i)[j] \in Fr
        /\ \A j \in 0 .. m - 1 : from(i + 1)[j] = from(i)[j + 1]
        /\ from(i)[0] = a[i]
    OBVIOUS
  <2>3. E[i] = PolyAt(from(i), n - i, x) /\ E[i + 1] = PolyAt(from(i + 1), m, x)
    OBVIOUS
  <2> HIDE DEF m, from, E
  <2>4. PolyAt(from(i), m + 1, x) = (PolyAt(from(i + 1), m, x) \odot x) \oplus from(i)[0]
    BY <2>1, <2>2, PolyAtFirst
  <2> QED BY <2>1, <2>2, <2>3, <2>4
<1>3. E[n] = 0
  <2>1. E[n] = PolyAt(from(n), 0, x)
    OBVIOUS
  <2> HIDE DEF from, E
  <2> QED BY <2>1, SumEmpty DEF PolyAt
<1>4. E = F(E)
  <2>1. E = [i \in 0 .. n |-> E[i]]
    OBVIOUS
  <2>2. \A i \in 0 .. n : i # n => i \in 0 .. n - 1
    OBVIOUS
  <2> HIDE DEF E
  <2> QED BY <1>2, <1>3, <2>1, <2>2
<1>5. C = F(C)
  <2> HIDE DEF F, E
  <2> QED BY <1>4
<1>6. \A m \in 0 .. n : C[n - m] = E[n - m]
  <2> DEFINE S == {m \in 0 .. n : C[n - m] = E[n - m]}
  <2>1. \A i \in 0 .. n : C[i] = IF i = n THEN 0 ELSE (C[i + 1] \odot x) \oplus a[i]
    <3> HIDE DEF C
    <3> QED BY <1>5
  <2> HIDE DEF C, E
  <2>2. 0 \in S
    BY <1>3, <2>1
  <2>3. ASSUME NEW m \in 0 .. n - 1, m \in S
        PROVE  m + 1 \in S
    <3> DEFINE i == n - (m + 1)
    <3>1. i \in 0 .. n - 1 /\ i + 1 = n - m /\ i # n /\ i \in 0 .. n /\ m + 1 \in 0 .. n
      OBVIOUS
    <3>2. C[i + 1] = E[i + 1]
      BY <2>3, <3>1
    <3> HIDE DEF i
    <3>3. C[i] = E[i]
      BY <1>2, <2>1, <3>1, <3>2
    <3> QED BY <3>1, <3>3 DEF i
  <2>4. \A m \in 0 .. n : m \in S
    <3> HIDE DEF S
    <3> QED BY <2>2, <2>3, CountTo
  <2> QED BY <2>4
<1>7. C[0] = E[0]
  <2>1. n \in 0 .. n /\ n - n = 0
    OBVIOUS
  <2> HIDE DEF C, E
  <2> QED BY <1>6, <2>1
<1>8. E[0] = PolyAt(a, n, x)
  <2>1. from(0) = [j \in 0 .. n - 1 |-> a[j]]
    OBVIOUS
  <2>2. from(0) = a
    BY <2>1
  <2>3. E[0] = PolyAt(from(0), n, x)
    OBVIOUS
  <2> HIDE DEF E, from
  <2> QED BY <2>2, <2>3
<1> HIDE DEF C, E
<1> QED BY <1>1, <1>7, <1>8

(* Zeros above add nothing to it.                                          *)
LEMMA PolyAtZeros ==
    ASSUME NEW n \in Nat, NEW m \in Nat, NEW a, NEW c, NEW x \in Fr,
           \A i \in 0 .. n - 1 : a[i] \in Fr /\ c[i] = a[i],
           \A i \in n .. n + m - 1 : c[i] = 0
    PROVE  PolyAt(c, n + m, x) = PolyAt(a, n, x)
<1> DEFINE p == Monomials(c, n + m, x)
           q == Monomials(a, n, x)
           r == [i \in 0 .. m - 1 |-> p[n + i]]
<1>1. \A i \in 0 .. n + m - 1 : c[i] \in Fr
  BY ModulusFacts
<1>2. \A i \in 0 .. n + m - 1 : p[i] = c[i] \odot ExpModFr(x, i) /\ p[i] \in Fr
  <2> HIDE DEF p
  <2> QED BY <1>1, PolyAtType DEF p
<1>3. \A i \in 0 .. n - 1 : q[i] = a[i] \odot ExpModFr(x, i) /\ q[i] \in Fr
  <2> HIDE DEF q
  <2> QED BY PolyAtType DEF q
<1> HIDE DEF p, q
<1>4. SumFr(p, n + m) = SumFr(p, n) \oplus SumFr(r, m)
  <2>1. \A i \in 0 .. m - 1 : r[i] = p[n + i]
    OBVIOUS
  <2> HIDE DEF r
  <2> QED BY <1>2, <2>1, SumParts
<1>5. SumFr(r, m) = 0
  <2>1. ASSUME NEW i \in 0 .. m - 1
        PROVE  r[i] = 0
    <3>1. r[i] = c[n + i] \odot ExpModFr(x, n + i) /\ c[n + i] = 0 /\ ExpModFr(x, n + i) \in Fr
      BY <1>2, ExpType
    <3> QED BY <3>1, FrUnits
  <2> HIDE DEF r
  <2> QED BY <2>1, SumZero
<1>6. SumFr(p, n) = SumFr(q, n) /\ SumFr(q, n) \in Fr
  <2>1. \A i \in 0 .. n - 1 : q[i] \in Fr /\ p[i] = q[i]
    BY <1>2, <1>3
  <2> QED BY <2>1, SumEqual, SumType
<1> QED BY <1>4, <1>5, <1>6, FrUnits DEF PolyAt, p, q

(* A transform is made of values of the polynomial.                        *)
LEMMA TransformAtIs ==
    ASSUME NEW k \in Nat, NEW a, IsSlice(a, k), NEW w \in Fr, NEW i \in Nat
    PROVE  TransformAt(a, w, k, i) = PolyAt(a, TwoTo(k), ExpModFr(w, i))
<1> DEFINE n == TwoTo(k)
<1>1. n \in Nat
  BY TwoToType
<1>2. ASSUME NEW j \in 0 .. n - 1
      PROVE  a[j] \odot ExpModFr(w, i * j) = a[j] \odot ExpModFr(ExpModFr(w, i), j)
  <2>1. j \in Nat
    BY <1>1
  <2> QED BY <2>1, ExpTimes
<1>3. [j \in 0 .. n - 1 |-> a[j] \odot ExpModFr(w, i * j)] = Monomials(a, n, ExpModFr(w, i))
  <2> HIDE DEF n
  <2> QED BY <1>2 DEF Monomials
<1> QED BY <1>3 DEF TransformAt, PolyAt

-----------------------------------------------------------------------------
(* Quotients and remainders.                                               *)

(* There is only one of each.                                              *)
LEMMA QuotientIs ==
    ASSUME NEW n \in Nat \ {0}, NEW q \in Int, NEW r \in 0 .. n - 1
    PROVE  (n * q + r) \div n = q /\ (n * q + r) % n = r
<1> DEFINE a == n * q + r
           k == a \div n
           s == a % n
<1>1. a \in Int /\ r \in Int /\ 0 <= r /\ r < n
  OBVIOUS
<1>2. k \in Int /\ s \in Int /\ 0 <= s /\ s < n /\ a = n * k + s
  <2> HIDE DEF a
  <2> QED BY <1>1
<1> DEFINE d == q - k
<1>3. n * d = s - r /\ d \in Int
  <2>1. n * q + r = n * k + s
    BY <1>2
  <2> HIDE DEF k, s
  <2> QED BY <1>1, <1>2, <2>1
<1>4. d = 0
  <2> HIDE DEF d, s, k
  <2>1. ~ (d >= 1)
    BY <1>1, <1>2, <1>3
  <2>2. ~ (d <= -1)
    BY <1>1, <1>2, <1>3
  <2> QED BY <1>3, <2>1, <2>2
<1>5. q = k /\ s = r
  <2> HIDE DEF k, s
  <2>1. n * 0 = 0
    OBVIOUS
  <2> QED BY <1>1, <1>2, <1>3, <1>4, <2>1
<1> QED BY <1>5

(* Places on a circle of n.                                                *)
LEMMA TurnedIs ==
    ASSUME NEW n \in Nat \ {0}, NEW i \in 0 .. n - 1, NEW j \in 0 .. n - 1
    PROVE  /\ (j - i) % n = IF j >= i THEN j - i ELSE n + j - i
           /\ (j - i) % n \in 0 .. n - 1
<1>1. CASE j >= i
  <2>1. j - i \in 0 .. n - 1 /\ n * 0 + (j - i) = j - i
    BY <1>1
  <2>2. (n * 0 + (j - i)) % n = j - i
    BY <2>1, QuotientIs
  <2> QED BY <1>1, <2>1, <2>2
<1>2. CASE ~ (j >= i)
  <2> DEFINE r == n + j - i
  <2>1. r \in 0 .. n - 1 /\ n * (-1) + r = j - i /\ -1 \in Int
    BY <1>2
  <2> HIDE DEF r
  <2>2. (n * (-1) + r) % n = r
    BY <2>1, QuotientIs
  <2> QED BY <1>2, <2>1, <2>2 DEF r
<1> QED BY <1>1, <1>2

-----------------------------------------------------------------------------
(* Sums in another order.                                                  *)

(* Turned by i places.                                                     *)
LEMMA SumTurns ==
    ASSUME NEW n \in Nat, NEW i \in 0 .. n - 1, NEW g, \A j \in 0 .. n - 1 : g[j] \in Fr,
           NEW f, \A j \in 0 .. n - 1 : f[j] = g[(j - i) % n]
    PROVE  SumFr(f, n) = SumFr(g, n)
<1> DEFINE m == n - i
           fr == [j \in 0 .. m - 1 |-> f[i + j]]
           gr == [j \in 0 .. i - 1 |-> g[m + j]]
<1>1. /\ n \in Nat \ {0} /\ i \in Nat /\ m \in Nat /\ i + m = n /\ m + i = n
      /\ \A j \in 0 .. n - 1 : f[j] = g[IF j >= i THEN j - i ELSE n + j - i]
      /\ \A j \in 0 .. n - 1 : f[j] \in Fr
  <2>1. n \in Nat \ {0}
    OBVIOUS
  <2>2. \A j \in 0 .. n - 1 : (j - i) % n = IF j >= i THEN j - i ELSE n + j - i
    BY <2>1, TurnedIs
  <2>3. \A j \in 0 .. n - 1 : (IF j >= i THEN j - i ELSE n + j - i) \in 0 .. n - 1
    OBVIOUS
  <2> QED BY <2>1, <2>2, <2>3
<1>2. SumFr(f, i + m) = SumFr(f, i) \oplus SumFr(fr, m)
  <2>1. /\ \A j \in 0 .. i + m - 1 : f[j] \in Fr
        /\ \A j \in 0 .. m - 1 : fr[j] = f[i + j]
    BY <1>1
  <2> HIDE DEF m, fr
  <2> QED BY <1>1, <2>1, SumParts
<1>3. SumFr(g, m + i) = SumFr(g, m) \oplus SumFr(gr, i)
  <2>1. /\ \A j \in 0 .. m + i - 1 : g[j] \in Fr
        /\ \A j \in 0 .. i - 1 : gr[j] = g[m + j]
    BY <1>1
  <2> HIDE DEF m, gr
  <2> QED BY <1>1, <2>1, SumParts
<1>4. SumFr(fr, m) = SumFr(g, m) /\ SumFr(g, m) \in Fr
  <2>1. ASSUME NEW j \in 0 .. m - 1
        PROVE  g[j] \in Fr /\ fr[j] = g[j]
    <3>1. i + j \in 0 .. n - 1 /\ i + j >= i /\ (i + j) - i = j /\ j \in 0 .. n - 1
      BY <1>1
    <3>2. fr[j] = f[i + j]
      OBVIOUS
    <3> HIDE DEF fr, m
    <3> QED BY <1>1, <3>1, <3>2
  <2> HIDE DEF fr, m
  <2> QED BY <1>1, <2>1, SumEqual, SumType
<1>5. SumFr(f, i) = SumFr(gr, i) /\ SumFr(gr, i) \in Fr
  <2>1. ASSUME NEW j \in 0 .. i - 1
        PROVE  gr[j] \in Fr /\ f[j] = gr[j]
    <3>1. j \in 0 .. n - 1 /\ ~ (j >= i) /\ n + j - i = m + j /\ m + j \in 0 .. n - 1
      BY <1>1
    <3>2. gr[j] = g[m + j]
      OBVIOUS
    <3> HIDE DEF gr, m
    <3> QED BY <1>1, <3>1, <3>2
  <2> HIDE DEF gr
  <2> QED BY <1>1, <2>1, SumEqual, SumType
<1> HIDE DEF m, fr, gr
<1> QED BY <1>1, <1>2, <1>3, <1>4, <1>5, FrCommutes

(* From the last to the first.                                             *)
LEMMA SumReverses ==
    ASSUME NEW n \in Nat, NEW g, \A j \in 0 .. n - 1 : g[j] \in Fr,
           NEW f, \A j \in 0 .. n - 1 : f[j] = g[n - 1 - j]
    PROVE  SumFr(f, n) = SumFr(g, n)
<1> DEFINE rest(m) == [j \in 0 .. m - 1 |-> g[n - m + j]]
           S == {m \in 0 .. n : SumFr(f, m) = SumFr(rest(m), m)}
<1>1. 0 \in S
  BY SumEmpty
<1>2. ASSUME NEW m \in 0 .. n - 1, m \in S
      PROVE  m + 1 \in S
  <2> DEFINE r == rest(m + 1)
             q == n - m - 1
  <2>1. /\ \A j \in 0 .. m : f[j] = g[n - 1 - j] /\ f[j] \in Fr
        /\ \A j \in 0 .. m : r[j] = g[q + j] /\ r[j] \in Fr
        /\ \A j \in 0 .. m - 1 : rest(m)[j] = r[1 + j]
        /\ q \in 0 .. n - 1 /\ m \in Nat /\ 1 + m = m + 1 /\ \A j \in 0 .. m - 1 : rest(m)[j] \in Fr
    <3>1. /\ q \in 0 .. n - 1 /\ m \in Nat /\ 1 + m = m + 1
          /\ \A j \in 0 .. m : q + j \in 0 .. n - 1 /\ n - 1 - j \in 0 .. n - 1 /\ j \in 0 .. n - 1
          /\ \A j \in 0 .. m : n - (m + 1) + j = q + j
          /\ \A j \in 0 .. m - 1 : n - m + j = q + (1 + j) /\ 1 + j \in 0 .. m
      OBVIOUS
    <3>2. /\ \A j \in 0 .. m : r[j] = g[n - (m + 1) + j]
          /\ \A j \in 0 .. m - 1 : rest(m)[j] = g[n - m + j]
      OBVIOUS
    <3> HIDE DEF rest, r, q
    <3> QED BY <3>1, <3>2
  <2>2. SumFr(f, m) = SumFr(rest(m), m)
    BY <1>2
  <2> HIDE DEF rest, r, q
  <2>3. SumFr(f, m + 1) = SumFr(f, m) \oplus f[m] /\ SumFr(f, m) \in Fr
    BY <2>1, SumNext
  <2>4. SumFr(r, 1 + m) = SumFr(r, 1) \oplus SumFr(rest(m), m)
    <3>1. /\ \A j \in 0 .. 1 + m - 1 : r[j] \in Fr
          /\ \A j \in 0 .. m - 1 : rest(m)[j] = r[1 + j]
      BY <2>1
    <3> QED BY <2>1, <3>1, SumParts
  <2>5. SumFr(r, 1) = r[0]
    <3>1. SumFr(r, 0 + 1) = SumFr(r, 0) \oplus r[0] /\ r[0] \in Fr
      <4>1. \A j \in 0 .. 0 : r[j] \in Fr
        BY <2>1
      <4> QED BY <4>1, SumNext
    <3> QED BY <3>1, SumEmpty, FrUnits
  <2>6. f[m] = r[0] /\ f[m] \in Fr
    <3>1. n - 1 - m = q + 0
      BY DEF q
    <3> QED BY <2>1, <3>1
  <2>7. SumFr(f, m) \oplus f[m] = f[m] \oplus SumFr(f, m)
    BY <2>3, <2>6, FrCommutes
  <2> QED BY <2>1, <2>2, <2>3, <2>4, <2>5, <2>6, <2>7 DEF r
<1>3. n \in S
  <2>1. \A i \in 0 .. n - 1 : i \in S => i + 1 \in S
    BY <1>2
  <2> HIDE DEF S
  <2>2. \A i \in 0 .. n : i \in S
    BY ONLY n \in Nat, <1>1, <2>1, CountTo
  <2>3. n \in 0 .. n
    OBVIOUS
  <2> QED BY <2>2, <2>3
<1>4. \A j \in 0 .. n - 1 : rest(n)[j] = g[j]
  OBVIOUS
<1>5. SumFr(rest(n), n) = SumFr(g, n)
  <2> HIDE DEF rest
  <2> QED BY <1>4, SumEqual
<1> QED BY <1>3, <1>5

-----------------------------------------------------------------------------
(* The product of polynomials modulo X ** n - 1.                           *)

Turn(x, t, n, j) == [i \in 0 .. n - 1 |-> x[i] \odot t[(j - i) % n]]
Convolution(x, t, n) == [j \in 0 .. n - 1 |-> SumFr(Turn(x, t, n, j), n)]

(* A product modulo X ** n - 1 is a slice, and so are its terms.           *)
LEMMA ConvolutionType ==
    ASSUME NEW k \in Nat, NEW x, IsSlice(x, k), NEW t, IsSlice(t, k)
    PROVE  /\ IsSlice(Convolution(x, t, TwoTo(k)), k)
           /\ \A j \in 0 .. TwoTo(k) - 1 : \A i \in 0 .. TwoTo(k) - 1 :
                  /\ x[i] \in Fr /\ t[(j - i) % TwoTo(k)] \in Fr
                  /\ Turn(x, t, TwoTo(k), j)[i] = x[i] \odot t[(j - i) % TwoTo(k)]
                  /\ Turn(x, t, TwoTo(k), j)[i] \in Fr
<1> DEFINE n == TwoTo(k)
<1>1. n \in Nat \ {0} /\ x \in [0 .. n - 1 -> Fr] /\ t \in [0 .. n - 1 -> Fr]
  BY TwoToType DEF IsSlice
<1> HIDE DEF n
<1>2. ASSUME NEW j \in 0 .. n - 1, NEW i \in 0 .. n - 1
      PROVE  /\ x[i] \in Fr /\ t[(j - i) % n] \in Fr
             /\ Turn(x, t, n, j)[i] = x[i] \odot t[(j - i) % n]
             /\ Turn(x, t, n, j)[i] \in Fr
  <2>1. (j - i) % n \in 0 .. n - 1
    BY <1>1, TurnedIs
  <2>2. x[i] \in Fr /\ t[(j - i) % n] \in Fr
    BY <1>1, <2>1
  <2>3. Turn(x, t, n, j)[i] = x[i] \odot t[(j - i) % n]
    BY DEF Turn
  <2> QED BY <2>2, <2>3, FrClosed
<1>3. ASSUME NEW j \in 0 .. n - 1
      PROVE  SumFr(Turn(x, t, n, j), n) \in Fr
  BY <1>1, <1>2, SumType
<1>4. Convolution(x, t, n) \in [0 .. n - 1 -> Fr]
  BY <1>3 DEF Convolution
<1> QED BY <1>2, <1>4 DEF IsSlice, n

(* Its values are the products of the values.                              *)
LEMMA ConvolutionTransforms ==
    ASSUME NEW k \in Nat, NEW w, IsRoot(w, k), NEW x, IsSlice(x, k), NEW t, IsSlice(t, k),
           NEW l \in 0 .. TwoTo(k) - 1
    PROVE  TransformAt(Convolution(x, t, TwoTo(k)), w, k, l)
               = TransformAt(x, w, k, l) \odot TransformAt(t, w, k, l)
<1> DEFINE n == TwoTo(k)
           v == Convolution(x, t, n)
           p(j) == ExpModFr(w, l * j)
           xp == [i \in 0 .. n - 1 |-> x[i] \odot p(i)]
           tp == [i \in 0 .. n - 1 |-> t[i] \odot p(i)]
           vp == [j \in 0 .. n - 1 |-> v[j] \odot p(j)]
           tt == SumFr(tp, n)
           turned(i) == [j \in 0 .. n - 1 |-> tp[(j - i) % n]]
           e == [j \in 0 .. n - 1 |-> [i \in 0 .. n - 1 |-> p(j) \odot Turn(x, t, n, j)[i]]]
           f == [i \in 0 .. n - 1 |-> [j \in 0 .. n - 1 |-> xp[i] \odot turned(i)[j]]]
           c == [i \in 0 .. n - 1 |-> tt \odot xp[i]]
<1>1. /\ n \in Nat /\ n \in Nat \ {0} /\ w \in Fr /\ l \in Nat
      /\ x \in [0 .. n - 1 -> Fr] /\ t \in [0 .. n - 1 -> Fr]
      /\ \A j \in 0 .. n - 1 : j \in Nat /\ l * j \in Nat
  <2>1. n \in Nat /\ n \in Nat \ {0} /\ w \in Fr
        /\ x \in [0 .. n - 1 -> Fr] /\ t \in [0 .. n - 1 -> Fr]
    <3>1. n \in Nat /\ n > 0
      BY TwoToType
    <3>2. w \in Fr
      BY DEF IsRoot
    <3>3. x \in [0 .. n - 1 -> Fr] /\ t \in [0 .. n - 1 -> Fr]
      BY DEF IsSlice
    <3> HIDE DEF n
    <3>4. n \in Nat \ {0}
      BY <3>1
    <3> QED BY <3>1, <3>2, <3>3, <3>4
  <2> HIDE DEF n
  <2>2. \A j \in 0 .. n - 1 : j \in Nat
    BY <2>1
  <2>3. l \in Nat
    BY <2>1 DEF n
  <2> QED BY <2>1, <2>2, <2>3
<1>2. \A j \in 0 .. n - 1 : p(j) \in Fr
  BY <1>1, ExpType
<1>3. \A i \in 0 .. n - 1 : /\ xp[i] = x[i] \odot p(i) /\ xp[i] \in Fr
                            /\ tp[i] = t[i] \odot p(i) /\ tp[i] \in Fr
  <2> HIDE DEF n, p
  <2> QED BY <1>1, <1>2, FrClosed
<1>4. tt \in Fr /\ SumFr(xp, n) \in Fr
  <2> HIDE DEF n, tp, xp
  <2> QED BY <1>1, <1>3, SumType
<1>5. ASSUME NEW i \in 0 .. n - 1, NEW j \in 0 .. n - 1
      PROVE  /\ e[j][i] = p(j) \odot Turn(x, t, n, j)[i]
             /\ f[i][j] = xp[i] \odot turned(i)[j]
             /\ turned(i)[j] = tp[(j - i) % n] /\ turned(i)[j] \in Fr
             /\ e[j][i] \in Fr /\ f[i][j] = e[j][i]
  <2> DEFINE q == (j - i) % n
  <2>1. q \in 0 .. n - 1 /\ q = IF j >= i THEN j - i ELSE n + j - i
    <3> HIDE DEF n
    <3> QED BY <1>1, TurnedIs
  <2>2. /\ e[j][i] = p(j) \odot Turn(x, t, n, j)[i] /\ f[i][j] = xp[i] \odot turned(i)[j]
        /\ turned(i)[j] = tp[q]
    OBVIOUS
  <2>3. Turn(x, t, n, j)[i] = x[i] \odot t[q]
    BY DEF Turn
  <2>4. p(i) \odot p(q) = p(j)
    <3>1. i \in Nat /\ j \in Nat /\ q \in Nat /\ l * i \in Nat /\ l * q \in Nat /\ l * j \in Nat
      <4> HIDE DEF q, n
      <4> QED BY <1>1, <2>1
    <3>2. ExpModFr(w, l * i + l * q) = p(i) \odot p(q)
      <4> HIDE DEF q
      <4> QED BY <1>1, <3>1, ExpAdds
    <3>3. CASE j >= i
      <4>1. q = j - i
        BY <2>1, <3>3
      <4> HIDE DEF q
      <4>2. l * i + l * q = l * j
        BY <1>1, <3>1, <4>1
      <4> QED BY <3>2, <4>2
    <3>4. CASE ~ (j >= i)
      <4>1. q = n + j - i
        BY <2>1, <3>4
      <4> HIDE DEF q, n
      <4>2. l * i + l * q = n * l + l * j
        <5>1. \A y, z, y1 \in Int : y * z + y * (y1 - z) = y * y1
          OBVIOUS
        <5>2. l * i + l * ((n + j) - i) = l * (n + j) /\ l * (n + j) = n * l + l * j
          BY <1>1, <3>1, <5>1
        <5> QED BY <1>1, <3>1, <4>1, <5>2
      <4>3. ExpModFr(w, n * l + l * j) = ExpModFr(w, l * j)
        BY <1>1, <3>1, RootPeriod DEF n
      <4> QED BY <3>2, <4>2, <4>3
    <3> QED BY <3>3, <3>4
  <2>5. x[i] \in Fr /\ t[q] \in Fr /\ tp[q] = t[q] \odot p(q) /\ tp[q] \in Fr /\ p(q) \in Fr
        /\ xp[i] = x[i] \odot p(i) /\ p(i) \in Fr /\ p(j) \in Fr
    <3> HIDE DEF tp, xp, q, n, p
    <3> QED BY <1>1, <1>2, <1>3, <2>1
  <2> HIDE DEF e, f, xp, tp, turned, p, q, n
  <2>6. (x[i] \odot p(i)) \odot (t[q] \odot p(q)) = (x[i] \odot t[q]) \odot p(j)
    BY <2>4, <2>5, FrExchange
  <2>7. x[i] \odot t[q] \in Fr
    BY <2>5, FrClosed
  <2>8. (x[i] \odot t[q]) \odot p(j) = p(j) \odot (x[i] \odot t[q]) /\ p(j) \odot (x[i] \odot t[q]) \in Fr
    BY <2>5, <2>7, FrCommutes, FrClosed
  <2> QED BY <2>2, <2>3, <2>5, <2>6, <2>8 DEF q
<1>6. RowSums(e, vp, n, n)
  <2>1. ASSUME NEW j \in 0 .. n - 1
        PROVE  vp[j] = SumFr(e[j], n)
    <3>1. vp[j] = v[j] \odot p(j) /\ v[j] = SumFr(Turn(x, t, n, j), n)
      BY DEF Convolution
    <3>2. \A i \in 0 .. n - 1 : Turn(x, t, n, j)[i] \in Fr /\ e[j][i] = p(j) \odot Turn(x, t, n, j)[i]
      BY <1>5, ConvolutionType
    <3>3. p(j) \in Fr
      BY <1>2
    <3> HIDE DEF v, vp, p, e, n
    <3>4. SumFr(e[j], n) = p(j) \odot SumFr(Turn(x, t, n, j), n)
      BY <1>1, <3>2, <3>3, SumTimes
    <3>5. SumFr(Turn(x, t, n, j), n) \in Fr
      BY <1>1, <3>2, SumType
    <3> QED BY <3>1, <3>3, <3>4, <3>5, FrCommutes
  <2> HIDE DEF e, vp, n
  <2> QED BY <2>1 DEF RowSums
<1>7. RowSums(f, c, n, n)
  <2>1. ASSUME NEW i \in 0 .. n - 1
        PROVE  c[i] = SumFr(f[i], n)
    <3>1. SumFr(turned(i), n) = tt
      <4>1. \A j \in 0 .. n - 1 : tp[j] \in Fr /\ turned(i)[j] = tp[(j - i) % n]
        BY <1>3
      <4> HIDE DEF tp, turned, n
      <4> QED BY <1>1, <4>1, SumTurns
    <3>2. \A j \in 0 .. n - 1 : turned(i)[j] \in Fr /\ f[i][j] = xp[i] \odot turned(i)[j]
      BY <1>5
    <3>3. c[i] = tt \odot xp[i] /\ xp[i] \in Fr
      BY <1>3
    <3> HIDE DEF c, f, xp, turned, n, tt
    <3>4. SumFr(f[i], n) = xp[i] \odot SumFr(turned(i), n)
      BY <1>1, <3>2, <3>3, SumTimes
    <3> QED BY <1>4, <3>1, <3>3, <3>4, FrCommutes
  <2> HIDE DEF f, c, n
  <2> QED BY <2>1 DEF RowSums
<1>8. \A j \in 0 .. n - 1 : \A i \in 0 .. n - 1 : e[j][i] \in Fr /\ f[i][j] = e[j][i]
  BY <1>5
<1>9. SumFr(c, n) = tt \odot SumFr(xp, n)
  <2>1. \A i \in 0 .. n - 1 : xp[i] \in Fr /\ c[i] = tt \odot xp[i]
    BY <1>3
  <2> HIDE DEF c, xp, n, tt
  <2> QED BY <1>1, <1>4, <2>1, SumTimes
<1>10. /\ TransformAt(v, w, k, l) = SumFr(vp, n)
       /\ TransformAt(x, w, k, l) = SumFr(xp, n) /\ TransformAt(t, w, k, l) = tt
  <2> HIDE DEF v
  <2> QED BY DEF TransformAt
<1> HIDE DEF e, f, vp, c, xp, tp, tt, n, p, turned, v
<1>11. SumFr(vp, n) = SumFr(c, n)
  <2>1. /\ RowSums(e, vp, n, n) /\ RowSums(f, c, n, n) /\ n \in Nat
        /\ \A j \in 0 .. n - 1 : \A i \in 0 .. n - 1 : e[j][i] \in Fr /\ f[i][j] = e[j][i]
    BY <1>1, <1>6, <1>7, <1>8
  <2> QED BY <2>1, SumExchanges
<1>12. tt \odot SumFr(xp, n) = SumFr(xp, n) \odot tt
  BY <1>4, FrCommutes
<1> QED BY <1>9, <1>10, <1>11, <1>12 DEF v, n

-----------------------------------------------------------------------------
(* Polynomials in parts.                                                   *)

(* The coefficients from p on are those of a polynomial of their own.      *)
LEMMA PolyAtParts ==
    ASSUME NEW p \in Nat, NEW q \in Nat, NEW a, \A i \in 0 .. p + q - 1 : a[i] \in Fr,
           NEW x \in Fr, NEW b, \A i \in 0 .. q - 1 : b[i] = a[p + i]
    PROVE  PolyAt(a, p + q, x) = PolyAt(a, p, x) \oplus (ExpModFr(x, p) \odot PolyAt(b, q, x))
<1> DEFINE m == Monomials(a, p + q, x)
           low == Monomials(a, p, x)
           high == Monomials(b, q, x)
           rest == [i \in 0 .. q - 1 |-> m[p + i]]
           xp == ExpModFr(x, p)
<1>1. /\ \A i \in 0 .. p + q - 1 : m[i] = a[i] \odot ExpModFr(x, i) /\ m[i] \in Fr
      /\ \A i \in 0 .. p - 1 : low[i] = a[i] \odot ExpModFr(x, i) /\ low[i] \in Fr
  <2>1. p + q \in Nat /\ \A i \in 0 .. p - 1 : a[i] \in Fr
    OBVIOUS
  <2> HIDE DEF m, low
  <2>2. \A i \in 0 .. p + q - 1 : m[i] = a[i] \odot ExpModFr(x, i) /\ m[i] \in Fr
    BY <2>1, PolyAtType DEF m
  <2>3. \A i \in 0 .. p - 1 : low[i] = a[i] \odot ExpModFr(x, i) /\ low[i] \in Fr
    BY <2>1, PolyAtType DEF low
  <2> QED BY <2>2, <2>3
<1>2. \A i \in 0 .. q - 1 : high[i] = b[i] \odot ExpModFr(x, i) /\ high[i] \in Fr /\ b[i] \in Fr
  <2>1. \A i \in 0 .. q - 1 : b[i] \in Fr
    OBVIOUS
  <2> HIDE DEF high
  <2> QED BY <2>1, PolyAtType DEF high
<1>3. xp \in Fr
  BY ExpType
<1>4. SumFr(m, p + q) = SumFr(m, p) \oplus SumFr(rest, q)
  <2>1. \A i \in 0 .. q - 1 : rest[i] = m[p + i]
    OBVIOUS
  <2> HIDE DEF rest, m
  <2> QED BY <1>1, <2>1, SumParts
<1>5. SumFr(m, p) = SumFr(low, p)
  <2>1. \A i \in 0 .. p - 1 : low[i] \in Fr /\ m[i] = low[i]
    <3> HIDE DEF m, low
    <3> QED BY <1>1
  <2> HIDE DEF m, low
  <2> QED BY <2>1, SumEqual
<1>6. SumFr(rest, q) = xp \odot SumFr(high, q)
  <2>1. ASSUME NEW i \in 0 .. q - 1
        PROVE  high[i] \in Fr /\ rest[i] = xp \odot high[i]
    <3>1. rest[i] = m[p + i] /\ p + i \in 0 .. p + q - 1 /\ i \in Nat
      OBVIOUS
    <3>2. ExpModFr(x, p + i) = xp \odot ExpModFr(x, i) /\ ExpModFr(x, i) \in Fr
      BY <3>1, ExpAdds, ExpType
    <3> DEFINE xi == ExpModFr(x, i)
    <3>3. rest[i] = b[i] \odot (xp \odot xi) /\ high[i] = b[i] \odot xi /\ high[i] \in Fr /\ b[i] \in Fr
      <4> HIDE DEF rest, m, high, xp
      <4> QED BY <1>1, <1>2, <3>1, <3>2
    <3> HIDE DEF rest, high, xp, xi
    <3>4. xi \in Fr /\ xp \odot xi \in Fr
      BY <1>3, <3>2, FrClosed DEF xi
    <3>5. b[i] \odot (xp \odot xi) = (xp \odot xi) \odot b[i]
      BY <3>3, <3>4, FrCommutes
    <3>6. (xp \odot xi) \odot b[i] = xp \odot (xi \odot b[i])
      BY <1>3, <3>3, <3>4, FrAssociates
    <3>7. xi \odot b[i] = b[i] \odot xi
      BY <3>3, <3>4, FrCommutes
    <3> QED BY <3>3, <3>5, <3>6, <3>7
  <2> HIDE DEF rest, high, xp
  <2> QED BY <1>3, <2>1, SumTimes
<1> QED BY <1>4, <1>5, <1>6 DEF PolyAt

(* Only the coefficients matter.                                           *)
LEMMA PolyAtEqual ==
    ASSUME NEW n \in Nat, NEW a, NEW b, \A i \in 0 .. n - 1 : a[i] \in Fr /\ b[i] = a[i],
           NEW x \in Fr
    PROVE  PolyAt(b, n, x) = PolyAt(a, n, x)
<1>1. \A i \in 0 .. n - 1 : a[i] \odot ExpModFr(x, i) = b[i] \odot ExpModFr(x, i)
  OBVIOUS
<1>2. Monomials(a, n, x) = Monomials(b, n, x)
  BY <1>1 DEF Monomials
<1> QED BY <1>2 DEF PolyAt

(* The sum of a polynomial and a multiple of another.                      *)
Combines(c, a, y, b, n) ==
    \A i \in 0 .. n - 1 : a[i] \in Fr /\ b[i] \in Fr /\ c[i] = a[i] \oplus (y \odot b[i])

(* The value of a combination is the combination of the values.            *)
LEMMA PolyAtLinear ==
    ASSUME NEW n \in Nat, NEW a, NEW b, NEW c, NEW y \in Fr, NEW x \in Fr,
           Combines(c, a, y, b, n)
    PROVE  PolyAt(c, n, x) = PolyAt(a, n, x) \oplus (y \odot PolyAt(b, n, x))
<1> DEFINE am == Monomials(a, n, x)
           bm == Monomials(b, n, x)
           cm == Monomials(c, n, x)
           ym == [i \in 0 .. n - 1 |-> y \odot bm[i]]
<1>1. \A i \in 0 .. n - 1 : a[i] \in Fr /\ b[i] \in Fr /\ c[i] \in Fr
  BY FrClosed DEF Combines
<1>2. \A i \in 0 .. n - 1 : /\ am[i] = a[i] \odot ExpModFr(x, i) /\ am[i] \in Fr
                            /\ bm[i] = b[i] \odot ExpModFr(x, i) /\ bm[i] \in Fr
                            /\ cm[i] = c[i] \odot ExpModFr(x, i)
                            /\ ym[i] = y \odot bm[i]
  <2>1. /\ \A i \in 0 .. n - 1 : a[i] \in Fr
        /\ \A i \in 0 .. n - 1 : b[i] \in Fr
        /\ \A i \in 0 .. n - 1 : c[i] \in Fr
    BY <1>1
  <2>2. \A i \in 0 .. n - 1 : ym[i] = y \odot bm[i]
    OBVIOUS
  <2> HIDE DEF am, bm, cm, ym
  <2> QED BY <2>1, <2>2, PolyAtType DEF am, bm, cm
<1> HIDE DEF am, bm, cm, ym
<1>3. SumFr(ym, n) = y \odot SumFr(bm, n)
  BY <1>2, SumTimes
<1>4. SumFr(cm, n) = SumFr(am, n) \oplus SumFr(ym, n)
  <2>1. ASSUME NEW i \in 0 .. n - 1
        PROVE  am[i] \in Fr /\ ym[i] \in Fr /\ cm[i] = am[i] \oplus ym[i]
    <3> DEFINE xi == ExpModFr(x, i)
    <3>1. xi \in Fr /\ a[i] \in Fr /\ b[i] \in Fr /\ y \odot b[i] \in Fr
      BY ExpType, FrClosed DEF Combines
    <3>2. cm[i] = (a[i] \oplus (y \odot b[i])) \odot xi
      BY <1>2 DEF Combines
    <3> HIDE DEF xi
    <3>3. (a[i] \oplus (y \odot b[i])) \odot xi = (a[i] \odot xi) \oplus ((y \odot b[i]) \odot xi)
      BY <3>1, FrDistributes
    <3>4. (y \odot b[i]) \odot xi = y \odot (b[i] \odot xi)
      BY <3>1, FrAssociates
    <3>5. am[i] = a[i] \odot xi /\ bm[i] = b[i] \odot xi /\ ym[i] = y \odot bm[i]
          /\ am[i] \in Fr /\ bm[i] \in Fr
      BY <1>2 DEF xi
    <3>6. ym[i] \in Fr
      BY <3>5, FrClosed
    <3> QED BY <3>2, <3>3, <3>4, <3>5, <3>6
  <2> QED BY <2>1, SumAdds
<1> QED BY <1>3, <1>4 DEF PolyAt, am, bm, cm

(* Numbers each of which is made of the next one: their polynomial at y,   *)
(* without the first, is the quotient by s - y.                            *)
LEMMA Telescope ==
    ASSUME NEW n \in Nat, NEW s \in Fr, NEW y \in Fr, NEW h, \A j \in 0 .. n : h[j] \in Fr,
           h[n] = 0, NEW b, NEW g,
           \A j \in 0 .. n - 1 : b[j] \in Fr /\ h[j] = b[j] \oplus (s \odot h[j + 1])
                                 /\ g[j] = h[j + 1]
    PROVE  PolyAt(g, n, y) \odot (s \ominus y) = h[0] \ominus PolyAt(b, n, y)
<1> DEFINE p == PolyAt(g, n, y)
           q == PolyAt(b, n, y)
<1>1. \A j \in 0 .. n - 1 : g[j] \in Fr /\ b[j] \in Fr
  OBVIOUS
<1>2. p \in Fr /\ q \in Fr /\ h[0] \in Fr
  <2>1. /\ \A j \in 0 .. n - 1 : g[j] \in Fr
        /\ \A j \in 0 .. n - 1 : b[j] \in Fr
    BY <1>1
  <2> QED BY <2>1, PolyAtType
<1>3. PolyAt(h, n + 1, y) = (p \odot y) \oplus h[0]
  <2>1. \A j \in 0 .. n - 1 : g[j] = h[j + 1]
    OBVIOUS
  <2> QED BY <2>1, PolyAtFirst
<1>4. PolyAt(h, n + 1, y) = PolyAt(h, n, y)
  <2>1. /\ \A j \in 0 .. n - 1 : h[j] \in Fr /\ h[j] = h[j]
        /\ \A j \in n .. n + 1 - 1 : h[j] = 0 /\ 1 \in Nat
    OBVIOUS
  <2> QED BY <2>1, PolyAtZeros
<1>5. PolyAt(h, n, y) = q \oplus (s \odot p)
  <2>1. Combines(h, b, s, g, n)
    BY <1>1 DEF Combines
  <2> QED BY <2>1, PolyAtLinear
<1> HIDE DEF p, q
<1>6. /\ p \odot y \in Fr /\ s \odot p \in Fr /\ p \odot s = s \odot p
      /\ p \odot (s \ominus y) = (p \odot s) \ominus (p \odot y)
  BY <1>2, FrClosed, FrCommutes, FrDifferences
<1> DEFINE py == p \odot y
           sp == s \odot p
<1>7. py \oplus h[0] = q \oplus sp /\ py \in Fr /\ sp \in Fr
  BY <1>3, <1>4, <1>5, <1>6
<1> HIDE DEF py, sp
<1>8. (q \oplus sp) \ominus (q \oplus py) = sp \ominus py
  <2>1. (q \oplus sp) \ominus (q \oplus py) = (q \ominus q) \oplus (sp \ominus py)
    BY <1>2, <1>7, FrDifferences
  <2> QED BY <1>2, <1>7, <2>1, FrUnits, FrClosed
<1>9. (py \oplus h[0]) \ominus (py \oplus q) = h[0] \ominus q
  <2>1. (py \oplus h[0]) \ominus (py \oplus q) = (py \ominus py) \oplus (h[0] \ominus q)
    BY <1>2, <1>7, FrDifferences
  <2> QED BY <1>2, <1>7, <2>1, FrUnits, FrClosed
<1>10. q \oplus py = py \oplus q
  BY <1>2, <1>7, FrCommutes
<1> QED BY <1>6, <1>7, <1>8, <1>9, <1>10 DEF p, q, py, sp

-----------------------------------------------------------------------------
(* The transform of a sum of slices is the sum of their transforms.        *)
TransformsAt(parts, m, w, k, i) == [o \in 0 .. m - 1 |-> TransformAt(parts[o], w, k, i)]
AreSlices(parts, m, k) == \A o \in 0 .. m - 1 : IsSlice(parts[o], k)
SumOf(parts, m, k) == [j \in 0 .. TwoTo(k) - 1 |-> SumFr([o \in 0 .. m - 1 |-> parts[o][j]], m)]

(* A transform of the sum of m slices, place by place.                     *)
LEMMA TransformOfSums ==
    ASSUME NEW k \in Nat, NEW w \in Fr, NEW m \in Nat, NEW parts,
           AreSlices(parts, m, k), NEW i \in Nat
    PROVE  /\ IsSlice(SumOf(parts, m, k), k)
           /\ TransformAt(SumOf(parts, m, k), w, k, i) = SumFr(TransformsAt(parts, m, w, k, i), m)
<1> DEFINE a == SumOf(parts, m, k)
           n == TwoTo(k)
           p(j) == ExpModFr(w, i * j)
           at(j) == [o \in 0 .. m - 1 |-> parts[o][j]]
           e == [j \in 0 .. n - 1 |-> [o \in 0 .. m - 1 |-> p(j) \odot at(j)[o]]]
           f == [o \in 0 .. m - 1 |-> [j \in 0 .. n - 1 |-> parts[o][j] \odot p(j)]]
           r == [j \in 0 .. n - 1 |-> a[j] \odot p(j)]
           c == [o \in 0 .. m - 1 |-> TransformAt(parts[o], w, k, i)]
<1>1. /\ n \in Nat /\ \A j \in 0 .. n - 1 : p(j) \in Fr /\ a[j] = SumFr(at(j), m)
  <2>1. n \in Nat
    BY TwoToType
  <2>2. ASSUME NEW j \in 0 .. n - 1
        PROVE  p(j) \in Fr
    <3>1. j \in Nat /\ i * j \in Nat
      BY <2>1
    <3> QED BY <3>1, ExpType
  <2>3. \A j \in 0 .. n - 1 : a[j] = SumFr(at(j), m)
    BY DEF SumOf
  <2> QED BY <2>1, <2>2, <2>3
<1>2. ASSUME NEW j \in 0 .. n - 1, NEW o \in 0 .. m - 1
      PROVE  /\ at(j)[o] = parts[o][j] /\ at(j)[o] \in Fr
             /\ e[j][o] = p(j) \odot at(j)[o] /\ e[j][o] \in Fr
             /\ f[o][j] = e[j][o]
  <2>1. parts[o][j] \in Fr
    BY DEF AreSlices, IsSlice
  <2>2. /\ at(j)[o] = parts[o][j] /\ e[j][o] = p(j) \odot at(j)[o] /\ f[o][j] = parts[o][j] \odot p(j)
    OBVIOUS
  <2>3. p(j) \in Fr
    BY <1>1
  <2> HIDE DEF at, e, f, p
  <2> QED BY <2>1, <2>2, <2>3, FrClosed, FrCommutes
<1>3. ASSUME NEW j \in 0 .. n - 1
      PROVE  a[j] \in Fr /\ r[j] = SumFr(e[j], m)
  <2>1. \A o \in 0 .. m - 1 : at(j)[o] \in Fr /\ e[j][o] = p(j) \odot at(j)[o]
    BY <1>2
  <2>2. r[j] = a[j] \odot p(j) /\ p(j) \in Fr /\ a[j] = SumFr(at(j), m)
    BY <1>1
  <2> HIDE DEF at, e, p, r, n
  <2>3. SumFr(e[j], m) = p(j) \odot SumFr(at(j), m) /\ SumFr(at(j), m) \in Fr
    BY <2>1, <2>2, SumTimes, SumType
  <2> QED BY <2>2, <2>3, FrCommutes
<1>4. IsSlice(a, k)
  <2>1. a = [j \in 0 .. n - 1 |-> a[j]]
    BY DEF SumOf
  <2>2. \A j \in 0 .. n - 1 : a[j] \in Fr
    BY <1>3
  <2> QED BY <2>1, <2>2 DEF IsSlice
<1>5. RowSums(e, r, n, m) /\ RowSums(f, c, m, n)
  <2>1. \A o \in 0 .. m - 1 : c[o] = SumFr(f[o], n)
    BY DEF TransformAt
  <2>2. \A j \in 0 .. n - 1 : r[j] = SumFr(e[j], m)
    BY <1>3
  <2> HIDE DEF e, f, r, c, n
  <2> QED BY <2>1, <2>2 DEF RowSums
<1>6. \A j \in 0 .. n - 1 : \A o \in 0 .. m - 1 : e[j][o] \in Fr /\ f[o][j] = e[j][o]
  BY <1>2
<1>7. TransformAt(a, w, k, i) = SumFr(r, n)
  BY DEF TransformAt
<1> HIDE DEF e, f, r, c, n
<1>8. SumFr(r, n) = SumFr(c, m)
  <2>1. /\ RowSums(e, r, n, m) /\ RowSums(f, c, m, n) /\ n \in Nat
        /\ \A j \in 0 .. n - 1 : \A o \in 0 .. m - 1 : e[j][o] \in Fr /\ f[o][j] = e[j][o]
    BY <1>1, <1>5, <1>6
  <2> QED BY <2>1, SumExchanges
<1> QED BY <1>4, <1>7, <1>8 DEF c, TransformsAt

-----------------------------------------------------------------------------
(* The reverse bit order.                                                  *)

(* The bits of a number, and those of v, 0 to k - 1, in reverse order.     *)
Bit(v, i) == (v \div TwoTo(i)) % 2
Rev(k, v) == reverseBitsLimited(TwoTo(k), v)

(* Quotient and remainder, written apart.                                  *)
LEMMA DivisionIs ==
    ASSUME NEW a \in Nat, NEW n \in Nat \ {0}
    PROVE  \E q \in Nat : \E r \in 0 .. n - 1 : a = n * q + r /\ a \div n = q
<1> DEFINE q == a \div n
           r == a % n
<1>1. q \in Int /\ r \in 0 .. n - 1 /\ a = n * q + r
  OBVIOUS
<1>2. q \in Nat
  <2> HIDE DEF q, r
  <2>1. ASSUME q <= -1
        PROVE  FALSE
    <3>1. \A x \in Nat, y \in Int : y <= -1 => x * y <= -x
      OBVIOUS
    <3>2. n * q <= -n /\ n * q \in Int
      BY <1>1, <2>1, <3>1
    <3> QED BY <1>1, <3>2
  <2> QED BY <1>1, <2>1
<1> QED BY <1>1, <1>2

(* A bit is 0 or 1.                                                        *)
LEMMA BitType == \A v, i \in Nat : Bit(v, i) \in 0 .. 1
<1>1. SUFFICES ASSUME NEW v \in Nat, NEW i \in Nat PROVE Bit(v, i) \in 0 .. 1
  OBVIOUS
<1>2. TwoTo(i) \in Nat \ {0}
  BY TwoToType
<1>3. v \div TwoTo(i) \in Nat
  BY <1>2, DivisionIs
<1> QED BY <1>3 DEF Bit

(* The bits of a number in two parts: those of the lower one, ...          *)
LEMMA BitLow ==
    ASSUME NEW a \in Nat, NEW i \in Nat, NEW u \in 0 .. TwoTo(a) - 1, NEW c \in 0 .. a - 1
    PROVE  Bit(i * TwoTo(a) + u, c) = Bit(u, c)
<1> DEFINE n == TwoTo(c)
           e == TwoTo(a - (c + 1))
<1>1. /\ n \in Nat \ {0} /\ e \in Nat /\ TwoTo(a) = n * (2 * e) /\ u \in Nat
  <2>1. c \in Nat /\ c + 1 \in 0 .. a /\ c + 1 \in Nat
    OBVIOUS
  <2>2. n \in Nat /\ n > 0 /\ TwoTo(c + 1) = 2 * n /\ TwoTo(a) \in Nat
    BY <2>1, TwoToType, TwoToNext
  <2>3. TwoTo(a) = TwoTo(c + 1) * e /\ a - (c + 1) \in Nat
    BY <2>1, TwoToDivides
  <2>4. e \in Nat
    BY <2>3, TwoToType
  <2> HIDE DEF n, e
  <2>5. (2 * n) * e = n * (2 * e)
    BY <2>2, <2>4
  <2> QED BY <2>2, <2>3, <2>4, <2>5
<1> HIDE DEF n, e
<1>2. PICK t \in Nat : \E r \in 0 .. n - 1 : u = n * t + r /\ u \div n = t
  BY <1>1, DivisionIs
<1>3. PICK r \in 0 .. n - 1 : u = n * t + r
  BY <1>2
<1> DEFINE h == 2 * (e * i) + t
<1>4. i * TwoTo(a) + u = n * h + r /\ h \in Int
  <2>1. \A x, y, z \in Nat : x * (y * (2 * z)) = y * (2 * (z * x))
    OBVIOUS
  <2>2. i * TwoTo(a) = n * (2 * (e * i))
    BY <1>1, <2>1
  <2>3. \A x, y, z \in Nat : x * y + x * z = x * (y + z)
    OBVIOUS
  <2>4. e * i \in Nat /\ 2 * (e * i) \in Nat
    <3>1. \A x, y \in Nat : x * y \in Nat
      OBVIOUS
    <3>2. e * i \in Nat
      BY <1>1, <3>1
    <3> QED BY <3>2
  <2>5. n * (2 * (e * i)) + n * t = n * h
    BY <1>1, <2>3, <2>4
  <2>6. n * (2 * (e * i)) \in Int /\ n * t \in Int /\ r \in Int
    BY <1>1, <2>4
  <2> HIDE DEF h
  <2>7. h \in Int
    BY <2>4 DEF h
  <2> QED BY <1>3, <2>2, <2>5, <2>6, <2>7
<1>5. (i * TwoTo(a) + u) \div n = h
  <2> HIDE DEF h
  <2> QED BY <1>1, <1>3, <1>4, QuotientIs
<1>6. h % 2 = t % 2
  <2>1. e * i \in Nat
    <3>1. \A x, y \in Nat : x * y \in Nat
      OBVIOUS
    <3> QED BY <1>1, <3>1
  <2>2. \A x \in Nat : (2 * x + t) % 2 = t % 2
    OBVIOUS
  <2> QED BY <2>1, <2>2
<1> QED BY <1>2, <1>5, <1>6 DEF Bit, n

(* ... and those of the upper one.                                         *)
LEMMA BitHigh ==
    ASSUME NEW a \in Nat, NEW i \in Nat, NEW u \in 0 .. TwoTo(a) - 1, NEW b \in Nat
    PROVE  Bit(i * TwoTo(a) + u, a + b) = Bit(i, b)
<1> DEFINE n == TwoTo(a)
           m == TwoTo(b)
<1>1. n \in Nat \ {0} /\ m \in Nat \ {0} /\ TwoTo(a + b) = n * m
  <2>1. n \in Nat /\ n > 0 /\ m \in Nat /\ m > 0
    BY TwoToType
  <2>2. TwoTo(a + b) = n * m
    BY TwoToAdds
  <2> HIDE DEF n, m
  <2> QED BY <2>1, <2>2
<1> HIDE DEF n, m
<1>2. PICK t \in Nat : \E r \in 0 .. m - 1 : i = m * t + r /\ i \div m = t
  BY <1>1, DivisionIs
<1>3. PICK r \in 0 .. m - 1 : i = m * t + r
  BY <1>2
<1> DEFINE l == r * n + u
<1>4. l \in 0 .. m * n - 1 /\ u + r * n = l
  <2>1. u \in 0 .. n - 1
    BY DEF n
  <2>2. u + r * n \in 0 .. m * n - 1
    BY <1>1, <1>3, <2>1, RowElement
  <2>3. r * n \in Int /\ u \in Int
    BY <1>1, <2>1
  <2> QED BY <2>2, <2>3
<1>5. i * n + u = (n * m) * t + l /\ n * m \in Nat \ {0} /\ m * n = n * m
  <2>1. r \in Nat /\ u \in Int
    BY <1>1
  <2>2. \A x, y, z, v \in Nat : (x * y + z) * v = (v * x) * y + z * v
    OBVIOUS
  <2>3. i * n = (n * m) * t + r * n
    BY <1>1, <1>3, <2>1, <2>2
  <2>4. \A x, y \in Nat \ {0} : x * y \in Nat \ {0} /\ x * y = y * x
    OBVIOUS
  <2>5. n * m \in Nat \ {0} /\ m * n = n * m
    BY <1>1, <2>4
  <2>6. (n * m) * t \in Int /\ r * n \in Int
    <3>1. \A x, y \in Nat : x * y \in Int
      OBVIOUS
    <3> QED BY <1>1, <2>1, <2>5, <3>1
  <2> QED BY <2>1, <2>3, <2>5, <2>6
<1> HIDE DEF l
<1>6. (i * n + u) \div (n * m) = t
  <2> DEFINE k == n * m
  <2>1. k \in Nat \ {0} /\ l \in 0 .. k - 1 /\ t \in Int /\ i * n + u = k * t + l
    BY <1>4, <1>5
  <2> HIDE DEF k
  <2>2. (k * t + l) \div k = t
    BY <2>1, QuotientIs
  <2> QED BY <2>1, <2>2 DEF k
<1> QED BY <1>1, <1>2, <1>6 DEF Bit, n, m

RevStep(v, n) == [i \in 1 .. n |-> [u \in Nat |-> 2 * u + Bit(v, i - 1)]]

(* reverseBitsLimited takes the steps of a loop.                           *)
LEMMA RevIsLoop ==
    ASSUME NEW n \in Nat, NEW v \in Nat
    PROVE  \E g : /\ Loop(g, n, [i \in 0 .. n |-> Nat], 0, RevStep(v, n))
                  /\ Rev(n, v) = g[n]
<1> DEFINE V == [i \in 0 .. n |-> Nat]
           F(g) == g = [i \in 0 .. n |-> IF i = 0 THEN 0 ELSE 2 * g[i - 1] + Bit(v, i - 1)]
           reversed == CHOOSE g : F(g)
<1>1. \A i \in 1 .. n : \A u \in Nat : RevStep(v, n)[i][u] = 2 * u + Bit(v, i - 1)
                                       /\ 2 * u + Bit(v, i - 1) \in Nat
  <2>1. ASSUME NEW i \in 1 .. n, NEW u \in Nat
        PROVE  RevStep(v, n)[i][u] = 2 * u + Bit(v, i - 1) /\ 2 * u + Bit(v, i - 1) \in Nat
    <3>1. i - 1 \in Nat
      OBVIOUS
    <3>2. Bit(v, i - 1) \in 0 .. 1
      BY <3>1, BitType
    <3> QED BY <3>2 DEF RevStep
  <2> QED BY <2>1
<1>2. PICK g : Loop(g, n, V, 0, RevStep(v, n))
  <2>1. 0 \in V[0]
    OBVIOUS
  <2>2. ASSUME NEW i \in 1 .. n, NEW w \in V[i - 1]
        PROVE  RevStep(v, n)[i][w] \in V[i]
    <3>1. w \in Nat /\ i \in 0 .. n
      BY <2>2
    <3>2. RevStep(v, n)[i][w] \in Nat
      BY <1>1, <3>1
    <3> QED BY <3>1, <3>2
  <2> HIDE DEF V
  <2> QED BY <2>1, <2>2, LoopRuns
<1>3. F(g)
  <2>1. \A i \in 0 .. n : g[i] \in Nat
    BY <1>2 DEF Loop
  <2>2. ASSUME NEW i \in 0 .. n
        PROVE  (IF i = 0 THEN 0 ELSE RevStep(v, n)[i][g[i - 1]])
                   = IF i = 0 THEN 0 ELSE 2 * g[i - 1] + Bit(v, i - 1)
    BY <1>1, <2>1
  <2>3. g = [i \in 0 .. n |-> IF i = 0 THEN 0 ELSE RevStep(v, n)[i][g[i - 1]]]
    BY <1>2 DEF Loop
  <2>4. [i \in 0 .. n |-> IF i = 0 THEN 0 ELSE RevStep(v, n)[i][g[i - 1]]]
            = [i \in 0 .. n |-> IF i = 0 THEN 0 ELSE 2 * g[i - 1] + Bit(v, i - 1)]
    BY <2>2
  <2> QED BY <2>3, <2>4
<1>4. F(reversed)
  <2> HIDE DEF F
  <2> QED BY <1>3
<1>5. Rev(n, v) = reversed[n]
  <2>1. bitIndex(TwoTo(n)) = n
    BY BitIndexIs
  <2> QED BY <2>1 DEF Rev, reverseBitsLimited, Bit
<1>6. \A i \in 0 .. n : reversed[i] = g[i]
  <2>1. /\ reversed[0] = 0
        /\ \A i \in 1 .. n : reversed[i] = 2 * reversed[i - 1] + Bit(v, i - 1)
    <3> HIDE DEF reversed
    <3> QED BY <1>4
  <2>2. ASSUME NEW i \in 1 .. n, reversed[i - 1] \in V[i - 1]
        PROVE  reversed[i] = RevStep(v, n)[i][reversed[i - 1]]
    <3>1. reversed[i - 1] \in Nat
      <4> HIDE DEF reversed
      <4> QED BY <2>2
    <3> HIDE DEF reversed, F, V
    <3> QED BY <1>1, <2>1, <3>1
  <2>3. Follows(reversed, n, V, 0, RevStep(v, n))
    <3> HIDE DEF reversed, F, V
    <3> QED BY <2>1, <2>2 DEF Follows
  <2> HIDE DEF reversed, F, V
  <2> QED BY <1>2, <2>3, LoopFollowed
<1>7. Rev(n, v) = g[n]
  <2> HIDE DEF reversed
  <2> QED BY <1>5, <1>6
<1> HIDE DEF F, reversed
<1> QED BY <1>2, <1>7

(* The first bit becomes the last one, and so on.                          *)
LEMMA RevZero == \A v \in Nat : Rev(0, v) = 0
<1>1. SUFFICES ASSUME NEW v \in Nat PROVE Rev(0, v) = 0
  OBVIOUS
<1>2. PICK g : Loop(g, 0, [i \in 0 .. 0 |-> Nat], 0, RevStep(v, 0)) /\ Rev(0, v) = g[0]
  BY RevIsLoop
<1> QED BY <1>2 DEF Loop

(* One more bit at the low end.                                            *)
LEMMA RevNext ==
    ASSUME NEW n \in Nat, NEW v \in Nat
    PROVE  Rev(n, v) \in Nat /\ Rev(n + 1, v) = 2 * Rev(n, v) + Bit(v, n)
<1> DEFINE step == RevStep(v, n + 1)
<1>1. PICK g : Loop(g, n, [i \in 0 .. n |-> Nat], 0, RevStep(v, n)) /\ Rev(n, v) = g[n]
  BY RevIsLoop
<1>2. PICK h : /\ Loop(h, n + 1, [i \in 0 .. n + 1 |-> Nat], 0, step)
               /\ Rev(n + 1, v) = h[n + 1]
  BY RevIsLoop
<1>3. Loop(g, n, [i \in 0 .. n |-> Nat], 0, step)
  <2>1. \A i \in 1 .. n : RevStep(v, n)[i] = step[i]
    BY DEF RevStep
  <2>2. [i \in 0 .. n |-> IF i = 0 THEN 0 ELSE RevStep(v, n)[i][g[i - 1]]]
            = [i \in 0 .. n |-> IF i = 0 THEN 0 ELSE step[i][g[i - 1]]]
    <3> HIDE DEF step
    <3> QED BY <2>1
  <2> HIDE DEF step
  <2> QED BY <1>1, <2>2 DEF Loop
<1>4. h[n] = g[n]
  <2>1. \A i \in 0 .. n : h[i] = g[i]
    <3>1. Follows(h, n, [i \in 0 .. n |-> Nat], 0, step)
      <4> HIDE DEF step
      <4> QED BY <1>2 DEF Loop, Follows
    <3> HIDE DEF step
    <3> QED BY <1>3, <3>1, LoopFollowed
  <2> QED BY <2>1
<1>5. g[n] \in Nat
  BY <1>1 DEF Loop
<1>6. h[n + 1] = step[n + 1][h[n]]
  <2>1. n + 1 \in 0 .. n + 1 /\ n + 1 # 0 /\ (n + 1) - 1 = n
    OBVIOUS
  <2> HIDE DEF step
  <2> QED BY <1>2, <2>1 DEF Loop
<1>7. step[n + 1][h[n]] = 2 * h[n] + Bit(v, n)
  <2>1. n + 1 \in 1 .. n + 1 /\ (n + 1) - 1 = n
    OBVIOUS
  <2> QED BY <1>4, <1>5, <2>1 DEF RevStep
<1> QED BY <1>1, <1>2, <1>4, <1>5, <1>6, <1>7

(* It has as many bits.                                                    *)
LEMMA RevType == \A k, v \in Nat : Rev(k, v) \in 0 .. TwoTo(k) - 1
<1>1. SUFFICES ASSUME NEW v \in Nat PROVE \A k \in Nat : Rev(k, v) \in 0 .. TwoTo(k) - 1
  OBVIOUS
<1> DEFINE S == {k \in Nat : Rev(k, v) \in 0 .. TwoTo(k) - 1}
<1>2. 0 \in S
  BY RevZero, TwoToZero
<1>3. ASSUME NEW k \in Nat, k \in S
      PROVE  k + 1 \in S
  <2>1. /\ Rev(k, v) \in 0 .. TwoTo(k) - 1 /\ Rev(k + 1, v) = 2 * Rev(k, v) + Bit(v, k)
        /\ TwoTo(k + 1) = 2 * TwoTo(k) /\ TwoTo(k) \in Nat /\ Bit(v, k) \in 0 .. 1
    BY <1>3, RevNext, TwoToNext, BitType
  <2>2. \A x, y \in Nat : \A z \in 0 .. 1 : x \in 0 .. y - 1 => 2 * x + z \in 0 .. 2 * y - 1
    OBVIOUS
  <2>3. Rev(k + 1, v) \in 0 .. TwoTo(k + 1) - 1
    <3>1. Rev(k, v) \in Nat
      BY RevNext
    <3> QED BY <2>1, <2>2, <3>1
  <2> QED BY <2>3
<1>4. \A k \in Nat : k \in S
  <2> HIDE DEF S
  <2> QED BY <1>2, <1>3, CountAll
<1> QED BY <1>4

(* The parts change places.                                                *)
LEMMA RevSplits ==
    ASSUME NEW a \in Nat, NEW b \in Nat, NEW i \in Nat, NEW u \in 0 .. TwoTo(a) - 1
    PROVE  /\ i * TwoTo(a) + u \in Nat
           /\ Rev(a + b, i * TwoTo(a) + u) = Rev(a, u) * TwoTo(b) + Rev(b, i)
<1> DEFINE v == i * TwoTo(a) + u
<1>1. TwoTo(a) \in Nat /\ u \in Nat /\ v \in Nat
  <2>1. TwoTo(a) \in Nat
    BY TwoToType
  <2>2. \A x, y \in Nat : x * y \in Nat
    OBVIOUS
  <2>3. i * TwoTo(a) \in Nat
    BY <2>1, <2>2
  <2> QED BY <2>1, <2>3
<1> DEFINE S == {c \in 0 .. a : Rev(c, v) = Rev(c, u)}
           T == {c \in Nat : Rev(a + c, v) = Rev(a, u) * TwoTo(c) + Rev(c, i)}
<1>2. \A c \in 0 .. a - 1 : Bit(v, c) = Bit(u, c)
  BY BitLow
<1>3. \A c \in Nat : Bit(v, a + c) = Bit(i, c)
  BY BitHigh
<1> HIDE DEF v
<1>4. \A c \in 0 .. a : c \in S
  <2>1. 0 \in S
    BY <1>1, RevZero
  <2>2. ASSUME NEW c \in 0 .. a - 1, c \in S
        PROVE  c + 1 \in S
    <3>1. c \in Nat /\ c + 1 \in 0 .. a
      OBVIOUS
    <3>2. /\ Rev(c + 1, v) = 2 * Rev(c, v) + Bit(v, c)
          /\ Rev(c + 1, u) = 2 * Rev(c, u) + Bit(u, c)
      BY <1>1, <3>1, RevNext
    <3> QED BY <1>2, <2>2, <3>1, <3>2
  <2> HIDE DEF S
  <2> QED BY <2>1, <2>2, CountTo
<1>5. Rev(a, v) = Rev(a, u) /\ Rev(a, u) \in Nat
  BY <1>1, <1>4, RevNext
<1>6. 0 \in T
  <2>1. Rev(0, i) = 0 /\ TwoTo(0) = 1 /\ a + 0 = a /\ Rev(a, u) * 1 + 0 = Rev(a, u)
    BY <1>5, RevZero, TwoToZero
  <2> QED BY <1>5, <2>1
<1>7. ASSUME NEW c \in Nat, c \in T
      PROVE  c + 1 \in T
  <2> DEFINE k == a + c
  <2>1. k \in Nat /\ a + (c + 1) = k + 1
    OBVIOUS
  <2>2. Rev(k, v) = Rev(a, u) * TwoTo(c) + Rev(c, i)
    BY <1>7
  <2>3. Bit(v, k) = Bit(i, c)
    BY <1>3
  <2> HIDE DEF k
  <2>4. /\ Rev(k + 1, v) = 2 * Rev(k, v) + Bit(v, k)
        /\ Rev(c + 1, i) = 2 * Rev(c, i) + Bit(i, c) /\ Rev(c, i) \in Nat
        /\ TwoTo(c + 1) = 2 * TwoTo(c) /\ TwoTo(c) \in Nat /\ Bit(i, c) \in Nat
    <3>1. Bit(i, c) \in 0 .. 1
      BY BitType
    <3>2. Rev(k + 1, v) = 2 * Rev(k, v) + Bit(v, k)
      BY <1>1, <2>1, RevNext
    <3>3. Rev(c + 1, i) = 2 * Rev(c, i) + Bit(i, c) /\ Rev(c, i) \in Nat
      BY RevNext
    <3>4. TwoTo(c + 1) = 2 * TwoTo(c) /\ TwoTo(c) \in Nat
      BY TwoToNext
    <3> QED BY <3>1, <3>2, <3>3, <3>4
  <2>5. \A x, y, z, e \in Nat : 2 * (x * y + z) + e = x * (2 * y) + (2 * z + e)
    OBVIOUS
  <2>6. Rev(k + 1, v) = Rev(a, u) * TwoTo(c + 1) + Rev(c + 1, i)
    BY <1>5, <2>2, <2>3, <2>4, <2>5
  <2> QED BY <2>1, <2>6
<1>8. \A c \in Nat : c \in T
  <2> HIDE DEF T
  <2> QED BY <1>6, <1>7, CountAll
<1> QED BY <1>1, <1>8 DEF v

(* Twice reversed, a number is what it was.                                *)
THEOREM RevTwice ==
    ASSUME NEW k \in Nat, NEW v \in 0 .. TwoTo(k) - 1
    PROVE  Rev(k, v) \in 0 .. TwoTo(k) - 1 /\ Rev(k, Rev(k, v)) = v
<1> DEFINE S == {c \in Nat : \A u \in 0 .. TwoTo(c) - 1 : Rev(c, Rev(c, u)) = u}
<1>1. TwoTo(k) \in Nat /\ TwoTo(0) = 1 /\ TwoTo(0 + 1) = 2 * TwoTo(0) /\ 0 + 1 = 1
  BY TwoToType, TwoToZero, TwoToNext
<1>2. 0 \in S
  <2>1. ASSUME NEW u \in 0 .. TwoTo(0) - 1
        PROVE  Rev(0, Rev(0, u)) = u
    <3>1. u = 0 /\ 0 \in Nat
      BY <1>1
    <3> QED BY <3>1, RevZero
  <2> QED BY <2>1
<1>3. ASSUME NEW u \in 0 .. 1
      PROVE  Rev(1, u) = u
  <2>1. u \in Nat /\ 0 \in Nat
    OBVIOUS
  <2>2. Rev(0 + 1, u) = 2 * Rev(0, u) + Bit(u, 0) /\ Rev(0, u) = 0
    BY <2>1, RevNext, RevZero
  <2>3. Bit(u, 0) = u
    <3>1. (u \div 1) % 2 = u
      OBVIOUS
    <3> QED BY <1>1, <3>1 DEF Bit
  <2> QED BY <1>1, <2>1, <2>2, <2>3
<1>4. ASSUME NEW c \in Nat, c \in S
      PROVE  c + 1 \in S
  <2>1. ASSUME NEW u \in 0 .. TwoTo(c + 1) - 1
        PROVE  Rev(c + 1, Rev(c + 1, u)) = u
    <3> DEFINE n == TwoTo(c)
    <3>1. n \in Nat /\ TwoTo(c + 1) = 2 * n /\ u \in Nat
      BY TwoToNext
    <3>2. PICK h \in Nat : \E r \in 0 .. 2 - 1 : u = 2 * h + r /\ u \div 2 = h
      BY <3>1, DivisionIs
    <3>3. PICK r \in 0 .. 1 : u = 2 * h + r
      BY <3>2
    <3>4. h \in 0 .. n - 1
      <4> HIDE DEF n
      <4> QED BY <3>1, <3>3
    <3>5. Rev(1 + c, h * 2 + r) = r * n + Rev(c, h)
      <4> DEFINE a == 1
      <4>1. a \in Nat /\ r \in 0 .. TwoTo(a) - 1 /\ TwoTo(a) = 2
        BY <1>1
      <4> HIDE DEF a
      <4>2. Rev(a + c, h * TwoTo(a) + r) = Rev(a, r) * TwoTo(c) + Rev(c, h)
        BY <4>1, RevSplits
      <4>3. Rev(a, r) = r
        BY <1>3 DEF a
      <4> QED BY <4>1, <4>2, <4>3 DEF a
    <3> DEFINE e == Rev(c, h)
    <3>6. e \in 0 .. n - 1 /\ e \in Nat /\ Rev(c, e) = h
      BY <1>4, <3>4, RevType
    <3> HIDE DEF e
    <3>7. Rev(c + 1, r * n + e) = h * 2 + r
      <4> DEFINE b == 1
      <4>1. b \in Nat /\ r \in Nat /\ TwoTo(b) = 2
        BY <1>1
      <4> HIDE DEF b
      <4>2. Rev(c + b, r * TwoTo(c) + e) = Rev(c, e) * TwoTo(b) + Rev(b, r)
        BY <3>6, <4>1, RevSplits
      <4>3. Rev(b, r) = r
        BY <1>3 DEF b
      <4> QED BY <3>6, <4>1, <4>2, <4>3 DEF b
    <3>8. 1 + c = c + 1 /\ h * 2 + r = u
      BY <3>3
    <3> HIDE DEF n
    <3> QED BY <3>5, <3>7, <3>8 DEF e
  <2> QED BY <2>1
<1>5. \A c \in Nat : c \in S
  <2> HIDE DEF S
  <2> QED BY <1>2, <1>4, CountAll
<1>6. Rev(k, v) \in 0 .. TwoTo(k) - 1
  <2>1. v \in Nat
    BY <1>1
  <2> QED BY <2>1, RevType
<1> QED BY <1>5, <1>6

(* The elements of a slice in reverse bit order.                           *)
LEMMA ReverseIs ==
    ASSUME NEW k \in Nat, NEW a, DOMAIN a = 0 .. TwoTo(k) - 1
    PROVE  /\ reverseBitOrder(a) = [i \in 0 .. TwoTo(k) - 1 |-> a[Rev(k, i)]]
           /\ \A i \in 0 .. TwoTo(k) - 1 : reverseBitOrder(a)[Rev(k, i)] = a[i]
<1>1. Length(a) = TwoTo(k)
  BY TwoToType, LengthIs
<1>2. reverseBitOrder(a) = [i \in 0 .. TwoTo(k) - 1 |-> a[Rev(k, i)]]
  BY <1>1, SliceIs DEF reverseBitOrder, Rev
<1>3. ASSUME NEW i \in 0 .. TwoTo(k) - 1
      PROVE  reverseBitOrder(a)[Rev(k, i)] = a[i]
  <2>1. Rev(k, i) \in 0 .. TwoTo(k) - 1 /\ Rev(k, Rev(k, i)) = i
    BY RevTwice
  <2> QED BY <1>2, <2>1
<1> QED BY <1>2, <1>3

=============================================================================
