--------------------------- MODULE KeySharesProofs ---------------------------
(***************************************************************************)
(* Theorems about KeyShares, for every order P of the groups (a number     *)
(* modulo which all but 0 have an inverse), every Threshold and number of  *)
(* KGCs, every polynomial they share and any users.  The largest part is   *)
(* what the loops of thss.go compute: values of one polynomial at          *)
(* Threshold different places, interpolated, give its value anywhere.      *)
(*                                                                         *)
(*   CongSum .. NonZeroProduct    arithmetic modulo P                      *)
(*   LoopTyped .. TotalsCombine   the loops, step by step                  *)
(*   CoefficientQuotient .. NewPoint                                       *)
(*                                one more point, by its coefficient       *)
(*   ConstantInterpolated .. PolynomialInterpolated                        *)
(*                                constants, powers, then polynomials of   *)
(*                                a degree below the number of points      *)
(*   SharesInterpolated           what LagrangeScalar makes of shares      *)
(*   ShareInv, NextKeeps          what getSk keeps up                      *)
(*   SameKeyHolds, ...            what its keys are good for               *)
(***************************************************************************)
EXTENDS KeyShares, FiniteSetTheorems, SequenceTheorems, TLAPS

-----------------------------------------------------------------------------
(* Induction and recursion on 0 .. n, for sets and functions.              *)

(* What holds of 0 and of every successor holds up to n.                   *)
LEMMA CountTo ==
    ASSUME NEW n \in Nat, NEW S, 0 \in S,
           \A i \in 0 .. n - 1 : i \in S => i + 1 \in S
    PROVE  \A i \in 0 .. n : i \in S
<1> DEFINE Left == {i \in 0 .. n : i \notin S}
<1>1. SUFFICES ASSUME Left # {} PROVE FALSE
  OBVIOUS
<1> DEFINE Upto(x) == 1 .. x
           U == {Upto(x) : x \in Left}
<1>2. PICK X \in U : \A Y \in U : <<Y, X>> \notin StrictSubsetOrdering(0 .. n)
  <2>1. U \subseteq FiniteSubsetsOf(0 .. n) /\ U # {}
    <3>1. FiniteSubsetsOf(0 .. n) = SUBSET (0 .. n)
      <4>1. IsFiniteSet(0 .. n)
        BY FS_Interval
      <4> QED BY <4>1, FS_FiniteSubsetsOfFinite
    <3>2. \A x \in Left : Upto(x) \in SUBSET (0 .. n)
      OBVIOUS
    <3> HIDE DEF Upto, Left
    <3> QED BY <1>1, <3>1, <3>2
  <2>2. IsWellFoundedOn(StrictSubsetOrdering(0 .. n), FiniteSubsetsOf(0 .. n))
    BY FS_StrictSubsetOrderingWellFounded
  <2> HIDE DEF U
  <2> QED BY <2>1, <2>2, WFMin
<1>3. PICK x \in Left : X = Upto(x)
  BY <1>2
<1>4. x \in 1 .. n /\ x - 1 \in 0 .. n - 1 /\ x - 1 \notin Left
  <2>1. x \in 1 .. n
    OBVIOUS
  <2>2. <<Upto(x - 1), Upto(x)>> \in StrictSubsetOrdering(0 .. n)
    <3>1. Upto(x - 1) \subseteq Upto(x) /\ x \in Upto(x) /\ x \notin Upto(x - 1)
      BY <2>1
    <3>2. Upto(x - 1) \in SUBSET (0 .. n) /\ Upto(x) \in SUBSET (0 .. n)
      BY <2>1
    <3> HIDE DEF Upto
    <3> QED BY <3>1, <3>2 DEF StrictSubsetOrdering
  <2>3. x - 1 \notin Left
    <3> HIDE DEF Upto, Left
    <3> QED BY <1>2, <1>3, <2>2
  <2> QED BY <2>1, <2>3
<1>5. x - 1 \in S
  BY <1>4
<1> QED BY <1>3, <1>4, <1>5

(* A first value and a step function determine the values of a loop.       *)
Loop(g, n, V, v0, step) ==
    g \in [0 .. n -> V] /\ g[0] = v0 /\ \A i \in 1 .. n : g[i] = step[i][g[i - 1]]

(* There is a function that does what the loop does.                       *)
LEMMA LoopRuns ==
    ASSUME NEW n \in Nat, NEW V, NEW v0 \in V, NEW step \in [1 .. n -> [V -> V]]
    PROVE  \E g : Loop(g, n, V, v0, step)
<1> USE DEF Loop
<1> DEFINE Built(m) == \E g \in [0 .. m -> V] :
                          g[0] = v0 /\ \A i \in 1 .. m : g[i] = step[i][g[i - 1]]
           S == {m \in 0 .. n : Built(m)}
<1>1. 0 \in S
  <2> DEFINE g == [i \in 0 .. 0 |-> v0]
  <2>1. g \in [0 .. 0 -> V] /\ g[0] = v0 /\ 1 .. 0 = {}
    OBVIOUS
  <2>2. Built(0)
    <3> HIDE DEF g
    <3> QED BY <2>1
  <2> QED BY <2>2
<1>2. ASSUME NEW m \in 0 .. n - 1, m \in S
      PROVE  m + 1 \in S
  <2>1. PICK g \in [0 .. m -> V] : g[0] = v0 /\ \A i \in 1 .. m : g[i] = step[i][g[i - 1]]
    BY <1>2
  <2> DEFINE h == [i \in 0 .. m + 1 |-> IF i = m + 1 THEN step[m + 1][g[m]] ELSE g[i]]
  <2>2. step[m + 1][g[m]] \in V
    BY <2>1
  <2>3. h \in [0 .. m + 1 -> V]
    BY <2>1, <2>2
  <2>4. h[0] = v0 /\ \A i \in 1 .. m + 1 : h[i] = step[i][h[i - 1]]
    BY <2>1
  <2>5. m + 1 \in 0 .. n
    OBVIOUS
  <2> QED BY <2>3, <2>4, <2>5
<1>3. \A m \in 0 .. n : m \in S
  <2> HIDE DEF S
  <2> QED BY <1>1, <1>2, CountTo
<1> QED BY <1>3

-----------------------------------------------------------------------------
(* Arithmetic modulo P.                                                    *)

Cong(a, b) == a % P = b % P

(* Quotient and remainder are what they are called.                        *)
LEMMA Division ==
    \A a \in Int : a % P \in Scalar /\ a \div P \in Int /\ a = P * (a \div P) + (a % P)
<1>1. P \in Nat /\ P > 0
  BY GroupAssumption
<1>2. SUFFICES ASSUME NEW a \in Int
               PROVE  a % P \in Scalar /\ a \div P \in Int /\ a = P * (a \div P) + (a % P)
  OBVIOUS
<1>3. a % P \in Scalar
  BY <1>1 DEF Scalar
<1>4. a \div P \in Int
  BY <1>1
<1>5. a = P * (a \div P) + (a % P)
  BY <1>1
<1> QED BY <1>3, <1>4, <1>5

(* There is only one remainder.                                            *)
LEMMA OneRemainder ==
    ASSUME NEW q \in Int, NEW r \in Scalar
    PROVE  (P * q + r) % P = r
<1>1. P \in Nat /\ P > 1 /\ r \in Int /\ 0 <= r /\ r < P
  BY GroupAssumption DEF Scalar
<1> DEFINE a == P * q + r
           k == a \div P
           s == a % P
<1>2. a \in Int
  BY <1>1
<1>3. k \in Int /\ s \in Int /\ 0 <= s /\ s < P /\ a = P * k + s
  <2> HIDE DEF a
  <2> QED BY <1>1, <1>2, Division DEF Scalar
<1>4. P * (q - k) = s - r
  BY <1>1, <1>2, <1>3
<1>5. q - k = 0
  <2> DEFINE d == q - k
  <2>1. d \in Int /\ P * d < P /\ P * d > 0 - P
    BY <1>1, <1>3, <1>4
  <2>2. ~ (d >= 1)
    <3> HIDE DEF d
    <3> QED BY <1>1, <2>1
  <2>3. ~ (d <= -1)
    <3> HIDE DEF d
    <3> QED BY <1>1, <2>1
  <2>4. d = 0
    <3> HIDE DEF d
    <3> QED BY <2>1, <2>2, <2>3
  <2> QED BY <2>4
<1>6. s = r
  <2>1. s - r = P * 0
    BY <1>4, <1>5
  <2>2. P * 0 = 0
    BY <1>1
  <2>3. s \in Int /\ r \in Int
    BY <1>1, <1>3
  <2> HIDE DEF s
  <2> QED BY <2>1, <2>2, <2>3
<1> QED BY <1>6

(* Congruent numbers differ by a multiple of P.                            *)
LEMMA CongMultiple ==
    ASSUME NEW a \in Int, NEW b \in Int
    PROVE  Cong(a, b) <=> \E q \in Int : a = b + P * q
<1>1. P \in Int
  BY GroupAssumption
<1>2. ASSUME Cong(a, b)
      PROVE  \E q \in Int : a = b + P * q
  <2> DEFINE q == (a \div P) - (b \div P)
  <2>1. /\ a \div P \in Int /\ b \div P \in Int /\ b % P \in Int
        /\ a = P * (a \div P) + (b % P) /\ b = P * (b \div P) + (b % P)
    BY <1>2, Division DEF Cong, Scalar
  <2>2. q \in Int
    BY <2>1
  <2>3. ASSUME NEW i \in Int, NEW j \in Int, NEW r \in Int,
               a = P * i + r, b = P * j + r
        PROVE  a = b + P * (i - j)
    BY <1>1, <2>3
  <2>4. a = b + P * q
    BY <2>1, <2>3
  <2> QED BY <2>2, <2>4
<1>3. ASSUME NEW q \in Int, a = b + P * q
      PROVE  Cong(a, b)
  <2>1. b % P \in Scalar /\ b \div P \in Int /\ b = P * (b \div P) + (b % P)
    BY Division
  <2>2. a = P * ((b \div P) + q) + (b % P)
    BY <1>1, <1>3, <2>1 DEF Scalar
  <2> QED BY <2>1, <2>2, OneRemainder DEF Cong
<1> QED BY <1>2, <1>3

(* Sums and products of congruent numbers are congruent.                   *)
LEMMA CongSum ==
    ASSUME NEW a \in Int, NEW b \in Int, NEW c \in Int, NEW d \in Int,
           Cong(a, b), Cong(c, d)
    PROVE  Cong(a + c, b + d)
<1>1. PICK q \in Int : a = b + P * q
  BY CongMultiple
<1>2. PICK r \in Int : c = d + P * r
  BY CongMultiple
<1>3. P \in Int
  BY GroupAssumption
<1>4. a + c = (b + d) + P * (q + r)
  BY <1>1, <1>2, <1>3
<1> QED BY <1>4, CongMultiple

(* Equal factors, equal products.                                          *)
LEMMA CongProduct ==
    ASSUME NEW a \in Int, NEW b \in Int, NEW c \in Int, NEW d \in Int,
           Cong(a, b), Cong(c, d)
    PROVE  Cong(a * c, b * d)
<1>1. PICK q \in Int : a = b + P * q
  BY CongMultiple
<1>2. PICK r \in Int : c = d + P * r
  BY CongMultiple
<1>3. P \in Int
  BY GroupAssumption
<1>4. a * c = b * d + P * (b * r + q * d + P * q * r)
  BY <1>1, <1>2, <1>3
<1>5. b * r + q * d + P * q * r \in Int /\ a * c \in Int /\ b * d \in Int
  BY <1>3
<1> QED BY <1>4, <1>5, CongMultiple

(* A number is congruent to its remainder, and scalars only to themselves. *)
LEMMA CongRemainder ==
    \A a \in Int : a % P \in Scalar /\ a % P \in Int /\ Cong(a % P, a)
<1>1. SUFFICES ASSUME NEW a \in Int PROVE a % P \in Scalar /\ a % P \in Int /\ Cong(a % P, a)
  OBVIOUS
<1>2. a % P \in Scalar /\ a % P \in Int
  BY Division DEF Scalar
<1>3. P * 0 + (a % P) = a % P
  BY <1>2, GroupAssumption
<1>4. (P * 0 + (a % P)) % P = a % P
  BY <1>2, OneRemainder
<1> QED BY <1>2, <1>3, <1>4 DEF Cong

(* A scalar is its own remainder.                                          *)
LEMMA ScalarRemainder ==
    \A a \in Scalar : a \in Int /\ a % P = a
<1>1. SUFFICES ASSUME NEW a \in Scalar PROVE a \in Int /\ a % P = a
  OBVIOUS
<1>2. P * 0 + a = a /\ a \in Int
  BY GroupAssumption DEF Scalar
<1> QED BY <1>2, OneRemainder

(* Scalars that are congruent are equal.                                   *)
LEMMA CongEqual ==
    ASSUME NEW a \in Scalar, NEW b \in Scalar, Cong(a, b)
    PROVE  a = b
  BY ScalarRemainder DEF Cong

(* Congruence is an equivalence.                                           *)
LEMMA CongChain ==
    \A a, b, c : /\ Cong(a, a)
                 /\ Cong(a, b) => Cong(b, a)
                 /\ Cong(a, b) /\ Cong(b, c) => Cong(a, c)
  BY DEF Cong

(* One factor, or one summand, of both sides.                              *)
LEMMA CongTimes ==
    ASSUME NEW a \in Int, NEW b \in Int, NEW c \in Int, Cong(a, b)
    PROVE  /\ Cong(a * c, b * c) /\ Cong(c * a, c * b)
           /\ Cong(a + c, b + c) /\ Cong(c + a, c + b)
<1>1. Cong(c, c)
  BY CongChain
<1> QED BY <1>1, CongProduct, CongSum

(* What is not a multiple of P has an inverse.                             *)
LEMMA HasInverse ==
    ASSUME NEW a \in Int, ~ Cong(a, 0)
    PROVE  \E b \in Scalar : Cong(a * b, 1)
<1> DEFINE r == a % P
<1>1. r \in Scalar /\ Cong(r, a)
  BY CongRemainder
<1>2. r # 0
  <2>1. ASSUME r = 0 PROVE FALSE
    BY <1>1, <2>1, CongChain
  <2> QED BY <2>1
<1>3. PICK b \in Scalar : (r * b) % P = 1
  <2>1. r \in 1 .. P - 1
    <3> HIDE DEF r
    <3> QED BY <1>1, <1>2 DEF Scalar
  <2> HIDE DEF r
  <2> QED BY <2>1, GroupAssumption
<1>4. 1 % P = 1
  BY ScalarRemainder, GroupAssumption DEF Scalar
<1>5. Cong(r * b, 1)
  BY <1>3, <1>4 DEF Cong
<1>6. b \in Int /\ r \in Int
  BY <1>1, ScalarRemainder
<1>7. Cong(a * b, r * b)
  <2> HIDE DEF r
  <2> QED BY <1>1, <1>6, CongProduct, CongChain
<1> HIDE DEF r
<1> QED BY <1>5, <1>7, CongChain

(* Inv finds the inverse of a scalar.                                      *)
LEMMA InvInverts ==
    ASSUME NEW a \in Scalar, ~ Cong(a, 0)
    PROVE  Inv(a) \in Scalar /\ Cong(a * Inv(a), 1)
<1>1. PICK b \in Scalar : Cong(a * b, 1)
  BY HasInverse, ScalarRemainder
<1>2. 1 % P = 1
  BY ScalarRemainder, GroupAssumption DEF Scalar
<1>3. (a * b) % P = 1
  BY <1>1, <1>2 DEF Cong
<1>4. Inv(a) \in Scalar /\ (a * Inv(a)) % P = 1
  BY <1>3 DEF Inv
<1> QED BY <1>2, <1>4 DEF Cong

(* A factor that is not a multiple of P can be cancelled, and a product of *)
(* such factors is not one.                                                *)
LEMMA Cancel ==
    ASSUME NEW a \in Int, NEW b \in Int, NEW c \in Int,
           ~ Cong(c, 0), Cong(a * c, b * c)
    PROVE  Cong(a, b)
<1>1. PICK e \in Scalar : Cong(c * e, 1)
  BY HasInverse
<1>2. e \in Int
  BY ScalarRemainder
<1>3. \A x \in Int : Cong((x * c) * e, x)
  <2>1. SUFFICES ASSUME NEW x \in Int PROVE Cong((x * c) * e, x)
    OBVIOUS
  <2>2. Cong(x * (c * e), x * 1)
    <3> DEFINE y == c * e
    <3>1. c * e \in Int /\ 1 \in Int
      BY <1>2
    <3> QED BY <1>1, <3>1, CongTimes
  <2>3. x * (c * e) = (x * c) * e
    BY <1>2
  <2>4. x * 1 = x
    OBVIOUS
  <2> QED BY <2>2, <2>3, <2>4
<1>4. Cong((a * c) * e, (b * c) * e)
  <2>1. a * c \in Int /\ b * c \in Int
    OBVIOUS
  <2> QED BY <1>2, <2>1, CongTimes
<1> QED BY <1>3, <1>4, CongChain

(* A product of factors that are not 0 is not 0.                           *)
LEMMA NonZeroProduct ==
    ASSUME NEW a \in Int, NEW b \in Int, ~ Cong(a, 0), ~ Cong(b, 0)
    PROVE  ~ Cong(a * b, 0)
<1>1. SUFFICES ASSUME Cong(a * b, 0) PROVE FALSE
  OBVIOUS
<1>2. 0 * b = 0
  OBVIOUS
<1>3. Cong(a * b, 0 * b)
  BY <1>1, <1>2
<1> QED BY <1>3, Cancel

(* The KGCs' numbers are told apart modulo P.                              *)
LEMMA SmallDifference ==
    ASSUME NEW a \in 1 .. P - 1, NEW b \in 1 .. P - 1, a # b
    PROVE  ~ Cong(a - b, 0)
<1>1. SUFFICES ASSUME Cong(a - b, 0) PROVE FALSE
  OBVIOUS
<1>2. a \in Scalar /\ b \in Scalar /\ a \in Int /\ b \in Int
  BY GroupAssumption DEF Scalar
<1>3. Cong((a - b) + b, 0 + b)
  <2>1. a - b \in Int /\ 0 \in Int
    BY <1>2
  <2> QED BY <1>1, <1>2, <2>1, CongTimes
<1>4. Cong(a, b)
  <2>1. (a - b) + b = a /\ 0 + b = b
    BY <1>2
  <2> QED BY <1>3, <2>1
<1> QED BY <1>2, <1>4, CongEqual

-----------------------------------------------------------------------------
(* The loops of thss.go: each value follows from the one before it.        *)

(* A function on 1 .. n is a sequence of length n.                         *)
LEMMA IsSequence ==
    ASSUME NEW S, NEW n \in Nat, NEW s \in [1 .. n -> S]
    PROVE  s \in Seq(S) /\ Len(s) = n
<1>1. s \in Seq(S)
  BY SeqDef
<1>2. Len(s) \in Nat /\ DOMAIN s = 1 .. Len(s)
  BY <1>1, LenProperties
<1>3. 1 .. n = 1 .. Len(s)
  BY <1>2
<1> QED BY <1>1, <1>2, <1>3

(* What starts in V and stays in V step by step is in V all along.         *)
LEMMA LoopTyped ==
    ASSUME NEW n \in Nat, NEW V, NEW D, DOMAIN D = 0 .. n,
           D = [i \in 0 .. n |-> D[i]], D[0] \in V,
           \A i \in 1 .. n : D[i - 1] \in V => D[i] \in V
    PROVE  D \in [0 .. n -> V]
<1> DEFINE S == {j \in 0 .. n : D[j] \in V}
<1>1. 0 \in S
  OBVIOUS
<1>2. \A i \in 0 .. n - 1 : i \in S => i + 1 \in S
  <2>1. SUFFICES ASSUME NEW i \in 0 .. n - 1, i \in S PROVE i + 1 \in S
    OBVIOUS
  <2>2. i + 1 \in 0 .. n /\ i + 1 \in 1 .. n /\ (i + 1) - 1 = i
    OBVIOUS
  <2>3. D[i + 1] \in V
    BY <2>1, <2>2
  <2> QED BY <2>2, <2>3
<1>3. \A i \in 0 .. n : i \in S
  <2> HIDE DEF S
  <2> QED BY <1>1, <1>2, CountTo
<1> QED BY <1>3

(* Differences factor by factor.                                           *)
LEMMA DifferencesStep ==
    ASSUME NEW x \in Int, NEW idx \in Int, NEW n \in Nat, NEW list \in [1 .. n -> Int]
    PROVE  /\ Differences(x, idx, list) \in [0 .. n -> Int]
           /\ Differences(x, idx, list)[0] = 1
           /\ \A i \in 1 .. n :
                Differences(x, idx, list)[i] =
                  IF list[i] = idx THEN Differences(x, idx, list)[i - 1]
                  ELSE (Differences(x, idx, list)[i - 1] * (x - list[i])) % P
<1> DEFINE Next1(i, v) == IF list[i] = idx THEN v ELSE (v * (x - list[i])) % P
           Body(g) == [i \in 0 .. Len(list) |-> IF i = 0 THEN 1 ELSE Next1(i, g[i - 1])]
           D == Differences(x, idx, list)
<1>1. Len(list) = n
  BY IsSequence
<1>2. D = CHOOSE g : g = Body(g)
  BY DEF Differences
<1>3. \A i \in 1 .. n, v \in Int : Next1(i, v) \in Int
  <2>1. SUFFICES ASSUME NEW i \in 1 .. n, NEW v \in Int PROVE Next1(i, v) \in Int
    OBVIOUS
  <2>2. v * (x - list[i]) \in Int
    OBVIOUS
  <2> QED BY <2>2, CongRemainder
<1> HIDE DEF Next1
<1>4. PICK g \in [0 .. n -> Int] : g[0] = 1 /\ \A i \in 1 .. n : g[i] = Next1(i, g[i - 1])
  <2> DEFINE step == [i \in 1 .. n |-> [v \in Int |-> Next1(i, v)]]
  <2>1. step \in [1 .. n -> [Int -> Int]] /\ 1 \in Int
    BY <1>3
  <2>2. \A i \in 1 .. n, v \in Int : step[i][v] = Next1(i, v)
    OBVIOUS
  <2> HIDE DEF step
  <2>3. PICK g \in [0 .. n -> Int] : g[0] = 1 /\ \A i \in 1 .. n : g[i] = step[i][g[i - 1]]
    <3>1. PICK g : Loop(g, n, Int, 1, step)
      BY <2>1, LoopRuns
    <3> QED BY <3>1 DEF Loop
  <2>4. \A i \in 1 .. n : g[i - 1] \in Int
    OBVIOUS
  <2> QED BY <2>2, <2>3, <2>4
<1>5. g = Body(g)
  BY <1>1, <1>4
<1>6. D = Body(D)
  <2> HIDE DEF D, Body
  <2> QED BY <1>2, <1>5
<1>7. D[0] = 1 /\ \A i \in 1 .. n : D[i] = Next1(i, D[i - 1])
  <2> HIDE DEF D
  <2> QED BY <1>1, <1>6
<1>8. DOMAIN D = 0 .. n /\ D = [i \in 0 .. n |-> D[i]]
  <2> HIDE DEF D
  <2> QED BY <1>1, <1>6
<1>9. \A i \in 1 .. n : D[i - 1] \in Int => D[i] \in Int
  <2> HIDE DEF D
  <2> QED BY <1>3, <1>7
<1>10. D \in [0 .. n -> Int]
  <2>1. D[0] \in Int
    BY <1>7
  <2> HIDE DEF D
  <2> QED BY <1>8, <1>9, <2>1, LoopTyped
<1> QED BY <1>7, <1>10 DEF Next1

(* LagrangeSums summand by summand.                                        *)
LEMMA LagrangeSumsStep ==
    ASSUME NEW target \in Int, NEW n \in Nat,
           NEW points \in [1 .. n -> [Index : Int, Value : Int]],
           \A i \in 1 .. n :
             LagrangeCoeff(points[i].Index, target, Indices(points)) \in Int
    PROVE  /\ LagrangeSums(points, target) \in [0 .. n -> Int]
           /\ LagrangeSums(points, target)[0] = 0
           /\ \A i \in 1 .. n :
                LagrangeSums(points, target)[i] =
                  (LagrangeSums(points, target)[i - 1] + points[i].Value *
                     LagrangeCoeff(points[i].Index, target, Indices(points))) % P
<1> DEFINE Delta(i) == points[i].Value *
                       LagrangeCoeff(points[i].Index, target, Indices(points))
           Next1(i, v) == (v + Delta(i)) % P
           Body(g) == [i \in 0 .. Len(points) |-> IF i = 0 THEN 0 ELSE Next1(i, g[i - 1])]
           D == LagrangeSums(points, target)
<1>1. Len(points) = n
  BY IsSequence
<1>2. D = CHOOSE g : g = Body(g)
  BY DEF LagrangeSums
<1>3. \A i \in 1 .. n, v \in Int : Next1(i, v) \in Int
  <2>1. SUFFICES ASSUME NEW i \in 1 .. n, NEW v \in Int PROVE Next1(i, v) \in Int
    OBVIOUS
  <2>2. v + Delta(i) \in Int
    OBVIOUS
  <2> HIDE DEF Delta
  <2> QED BY <2>2, CongRemainder
<1> HIDE DEF Next1
<1>4. PICK g \in [0 .. n -> Int] : g[0] = 0 /\ \A i \in 1 .. n : g[i] = Next1(i, g[i - 1])
  <2> DEFINE step == [i \in 1 .. n |-> [v \in Int |-> Next1(i, v)]]
  <2>1. step \in [1 .. n -> [Int -> Int]] /\ 0 \in Int
    BY <1>3
  <2>2. \A i \in 1 .. n, v \in Int : step[i][v] = Next1(i, v)
    OBVIOUS
  <2> HIDE DEF step
  <2>3. PICK g \in [0 .. n -> Int] : g[0] = 0 /\ \A i \in 1 .. n : g[i] = step[i][g[i - 1]]
    <3>1. PICK g : Loop(g, n, Int, 0, step)
      BY <2>1, LoopRuns
    <3> QED BY <3>1 DEF Loop
  <2>4. \A i \in 1 .. n : g[i - 1] \in Int
    OBVIOUS
  <2> QED BY <2>2, <2>3, <2>4
<1>5. g = Body(g)
  BY <1>1, <1>4
<1>6. D = Body(D)
  <2> HIDE DEF D, Body
  <2> QED BY <1>2, <1>5
<1>7. D[0] = 0 /\ \A i \in 1 .. n : D[i] = Next1(i, D[i - 1])
  <2> HIDE DEF D
  <2> QED BY <1>1, <1>6, SMTT(60)
<1>8. DOMAIN D = 0 .. n /\ D = [i \in 0 .. n |-> D[i]]
  <2> HIDE DEF D
  <2> QED BY <1>1, <1>6
<1>9. \A i \in 1 .. n : D[i - 1] \in Int => D[i] \in Int
  <2> HIDE DEF D
  <2> QED BY <1>3, <1>7
<1>10. D \in [0 .. n -> Int]
  <2>1. D[0] \in Int
    BY <1>7
  <2> HIDE DEF D
  <2> QED BY <1>8, <1>9, <2>1, LoopTyped
<1> QED BY <1>7, <1>10 DEF Next1

(* PolySums coefficient by coefficient.                                    *)
LEMMA PolySumsStep ==
    ASSUME NEW x \in Int, NEW n \in Nat, NEW coeff \in [1 .. n -> Int]
    PROVE  /\ PolySums(coeff, x) \in [0 .. n -> [sum : Int, xi : Int]]
           /\ PolySums(coeff, x)[0].sum = 0 /\ PolySums(coeff, x)[0].xi = 1
           /\ \A i \in 1 .. n :
                /\ PolySums(coeff, x)[i].sum = (PolySums(coeff, x)[i - 1].sum
                                + PolySums(coeff, x)[i - 1].xi * coeff[i]) % P
                /\ PolySums(coeff, x)[i].xi = (PolySums(coeff, x)[i - 1].xi * x) % P
<1> DEFINE V == [sum : Int, xi : Int]
           v0 == [sum |-> 0, xi |-> 1]
           Next1(i, v) == [sum |-> (v.sum + v.xi * coeff[i]) % P, xi |-> (v.xi * x) % P]
           Body(g) == [i \in 0 .. Len(coeff) |-> IF i = 0 THEN v0 ELSE Next1(i, g[i - 1])]
           D == PolySums(coeff, x)
<1>1. Len(coeff) = n
  BY IsSequence
<1>2. D = CHOOSE g : g = Body(g)
  BY DEF PolySums
<1>3. \A i \in 1 .. n, v \in V : Next1(i, v) \in V
  <2>1. SUFFICES ASSUME NEW i \in 1 .. n, NEW v \in V PROVE Next1(i, v) \in V
    OBVIOUS
  <2>2. v.sum + v.xi * coeff[i] \in Int /\ v.xi * x \in Int
    OBVIOUS
  <2>3. (v.sum + v.xi * coeff[i]) % P \in Int /\ (v.xi * x) % P \in Int
    BY <2>2, CongRemainder
  <2> QED BY <2>3
<1> HIDE DEF Next1
<1>4. PICK g \in [0 .. n -> V] : g[0] = v0 /\ \A i \in 1 .. n : g[i] = Next1(i, g[i - 1])
  <2> DEFINE step == [i \in 1 .. n |-> [v \in V |-> Next1(i, v)]]
  <2>1. step \in [1 .. n -> [V -> V]] /\ v0 \in V
    BY <1>3
  <2>2. \A i \in 1 .. n, v \in V : step[i][v] = Next1(i, v)
    OBVIOUS
  <2> HIDE DEF step, V, v0
  <2>3. PICK g \in [0 .. n -> V] : g[0] = v0 /\ \A i \in 1 .. n : g[i] = step[i][g[i - 1]]
    <3>1. PICK g : Loop(g, n, V, v0, step)
      BY <2>1, LoopRuns
    <3> QED BY <3>1 DEF Loop
  <2>4. \A i \in 1 .. n : g[i - 1] \in V
    OBVIOUS
  <2> QED BY <2>2, <2>3, <2>4
<1> HIDE DEF V, v0
<1>5. g = Body(g)
  BY <1>1, <1>4
<1>6. D = Body(D)
  <2> HIDE DEF D, Body
  <2> QED BY <1>2, <1>5
<1>7. D[0] = v0 /\ \A i \in 1 .. n : D[i] = Next1(i, D[i - 1])
  <2> HIDE DEF D
  <2> QED BY <1>1, <1>6
<1>8. DOMAIN D = 0 .. n /\ D = [i \in 0 .. n |-> D[i]]
  <2> HIDE DEF D
  <2> QED BY <1>1, <1>6
<1>9. \A i \in 1 .. n : D[i - 1] \in V => D[i] \in V
  <2> HIDE DEF D
  <2> QED BY <1>3, <1>7
<1>10. D \in [0 .. n -> V]
  <2>1. D[0] \in V
    BY <1>7 DEF v0, V
  <2> HIDE DEF D
  <2> QED BY <1>8, <1>9, <2>1, LoopTyped
<1>11. \A i \in 1 .. n, v \in V : /\ Next1(i, v).sum = (v.sum + v.xi * coeff[i]) % P
                                  /\ Next1(i, v).xi = (v.xi * x) % P
  BY DEF Next1
<1>12. \A i \in 1 .. n : D[i - 1] \in V
  BY <1>10
<1>13. D[0].sum = 0 /\ D[0].xi = 1
  BY <1>7 DEF v0
<1>14. \A i \in 1 .. n : /\ D[i].sum = (D[i - 1].sum + D[i - 1].xi * coeff[i]) % P
                        /\ D[i].xi = (D[i - 1].xi * x) % P
  <2> HIDE DEF D
  <2> QED BY <1>7, <1>11, <1>12
<1> QED BY <1>10, <1>13, <1>14 DEF V

-----------------------------------------------------------------------------
(* Sums of integers, and what they are modulo P.                           *)
Totals(a, n) ==
    CHOOSE g : Loop(g, n, Int, 0, [i \in 1 .. n |-> [v \in Int |-> v + a[i]]])

(* Totals summand by summand.                                              *)
LEMMA TotalsStep ==
    ASSUME NEW n \in Nat, NEW a \in [1 .. n -> Int]
    PROVE  /\ Totals(a, n) \in [0 .. n -> Int]
           /\ Totals(a, n)[0] = 0
           /\ \A i \in 1 .. n : Totals(a, n)[i] = Totals(a, n)[i - 1] + a[i]
<1> DEFINE step == [i \in 1 .. n |-> [v \in Int |-> v + a[i]]]
           g == Totals(a, n)
<1>1. step \in [1 .. n -> [Int -> Int]] /\ 0 \in Int
  OBVIOUS
<1>2. \A i \in 1 .. n, v \in Int : step[i][v] = v + a[i]
  OBVIOUS
<1>3. Loop(g, n, Int, 0, step)
  <2>1. g = CHOOSE h : Loop(h, n, Int, 0, step)
    BY DEF Totals
  <2> HIDE DEF step, g
  <2>2. \E h : Loop(h, n, Int, 0, step)
    BY <1>1, LoopRuns
  <2> QED BY <2>1, <2>2
<1> HIDE DEF step
<1>4. \A i \in 1 .. n : g[i - 1] \in Int
  BY <1>3 DEF Loop
<1> QED BY <1>2, <1>3, <1>4 DEF Loop

(* A combination of the summands is one of the sums.                       *)
LEMMA TotalsCombine ==
    ASSUME NEW n \in Nat, NEW a \in [1 .. n -> Int], NEW b \in [1 .. n -> Int],
           NEW c \in [1 .. n -> Int], NEW l \in Int, NEW m \in Int, NEW k \in 0 .. n,
           \A i \in 1 .. k : Cong(b[i], l * a[i] + m * c[i])
    PROVE  Cong(Totals(b, n)[k], l * Totals(a, n)[k] + m * Totals(c, n)[k])
<1> DEFINE TA == Totals(a, n)
           TB == Totals(b, n)
           TC == Totals(c, n)
           S == {j \in 0 .. k : Cong(TB[j], l * TA[j] + m * TC[j])}
<1>1. /\ TA \in [0 .. n -> Int] /\ TB \in [0 .. n -> Int] /\ TC \in [0 .. n -> Int]
      /\ TA[0] = 0 /\ TB[0] = 0 /\ TC[0] = 0
      /\ \A i \in 1 .. n : /\ TA[i] = TA[i - 1] + a[i]
                           /\ TB[i] = TB[i - 1] + b[i]
                           /\ TC[i] = TC[i - 1] + c[i]
  BY TotalsStep
<1> HIDE DEF TA, TB, TC
<1>2. 0 \in S
  <2>1. l * TA[0] + m * TC[0] = 0
    BY <1>1
  <2> QED BY <1>1, <2>1, CongChain
<1>3. \A j \in 0 .. k - 1 : j \in S => j + 1 \in S
  <2>1. SUFFICES ASSUME NEW j \in 0 .. k - 1, j \in S PROVE j + 1 \in S
    OBVIOUS
  <2>2. j + 1 \in 1 .. k /\ j + 1 \in 1 .. n /\ j + 1 \in 0 .. k /\ (j + 1) - 1 = j /\ j \in 0 .. n
    OBVIOUS
  <2>3. /\ TA[j + 1] = TA[j] + a[j + 1]
        /\ TB[j + 1] = TB[j] + b[j + 1]
        /\ TC[j + 1] = TC[j] + c[j + 1]
    BY <1>1, <2>2
  <2>4. /\ TA[j] \in Int /\ TB[j] \in Int /\ TC[j] \in Int
        /\ a[j + 1] \in Int /\ b[j + 1] \in Int /\ c[j + 1] \in Int
    BY <1>1, <2>2
  <2>5. l * TA[j] + m * TC[j] \in Int /\ l * a[j + 1] + m * c[j + 1] \in Int
    BY <2>4, SMTT(60)
  <2>6. Cong(TB[j] + b[j + 1], (l * TA[j] + m * TC[j]) + (l * a[j + 1] + m * c[j + 1]))
    <3>1. Cong(TB[j], l * TA[j] + m * TC[j])
      BY <2>1
    <3>2. Cong(b[j + 1], l * a[j + 1] + m * c[j + 1])
      BY <2>2
    <3> QED BY <2>4, <2>5, <3>1, <3>2, CongSum
  <2>7. l * TA[j + 1] + m * TC[j + 1]
          = (l * TA[j] + m * TC[j]) + (l * a[j + 1] + m * c[j + 1])
    BY <2>3, <2>4, SMTT(60)
  <2>8. Cong(TB[j + 1], l * TA[j + 1] + m * TC[j + 1])
    BY <2>3, <2>6, <2>7
  <2> QED BY <2>2, <2>8
<1>4. \A j \in 0 .. k : j \in S
  <2>1. k \in Nat
    OBVIOUS
  <2> HIDE DEF S
  <2> QED BY <1>2, <1>3, <2>1, CountTo
<1>5. k \in 0 .. k
  OBVIOUS
<1> QED BY <1>4, <1>5 DEF TA, TB, TC

-----------------------------------------------------------------------------
(* Interpolation through the points x[1], .., x[n], which are numbers of   *)
(* KGCs, and through the first k of them.                                  *)
Distinct(x, n) ==
    /\ x \in [1 .. n -> 1 .. P - 1]
    /\ \A i, j \in 1 .. n : i # j => x[i] # x[j]

(* The coefficient of point i among the first k, for the target t.         *)
Coefficient(x, k, i, t) ==
    (Differences(t, x[i], x)[k] * Inv(Differences(x[i], x[i], x)[k])) % P

(* What is interpolated at t from values v at the first k points.          *)
Interpolated(x, n, k, t, v) ==
    Totals([i \in 1 .. n |-> v[i] * Coefficient(x, k, i, t)], n)[k]

(* Distinct points are integers.                                           *)
LEMMA DistinctTypes ==
    ASSUME NEW n \in Nat, NEW x, Distinct(x, n)
    PROVE  /\ x \in [1 .. n -> Int]
           /\ \A i \in 1 .. n : x[i] \in Int /\ x[i] \in 1 .. P - 1
<1>1. P \in Nat
  BY GroupAssumption
<1> QED BY <1>1 DEF Distinct

(* Differences of a list of distinct points, at one of them.               *)
LEMMA DifferencesAt ==
    ASSUME NEW n \in Nat, NEW x, Distinct(x, n), NEW i \in 1 .. n, NEW t \in Int
    PROVE  /\ Differences(t, x[i], x) \in [0 .. n -> Int]
           /\ Differences(t, x[i], x)[0] = 1
           /\ \A j \in 1 .. n :
                Differences(t, x[i], x)[j] =
                  IF x[j] = x[i] THEN Differences(t, x[i], x)[j - 1]
                  ELSE (Differences(t, x[i], x)[j - 1] * (t - x[j])) % P
<1>1. x \in [1 .. n -> Int] /\ x[i] \in Int
  BY DistinctTypes
<1> QED BY <1>1, DifferencesStep, ZenonT(60)

(* The point itself contributes no factor.                                 *)
LEMMA OwnDifference ==
    ASSUME NEW n \in Nat, NEW x, Distinct(x, n), NEW i \in 1 .. n, NEW t \in Int
    PROVE  Differences(t, x[i], x)[i] = Differences(t, x[i], x)[i - 1]
<1> DEFINE G == Differences(t, x[i], x)
<1>1. \A j \in 1 .. n : G[j] = IF x[j] = x[i] THEN G[j - 1]
                               ELSE (G[j - 1] * (t - x[j])) % P
  BY DifferencesAt
<1> HIDE DEF G
<1>2. G[i] = G[i - 1]
  BY <1>1
<1> QED BY <1>2 DEF G

(* The group has more than one element.                                    *)
LEMMA OneIsNotZero == ~ Cong(1, 0)
<1>1. 0 \in Scalar /\ 1 \in Scalar
  BY GroupAssumption DEF Scalar
<1> QED BY <1>1, CongEqual

(* The lower product is a scalar and not 0: the KGCs' numbers differ.      *)
LEMMA LowerInvertible ==
    ASSUME NEW n \in Nat, NEW x, Distinct(x, n), NEW i \in 1 .. n, NEW k \in 0 .. n
    PROVE  /\ Differences(x[i], x[i], x)[k] \in Scalar
           /\ Differences(x[i], x[i], x)[k] \in Int
           /\ ~ Cong(Differences(x[i], x[i], x)[k], 0)
<1> DEFINE D == Differences(x[i], x[i], x)
           S == {j \in 0 .. n : D[j] \in Scalar /\ ~ Cong(D[j], 0)}
<1>1. x \in [1 .. n -> Int] /\ x[i] \in Int
  BY DistinctTypes
<1>2. /\ D \in [0 .. n -> Int] /\ D[0] = 1
      /\ \A j \in 1 .. n : D[j] = IF x[j] = x[i] THEN D[j - 1]
                                  ELSE (D[j - 1] * (x[i] - x[j])) % P
  BY <1>1, DifferencesStep, ZenonT(60)
<1> HIDE DEF D
<1>3. 0 \in S
  BY <1>2, OneIsNotZero, GroupAssumption DEF Scalar
<1>4. \A j \in 0 .. n - 1 : j \in S => j + 1 \in S
  <2>1. SUFFICES ASSUME NEW j \in 0 .. n - 1, j \in S PROVE j + 1 \in S
    OBVIOUS
  <2>2. j + 1 \in 1 .. n /\ j + 1 \in 0 .. n /\ (j + 1) - 1 = j
    OBVIOUS
  <2>3. CASE x[j + 1] = x[i]
    <3>1. D[j + 1] = D[j]
      BY <1>2, <2>2, <2>3
    <3> QED BY <2>1, <2>2, <3>1
  <2>4. CASE x[j + 1] # x[i]
    <3> DEFINE e == x[i] - x[j + 1]
               y == D[j] * e
    <3>1. D[j] \in Int /\ e \in Int /\ y \in Int /\ ~ Cong(D[j], 0)
      BY <1>1, <1>2, <2>1, <2>2
    <3>2. ~ Cong(e, 0)
      BY <2>2, <2>4, DistinctTypes, SmallDifference
    <3>3. ~ Cong(y, 0)
      <4> HIDE DEF e
      <4> QED BY <3>1, <3>2, NonZeroProduct
    <3>4. D[j + 1] = y % P
      BY <1>2, <2>2, <2>4
    <3> HIDE DEF y
    <3>5. y % P \in Scalar /\ Cong(y % P, y)
      BY <3>1, CongRemainder
    <3>6. ~ Cong(y % P, 0)
      BY <3>3, <3>5, CongChain
    <3> QED BY <2>2, <3>4, <3>5, <3>6
  <2> QED BY <2>3, <2>4
<1>5. \A j \in 0 .. n : j \in S
  <2> HIDE DEF S
  <2> QED BY <1>3, <1>4, CountTo
<1> QED BY <1>2, <1>5 DEF D

(* The coefficient is the quotient of the two products.                    *)
LEMMA CoefficientQuotient ==
    ASSUME NEW n \in Nat, NEW x, Distinct(x, n), NEW i \in 1 .. n, NEW k \in 0 .. n,
           NEW t \in Int
    PROVE  /\ Coefficient(x, k, i, t) \in Scalar /\ Coefficient(x, k, i, t) \in Int
           /\ Differences(t, x[i], x)[k] \in Int
           /\ Cong(Coefficient(x, k, i, t) * Differences(x[i], x[i], x)[k],
                   Differences(t, x[i], x)[k])
<1> DEFINE D == Differences(x[i], x[i], x)[k]
           U == Differences(t, x[i], x)[k]
           c == Coefficient(x, k, i, t)
<1>1. D \in Scalar /\ D \in Int /\ ~ Cong(D, 0)
  BY LowerInvertible
<1>2. U \in Int
  <2>1. x \in [1 .. n -> Int] /\ x[i] \in Int
    BY DistinctTypes
  <2>2. Differences(t, x[i], x) \in [0 .. n -> Int]
    BY <2>1, DifferencesStep
  <2> QED BY <2>2
<1>3. c = (U * Inv(D)) % P
  BY DEF Coefficient
<1> HIDE DEF D, U, c
<1>4. Inv(D) \in Scalar /\ Inv(D) \in Int /\ Cong(D * Inv(D), 1)
  BY <1>1, InvInverts, ScalarRemainder
<1>5. U * Inv(D) \in Int
  BY <1>2, <1>4
<1>6. c \in Scalar /\ c \in Int /\ Cong(c, U * Inv(D))
  BY <1>3, <1>5, CongRemainder
<1>7. Cong(c * D, (U * Inv(D)) * D)
  BY <1>1, <1>5, <1>6, CongTimes
<1>8. (U * Inv(D)) * D = U * (D * Inv(D))
  <2> DEFINE v == Inv(D)
  <2>1. v \in Int
    BY <1>4
  <2> HIDE DEF v
  <2>2. (U * v) * D = U * (D * v)
    BY <1>1, <1>2, <2>1
  <2> QED BY <2>2 DEF v
<1>9. Cong(U * (D * Inv(D)), U * 1)
  <2>1. D * Inv(D) \in Int /\ 1 \in Int
    BY <1>1, <1>4
  <2> QED BY <1>2, <1>4, <2>1, CongTimes
<1>10. U * 1 = U
  BY <1>2
<1>11. Cong(c * D, U)
  BY <1>7, <1>8, <1>9, <1>10, CongChain
<1> QED BY <1>2, <1>6, <1>11 DEF c, D, U

(* One point more multiplies the coefficients of the others by the same    *)
(* quotient that a product of differences has.                             *)
LEMMA CoefficientStep ==
    ASSUME NEW n \in Nat, NEW x, Distinct(x, n), NEW i \in 1 .. n, NEW k \in 1 .. n,
           i # k, NEW t \in Int
    PROVE  Cong(Coefficient(x, k, i, t) * (x[i] - x[k]),
                Coefficient(x, k - 1, i, t) * (t - x[k]))
<1> DEFINE A == Differences(x[i], x[i], x)[k - 1]
           D == Differences(x[i], x[i], x)[k]
           B == Differences(t, x[i], x)[k - 1]
           U == Differences(t, x[i], x)[k]
           c0 == Coefficient(x, k - 1, i, t)
           c == Coefficient(x, k, i, t)
           e == x[i] - x[k]
           d == t - x[k]
<1>1. k - 1 \in 0 .. n /\ k \in 0 .. n
  OBVIOUS
<1>2. /\ A \in Int /\ ~ Cong(A, 0) /\ D \in Int /\ B \in Int /\ U \in Int
      /\ c0 \in Int /\ c \in Int
      /\ Cong(c0 * A, B) /\ Cong(c * D, U)
  BY <1>1, LowerInvertible, CoefficientQuotient
<1>3. e \in Int /\ d \in Int /\ x \in [1 .. n -> Int] /\ x[i] \in Int /\ x[k] # x[i]
  BY DistinctTypes DEF Distinct
<1>4. D = (A * e) % P /\ U = (B * d) % P
  <2>1. ASSUME NEW s \in Int
        PROVE  Differences(s, x[i], x)[k]
                 = (Differences(s, x[i], x)[k - 1] * (s - x[k])) % P
    <3> DEFINE G == Differences(s, x[i], x)
    <3>1. \A j \in 1 .. n : G[j] = IF x[j] = x[i] THEN G[j - 1]
                                   ELSE (G[j - 1] * (s - x[j])) % P
      BY DifferencesAt
    <3> HIDE DEF G
    <3>2. G[k] = (G[k - 1] * (s - x[k])) % P
      BY <1>3, <3>1
    <3> QED BY <3>2 DEF G
  <2> QED BY <1>3, <2>1
<1> HIDE DEF A, D, B, U, c0, c, e, d
<1>5. A * e \in Int /\ B * d \in Int /\ c0 * A \in Int /\ c * e \in Int /\ c0 * d \in Int
  BY <1>2, <1>3
<1>6. Cong(D, A * e) /\ Cong(U, B * d)
  BY <1>4, <1>5, CongRemainder
<1>7. Cong(c * (A * e), B * d)
  <2>1. Cong(c * D, c * (A * e))
    BY <1>2, <1>5, <1>6, CongTimes
  <2> QED BY <1>2, <1>6, <2>1, CongChain
<1>8. Cong((c0 * A) * d, B * d)
  BY <1>2, <1>3, <1>5, CongTimes
<1>9. c * (A * e) = (c * e) * A /\ (c0 * A) * d = (c0 * d) * A
  BY <1>2, <1>3
<1>10. Cong((c * e) * A, (c0 * d) * A)
  BY <1>7, <1>8, <1>9, CongChain
<1>11. Cong(c * e, c0 * d)
  BY <1>2, <1>5, <1>10, Cancel
<1> QED BY <1>11 DEF c, e, c0, d

(* The product over all points but one, and over all.                      *)
LEMMA WithoutPoint ==
    ASSUME NEW n \in Nat, NEW x, Distinct(x, n), NEW i \in 1 .. n, NEW k \in 1 .. n,
           i < k, NEW t \in Int
    PROVE  Cong(Differences(t, x[k], x)[k - 1],
                Differences(t, x[i], x)[k - 1] * (t - x[i]))
<1> DEFINE W == Differences(t, x[k], x)
           U == Differences(t, x[i], x)
           S == {m \in 0 .. k - 1 : IF m < i THEN W[m] = U[m]
                                    ELSE Cong(W[m], U[m] * (t - x[i]))}
<1>1. x \in [1 .. n -> Int] /\ x[i] \in Int /\ x[k] \in Int /\ t - x[i] \in Int
  BY DistinctTypes
<1>2. /\ W \in [0 .. n -> Int] /\ W[0] = 1
      /\ \A j \in 1 .. n : W[j] = IF x[j] = x[k] THEN W[j - 1]
                                  ELSE (W[j - 1] * (t - x[j])) % P
  BY DifferencesAt
<1>3. /\ U \in [0 .. n -> Int] /\ U[0] = 1
      /\ \A j \in 1 .. n : U[j] = IF x[j] = x[i] THEN U[j - 1]
                                  ELSE (U[j - 1] * (t - x[j])) % P
  BY DifferencesAt
<1> HIDE DEF W, U
<1>4. 0 \in S
  BY <1>2, <1>3
<1>5. \A m \in 0 .. (k - 1) - 1 : m \in S => m + 1 \in S
  <2>1. SUFFICES ASSUME NEW m \in 0 .. (k - 1) - 1, m \in S PROVE m + 1 \in S
    OBVIOUS
  <2>2. /\ m + 1 \in 1 .. n /\ m + 1 \in 0 .. k - 1 /\ (m + 1) - 1 = m /\ m \in 0 .. n
        /\ m + 1 # k
    OBVIOUS
  <2>3. x[m + 1] # x[k] /\ (m + 1 # i => x[m + 1] # x[i]) /\ t - x[m + 1] \in Int
    BY <1>1, <2>2 DEF Distinct
  <2> DEFINE d == t - x[m + 1]
             e == t - x[i]
             w == W[m]
             u == U[m]
  <2>4. w \in Int /\ u \in Int /\ d \in Int /\ e \in Int
    BY <1>1, <1>2, <1>3, <2>2, <2>3
  <2>5. W[m + 1] = (w * d) % P
    BY <1>2, <2>2, <2>3
  <2>6. CASE m + 1 < i
    <3>1. U[m + 1] = (u * d) % P
      BY <1>3, <2>2, <2>3, <2>6
    <3>2. w = u
      BY <2>1, <2>6
    <3>3. W[m + 1] = U[m + 1]
      BY <2>5, <3>1, <3>2
    <3> QED BY <2>2, <2>6, <3>3
  <2>7. CASE m + 1 = i
    <3>1. U[m + 1] = u
      BY <1>3, <2>2, <2>7
    <3>2. w = u /\ d = e
      BY <2>1, <2>7
    <3>3. w * d \in Int
      BY <2>4
    <3>4. Cong(W[m + 1], U[m + 1] * e)
      <4> HIDE DEF w, u, d, e
      <4> QED BY <2>5, <3>1, <3>2, <3>3, CongRemainder
    <3> QED BY <2>2, <2>7, <3>4
  <2>8. CASE m + 1 > i
    <3>1. U[m + 1] = (u * d) % P
      BY <1>3, <2>2, <2>3, <2>8
    <3>2. Cong(w, u * e)
      BY <2>1, <2>8
    <3>3. Cong(W[m + 1], U[m + 1] * e)
      <4> HIDE DEF w, u, d, e
      <4>1. w * d \in Int /\ u * d \in Int /\ u * e \in Int
        BY <2>4
      <4>2. Cong(W[m + 1], w * d) /\ Cong(U[m + 1], u * d) /\ U[m + 1] \in Int
        BY <2>5, <3>1, <4>1, CongRemainder
      <4>3. Cong(w * d, (u * e) * d)
        BY <2>4, <3>2, <4>1, CongTimes
      <4>4. Cong(U[m + 1] * e, (u * d) * e)
        BY <2>4, <4>1, <4>2, CongTimes
      <4>5. (u * e) * d = (u * d) * e
        BY <2>4
      <4> QED BY <4>2, <4>3, <4>4, <4>5, CongChain
    <3> QED BY <2>2, <2>8, <3>3
  <2> QED BY <2>2, <2>6, <2>7, <2>8
<1>6. \A m \in 0 .. k - 1 : m \in S
  <2>1. k - 1 \in Nat
    OBVIOUS
  <2> HIDE DEF S
  <2> QED BY <1>4, <1>5, <2>1, CountTo
<1>7. k - 1 \in 0 .. k - 1 /\ ~ (k - 1 < i)
  OBVIOUS
<1> QED BY <1>6, <1>7 DEF W, U

(* How the coefficients change with a new point, by its own coefficient.   *)
LEMMA NewPoint ==
    ASSUME NEW n \in Nat, NEW x, Distinct(x, n), NEW i \in 1 .. n, NEW k \in 1 .. n,
           i < k, NEW t \in Int
    PROVE  Cong(Coefficient(x, k - 1, i, t),
                Coefficient(x, k, i, t)
                  + Coefficient(x, k, k, t) * Coefficient(x, k - 1, i, x[k]))
<1> DEFINE xi == x[i]
           xk == x[k]
           A == Differences(x[i], x[i], x)[k - 1]
           Ut == Differences(t, x[i], x)[k - 1]
           Ux == Differences(x[k], x[i], x)[k - 1]
           w == Differences(x[k], x[k], x)[k - 1]
           W == Differences(t, x[k], x)[k - 1]
           c0 == Coefficient(x, k - 1, i, t)
           cx == Coefficient(x, k - 1, i, x[k])
           c == Coefficient(x, k, i, t)
           ck == Coefficient(x, k, k, t)
<1>1. k - 1 \in 0 .. n /\ k \in 0 .. n /\ i # k
  OBVIOUS
<1>2. xi \in Int /\ xk \in Int /\ ~ Cong(xi - xk, 0)
  <2>1. x[i] \in 1 .. P - 1 /\ x[k] \in 1 .. P - 1 /\ x[i] # x[k] /\ x[i] \in Int /\ x[k] \in Int
    BY <1>1, DistinctTypes DEF Distinct
  <2> QED BY <2>1, SmallDifference
<1>3. A \in Int /\ ~ Cong(A, 0)
  BY <1>1, LowerInvertible
<1>4. Ut \in Int /\ c0 \in Int /\ Cong(c0 * A, Ut)
  BY <1>1, CoefficientQuotient
<1>5. Ux \in Int /\ cx \in Int /\ Cong(cx * A, Ux)
  BY <1>1, <1>2, CoefficientQuotient
<1>6. c \in Int /\ Cong(c * (xi - xk), c0 * (t - xk))
  BY <1>1, CoefficientQuotient, CoefficientStep
<1>7. ck \in Int /\ w \in Int /\ W \in Int /\ Cong(ck * w, W)
  <2>1. /\ ck \in Int /\ Differences(t, x[k], x)[k] \in Int
        /\ Cong(ck * Differences(x[k], x[k], x)[k], Differences(t, x[k], x)[k])
    BY <1>1, CoefficientQuotient
  <2>3. Differences(x[k], x[k], x)[k] = w /\ Differences(t, x[k], x)[k] = W
    BY <1>2, OwnDifference
  <2>4. w \in Int
    BY <1>1, LowerInvertible
  <2> QED BY <2>1, <2>3, <2>4
<1>8. Cong(w, Ux * (xk - xi))
  BY <1>2, WithoutPoint
<1>9. Cong(W, Ut * (t - xi))
  BY WithoutPoint
<1> HIDE DEF xi, xk, A, Ut, Ux, w, W, c0, cx, c, ck
<1>10. Cong(c0, c + ck * cx)
  <2> DEFINE e == xi - xk
             d == xi - t
  <2>0. /\ xi \in Int /\ xk \in Int /\ A \in Int /\ Ut \in Int /\ Ux \in Int
        /\ w \in Int /\ W \in Int /\ c0 \in Int /\ cx \in Int /\ c \in Int /\ ck \in Int
    BY <1>2, <1>3, <1>4, <1>5, <1>6, <1>7
  <2>1. e \in Int /\ d \in Int /\ -1 \in Int /\ e * ck \in Int /\ cx * A \in Int
        /\ c0 * A \in Int /\ -ck \in Int /\ ck * w \in Int
        /\ Ux * (xk - xi) \in Int /\ Ut * (t - xi) \in Int
        /\ (cx * e) * ck \in Int /\ c0 * d \in Int /\ c * e \in Int /\ c0 * (t - xk) \in Int
        /\ c + ck * cx \in Int
    BY <2>0
  <2>2. Cong((cx * A) * (e * ck), Ux * (e * ck))
    <3> HIDE DEF e
    <3> QED BY <1>5, <2>0, <2>1, CongTimes
  <2>3. Ux * (e * ck) = (Ux * (xk - xi)) * (-ck)
    BY <2>0
  <2>4. Cong((Ux * (xk - xi)) * (-ck), w * (-ck))
    <3>1. Cong(Ux * (xk - xi), w)
      BY <1>8, CongChain
    <3> QED BY <2>0, <2>1, <3>1, CongTimes
  <2>5. w * (-ck) = (ck * w) * (-1)
    BY <2>0
  <2>6. Cong((ck * w) * (-1), W * (-1))
    BY <1>7, <2>0, <2>1, CongTimes
  <2>7. Cong(W * (-1), (Ut * (t - xi)) * (-1))
    BY <1>9, <2>0, <2>1, CongTimes
  <2>8. (Ut * (t - xi)) * (-1) = Ut * d
    BY <2>0
  <2>9. Cong(Ut * d, (c0 * A) * d)
    <3>1. Cong(Ut, c0 * A)
      BY <1>4, CongChain
    <3> HIDE DEF d
    <3> QED BY <2>0, <2>1, <3>1, CongTimes
  <2>10. Cong((cx * A) * (e * ck), (c0 * A) * d)
    <3> HIDE DEF d, e
    <3> QED BY <2>2, <2>3, <2>4, <2>5, <2>6, <2>7, <2>8, <2>9, CongChain
  <2>11. (cx * A) * (e * ck) = ((cx * e) * ck) * A /\ (c0 * A) * d = (c0 * d) * A
    <3> HIDE DEF d, e
    <3> QED BY <2>0, <2>1
  <2>12. Cong((cx * e) * ck, c0 * d)
    <3>1. Cong(((cx * e) * ck) * A, (c0 * d) * A)
      BY <2>10, <2>11
    <3> HIDE DEF d, e
    <3> QED BY <1>3, <2>1, <3>1, Cancel
  <2>13. Cong(c * e + (cx * e) * ck, c0 * (t - xk) + c0 * d)
    <3>1. Cong(c * e, c0 * (t - xk))
      BY <1>6
    <3> HIDE DEF d, e
    <3> QED BY <2>1, <2>12, <3>1, CongSum
  <2>14. c * e + (cx * e) * ck = (c + ck * cx) * e
    <3> HIDE DEF e
    <3> QED BY <2>0, <2>1
  <2>15. c0 * (t - xk) + c0 * d = c0 * e
    BY <2>0
  <2>16. Cong((c + ck * cx) * e, c0 * e)
    <3> HIDE DEF d, e
    <3> QED BY <2>13, <2>14, <2>15
  <2>17. Cong(c + ck * cx, c0)
    <3>1. ~ Cong(e, 0)
      BY <1>2
    <3> HIDE DEF e
    <3> QED BY <2>0, <2>1, <2>16, <3>1, Cancel
  <2> QED BY <2>17, CongChain
<1> QED BY <1>10 DEF c0, cx, c, ck

(* A constant is interpolated to itself, by any number of points.          *)
LEMMA ConstantInterpolated ==
    ASSUME NEW n \in Nat, NEW x, Distinct(x, n), NEW k \in 1 .. n, NEW t \in Int
    PROVE  Cong(Interpolated(x, n, k, t, [i \in 1 .. n |-> 1]), 1)
<1> DEFINE one == [i \in 1 .. n |-> 1]
           a(j, s) == [i \in 1 .. n |-> one[i] * Coefficient(x, j, i, s)]
           F(j, s) == Totals(a(j, s), n)[j]
           S == {j \in 0 .. n : j = 0 \/ \A s \in Int : Cong(F(j, s), 1)}
<1>1. \A j \in 0 .. n, s \in Int, i \in 1 .. n :
         a(j, s)[i] = Coefficient(x, j, i, s) /\ Coefficient(x, j, i, s) \in Int
  <2>1. SUFFICES ASSUME NEW j \in 0 .. n, NEW s \in Int, NEW i \in 1 .. n
                 PROVE  a(j, s)[i] = Coefficient(x, j, i, s) /\ Coefficient(x, j, i, s) \in Int
    OBVIOUS
  <2>2. Coefficient(x, j, i, s) \in Int
    BY CoefficientQuotient
  <2>3. one[i] * Coefficient(x, j, i, s) = Coefficient(x, j, i, s)
    BY <2>2
  <2> QED BY <2>2, <2>3
<1>2. \A j \in 0 .. n, s \in Int : a(j, s) \in [1 .. n -> Int]
  <2>1. \A j \in 0 .. n, s \in Int : a(j, s) = [i \in 1 .. n |-> a(j, s)[i]]
    OBVIOUS
  <2> HIDE DEF a
  <2> QED BY <1>1, <2>1
<1> HIDE DEF a
<1>3. \A j \in 0 .. n - 1 : j \in S => j + 1 \in S
  <2>1. SUFFICES ASSUME NEW j \in 0 .. n - 1, j \in S PROVE j + 1 \in S
    OBVIOUS
  <2> DEFINE m == j + 1
  <2>2. m \in 1 .. n /\ m \in 0 .. n /\ m - 1 = j /\ j \in 0 .. n
    OBVIOUS
  <2> HIDE DEF m
  <2>3. SUFFICES ASSUME NEW s \in Int PROVE Cong(F(m, s), 1)
    BY <2>2 DEF m
  <2> DEFINE T == Totals(a(m, s), n)
             cm == Coefficient(x, m, m, s)
  <2>4. /\ T \in [0 .. n -> Int] /\ T[0] = 0
        /\ F(m, s) = T[m] /\ T[m] = T[j] + cm
    <3>1. a(m, s) \in [1 .. n -> Int] /\ a(m, s)[m] = cm
      BY <1>1, <1>2, <2>2
    <3> HIDE DEF cm
    <3> QED BY <2>2, <3>1, TotalsStep
  <2>5. cm \in Int
    BY <1>1, <2>2
  <2>6. CASE j = 0
    <3>1. F(m, s) = cm
      BY <2>4, <2>5, <2>6
    <3>2. Cong(cm, 1)
      <4>0. x[m] \in Int
        BY <2>2, DistinctTypes
      <4>1. ASSUME NEW r \in Int
            PROVE  Differences(r, x[m], x)[m] = 1
        <5>1. Differences(r, x[m], x)[m] = Differences(r, x[m], x)[j]
          BY <2>2, OwnDifference
        <5>2. Differences(r, x[m], x)[0] = 1
          BY <2>2, DifferencesAt
        <5> QED BY <2>6, <5>1, <5>2
      <4>2. Cong(cm * 1, 1)
        <5>1. Differences(x[m], x[m], x)[m] = 1 /\ Differences(s, x[m], x)[m] = 1
          BY <4>0, <4>1
        <5>2. Cong(cm * Differences(x[m], x[m], x)[m], Differences(s, x[m], x)[m])
          BY <2>2, CoefficientQuotient
        <5> QED BY <5>1, <5>2
      <4> QED BY <2>5, <4>2
    <3> QED BY <3>1, <3>2
  <2>7. CASE j # 0
    <3> DEFINE xm == x[m]
               y == T[j]
    <3>1. xm \in Int
      BY <2>2, DistinctTypes
    <3>2. Cong(F(j, s), 1) /\ Cong(F(j, xm), 1)
      BY <2>1, <2>7, <3>1
    <3>3. Cong(F(j, s), 1 * T[j] + cm * F(j, xm))
      <4>1. a(j, s) \in [1 .. n -> Int] /\ a(m, s) \in [1 .. n -> Int]
            /\ a(j, xm) \in [1 .. n -> Int]
        BY <1>2, <2>2, <3>1
      <4>2. ASSUME NEW i \in 1 .. j
            PROVE  Cong(a(j, s)[i], 1 * a(m, s)[i] + cm * a(j, xm)[i])
        <5>1. i \in 1 .. n /\ i < m
          BY <2>2
        <5>2. Cong(Coefficient(x, j, i, s),
                   Coefficient(x, m, i, s) + cm * Coefficient(x, j, i, xm))
          BY <2>2, <5>1, NewPoint
        <5>3. /\ a(j, s)[i] = Coefficient(x, j, i, s)
              /\ a(m, s)[i] = Coefficient(x, m, i, s)
              /\ a(j, xm)[i] = Coefficient(x, j, i, xm)
              /\ 1 * a(m, s)[i] = a(m, s)[i]
          <6>1. /\ a(j, s)[i] = Coefficient(x, j, i, s)
                /\ a(m, s)[i] = Coefficient(x, m, i, s) /\ Coefficient(x, m, i, s) \in Int
                /\ a(j, xm)[i] = Coefficient(x, j, i, xm)
            <7> HIDE DEF xm
            <7> QED BY <1>1, <2>2, <3>1, <5>1
          <6>2. 1 * a(m, s)[i] = a(m, s)[i]
            BY <6>1
          <6> QED BY <6>1, <6>2
        <5> QED BY <5>2, <5>3
      <4> DEFINE va == a(m, s)
                 vb == a(j, s)
                 vc == a(j, xm)
      <4>3. 1 \in Int
        OBVIOUS
      <4>4. Cong(Totals(vb, n)[j], 1 * Totals(va, n)[j] + cm * Totals(vc, n)[j])
        <5> HIDE DEF cm, xm, va, vb, vc
        <5> QED BY <2>2, <2>5, <4>1, <4>2, <4>3, TotalsCombine DEF va, vb, vc
      <4> QED BY <4>4
    <3>4. F(j, xm) \in Int /\ T[j] \in Int
      BY <1>2, <2>2, <2>4, <3>1, TotalsStep
    <3>5. Cong(cm * F(j, xm), cm * 1)
      <4> HIDE DEF cm, F
      <4>1. 1 \in Int
        OBVIOUS
      <4> QED BY <2>5, <3>2, <3>4, <4>1, CongTimes
    <3>6. Cong(T[j] + cm * F(j, xm), T[j] + cm * 1)
      <4> HIDE DEF cm, F, T
      <4>1. cm * F(j, xm) \in Int /\ cm * 1 \in Int
        BY <2>5, <3>4
      <4> QED BY <3>4, <3>5, <4>1, CongTimes
    <3>7. 1 * T[j] + cm * F(j, xm) = T[j] + cm * F(j, xm) /\ T[j] + cm * 1 = T[m]
      <4> HIDE DEF cm, F, T
      <4>1. cm * F(j, xm) \in Int
        BY <2>5, <3>4
      <4> QED BY <2>4, <2>5, <3>4, <4>1
    <3>8. Cong(F(j, s), T[m])
      <4> HIDE DEF cm, F, T
      <4> QED BY <3>3, <3>6, <3>7, CongChain
    <3> QED BY <2>4, <3>2, <3>8, CongChain
  <2> QED BY <2>6, <2>7
<1>4. \A j \in 0 .. n : j \in S
  <2>1. 0 \in S
    OBVIOUS
  <2> HIDE DEF S
  <2> QED BY <1>3, <2>1, CountTo
<1>5. Cong(F(k, t), 1)
  BY <1>4
<1> QED BY <1>5 DEF Interpolated, a

(* Every power below the number of points is interpolated to itself.       *)
LEMMA PowerInterpolated ==
    ASSUME NEW n \in Nat, NEW x, Distinct(x, n), NEW coeff \in [1 .. n -> Int],
           NEW m \in 0 .. n, NEW k \in m + 1 .. n, NEW t \in Int
    PROVE  Cong(Interpolated(x, n, k, t, [i \in 1 .. n |-> PolySums(coeff, x[i])[m].xi]),
                PolySums(coeff, t)[m].xi)
<1> DEFINE pw(j, y) == PolySums(coeff, y)[j].xi
           v(j) == [i \in 1 .. n |-> pw(j, x[i])]
           a(j, q, s) == [i \in 1 .. n |-> v(j)[i] * Coefficient(x, q, i, s)]
           F(j, q, s) == Totals(a(j, q, s), n)[q]
           S == {j \in 0 .. n : \A q \in j + 1 .. n, s \in Int : Cong(F(j, q, s), pw(j, s))}
<1>1. \A j \in 0 .. n, y \in Int : pw(j, y) \in Int
  BY PolySumsStep
<1>2. \A y \in Int : pw(0, y) = 1
  BY PolySumsStep
<1>3. \A j \in 0 .. n - 1, y \in Int : Cong(pw(j + 1, y), pw(j, y) * y)
  <2>1. SUFFICES ASSUME NEW j \in 0 .. n - 1, NEW y \in Int
                 PROVE  Cong(pw(j + 1, y), pw(j, y) * y)
    OBVIOUS
  <2>2. j + 1 \in 1 .. n /\ (j + 1) - 1 = j /\ j \in 0 .. n
    OBVIOUS
  <2>3. pw(j + 1, y) = (pw(j, y) * y) % P
    <3> DEFINE G == PolySums(coeff, y)
    <3>2. \A i \in 1 .. n : G[i].xi = (G[i - 1].xi * y) % P
      BY PolySumsStep
    <3> HIDE DEF G
    <3>3. G[j + 1].xi = (G[j].xi * y) % P
      <4> DEFINE m1 == j + 1
      <4>1. m1 \in 1 .. n /\ m1 - 1 = j
        BY <2>2
      <4> HIDE DEF m1
      <4>2. G[m1].xi = (G[j].xi * y) % P
        BY <3>2, <4>1
      <4> QED BY <4>2 DEF m1
    <3> QED BY <3>3 DEF G
  <2>4. pw(j, y) * y \in Int
    BY <1>1, <2>2
  <2> HIDE DEF pw
  <2> QED BY <2>3, <2>4, CongRemainder
<1>4. x \in [1 .. n -> Int]
  BY DistinctTypes
<1> HIDE DEF pw
<1>5. \A j \in 0 .. n, q \in 0 .. n, s \in Int, i \in 1 .. n :
         /\ a(j, q, s)[i] = pw(j, x[i]) * Coefficient(x, q, i, s)
         /\ a(j, q, s)[i] \in Int
         /\ Coefficient(x, q, i, s) \in Int /\ pw(j, x[i]) \in Int
  <2>1. SUFFICES ASSUME NEW j \in 0 .. n, NEW q \in 0 .. n, NEW s \in Int, NEW i \in 1 .. n
                 PROVE  /\ a(j, q, s)[i] = pw(j, x[i]) * Coefficient(x, q, i, s)
                        /\ a(j, q, s)[i] \in Int
                        /\ Coefficient(x, q, i, s) \in Int /\ pw(j, x[i]) \in Int
    OBVIOUS
  <2>2. Coefficient(x, q, i, s) \in Int
    BY CoefficientQuotient
  <2>3. x[i] \in Int
    BY <1>4
  <2>4. pw(j, x[i]) \in Int
    BY <1>1, <2>3
  <2>5. a(j, q, s)[i] = pw(j, x[i]) * Coefficient(x, q, i, s)
    OBVIOUS
  <2>6. pw(j, x[i]) * Coefficient(x, q, i, s) \in Int
    BY <2>2, <2>4
  <2> HIDE DEF a
  <2> QED BY <2>2, <2>4, <2>5, <2>6
<1>6. \A j \in 0 .. n, q \in 0 .. n, s \in Int : a(j, q, s) \in [1 .. n -> Int]
  <2>1. \A j, q, s : a(j, q, s) = [i \in 1 .. n |-> a(j, q, s)[i]]
    OBVIOUS
  <2> HIDE DEF a
  <2> QED BY <1>5, <2>1
<1>7. 0 \in S
  <2>1. SUFFICES ASSUME NEW q \in 0 + 1 .. n, NEW s \in Int
                 PROVE  Cong(F(0, q, s), pw(0, s))
    OBVIOUS
  <2>2. v(0) = [i \in 1 .. n |-> 1]
    BY <1>2, <1>4
  <2>3. q \in 1 .. n
    OBVIOUS
  <2>4. F(0, q, s) = Interpolated(x, n, q, s, v(0))
    BY DEF Interpolated
  <2>5. pw(0, s) = 1
    BY <1>2
  <2> HIDE DEF F, v
  <2> QED BY <2>2, <2>3, <2>4, <2>5, ConstantInterpolated
<1>8. \A j \in 0 .. n - 1 : j \in S => j + 1 \in S
  <2>0. SUFFICES ASSUME NEW j \in 0 .. n - 1, j \in S PROVE j + 1 \in S
    OBVIOUS
  <2>1. SUFFICES ASSUME NEW q \in (j + 1) + 1 .. n, NEW s \in Int
                 PROVE  Cong(F(j + 1, q, s), pw(j + 1, s))
    <3>1. j + 1 \in 0 .. n
      OBVIOUS
    <3> HIDE DEF F
    <3> QED BY <2>1, <3>1
  <2>2. /\ j \in 0 .. n /\ j + 1 \in 0 .. n /\ q \in 1 .. n /\ q \in 0 .. n /\ q - 1 \in 0 .. n
        /\ q \in j + 1 .. n /\ q - 1 \in j + 1 .. n
    OBVIOUS
  <2> DEFINE A == a(j, q, s)
             B == a(j + 1, q, s)
             C == a(j, q - 1, s)
             TA == Totals(A, n)
             TB == Totals(B, n)
             TC == Totals(C, n)
             xq == x[q]
             d == s - xq
             p == pw(j, s)
  <2>3. xq \in Int /\ d \in Int /\ p \in Int
    <3>1. xq \in Int
      BY <1>4, <2>2
    <3>2. p \in Int
      BY <1>1, <2>2
    <3> HIDE DEF xq
    <3> QED BY <3>1, <3>2
  <2>4. A \in [1 .. n -> Int] /\ B \in [1 .. n -> Int] /\ C \in [1 .. n -> Int]
    <3> HIDE DEF a
    <3> QED BY <1>6, <2>2
  <2>5. \A i \in 1 .. q - 1 : Cong(B[i], xq * A[i] + d * C[i])
    <3>1. SUFFICES ASSUME NEW i \in 1 .. q - 1 PROVE Cong(B[i], xq * A[i] + d * C[i])
      OBVIOUS
    <3> DEFINE xi == x[i]
               c == Coefficient(x, q, i, s)
               c0 == Coefficient(x, q - 1, i, s)
               r == pw(j, x[i])
               r1 == pw(j + 1, x[i])
    <3>2. i \in 1 .. n /\ i # q
      BY <2>2
    <3>3. /\ xi \in Int /\ c \in Int /\ c0 \in Int /\ r \in Int /\ r1 \in Int
          /\ A[i] = r * c /\ B[i] = r1 * c /\ C[i] = r * c0
      BY <1>4, <1>5, <2>2, <3>2
    <3>4. Cong(r1, r * xi)
      BY <1>3, <3>3
    <3>5. Cong(c * (xi - xq), c0 * d)
      BY <2>2, <3>2, CoefficientStep
    <3> HIDE DEF A, B, C, xq, d, xi, c, c0, r, r1
    <3>6. /\ r * xi \in Int /\ xi - xq \in Int /\ c * (xi - xq) \in Int /\ c0 * d \in Int
          /\ xq * (r * c) \in Int /\ r * (c * (xi - xq)) \in Int /\ r * (c0 * d) \in Int
      <4>1. r * c \in Int
        BY <3>3
      <4>2. xi - xq \in Int /\ c * (xi - xq) \in Int /\ c0 * d \in Int
        BY <2>3, <3>3
      <4> QED BY <2>3, <3>3, <4>1, <4>2
    <3>7. Cong(r1 * c, (r * xi) * c)
      BY <3>3, <3>4, <3>6, CongTimes
    <3>8. (r * xi) * c = xq * (r * c) + r * (c * (xi - xq))
      BY <2>3, <3>3
    <3>9. Cong(r * (c * (xi - xq)), r * (c0 * d))
      BY <3>3, <3>5, <3>6, CongTimes
    <3>10. Cong(xq * (r * c) + r * (c * (xi - xq)), xq * (r * c) + r * (c0 * d))
      BY <3>6, <3>9, CongTimes
    <3>11. r * (c0 * d) = d * (r * c0)
      BY <2>3, <3>3
    <3> QED BY <3>3, <3>7, <3>8, <3>10, <3>11, CongChain
  <2>6. /\ TA \in [0 .. n -> Int] /\ TB \in [0 .. n -> Int] /\ TC \in [0 .. n -> Int]
        /\ TA[q] = TA[q - 1] + A[q] /\ TB[q] = TB[q - 1] + B[q]
    <3> HIDE DEF A, B, C
    <3> QED BY <2>2, <2>4, TotalsStep
  <2>7. Cong(TB[q - 1], xq * TA[q - 1] + d * TC[q - 1])
    <3> HIDE DEF A, B, C, xq, d
    <3> QED BY <2>2, <2>3, <2>4, <2>5, TotalsCombine
  <2>8. Cong(B[q], xq * A[q])
    <3> DEFINE c == Coefficient(x, q, q, s)
               r == pw(j, x[q])
               r1 == pw(j + 1, x[q])
    <3>1. /\ c \in Int /\ r \in Int /\ r1 \in Int /\ A[q] = r * c /\ B[q] = r1 * c
      BY <1>5, <2>2
    <3>2. Cong(r1, r * xq)
      BY <1>3, <2>3
    <3> HIDE DEF A, B, xq, c, r, r1
    <3>3. r * xq \in Int
      BY <2>3, <3>1
    <3>4. Cong(r1 * c, (r * xq) * c)
      BY <3>1, <3>2, <3>3, CongTimes
    <3>5. (r * xq) * c = xq * (r * c)
      BY <2>3, <3>1
    <3> QED BY <3>1, <3>4, <3>5
  <2>9. Cong(TA[q], p) /\ Cong(TC[q - 1], p)
    BY <2>0, <2>2
  <2>10. Cong(pw(j + 1, s), p * s)
    BY <1>3
  <2>11. A[q] \in Int /\ B[q] \in Int /\ TA[q - 1] \in Int /\ TB[q - 1] \in Int
         /\ TA[q] \in Int /\ TC[q - 1] \in Int
    <3> HIDE DEF A, B, TA, TB, TC
    <3> QED BY <2>2, <2>4, <2>6
  <2>12. F(j + 1, q, s) = TB[q]
    OBVIOUS
  <2> HIDE DEF A, B, C, TA, TB, TC, xq, d, p, F
  <2>13. /\ xq * TA[q - 1] + d * TC[q - 1] \in Int /\ xq * A[q] \in Int
         /\ xq * TA[q] \in Int /\ d * TC[q - 1] \in Int /\ xq * p \in Int /\ d * p \in Int
    BY <2>3, <2>11, SMTT(60)
  <2>14. Cong(TB[q], (xq * TA[q - 1] + d * TC[q - 1]) + xq * A[q])
    BY <2>6, <2>7, <2>8, <2>11, <2>13, CongSum, ZenonT(60)
  <2>15. (xq * TA[q - 1] + d * TC[q - 1]) + xq * A[q] = xq * TA[q] + d * TC[q - 1]
    <3> DEFINE y == TA[q - 1]
               z == A[q]
               w == d * TC[q - 1]
    <3>1. y \in Int /\ z \in Int /\ w \in Int /\ TA[q] = y + z
      BY <2>6, <2>11, <2>13
    <3> HIDE DEF y, z, w
    <3>2. (xq * y + w) + xq * z = xq * (y + z) + w
      BY <2>3, <3>1
    <3> QED BY <3>1, <3>2 DEF y, z, w
  <2>16. Cong(xq * TA[q] + d * TC[q - 1], xq * p + d * p)
    <3>1. Cong(xq * TA[q], xq * p) /\ Cong(d * TC[q - 1], d * p)
      BY <2>3, <2>9, <2>11, CongTimes
    <3> QED BY <2>13, <3>1, CongSum
  <2>17. xq * p + d * p = p * s
    BY <2>3 DEF d
  <2> QED BY <2>10, <2>12, <2>14, <2>15, <2>16, <2>17, CongChain
<1>9. \A j \in 0 .. n : j \in S
  <2> HIDE DEF S
  <2> QED BY <1>7, <1>8, CountTo
<1>10. Cong(F(m, k, t), pw(m, t))
  BY <1>9
<1> QED BY <1>10 DEF Interpolated, pw

(* So is a polynomial with no more coefficients than there are points.     *)
LEMMA PolynomialInterpolated ==
    ASSUME NEW n \in Nat, NEW x, Distinct(x, n), NEW coeff \in [1 .. n -> Int],
           NEW t \in Int
    PROVE  Cong(Interpolated(x, n, n, t, [i \in 1 .. n |-> PolySums(coeff, x[i])[n].sum]),
                PolySums(coeff, t)[n].sum)
<1> DEFINE pw(j, y) == PolySums(coeff, y)[j].xi
           sm(j, y) == PolySums(coeff, y)[j].sum
           v(j) == [i \in 1 .. n |-> sm(j, x[i])]
           u(j) == [i \in 1 .. n |-> pw(j, x[i])]
           a(j, s) == [i \in 1 .. n |-> v(j)[i] * Coefficient(x, n, i, s)]
           b(j, s) == [i \in 1 .. n |-> u(j)[i] * Coefficient(x, n, i, s)]
           F(j, s) == Totals(a(j, s), n)[n]
           G(j, s) == Totals(b(j, s), n)[n]
           S == {j \in 0 .. n : \A s \in Int : Cong(F(j, s), sm(j, s))}
<1>1. \A j \in 0 .. n, y \in Int : pw(j, y) \in Int /\ sm(j, y) \in Int
  BY PolySumsStep
<1>2. \A y \in Int : sm(0, y) = 0
  BY PolySumsStep
<1>3. \A j \in 0 .. n - 1, y \in Int :
         coeff[j + 1] \in Int /\ Cong(sm(j + 1, y), sm(j, y) + pw(j, y) * coeff[j + 1])
  <2>1. SUFFICES ASSUME NEW j \in 0 .. n - 1, NEW y \in Int
                 PROVE  /\ coeff[j + 1] \in Int
                        /\ Cong(sm(j + 1, y), sm(j, y) + pw(j, y) * coeff[j + 1])
    OBVIOUS
  <2> DEFINE m1 == j + 1
             H == PolySums(coeff, y)
  <2>2. m1 \in 1 .. n /\ m1 - 1 = j /\ j \in 0 .. n
    OBVIOUS
  <2>3. \A i \in 1 .. n : H[i].sum = (H[i - 1].sum + H[i - 1].xi * coeff[i]) % P
    BY PolySumsStep
  <2>4. coeff[m1] \in Int /\ sm(j, y) \in Int /\ pw(j, y) \in Int
    BY <1>1, <2>2
  <2> HIDE DEF m1, H
  <2>5. H[m1].sum = (H[j].sum + H[j].xi * coeff[m1]) % P
    BY <2>2, <2>3
  <2>6. H[j].sum + H[j].xi * coeff[m1] \in Int
    BY <2>4 DEF H
  <2>7. Cong(H[m1].sum, H[j].sum + H[j].xi * coeff[m1])
    BY <2>5, <2>6, CongRemainder
  <2> QED BY <2>4, <2>7 DEF m1, H
<1>4. x \in [1 .. n -> Int] /\ n \in 0 .. n
  BY DistinctTypes
<1> HIDE DEF pw, sm
<1>5. \A j \in 0 .. n, s \in Int, i \in 1 .. n :
         /\ a(j, s)[i] = sm(j, x[i]) * Coefficient(x, n, i, s) /\ a(j, s)[i] \in Int
         /\ b(j, s)[i] = pw(j, x[i]) * Coefficient(x, n, i, s) /\ b(j, s)[i] \in Int
         /\ Coefficient(x, n, i, s) \in Int /\ x[i] \in Int
         /\ pw(j, x[i]) \in Int /\ sm(j, x[i]) \in Int
  <2>1. SUFFICES ASSUME NEW j \in 0 .. n, NEW s \in Int, NEW i \in 1 .. n
                 PROVE  /\ a(j, s)[i] = sm(j, x[i]) * Coefficient(x, n, i, s) /\ a(j, s)[i] \in Int
                        /\ b(j, s)[i] = pw(j, x[i]) * Coefficient(x, n, i, s) /\ b(j, s)[i] \in Int
                        /\ Coefficient(x, n, i, s) \in Int /\ x[i] \in Int
                        /\ pw(j, x[i]) \in Int /\ sm(j, x[i]) \in Int
    OBVIOUS
  <2>2. Coefficient(x, n, i, s) \in Int
    BY <1>4, CoefficientQuotient
  <2>3. x[i] \in Int
    BY <1>4
  <2>4. pw(j, x[i]) \in Int /\ sm(j, x[i]) \in Int
    BY <1>1, <2>3
  <2>5. /\ a(j, s)[i] = sm(j, x[i]) * Coefficient(x, n, i, s)
        /\ b(j, s)[i] = pw(j, x[i]) * Coefficient(x, n, i, s)
    OBVIOUS
  <2>6. /\ sm(j, x[i]) * Coefficient(x, n, i, s) \in Int
        /\ pw(j, x[i]) * Coefficient(x, n, i, s) \in Int
    BY <2>2, <2>4
  <2> HIDE DEF a, b
  <2> QED BY <2>2, <2>3, <2>4, <2>5, <2>6
<1>6. \A j \in 0 .. n, s \in Int : a(j, s) \in [1 .. n -> Int] /\ b(j, s) \in [1 .. n -> Int]
  <2>1. \A j, s : /\ a(j, s) = [i \in 1 .. n |-> a(j, s)[i]]
                  /\ b(j, s) = [i \in 1 .. n |-> b(j, s)[i]]
    OBVIOUS
  <2> HIDE DEF a, b
  <2> QED BY <1>5, <2>1
<1>7. \A j \in 0 .. n - 1, s \in Int : Cong(G(j, s), pw(j, s))
  <2>1. SUFFICES ASSUME NEW j \in 0 .. n - 1, NEW s \in Int PROVE Cong(G(j, s), pw(j, s))
    OBVIOUS
  <2>2. j \in 0 .. n /\ n \in j + 1 .. n
    OBVIOUS
  <2>3. Cong(Interpolated(x, n, n, s, u(j)), pw(j, s))
    BY <2>2, PowerInterpolated DEF pw
  <2> QED BY <2>3 DEF Interpolated
<1>8. 0 \in S
  <2>1. SUFFICES ASSUME NEW s \in Int PROVE Cong(F(0, s), sm(0, s))
    OBVIOUS
  <2> DEFINE A == a(0, s)
  <2>2. A \in [1 .. n -> Int] /\ 0 \in Int
    BY <1>6
  <2>3. \A i \in 1 .. n : Cong(A[i], 0 * A[i] + 0 * A[i])
    <3>1. SUFFICES ASSUME NEW i \in 1 .. n PROVE Cong(A[i], 0 * A[i] + 0 * A[i])
      OBVIOUS
    <3>2. A[i] = sm(0, x[i]) * Coefficient(x, n, i, s) /\ sm(0, x[i]) = 0
          /\ Coefficient(x, n, i, s) \in Int /\ A[i] \in Int
      <4>1. 0 \in 0 .. n
        OBVIOUS
      <4>2. x[i] \in Int /\ Coefficient(x, n, i, s) \in Int /\ A[i] \in Int
            /\ A[i] = sm(0, x[i]) * Coefficient(x, n, i, s)
        <5> HIDE DEF a
        <5> QED BY <1>5, <4>1
      <4> HIDE DEF A
      <4> QED BY <1>2, <4>2
    <3> HIDE DEF A
    <3>3. A[i] = 0 * A[i] + 0 * A[i]
      BY <3>2
    <3> QED BY <3>3, CongChain
  <2> HIDE DEF A
  <2>4. Cong(Totals(A, n)[n], 0 * Totals(A, n)[n] + 0 * Totals(A, n)[n])
    BY <1>4, <2>2, <2>3, TotalsCombine
  <2>5. Totals(A, n)[n] \in Int
    BY <1>4, <2>2, TotalsStep
  <2>6. 0 * Totals(A, n)[n] + 0 * Totals(A, n)[n] = 0
    BY <2>5
  <2>7. sm(0, s) = 0
    BY <1>2
  <2> QED BY <2>4, <2>6, <2>7 DEF A
<1>9. \A j \in 0 .. n - 1 : j \in S => j + 1 \in S
  <2>1. SUFFICES ASSUME NEW j \in 0 .. n - 1, j \in S PROVE j + 1 \in S
    OBVIOUS
  <2>2. j \in 0 .. n /\ j + 1 \in 0 .. n
    OBVIOUS
  <2>3. SUFFICES ASSUME NEW s \in Int PROVE Cong(F(j + 1, s), sm(j + 1, s))
    <3> HIDE DEF F
    <3> QED BY <2>2, <2>3
  <2> DEFINE A == a(j, s)
             B == a(j + 1, s)
             C == b(j, s)
             cf == coeff[j + 1]
             p == pw(j, s)
             r == sm(j, s)
  <2>4. cf \in Int /\ p \in Int /\ r \in Int /\ 1 \in Int
    <3>1. cf \in Int
      BY <1>3
    <3>2. p \in Int /\ r \in Int
      BY <1>1, <2>2
    <3> QED BY <3>1, <3>2
  <2>5. A \in [1 .. n -> Int] /\ B \in [1 .. n -> Int] /\ C \in [1 .. n -> Int]
    <3> HIDE DEF a, b
    <3> QED BY <1>6, <2>2
  <2>6. \A i \in 1 .. n : Cong(B[i], 1 * A[i] + cf * C[i])
    <3>1. SUFFICES ASSUME NEW i \in 1 .. n PROVE Cong(B[i], 1 * A[i] + cf * C[i])
      OBVIOUS
    <3> DEFINE c == Coefficient(x, n, i, s)
               y == sm(j, x[i])
               z == pw(j, x[i])
               y1 == sm(j + 1, x[i])
    <3>2. /\ A[i] = y * c /\ B[i] = y1 * c /\ C[i] = z * c
          /\ c \in Int /\ y \in Int /\ z \in Int /\ y1 \in Int /\ x[i] \in Int
      <4> HIDE DEF a, b
      <4> QED BY <1>5, <2>2
    <3>3. Cong(y1, y + z * cf)
      BY <1>3, <3>2
    <3> HIDE DEF A, B, C, c, y, z, y1, cf
    <3>4. y + z * cf \in Int
      BY <2>4, <3>2
    <3>5. Cong(y1 * c, (y + z * cf) * c)
      BY <3>2, <3>3, <3>4, CongTimes
    <3>6. (y + z * cf) * c = 1 * (y * c) + cf * (z * c)
      BY <2>4, <3>2
    <3> QED BY <3>2, <3>5, <3>6
  <2>7. F(j, s) = Totals(A, n)[n] /\ F(j + 1, s) = Totals(B, n)[n] /\ G(j, s) = Totals(C, n)[n]
    OBVIOUS
  <2>8. Cong(F(j + 1, s), 1 * F(j, s) + cf * G(j, s))
    <3> HIDE DEF A, B, C, F, G, cf
    <3> QED BY <1>4, <2>4, <2>5, <2>6, <2>7, TotalsCombine, ZenonT(60)
  <2>9. Cong(F(j, s), r) /\ Cong(G(j, s), p)
    BY <1>7, <2>1
  <2>10. Cong(sm(j + 1, s), r + p * cf)
    BY <1>3
  <2>11. F(j, s) \in Int /\ G(j, s) \in Int
    <3>1. Totals(A, n) \in [0 .. n -> Int] /\ Totals(C, n) \in [0 .. n -> Int]
      <4> HIDE DEF A, C
      <4> QED BY <2>5, TotalsStep
    <3> HIDE DEF A, B, C, F, G
    <3> QED BY <1>4, <2>7, <3>1
  <2> HIDE DEF F, G, cf, p, r
  <2>12. 1 * F(j, s) = F(j, s) /\ cf * G(j, s) \in Int /\ cf * p \in Int /\ p * cf = cf * p
    BY <2>4, <2>11
  <2>13. Cong(F(j, s) + cf * G(j, s), r + cf * p)
    <3>1. Cong(cf * G(j, s), cf * p)
      BY <2>4, <2>9, <2>11, CongTimes
    <3> QED BY <2>4, <2>9, <2>11, <2>12, <3>1, CongSum
  <2> QED BY <2>8, <2>10, <2>12, <2>13, CongChain
<1>10. \A j \in 0 .. n : j \in S
  <2> HIDE DEF S
  <2> QED BY <1>8, <1>9, CountTo
<1>11. Cong(F(n, t), sm(n, t))
  BY <1>4, <1>10
<1> QED BY <1>11 DEF Interpolated, sm

-----------------------------------------------------------------------------
(* What LagrangeScalar makes of shares of one polynomial.                  *)

(* It sums values times coefficients of all the points.                    *)
LEMMA LagrangeScalarSum ==
    ASSUME NEW n \in Nat, NEW points \in [1 .. n -> [Index : Int, Value : Int]],
           NEW x, x = [i \in 1 .. n |-> points[i].Index], Distinct(x, n), NEW t \in Int
    PROVE  /\ LagrangeScalar(points, t) \in Scalar
           /\ Cong(LagrangeScalar(points, t),
                   Interpolated(x, n, n, t, [i \in 1 .. n |-> points[i].Value]))
<1> DEFINE v == [i \in 1 .. n |-> points[i].Value]
           a == [i \in 1 .. n |-> v[i] * Coefficient(x, n, i, t)]
           T == Totals(a, n)
           L == LagrangeSums(points, t)
           S == {j \in 0 .. n : L[j] \in Scalar /\ Cong(L[j], T[j])}
<1>1. Len(points) = n /\ Indices(points) = x
  <2>1. Len(points) = n
    BY IsSequence
  <2> QED BY <2>1 DEF Indices
<1>2. \A i \in 1 .. n : /\ LagrangeCoeff(points[i].Index, t, Indices(points))
                             = Coefficient(x, n, i, t)
                        /\ Coefficient(x, n, i, t) \in Int
  <2>1. SUFFICES ASSUME NEW i \in 1 .. n
                 PROVE  /\ LagrangeCoeff(points[i].Index, t, Indices(points))
                             = Coefficient(x, n, i, t)
                        /\ Coefficient(x, n, i, t) \in Int
    OBVIOUS
  <2>2. points[i].Index = x[i]
    OBVIOUS
  <2>3. Len(x) = n
    BY DistinctTypes, IsSequence
  <2>4. LagrangeCoeff(x[i], t, x) = Coefficient(x, n, i, t)
    BY <2>3 DEF LagrangeCoeff, Coefficient
  <2>5. Coefficient(x, n, i, t) \in Int
    <3>1. n \in 0 .. n
      OBVIOUS
    <3> QED BY <3>1, CoefficientQuotient
  <2> QED BY <1>1, <2>2, <2>4, <2>5
<1>3. /\ L \in [0 .. n -> Int] /\ L[0] = 0
      /\ \A i \in 1 .. n : L[i] = (L[i - 1] + points[i].Value *
                              LagrangeCoeff(points[i].Index, t, Indices(points))) % P
  BY <1>2, LagrangeSumsStep
<1>4. \A i \in 1 .. n : a[i] = points[i].Value * Coefficient(x, n, i, t) /\ a[i] \in Int
  <2>1. SUFFICES ASSUME NEW i \in 1 .. n
                 PROVE  a[i] = points[i].Value * Coefficient(x, n, i, t) /\ a[i] \in Int
    OBVIOUS
  <2> DEFINE c == Coefficient(x, n, i, t)
             w == points[i].Value
  <2>2. a[i] = w * c
    OBVIOUS
  <2>3. w \in Int /\ c \in Int
    BY <1>2
  <2> HIDE DEF a, c, w
  <2>4. w * c \in Int
    BY <2>3
  <2> QED BY <2>2, <2>4 DEF c, w
<1>5. a \in [1 .. n -> Int]
  <2>1. a = [i \in 1 .. n |-> a[i]]
    OBVIOUS
  <2> HIDE DEF a
  <2> QED BY <1>4, <2>1
<1>6. \A i \in 1 .. n : L[i] = (L[i - 1] + a[i]) % P
  <2> HIDE DEF a, L
  <2> QED BY <1>2, <1>3, <1>4
<1>7. T \in [0 .. n -> Int] /\ T[0] = 0 /\ \A i \in 1 .. n : T[i] = T[i - 1] + a[i]
  <2> HIDE DEF a
  <2> QED BY <1>5, TotalsStep
<1> HIDE DEF a, T, L
<1>8. 0 \in S
  BY <1>3, <1>7, GroupAssumption, CongChain DEF Scalar
<1>9. \A j \in 0 .. n - 1 : j \in S => j + 1 \in S
  <2>1. SUFFICES ASSUME NEW j \in 0 .. n - 1, j \in S PROVE j + 1 \in S
    OBVIOUS
  <2> DEFINE m == j + 1
  <2>2. m \in 1 .. n /\ m \in 0 .. n /\ m - 1 = j /\ j \in 0 .. n
    OBVIOUS
  <2> HIDE DEF m
  <2>3. L[m] = (L[j] + a[m]) % P /\ T[m] = T[j] + a[m]
    BY <1>6, <1>7, <2>2
  <2>4. L[j] \in Int /\ T[j] \in Int /\ a[m] \in Int
    BY <1>3, <1>5, <1>7, <2>2
  <2>5. L[j] + a[m] \in Int
    BY <2>4
  <2>6. L[m] \in Scalar /\ Cong(L[m], L[j] + a[m])
    BY <2>3, <2>5, CongRemainder
  <2>7. Cong(L[j] + a[m], T[j] + a[m])
    BY <2>1, <2>4, CongTimes
  <2>8. Cong(L[m], T[m])
    BY <2>3, <2>6, <2>7, CongChain
  <2> QED BY <2>2, <2>6, <2>8 DEF m
<1>10. \A j \in 0 .. n : j \in S
  <2> HIDE DEF S
  <2> QED BY <1>8, <1>9, CountTo
<1>11. L[n] \in Scalar /\ Cong(L[n], T[n])
  <2>1. n \in 0 .. n
    OBVIOUS
  <2> QED BY <1>10, <2>1
<1> QED BY <1>1, <1>11 DEF LagrangeScalar, Interpolated, L, T, a

(* Shares that are multiples of one polynomial's values give that multiple *)
(* of the polynomial at any target, whichever points they are from.        *)
LEMMA SharesInterpolated ==
    ASSUME NEW n \in Nat, NEW points \in [1 .. n -> [Index : Int, Value : Int]],
           Distinct([i \in 1 .. n |-> points[i].Index], n),
           NEW coeff \in [1 .. n -> Int], NEW q \in Int,
           \A i \in 1 .. n :
             points[i].Value = (PolyEval(coeff, points[i].Index) * q) % P,
           NEW t \in Int
    PROVE  LagrangeScalar(points, t) = (PolyEval(coeff, t) * q) % P
<1> DEFINE x == [i \in 1 .. n |-> points[i].Index]
           v == [i \in 1 .. n |-> points[i].Value]
           p == [i \in 1 .. n |-> PolySums(coeff, x[i])[n].sum]
           A == [i \in 1 .. n |-> p[i] * Coefficient(x, n, i, t)]
           B == [i \in 1 .. n |-> v[i] * Coefficient(x, n, i, t)]
           pt == PolyEval(coeff, t)
           FA == Totals(A, n)[n]
           FB == Totals(B, n)[n]
<1>1. n \in 0 .. n /\ 0 \in Int
  OBVIOUS
<1>2. \A y : PolyEval(coeff, y) = PolySums(coeff, y)[n].sum
  <2>1. Len(coeff) = n
    BY IsSequence
  <2> QED BY <2>1 DEF PolyEval
<1>3. \A y \in Int : PolySums(coeff, y)[n].sum \in Int
  <2>1. SUFFICES ASSUME NEW y \in Int PROVE PolySums(coeff, y)[n].sum \in Int
    OBVIOUS
  <2>2. PolySums(coeff, y) \in [0 .. n -> [sum : Int, xi : Int]]
    BY PolySumsStep
  <2> QED BY <1>1, <2>2
<1>4. pt \in Int
  BY <1>2, <1>3
<1>5. \A i \in 1 .. n :
         /\ A[i] = p[i] * Coefficient(x, n, i, t) /\ B[i] = v[i] * Coefficient(x, n, i, t)
         /\ p[i] \in Int /\ Coefficient(x, n, i, t) \in Int /\ v[i] = (p[i] * q) % P
  <2>1. SUFFICES ASSUME NEW i \in 1 .. n
                 PROVE  /\ A[i] = p[i] * Coefficient(x, n, i, t)
                        /\ B[i] = v[i] * Coefficient(x, n, i, t)
                        /\ p[i] \in Int /\ Coefficient(x, n, i, t) \in Int
                        /\ v[i] = (p[i] * q) % P
    OBVIOUS
  <2>2. x[i] \in Int /\ x[i] = points[i].Index
    OBVIOUS
  <2>3. p[i] = PolyEval(coeff, x[i]) /\ p[i] \in Int
    BY <1>2, <1>3, <2>2
  <2>4. Coefficient(x, n, i, t) \in Int
    <3> HIDE DEF x
    <3> QED BY <1>1, CoefficientQuotient DEF x
  <2>5. v[i] = (p[i] * q) % P
    BY <2>2, <2>3
  <2>6. A[i] = p[i] * Coefficient(x, n, i, t) /\ B[i] = v[i] * Coefficient(x, n, i, t)
    OBVIOUS
  <2> HIDE DEF A, B, p, v, x
  <2> QED BY <2>3, <2>4, <2>5, <2>6
<1>6. A = [i \in 1 .. n |-> A[i]] /\ B = [i \in 1 .. n |-> B[i]]
  OBVIOUS
<1> HIDE DEF A, B, p, v, x
<1>7. \A i \in 1 .. n : A[i] \in Int /\ B[i] \in Int /\ Cong(B[i], q * A[i] + 0 * A[i])
  <2>1. SUFFICES ASSUME NEW i \in 1 .. n
                 PROVE  A[i] \in Int /\ B[i] \in Int /\ Cong(B[i], q * A[i] + 0 * A[i])
    OBVIOUS
  <2> DEFINE c == Coefficient(x, n, i, t)
             r == p[i]
             s == v[i]
  <2>2. A[i] = r * c /\ B[i] = s * c /\ r \in Int /\ c \in Int /\ s = (r * q) % P
    BY <1>5
  <2> HIDE DEF c, r, s
  <2>3. r * q \in Int
    BY <2>2
  <2>4. s \in Int /\ Cong(s, r * q)
    BY <2>2, <2>3, CongRemainder
  <2>5. Cong(s * c, (r * q) * c)
    BY <2>2, <2>3, <2>4, CongTimes
  <2>6. (r * q) * c = q * (r * c) + 0 * (r * c)
    BY <2>2
  <2>7. r * c \in Int /\ s * c \in Int
    BY <2>2, <2>4
  <2> QED BY <2>2, <2>5, <2>6, <2>7
<1>8. A \in [1 .. n -> Int] /\ B \in [1 .. n -> Int]
  BY <1>6, <1>7
<1>9. Cong(FB, q * FA + 0 * FA) /\ FA \in Int
  <2>1. Cong(FB, q * FA + 0 * FA)
    BY <1>1, <1>7, <1>8, TotalsCombine
  <2>2. Totals(A, n) \in [0 .. n -> Int]
    BY <1>8, TotalsStep
  <2> QED BY <1>1, <2>1, <2>2
<1>10. Cong(FA, pt)
  <2>1. Cong(Interpolated(x, n, n, t, p), PolySums(coeff, t)[n].sum)
    BY PolynomialInterpolated DEF x, p
  <2> QED BY <1>2, <2>1 DEF Interpolated, A
<1>11. LagrangeScalar(points, t) \in Scalar /\ Cong(LagrangeScalar(points, t), FB)
  <2>1. /\ LagrangeScalar(points, t) \in Scalar
        /\ Cong(LagrangeScalar(points, t), Interpolated(x, n, n, t, v))
    BY LagrangeScalarSum DEF x, v
  <2> QED BY <2>1 DEF Interpolated, B
<1> HIDE DEF FA, FB, pt
<1>12. q * FA + 0 * FA = FA * q /\ pt * q \in Int
  BY <1>4, <1>9
<1>13. Cong(FA * q, pt * q)
  BY <1>4, <1>9, <1>10, CongTimes
<1>14. (pt * q) % P \in Scalar /\ Cong((pt * q) % P, pt * q)
  BY <1>12, CongRemainder
<1>15. Cong(LagrangeScalar(points, t), (pt * q) % P)
  BY <1>9, <1>11, <1>12, <1>13, <1>14, CongChain
<1> QED BY <1>11, <1>14, <1>15, CongEqual DEF pt
-----------------------------------------------------------------------------
(* What getSk keeps up.                                                    *)

(* A value of the KGCs' polynomial is a scalar.                            *)
LEMMA PolyEvalType ==
    ASSUME NEW coeff \in [1 .. Threshold -> Int], NEW x \in Int
    PROVE  PolyEval(coeff, x) \in Scalar
<1>1. Threshold \in Nat \ {0} /\ Threshold \in 1 .. Threshold /\ Threshold - 1 \in 0 .. Threshold
  BY KGCAssumption
<1>2. Len(coeff) = Threshold
  BY <1>1, IsSequence
<1> DEFINE L == PolySums(coeff, x)
<1>3. /\ L \in [0 .. Threshold -> [sum : Int, xi : Int]]
      /\ L[Threshold].sum = (L[Threshold - 1].sum + L[Threshold - 1].xi * coeff[Threshold]) % P
  BY <1>1, PolySumsStep
<1> DEFINE y == L[Threshold - 1]
           z == y.xi * coeff[Threshold]
<1>4. y.sum \in Int /\ z \in Int
  <2>1. y \in [sum : Int, xi : Int] /\ coeff[Threshold] \in Int
    <3> HIDE DEF L
    <3> QED BY <1>1, <1>3
  <2> DEFINE b == coeff[Threshold]
  <2>2. y.xi \in Int /\ y.sum \in Int /\ b \in Int
    <3> HIDE DEF y
    <3> QED BY <2>1
  <2> HIDE DEF y, b
  <2>3. y.xi * b \in Int
    BY <2>2
  <2> QED BY <2>2, <2>3 DEF b
<1>5. (y.sum + z) % P \in Scalar
  <2> HIDE DEF y, z
  <2> QED BY <1>4, CongRemainder
<1> QED BY <1>2, <1>3, <1>5 DEF PolyEval

(* Going on to the next KGC stays among the KGCs, or ends the loop with    *)
(* enough shares.                                                          *)
LEMMA Onward ==
    ASSUME TypeOK, NEW u \in User, NEW taken, Continue(u, taken) \/ Break(u, taken)
    PROVE  /\ at' \in [User -> 1 .. KGC]
           /\ \/ state' = state
              \/ /\ state' = [state EXCEPT ![u] = "has shares"]
                 /\ Len(taken) >= Threshold
<1>1. CASE state' = [state EXCEPT ![u] = "has shares"] /\ UNCHANGED at /\ Len(taken) >= Threshold
  BY <1>1 DEF TypeOK
<1>2. CASE at' = [at EXCEPT ![u] = Following(@)] /\ UNCHANGED state
  <2>1. \A i \in 1 .. KGC : (i % KGC) + 1 \in 1 .. KGC
    BY KGCAssumption
  <2>2. at[u] \in 1 .. KGC
    BY DEF TypeOK
  <2>3. Following(at[u]) \in 1 .. KGC
    BY <2>1, <2>2 DEF Following
  <2> QED BY <1>2, <2>3 DEF TypeOK
<1> QED BY <1>1, <1>2 DEF Continue, Break

(* A share is taken or refused, or there is no place for it.               *)
LEMMA ReceiveCases ==
    ASSUME TypeOK, NEW u \in User, NEW p, NEW q, Receive(u, p, q)
    PROVE  \/ UNCHANGED <<vis, shares>> /\ Continue(u, shares[u])
           \/ /\ UNCHANGED <<at, vis, shares>>
              /\ state' = [state EXCEPT ![u] = "panics"]
           \/ /\ p = PolyEval(Coeff, at[u]) /\ q = Pair(p, Qid[u])
              /\ Len(shares[u]) # Threshold
              /\ vis' = [vis EXCEPT ![u] = vis[u] \cup {at[u]}]
              /\ shares' = [shares EXCEPT ![u] =
                    Append(@, [Index |-> at[u], ppub |-> p, sk |-> q])]
              /\ \/ Continue(u, Append(shares[u], [Index |-> at[u], ppub |-> p, sk |-> q]))
                 \/ Break(u, Append(shares[u], [Index |-> at[u], ppub |-> p, sk |-> q]))
<1> DEFINE taken == Append(shares[u], [Index |-> at[u], ppub |-> p, sk |-> q])
<1>1. CASE ~ Verified(u, at[u], p, q)
  BY <1>1 DEF Receive
<1>2. CASE Verified(u, at[u], p, q) /\ Len(shares[u]) = Threshold
  BY <1>2 DEF Receive
<1>3. CASE Verified(u, at[u], p, q) /\ Len(shares[u]) # Threshold
  <2>1. /\ vis' = [vis EXCEPT ![u] = Visited(u, at[u])]
        /\ shares' = [shares EXCEPT ![u] = taken]
        /\ Break(u, taken) \/ Continue(u, taken)
    <3> HIDE DEF taken
    <3> QED BY <1>3 DEF Receive, taken
  <2>2. p = PolyEval(Coeff, at[u]) /\ q = Pair(p, Qid[u])
    BY <1>3 DEF Verified
  <2>3. shares' = [shares EXCEPT ![u] = Append(@, [Index |-> at[u], ppub |-> p, sk |-> q])]
    BY <2>1
  <2> QED BY <1>3, <2>1, <2>2, <2>3 DEF Visited
<1> QED BY <1>1, <1>2, <1>3

(* The values a KGC holds, and products of scalars, are scalars.           *)
LEMMA ShareTypes ==
    ASSUME TypeOK, NEW u \in User, NEW i \in 1 .. KGC
    PROVE  /\ PolyEval(Coeff, i) \in Scalar
           /\ \A p \in Scalar : Pair(p, Qid[u]) \in Scalar
<1>1. Coeff \in [1 .. Threshold -> Int]
  <2>1. Coeff \in [1 .. Threshold -> Scalar]
    BY DEF TypeOK
  <2>2. Scalar \subseteq Int
    BY GroupAssumption DEF Scalar
  <2> QED BY <2>1, <2>2
<1>2. PolyEval(Coeff, i) \in Scalar
  <2>1. i \in Int
    OBVIOUS
  <2> QED BY <1>1, <2>1, PolyEvalType
<1>3. ASSUME NEW p \in Scalar PROVE Pair(p, Qid[u]) \in Scalar
  <2>1. p \in Int /\ Qid[u] \in Int
    BY GroupAssumption, UserAssumption DEF Scalar
  <2> DEFINE q == Qid[u]
  <2> HIDE DEF q
  <2>2. p * q \in Int
    BY <2>1 DEF q
  <2>3. (p * q) % P \in Scalar
    BY <2>2, CongRemainder
  <2> QED BY <2>3 DEF Pair, q
<1> QED BY <1>2, <1>3

-----------------------------------------------------------------------------
(* The inductive invariant.                                                *)

(* A share u has taken is what its KGC holds, and the KGC is in vis[u].    *)
SharesGood ==
    \A u \in User : \A i \in 1 .. Len(shares[u]) :
        LET s == shares[u][i]
        IN  /\ s.Index \in vis[u]
            /\ s.ppub = PolyEval(Coeff, s.Index)
            /\ s.sk = Pair(s.ppub, Qid[u])

(* No KGC gives a user two shares. *)
SharesDistinct ==
    \A u \in User : \A i, j \in 1 .. Len(shares[u]) :
        i # j => shares[u][i].Index # shares[u][j].Index

(* The loop ends with as many shares as are interpolated, never more. *)
EnoughShares ==
    \A u \in User :
        /\ Len(shares[u]) <= Threshold
        /\ state[u] = "has shares" => Len(shares[u]) = Threshold

ShareInv == TypeOK /\ SharesGood /\ SharesDistinct /\ EnoughShares

KeyInv == ShareInv /\ SameKeyForAll

-----------------------------------------------------------------------------
(* Interpolate.                                                            *)

(* The points of either kind are at the numbers of different KGCs.         *)
LEMMA PointsAt ==
    ASSUME TypeOK, SharesDistinct, NEW u \in User, NEW k \in {"sk", "ppub"},
           NEW n, n = Len(shares[u])
    PROVE  /\ n \in Nat
           /\ Points(u, k) \in [1 .. n -> [Index : Int, Value : Int]]
           /\ Distinct([i \in 1 .. n |-> Points(u, k)[i].Index], n)
           /\ \A i \in 1 .. n : /\ Points(u, k)[i].Index = shares[u][i].Index
                                /\ Points(u, k)[i].Value = shares[u][i][k]
                                /\ shares[u][i].Index \in Int
                                /\ shares[u][i][k] \in Int
<1> DEFINE Share == [Index : 1 .. KGC, ppub : Scalar, sk : Scalar]
           x == [i \in 1 .. n |-> Points(u, k)[i].Index]
<1>1. shares[u] \in Seq(Share)
  BY DEF TypeOK
<1>2. n \in Nat /\ \A i \in 1 .. n : shares[u][i] \in Share
  <2> HIDE DEF Share
  <2> QED BY <1>1
<1>3. \A s \in Share : s.Index \in 1 .. P - 1 /\ s.Index \in Int /\ s[k] \in Int
  BY GroupAssumption, KGCAssumption DEF Scalar
<1> HIDE DEF Share
<1>4. \A i \in 1 .. n : Points(u, k)[i] = [Index |-> shares[u][i].Index, Value |-> shares[u][i][k]]
  BY DEF Points
<1>5. Points(u, k) \in [1 .. n -> [Index : Int, Value : Int]]
  BY <1>2, <1>3 DEF Points
<1>6. \A i \in 1 .. n : /\ Points(u, k)[i].Index = shares[u][i].Index
                        /\ Points(u, k)[i].Value = shares[u][i][k]
  <2>1. SUFFICES ASSUME NEW i \in 1 .. n
                 PROVE  /\ Points(u, k)[i].Index = shares[u][i].Index
                        /\ Points(u, k)[i].Value = shares[u][i][k]
    OBVIOUS
  <2> DEFINE w == shares[u][i][k]
             m == shares[u][i].Index
  <2>2. Points(u, k)[i] = [Index |-> m, Value |-> w]
    BY <1>4
  <2> HIDE DEF w, m
  <2> QED BY <2>2 DEF w, m
<1>7. Distinct(x, n)
  <2>1. \A i \in 1 .. n : x[i] = shares[u][i].Index /\ x[i] \in 1 .. P - 1
    BY <1>2, <1>3, <1>6
  <2>2. \A i, j \in 1 .. n : i # j => x[i] # x[j]
    <3>1. SUFFICES ASSUME NEW i \in 1 .. n, NEW j \in 1 .. n, i # j PROVE x[i] # x[j]
      OBVIOUS
    <3>2. shares[u][i].Index # shares[u][j].Index
      BY <3>1 DEF SharesDistinct
    <3> HIDE DEF x
    <3> QED BY <2>1, <3>2
  <2>3. x = [i \in 1 .. n |-> x[i]]
    OBVIOUS
  <2> HIDE DEF x
  <2> QED BY <2>1, <2>2, <2>3 DEF Distinct
<1> QED BY <1>2, <1>3, <1>5, <1>6, <1>7

(* What is interpolated is the polynomial at Threshold, and the private    *)
(* key that belongs to it.                                                 *)
LEMMA KeyInterpolated ==
    ASSUME ShareInv, NEW u \in User, Len(shares[u]) = Threshold
    PROVE  /\ LagrangeScalar(Points(u, "ppub"), Threshold) = PolyEval(Coeff, Threshold)
           /\ LagrangeScalar(Points(u, "sk"), Threshold)
                = (PolyEval(Coeff, Threshold) * Qid[u]) % P
<1> DEFINE n == Threshold
<1>1. n \in Nat /\ n \in Int /\ n = Len(shares[u])
  BY KGCAssumption
<1>2. Coeff \in [1 .. n -> Int]
  <2>1. Coeff \in [1 .. n -> Scalar]
    BY DEF ShareInv, TypeOK
  <2>2. Scalar \subseteq Int
    BY GroupAssumption DEF Scalar
  <2> QED BY <2>1, <2>2
<1>3. \A y \in Int : /\ PolyEval(Coeff, y) \in Scalar /\ PolyEval(Coeff, y) \in Int
                     /\ (PolyEval(Coeff, y) * 1) % P = PolyEval(Coeff, y)
  <2>1. SUFFICES ASSUME NEW y \in Int
                 PROVE  /\ PolyEval(Coeff, y) \in Scalar /\ PolyEval(Coeff, y) \in Int
                        /\ (PolyEval(Coeff, y) * 1) % P = PolyEval(Coeff, y)
    OBVIOUS
  <2> DEFINE p == PolyEval(Coeff, y)
  <2>2. p \in Scalar
    BY <1>2, PolyEvalType
  <2> HIDE DEF p
  <2>3. p \in Int /\ p % P = p
    BY <2>2, ScalarRemainder
  <2>4. p * 1 = p
    BY <2>3
  <2> QED BY <2>2, <2>3, <2>4 DEF p
<1>4. \A i \in 1 .. n :
         /\ shares[u][i].Index \in Int
         /\ shares[u][i].ppub = (PolyEval(Coeff, shares[u][i].Index) * 1) % P
         /\ shares[u][i].sk = (PolyEval(Coeff, shares[u][i].Index) * Qid[u]) % P
  <2>1. \A i \in 1 .. n : shares[u][i].Index \in Int
    BY <1>1, PointsAt DEF ShareInv
  <2>2. \A i \in 1 .. n :
         /\ shares[u][i].ppub = PolyEval(Coeff, shares[u][i].Index)
         /\ shares[u][i].sk = (PolyEval(Coeff, shares[u][i].Index) * Qid[u]) % P
    BY <1>1 DEF ShareInv, SharesGood, Pair
  <2> QED BY <1>3, <2>1, <2>2
<1> HIDE DEF n
<1>5. LagrangeScalar(Points(u, "ppub"), n) = (PolyEval(Coeff, n) * 1) % P
  <2> DEFINE points == Points(u, "ppub")
  <2>1. /\ points \in [1 .. n -> [Index : Int, Value : Int]]
        /\ Distinct([i \in 1 .. n |-> points[i].Index], n)
        /\ \A i \in 1 .. n : /\ points[i].Index = shares[u][i].Index
                             /\ points[i].Value = shares[u][i].ppub
    BY <1>1, PointsAt DEF ShareInv
  <2> HIDE DEF points
  <2>2. \A i \in 1 .. n : points[i].Value = (PolyEval(Coeff, points[i].Index) * 1) % P
    BY <1>4, <2>1
  <2>3. 1 \in Int
    OBVIOUS
  <2>4. LagrangeScalar(points, n) = (PolyEval(Coeff, n) * 1) % P
    BY <1>1, <1>2, <2>1, <2>2, <2>3, SharesInterpolated, ZenonT(60)
  <2> QED BY <2>4 DEF points
<1>6. LagrangeScalar(Points(u, "sk"), n) = (PolyEval(Coeff, n) * Qid[u]) % P
  <2> DEFINE points == Points(u, "sk")
             q == Qid[u]
  <2>1. /\ points \in [1 .. n -> [Index : Int, Value : Int]]
        /\ Distinct([i \in 1 .. n |-> points[i].Index], n)
        /\ \A i \in 1 .. n : /\ points[i].Index = shares[u][i].Index
                             /\ points[i].Value = shares[u][i].sk
    BY <1>1, PointsAt DEF ShareInv
  <2>2. q \in Int
    BY UserAssumption
  <2> HIDE DEF points, q
  <2>3. \A i \in 1 .. n : points[i].Value = (PolyEval(Coeff, points[i].Index) * q) % P
    BY <1>4, <2>1 DEF q
  <2>4. LagrangeScalar(points, n) = (PolyEval(Coeff, n) * q) % P
    BY <1>1, <1>2, <2>1, <2>2, <2>3, SharesInterpolated
  <2> QED BY <2>4 DEF points, q
<1> QED BY <1>1, <1>3, <1>5, <1>6 DEF n

-----------------------------------------------------------------------------
(* Receive.                                                                *)

(* The share that Receive takes is good, new and the next of shares[u].    *)
LEMMA TakeKeeps ==
    ASSUME ShareInv, NEW u \in User, NEW p, NEW q,
           p = PolyEval(Coeff, at[u]), q = Pair(p, Qid[u]),
           at[u] \notin vis[u], Len(shares[u]) # Threshold,
           vis' = [vis EXCEPT ![u] = vis[u] \cup {at[u]}],
           shares' = [shares EXCEPT ![u] =
                        Append(@, [Index |-> at[u], ppub |-> p, sk |-> q])],
           Coeff' = Coeff
    PROVE  /\ vis' \in [User -> SUBSET (1 .. KGC)]
           /\ shares' \in [User -> Seq([Index : 1 .. KGC, ppub : Scalar, sk : Scalar])]
           /\ SharesGood' /\ SharesDistinct'
           /\ \A v \in User : /\ v # u => shares'[v] = shares[v]
                              /\ Len(shares'[v]) <= Threshold
           /\ Len(shares'[u]) = Len(shares[u]) + 1
<1> DEFINE Share == [Index : 1 .. KGC, ppub : Scalar, sk : Scalar]
           new == [Index |-> at[u], ppub |-> p, sk |-> q]
           n == Len(shares[u])
<1>1. TypeOK /\ SharesGood /\ SharesDistinct /\ EnoughShares
  BY DEF ShareInv
<1>2. at[u] \in 1 .. KGC /\ vis[u] \in SUBSET (1 .. KGC)
  BY <1>1 DEF TypeOK
<1>3. p \in Scalar /\ q \in Scalar
  BY <1>1, <1>2, ShareTypes
<1>4. new \in Share
  BY <1>2, <1>3
<1>5. shares \in [User -> Seq(Share)]
  BY <1>1 DEF TypeOK
<1>6. new.Index = at[u] /\ new.ppub = p /\ new.sk = q
  OBVIOUS
<1>7. shares' = [shares EXCEPT ![u] = Append(shares[u], new)]
  OBVIOUS
<1> HIDE DEF Share, new
<1>8. /\ shares[u] \in Seq(Share) /\ n \in Nat
      /\ Append(shares[u], new) \in Seq(Share)
      /\ Len(Append(shares[u], new)) = n + 1
      /\ Append(shares[u], new)[n + 1] = new
      /\ \A i \in 1 .. n : Append(shares[u], new)[i] = shares[u][i]
  BY <1>4, <1>5
<1>9. vis' \in [User -> SUBSET (1 .. KGC)]
  BY <1>1, <1>2 DEF TypeOK
<1>10. /\ shares' \in [User -> Seq(Share)]
       /\ shares'[u] = Append(shares[u], new)
       /\ \A v \in User : v # u => shares'[v] = shares[v]
  BY <1>5, <1>7, <1>8
<1>11. \A v \in User : vis[v] \subseteq vis'[v]
  BY <1>1 DEF TypeOK
<1>12. at[u] \in vis'[u]
  BY <1>1 DEF TypeOK
<1> HIDE DEF n
<1>13. ASSUME NEW v \in User PROVE Len(shares'[v]) <= Threshold
  <2>1. CASE v = u
    <3>1. n <= Threshold /\ Threshold \in Nat
      BY <1>1, KGCAssumption DEF EnoughShares, n
    <3> QED BY <1>8, <1>10, <2>1, <3>1 DEF n
  <2>2. CASE v # u
    BY <1>1, <1>10, <2>2 DEF EnoughShares
  <2> QED BY <2>1, <2>2
<1>14. SharesGood'
  <2>1. SUFFICES ASSUME NEW v \in User, NEW i \in 1 .. Len(shares'[v])
                 PROVE  /\ shares'[v][i].Index \in vis'[v]
                        /\ shares'[v][i].ppub = PolyEval(Coeff, shares'[v][i].Index)
                        /\ shares'[v][i].sk = Pair(shares'[v][i].ppub, Qid[v])
    BY DEF SharesGood
  <2>2. CASE v # u \/ i # n + 1
    <3>1. i \in 1 .. Len(shares[v]) /\ shares'[v][i] = shares[v][i]
      BY <1>8, <1>10, <2>1, <2>2 DEF n
    <3>2. /\ shares[v][i].Index \in vis[v]
          /\ shares[v][i].ppub = PolyEval(Coeff, shares[v][i].Index)
          /\ shares[v][i].sk = Pair(shares[v][i].ppub, Qid[v])
      BY <1>1, <3>1 DEF SharesGood
    <3> QED BY <1>11, <3>1, <3>2
  <2>3. CASE v = u /\ i = n + 1
    <3>1. shares'[v][i] = new
      BY <1>8, <1>10, <2>3
    <3> QED BY <1>6, <1>12, <2>3, <3>1
  <2> QED BY <2>2, <2>3
<1>15. SharesDistinct'
  <2>1. \A i \in 1 .. n : shares[u][i].Index # at[u]
    BY <1>1 DEF SharesGood, n
  <2>2. SUFFICES ASSUME NEW v \in User, NEW i \in 1 .. Len(shares'[v]),
                        NEW j \in 1 .. Len(shares'[v]), i # j
                 PROVE  shares'[v][i].Index # shares'[v][j].Index
    BY DEF SharesDistinct
  <2>3. CASE v # u
    <3>1. shares'[v] = shares[v]
      BY <1>10, <2>3
    <3> QED BY <1>1, <2>2, <3>1 DEF SharesDistinct
  <2>4. CASE v = u
    <3>1. \A k \in 1 .. n + 1 : shares'[u][k] = IF k = n + 1 THEN new ELSE shares[u][k]
      BY <1>8, <1>10
    <3>2. i \in 1 .. n + 1 /\ j \in 1 .. n + 1
      BY <1>8, <1>10, <2>4
    <3>3. \A k, l \in 1 .. n : k # l => shares[u][k].Index # shares[u][l].Index
      BY <1>1 DEF SharesDistinct, n
    <3>4. \A k \in 1 .. n + 1 : k # n + 1 => k \in 1 .. n
      BY <1>8
    <3> QED BY <1>6, <2>1, <2>2, <2>4, <3>1, <3>2, <3>3, <3>4
  <2> QED BY <2>3, <2>4
<1> QED BY <1>8, <1>9, <1>10, <1>13, <1>14, <1>15 DEF Share, n

(* Not more than Threshold and not less.                                   *)
LEMMA ThresholdReached == \A m \in Int : m <= Threshold /\ m >= Threshold => m = Threshold
  BY KGCAssumption

(* The count of shares after a step that leaves the other users' alone.    *)
LEMMA EnoughAfter ==
    ASSUME TypeOK, EnoughShares, NEW u \in User, state[u] = "asks",
           NEW m \in Int, Len(shares'[u]) = m, m <= Threshold,
           \A v \in User : v # u => shares'[v] = shares[v],
           \/ state' = state
           \/ state' = [state EXCEPT ![u] = "has shares"] /\ m >= Threshold
    PROVE  EnoughShares'
<1>1. SUFFICES ASSUME NEW v \in User
               PROVE  /\ Len(shares'[v]) <= Threshold
                      /\ state'[v] = "has shares" => Len(shares'[v]) = Threshold
  BY DEF EnoughShares
<1>2. CASE v # u
  <2>1. state'[v] = state[v]
    BY <1>2 DEF TypeOK
  <2> QED BY <1>2, <2>1 DEF EnoughShares
<1>3. CASE v = u
  <2>1. state'[u] = "has shares" => m >= Threshold
    OBVIOUS
  <2>2. m >= Threshold => m = Threshold
    BY ThresholdReached
  <2> QED BY <1>3, <2>1, <2>2
<1> QED BY <1>2, <1>3

(* The same for a step that takes no share.                                *)
LEMMA EnoughKept ==
    ASSUME TypeOK, EnoughShares, NEW u \in User, state[u] = "asks", shares' = shares,
           Continue(u, shares[u])
    PROVE  EnoughShares'
<1>1. Len(shares[u]) \in Int /\ Len(shares[u]) <= Threshold
  <2>1. shares[u] \in Seq([Index : 1 .. KGC, ppub : Scalar, sk : Scalar])
    BY DEF TypeOK
  <2>2. Len(shares[u]) <= Threshold
    BY DEF EnoughShares
  <2>3. \A S : \A s \in Seq(S) : Len(s) \in Int
    OBVIOUS
  <2> QED BY <2>1, <2>2, <2>3
<1>2. \/ state' = state
      \/ state' = [state EXCEPT ![u] = "has shares"] /\ Len(shares[u]) >= Threshold
  BY Onward
<1> QED BY <1>1, <1>2, EnoughAfter

(* A step of getSk keeps the invariant up; the last one makes the key.     *)
LEMMA ReceiveKeeps ==
    ASSUME ShareInv, NEW u \in User, NEW p, NEW q, Receive(u, p, q)
    PROVE  ShareInv'
<1>1. TypeOK /\ SharesGood /\ SharesDistinct /\ EnoughShares
  BY DEF ShareInv
<1>2. UNCHANGED <<Coeff, sk, PPub>> /\ state[u] = "asks" /\ at[u] \notin vis[u]
  BY DEF Receive
<1>3. CASE UNCHANGED <<vis, shares>> /\ Continue(u, shares[u])
  <2>1. TypeOK'
    <3>1. at' \in [User -> 1 .. KGC]
      BY <1>1, <1>3, Onward
    <3>2. state' \in [User -> {"asks", "has shares", "has key", "panics"}]
      BY <1>1, <1>3 DEF Continue, TypeOK
    <3> QED BY <1>1, <1>2, <1>3, <3>1, <3>2 DEF TypeOK
  <2>2. SharesGood' /\ SharesDistinct'
    BY <1>1, <1>2, <1>3 DEF SharesGood, SharesDistinct
  <2>3. EnoughShares'
    BY <1>1, <1>2, <1>3, EnoughKept
  <2> QED BY <2>1, <2>2, <2>3 DEF ShareInv
<1>4. CASE UNCHANGED <<at, vis, shares>> /\ state' = [state EXCEPT ![u] = "panics"]
  <2>1. TypeOK' /\ SharesGood' /\ SharesDistinct'
    BY <1>1, <1>2, <1>4, ZenonT(60) DEF TypeOK, SharesGood, SharesDistinct
  <2>2. EnoughShares'
    BY <1>1, <1>4 DEF EnoughShares, TypeOK
  <2> QED BY <2>1, <2>2 DEF ShareInv
<1>5. CASE /\ p = PolyEval(Coeff, at[u]) /\ q = Pair(p, Qid[u])
           /\ Len(shares[u]) # Threshold
           /\ vis' = [vis EXCEPT ![u] = vis[u] \cup {at[u]}]
           /\ shares' = [shares EXCEPT ![u] =
                 Append(@, [Index |-> at[u], ppub |-> p, sk |-> q])]
           /\ \/ Continue(u, Append(shares[u], [Index |-> at[u], ppub |-> p, sk |-> q]))
              \/ Break(u, Append(shares[u], [Index |-> at[u], ppub |-> p, sk |-> q]))
  <2> DEFINE taken == Append(shares[u], [Index |-> at[u], ppub |-> p, sk |-> q])
  <2>1. /\ vis' \in [User -> SUBSET (1 .. KGC)]
        /\ shares' \in [User -> Seq([Index : 1 .. KGC, ppub : Scalar, sk : Scalar])]
        /\ SharesGood' /\ SharesDistinct'
        /\ \A v \in User : /\ v # u => shares'[v] = shares[v]
                           /\ Len(shares'[v]) <= Threshold
    BY <1>2, <1>5, TakeKeeps
  <2>2. shares'[u] = taken
    BY <1>1, <1>5 DEF TypeOK
  <2> HIDE DEF taken
  <2>3. /\ at' \in [User -> 1 .. KGC]
        /\ \/ state' = state
           \/ state' = [state EXCEPT ![u] = "has shares"] /\ Len(taken) >= Threshold
    BY <1>1, <1>5, Onward DEF taken
  <2>4. TypeOK'
    <3>1. state' \in [User -> {"asks", "has shares", "has key", "panics"}]
      BY <1>1, <2>3 DEF TypeOK
    <3> QED BY <1>1, <1>2, <2>1, <2>3, <3>1 DEF TypeOK
  <2>5. EnoughShares'
    <3>1. \A v \in User : v # u => shares'[v] = shares[v]
      BY <2>1
    <3>2. Len(taken) <= Threshold /\ Len(taken) \in Int
      <4>1. taken \in Seq([Index : 1 .. KGC, ppub : Scalar, sk : Scalar])
        BY <2>1, <2>2
      <4> QED BY <2>1, <2>2, <4>1
    <3> QED BY <1>1, <1>2, <2>2, <2>3, <3>1, <3>2, EnoughAfter
  <2> QED BY <2>1, <2>4, <2>5 DEF ShareInv
<1> QED BY <1>1, <1>3, <1>4, <1>5, ReceiveCases

(* A KGC that is skipped or does not answer.                                *)
LEMMA PassKeeps ==
    ASSUME ShareInv, NEW u \in User, Skip(u) \/ Fail(u)
    PROVE  ShareInv'
<1>1. /\ TypeOK /\ SharesGood /\ SharesDistinct /\ EnoughShares
      /\ UNCHANGED <<Coeff, vis, shares, sk, PPub>>
      /\ Continue(u, shares[u]) /\ state[u] = "asks"
  BY DEF ShareInv, Skip, Fail
<1>2. /\ at' \in [User -> 1 .. KGC]
      /\ \/ state' = state
         \/ state' = [state EXCEPT ![u] = "has shares"] /\ Len(shares[u]) >= Threshold
  BY <1>1, Onward
<1>3. TypeOK'
  <2>1. state' \in [User -> {"asks", "has shares", "has key", "panics"}]
    BY <1>1, <1>2 DEF TypeOK
  <2> QED BY <1>1, <1>2, <2>1 DEF TypeOK
<1>4. SharesGood' /\ SharesDistinct'
  BY <1>1 DEF SharesGood, SharesDistinct
<1>5. EnoughShares'
  BY <1>1, EnoughKept
<1> QED BY <1>3, <1>4, <1>5 DEF ShareInv

(* Interpolate makes the key that SameKeyForAll asks for.                  *)
LEMMA InterpolateKeeps ==
    ASSUME ShareInv, NEW u \in User, Interpolate(u)
    PROVE  /\ ShareInv'
           /\ PPub'[u] = PolyEval(Coeff, Threshold)
           /\ sk'[u] = (PolyEval(Coeff, Threshold) * Qid[u]) % P
<1> DEFINE p == PolyEval(Coeff, Threshold)
           q == (p * Qid[u]) % P
<1>1. /\ TypeOK /\ SharesGood /\ SharesDistinct /\ EnoughShares
      /\ UNCHANGED <<Coeff, at, vis, shares>>
      /\ state[u] = "has shares" /\ state' = [state EXCEPT ![u] = "has key"]
  BY DEF ShareInv, Interpolate
<1>2. Len(shares[u]) = Threshold
  BY <1>1 DEF EnoughShares
<1>3. sk' = [sk EXCEPT ![u] = q] /\ PPub' = [PPub EXCEPT ![u] = p]
  BY <1>2, KeyInterpolated DEF Interpolate
<1>4. p \in Scalar /\ q \in Scalar
  <2>1. Threshold \in 1 .. KGC
    BY KGCAssumption
  <2> QED BY <1>1, <2>1, ShareTypes DEF Pair
<1> HIDE DEF p, q
<1>5. TypeOK' /\ PPub'[u] = p /\ sk'[u] = q
  BY <1>1, <1>3, <1>4 DEF TypeOK
<1>6. SharesGood' /\ SharesDistinct'
  BY <1>1 DEF SharesGood, SharesDistinct
<1>7. EnoughShares'
  BY <1>1 DEF EnoughShares, TypeOK
<1> QED BY <1>5, <1>6, <1>7 DEF ShareInv, p, q

-----------------------------------------------------------------------------
(* The theorems.                                                           *)

(* KeyInv is inductive: getSk begins without shares and without a key.     *)
LEMMA InitKeeps == Init => KeyInv
<1>1. SUFFICES ASSUME Init PROVE KeyInv
  OBVIOUS
<1>2. TypeOK
  <2>1. 1 \in 1 .. KGC /\ 0 \in Scalar
    BY GroupAssumption, KGCAssumption DEF Scalar
  <2>2. \A S : <<>> \in Seq(S)
    OBVIOUS
  <2> QED BY <1>1, <2>1, <2>2 DEF Init, TypeOK
<1>3. \A u \in User : shares[u] = <<>> /\ Len(shares[u]) = 0 /\ state[u] = "asks"
  BY <1>1 DEF Init
<1>4. SharesGood /\ SharesDistinct
  BY <1>3 DEF SharesGood, SharesDistinct
<1>5. EnoughShares
  <2>1. 0 <= Threshold
    BY KGCAssumption
  <2> QED BY <1>3, <2>1 DEF EnoughShares
<1>6. SameKeyForAll
  BY <1>3 DEF SameKeyForAll, HasKey
<1> QED BY <1>2, <1>4, <1>5, <1>6 DEF KeyInv, ShareInv

(* Every step keeps it; only Interpolate makes a key.                      *)
LEMMA NextKeeps == KeyInv /\ [Next]_vars => KeyInv'
<1>1. SUFFICES ASSUME KeyInv, [Next]_vars PROVE KeyInv'
  OBVIOUS
<1>2. ShareInv /\ SameKeyForAll /\ state \in [User -> {"asks", "has shares", "has key", "panics"}]
  BY <1>1 DEF KeyInv, ShareInv, TypeOK
<1>3. ASSUME UNCHANGED <<Coeff, sk, PPub>>,
             \A v \in User : state'[v] = "has key" => state[v] = "has key"
      PROVE  SameKeyForAll'
  BY <1>2, <1>3 DEF SameKeyForAll, HasKey
<1>4. CASE UNCHANGED vars
  <2>1. ShareInv'
    BY <1>2, <1>4 DEF vars, ShareInv, TypeOK, SharesGood, SharesDistinct, EnoughShares
  <2> QED BY <1>3, <1>4, <2>1 DEF vars, KeyInv
<1>5. ASSUME NEW u \in User, Skip(u) \/ Fail(u) PROVE KeyInv'
  <2>1. UNCHANGED <<Coeff, sk, PPub>> /\ Continue(u, shares[u])
    BY <1>5 DEF Skip, Fail
  <2>2. \A v \in User : state'[v] = "has key" => state[v] = "has key"
    BY <1>2, <2>1 DEF Continue
  <2> QED BY <1>2, <1>3, <1>5, <2>1, <2>2, PassKeeps DEF KeyInv
<1>6. ASSUME NEW u \in User, NEW p, NEW q, Receive(u, p, q) PROVE KeyInv'
  <2>1. UNCHANGED <<Coeff, sk, PPub>>
    BY <1>6 DEF Receive
  <2>2. \/ state' = state
        \/ state' = [state EXCEPT ![u] = "has shares"]
        \/ state' = [state EXCEPT ![u] = "panics"]
    BY <1>6 DEF Receive, Continue, Break
  <2>3. \A v \in User : state'[v] = "has key" => state[v] = "has key"
    BY <1>2, <2>2
  <2> QED BY <1>2, <1>3, <1>6, <2>1, <2>3, ReceiveKeeps DEF KeyInv
<1>7. ASSUME NEW u \in User, Interpolate(u) PROVE KeyInv'
  <2>1. /\ ShareInv'
        /\ PPub'[u] = PolyEval(Coeff, Threshold)
        /\ sk'[u] = (PolyEval(Coeff, Threshold) * Qid[u]) % P
    BY <1>2, <1>7, InterpolateKeeps
  <2>2. \A v \in User : v # u => PPub'[v] = PPub[v] /\ sk'[v] = sk[v] /\ state'[v] = state[v]
    BY <1>2, <1>7 DEF Interpolate, ShareInv, TypeOK
  <2>3. Coeff' = Coeff
    BY <1>7 DEF Interpolate
  <2>4. SameKeyForAll'
    BY <1>2, <2>1, <2>2, <2>3 DEF SameKeyForAll, HasKey
  <2> QED BY <2>1, <2>4 DEF KeyInv
<1> QED BY <1>1, <1>4, <1>5, <1>6, <1>7 DEF Next

(* So it holds in every state.                                             *)
LEMMA KeyInvHolds == Spec => []KeyInv
<1>1. Init /\ [][Next]_vars => []KeyInv
  BY InitKeeps, NextKeeps, PTL
<1> QED BY <1>1, PTL DEF Spec

(* The state of getSk has its type: what is interpolated is a scalar, and  *)
(* the shares are at numbers of KGCs, wherever the loop is.                *)
THEOREM TypesHold == Spec => []TypeOK
<1>1. KeyInv => TypeOK
  BY DEF KeyInv, ShareInv
<1> QED BY <1>1, KeyInvHolds, PTL

(* What getSk stores of the answers (user.go, skShares and vis) is at most *)
(* Threshold shares, of different KGCs, each the one its KGC holds: the    *)
(* garbled ones are refused and no KGC is counted twice.                   *)
THEOREM SharesHold == Spec => [](SharesGood /\ SharesDistinct /\ EnoughShares)
<1>1. KeyInv => SharesGood /\ SharesDistinct /\ EnoughShares
  BY DEF KeyInv, ShareInv
<1> QED BY <1>1, KeyInvHolds, PTL

(* Whichever KGCs answered a user and in whatever order, BlsG1- and        *)
(* BlsG2LagrangeScalar give it the key of the one polynomial at Threshold. *)
THEOREM SameKeyHolds == Spec => []SameKeyForAll
<1>1. KeyInv => SameKeyForAll
  BY DEF KeyInv
<1> QED BY <1>1, KeyInvHolds, PTL

(* What Encrypt makes for a user with a key, Decrypt of that user reads,   *)
(* although the two interpolated from different shares.                    *)
THEOREM EncryptedIsReadableHolds == Spec => []EncryptedIsReadable
<1>1. KeyInv => EncryptedIsReadable
  <2>1. SUFFICES ASSUME KeyInv, NEW u \in HasKey, NEW v \in HasKey, NEW r \in Scalar
                 PROVE  Decrypt(v, Encrypt(u, v, "M", r)) = "M"
    BY DEF EncryptedIsReadable
  <2>2. sk[v] = Pair(PPub[u], Qid[v]) /\ sk[v] \in Scalar
    BY <2>1 DEF KeyInv, ShareInv, TypeOK, SameKeyForAll, HasKey, Pair
  <2> DEFINE s == sk[v]
  <2>3. s \in Int /\ r \in Int
    BY <2>2, ScalarRemainder
  <2> HIDE DEF s
  <2>4. (s * r) % P = Pair(r, s)
    <3>1. s * r = r * s
      BY <2>3
    <3> QED BY <3>1 DEF Pair
  <2>5. (Pair(PPub[u], Qid[v]) * r) % P = Pair(r, sk[v])
    BY <2>2, <2>4 DEF s
  <2> QED BY <2>5 DEF Decrypt, Encrypt
<1> QED BY <1>1, KeyInvHolds, PTL

(* What Signature makes, SignatureVerify accepts against its maker: the    *)
(* two pairings agree because the key belongs to the public one.           *)
THEOREM SignedIsVerifiedHolds == Spec => []SignedIsVerified
<1>1. KeyInv => SignedIsVerified
  <2>1. SUFFICES ASSUME KeyInv, NEW u \in HasKey, NEW r \in Scalar
                 PROVE  SignatureVerify(u, Signature(u, "M", r), "M")
    BY DEF SignedIsVerified
  <2> DEFINE p == PPub[u]
             q == Qid[u]
  <2>2. sk[u] = (p * q) % P /\ p \in Scalar
    BY <2>1 DEF KeyInv, ShareInv, TypeOK, SameKeyForAll, HasKey
  <2>3. p \in Int /\ q \in Int /\ r \in Int
    <3>1. q \in Scalar
      <4>1. u \in User
        BY DEF HasKey
      <4>2. \A w \in 1 .. P - 1 : w \in Scalar
        BY DEF Scalar
      <4> QED BY <4>1, <4>2, UserAssumption
    <3> HIDE DEF p, q
    <3> QED BY <2>2, <3>1, ScalarRemainder
  <2> HIDE DEF p, q
  <2>4. /\ p * q \in Int /\ r * p \in Int /\ (p * q) * r \in Int /\ (r * p) * q \in Int
        /\ (p * q) * r = (r * p) * q
    BY <2>3
  <2> DEFINE a == (p * q) % P
             b == (r * p) % P
             c == p * q
             d == r * p
  <2>5. a \in Int /\ b \in Int /\ Cong(a, c) /\ Cong(b, d)
    BY <2>4, CongRemainder
  <2>6. (a * r) % P = (b * q) % P
    <3>1. c \in Int /\ d \in Int /\ c * r = d * q
      BY <2>4
    <3> HIDE DEF a, b, c, d
    <3>2. Cong(a * r, c * r) /\ Cong(b * q, d * q)
      BY <2>3, <2>5, <3>1, CongTimes
    <3> QED BY <3>1, <3>2 DEF Cong
  <2>7. (sk[u] * r) % P = Pair((r * PPub[u]) % P, Qid[u])
    BY <2>2, <2>6 DEF Pair, p, q
  <2> QED BY <2>7 DEF SignatureVerify, Signature
<1> QED BY <1>1, KeyInvHolds, PTL
=============================================================================
