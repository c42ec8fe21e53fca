----------------------- MODULE DataAvailabilityProofs -----------------------
(***************************************************************************)
(* The data availability scheme of DataAvailability.tla for data of every  *)
(* length that is a power of two, every field with the roots of unity for  *)
(* it, every width of the cosets and every setup secret that is not one of *)
(* the points.                                                             *)
(*                                                                         *)
(* SenderInv says that the state of the sender is what the mathematics     *)
(* makes of the data: the values, coefficients and commitment of one       *)
(* polynomial. The three ways to a commitment then give one value          *)
(* (CommitmentsAreOne). The two ways to a proof, the Toeplitz product of   *)
(* FK20 and the long division of kzg_single_proofs.go, give the value at   *)
(* the secret of one quotient (QuotientDivides, LongDivisionAt), so that a *)
(* receiver accepts every sample and every single proof                    *)
(* (SamplesAreAccepted, SingleProofsAreOne). A sample with one value       *)
(* altered has another value at the secret and is refused, whatever its    *)
(* proof (AlteredRefused), so that a receiver has only what was sent       *)
(* (OnlySentIsTaken). From any part of the samples with no more than half  *)
(* missing RecoverPolyFromSamples gives all of the values (HalfIsEnough,   *)
(* HalfRecovers): the tree of reduceTree, written over in one array, has   *)
(* the missing points as its roots at the end (ReduceTreeHas,              *)
(* ZeroPolyHas), and by 5, the shift of the code, it is moved off the      *)
(* domain to divide.                                                       *)
(***************************************************************************)
EXTENDS DataAvailability, FourierProofs, SequenceTheorems

USE DEF \oplus, \ominus, \odot

-----------------------------------------------------------------------------
(* The data and the settings for it.                                       *)

(* Data has 2 ** Log(d) values, and the domain of the extended ones is the *)
(* powers of Root(d).                                                      *)
Log(d) == bitIndex(Length(d))
Root(d) == Scale2RootOfUnity(Log(d) + 1)

(* The length of data is 2 ** Log(d), and the field has roots of unity     *)
(* for the extended data.                                                  *)
LEMMA DataFacts ==
    ASSUME NEW d \in Data
    PROVE  /\ Log(d) \in Nat \ {0} /\ Log(d) + 1 \in Nat \ {0} /\ Length(d) = TwoTo(Log(d))
           /\ 2 * Length(d) = TwoTo(Log(d) + 1) /\ Length(d) \in Nat
           /\ IsSlice(d, Log(d)) /\ (Modulus - 1) % TwoTo(Log(d) + 1) = 0
<1>1. PICK k \in Nat : Length(d) = TwoTo(k)
  BY DataAssumption, PowerOfTwo
<1>2. Log(d) = k
  BY <1>1, BitIndexIs DEF Log
<1>3. k # 0
  BY <1>1, TwoToZero, DataAssumption
<1>4. 2 * Length(d) = TwoTo(k + 1)
  BY <1>1, TwoToNext
<1>5. IsSlice(d, k)
  BY <1>1, DataAssumption DEF IsSlice
<1>6. (Modulus - 1) % (2 * Length(d)) = 0 /\ Length(d) \in Nat
  BY DataAssumption
<1> QED BY <1>1, <1>2, <1>3, <1>4, <1>5, <1>6

(* The settings for d have the roots of its domain and the powers of the   *)
(* secret.                                                                 *)
LEMMA SettingsFacts ==
    ASSUME NEW d \in Data, NEW fs, fs = Settings[Length(d)]
    PROVE  /\ HasRoots(fs, Root(d), Log(d) + 1) /\ Divides(Log(d) + 1)
           /\ IsRoot(Root(d), Log(d) + 1)
           /\ fs.MaxWidth = TwoTo(Log(d) + 1)
           /\ DOMAIN fs.ExpandedRootsOfUnity = 0 .. TwoTo(Log(d) + 1)
           /\ fs.SecretG1 = [i \in 0 .. TwoTo(Log(d) + 1) - 1 |-> ExpModFr(Secret, i)]
           /\ fs.SecretG2 = [i \in 0 .. TwoTo(Log(d) + 1) - 1 |-> ExpModFr(Secret, i)]
<1> DEFINE n == Length(d)
           k == Log(d) + 1
           base == NewFFTSettings(k)
           setup == GenerateTestingSetup(Secret, 2 * n)
<1>1. 2 * n = TwoTo(k) /\ k \in Nat \ {0} /\ (Modulus - 1) % TwoTo(k) = 0 /\ bitIndex(2 * n) = k
  BY DataFacts, BitIndexIs
<1>2. fs = NewKZGSettings(base, setup, setup)
  <2>1. n \in Lengths
    BY DEF Lengths
  <2>2. Settings[n] = NewKZGSettings(NewFFTSettings(bitIndex(2 * n)), setup, setup)
    <3> HIDE DEF n
    <3> QED BY <2>1 DEF Settings
  <2> QED BY <1>1, <2>2
<1>3. /\ HasRoots(base, Root(d), k) /\ Divides(k) /\ base.MaxWidth = TwoTo(k)
      /\ DOMAIN base.ExpandedRootsOfUnity = 0 .. TwoTo(k)
  <2> HIDE DEF k
  <2> QED BY <1>1, SettingsRoots DEF Root, k
<1> HIDE DEF base
<1>4. /\ fs.ExpandedRootsOfUnity = base.ExpandedRootsOfUnity
      /\ fs.ReverseRootsOfUnity = base.ReverseRootsOfUnity
      /\ fs.MaxWidth = base.MaxWidth /\ fs.SecretG1 = setup /\ fs.SecretG2 = setup
  <2> HIDE DEF setup
  <2> QED BY <1>2 DEF NewKZGSettings
<1>5. setup = [i \in 0 .. TwoTo(k) - 1 |-> ExpModFr(Secret, i)]
  <2>1. setup = [i \in 0 .. TwoTo(k) - 1 |-> MulG1(GenG1, ExpModFr(Secret, i))]
    BY <1>1, SliceIs DEF GenerateTestingSetup
  <2>2. ASSUME NEW i \in 0 .. TwoTo(k) - 1
        PROVE  MulG1(GenG1, ExpModFr(Secret, i)) = ExpModFr(Secret, i)
    <3>1. i \in Nat
      BY <1>1, TwoToType
    <3> QED BY <3>1, SecretAssumption, ExpType, FrUnits DEF MulG1, GenG1
  <2> HIDE DEF k, setup
  <2> QED BY <2>1, <2>2
<1> HIDE DEF k, setup
<1>6. HasRoots(fs, Root(d), k)
  BY <1>3, <1>4 DEF HasRoots
<1>7. /\ HasRoots(fs, Root(d), k) /\ Divides(k) /\ IsRoot(Root(d), k) /\ fs.MaxWidth = TwoTo(k)
      /\ DOMAIN fs.ExpandedRootsOfUnity = 0 .. TwoTo(k)
      /\ fs.SecretG1 = [i \in 0 .. TwoTo(k) - 1 |-> ExpModFr(Secret, i)]
      /\ fs.SecretG2 = [i \in 0 .. TwoTo(k) - 1 |-> ExpModFr(Secret, i)]
  BY <1>3, <1>4, <1>5, <1>6 DEF HasRoots, Powers
<1> QED BY <1>7 DEF k

-----------------------------------------------------------------------------
(* The extension.                                                          *)

(* The polynomial through the data: the coefficients of the data over the  *)
(* square of the root, and as many zeros.                                  *)
LowerPoly(d) == Coefficients(d, Root(d) \odot Root(d), Log(d))
PolyOf(d) == Padded(LowerPoly(d), Log(d))
ExtendedOf(d) == Transform(PolyOf(d), Root(d), Log(d) + 1)

(* The polynomial of the data runs through the data, at every other        *)
(* power of the root.                                                      *)
LEMMA PolyFacts ==
    ASSUME NEW d \in Data
    PROVE  /\ IsSlice(LowerPoly(d), Log(d)) /\ IsSlice(PolyOf(d), Log(d) + 1)
           /\ IsSlice(ExtendedOf(d), Log(d) + 1)
           /\ Root(d) \in Fr /\ Root(d) \odot Root(d) \in Fr
           /\ IsRoot(Root(d) \odot Root(d), Log(d))
           /\ \A i \in 0 .. Length(d) - 1 :
                  /\ TransformAt(LowerPoly(d), Root(d) \odot Root(d), Log(d), i) = d[i]
                  /\ ExtendedOf(d)[2 * i] = d[i]
                  /\ ExtendedOf(d)[2 * i + 1] =
                         TransformAt(Twist(LowerPoly(d), Root(d), Log(d)),
                                     Root(d) \odot Root(d), Log(d), i)
<1> DEFINE k == Log(d)
           w == Root(d)
           z == w \odot w
           c == LowerPoly(d)
<1>1. /\ k \in Nat /\ Length(d) = TwoTo(k) /\ IsSlice(d, k) /\ k + 1 \in Nat /\ k \in 0 .. k + 1
      /\ TwoTo(k + 1) = 2 * TwoTo(k) /\ TwoTo(k) \in Nat
  BY DataFacts
<1>2. IsRoot(w, k + 1) /\ Divides(k + 1) /\ Divides(k) /\ w \in Fr /\ IsRoot(z, k) /\ z \in Fr
  <2>1. IsRoot(w, k + 1) /\ Divides(k + 1) /\ w \in Fr
    BY SettingsFacts DEF IsRoot
  <2> HIDE DEF k, w
  <2> QED BY <1>1, <2>1, DividesFacts, RootSquare DEF IsRoot
<1>3. IsSlice(c, k) /\ Transform(c, z, k) = d
  <2> HIDE DEF k, z
  <2> QED BY <1>1, <1>2, TransformDone DEF LowerPoly, k, z
<1> HIDE DEF c
<1>4. /\ IsSlice(Padded(c, k), k + 1)
      /\ \A i \in Nat :
             /\ TransformAt(Padded(c, k), w, k + 1, 2 * i) = TransformAt(c, z, k, i)
             /\ TransformAt(Padded(c, k), w, k + 1, 2 * i + 1) = TransformAt(Twist(c, w, k), z, k, i)
  <2> HIDE DEF k, w
  <2> QED BY <1>1, <1>2, <1>3, TransformPadded
<1>5. PolyOf(d) = Padded(c, k)
  BY DEF PolyOf, c
<1> DEFINE a == Padded(c, k)
<1>6. IsSlice(Transform(a, w, k + 1), k + 1) /\ ExtendedOf(d) = Transform(a, w, k + 1)
  <2>1. ExtendedOf(d) = Transform(a, w, k + 1)
    BY <1>5 DEF ExtendedOf
  <2> HIDE DEF k, w, a
  <2> QED BY <1>1, <1>2, <1>4, <2>1, TransformType DEF a
<1>7. ASSUME NEW i \in 0 .. TwoTo(k) - 1
      PROVE  /\ TransformAt(c, z, k, i) = d[i]
             /\ ExtendedOf(d)[2 * i] = d[i]
             /\ ExtendedOf(d)[2 * i + 1] = TransformAt(Twist(c, w, k), z, k, i)
  <2> HIDE DEF k, w, z, a
  <2>1. i \in Nat /\ 2 * i \in 0 .. TwoTo(k + 1) - 1 /\ 2 * i + 1 \in 0 .. TwoTo(k + 1) - 1
    BY <1>1
  <2>2. TransformAt(c, z, k, i) = d[i]
    <3>1. Transform(c, z, k)[i] = TransformAt(c, z, k, i)
      BY DEF Transform
    <3> QED BY <1>3, <3>1
  <2>3. /\ ExtendedOf(d)[2 * i] = TransformAt(a, w, k + 1, 2 * i)
        /\ ExtendedOf(d)[2 * i + 1] = TransformAt(a, w, k + 1, 2 * i + 1)
    BY <1>6, <2>1 DEF Transform
  <2> QED BY <1>4, <2>1, <2>2, <2>3 DEF a
<1> QED BY <1>1, <1>2, <1>3, <1>4, <1>5, <1>6, <1>7 DEF c

(* What Extend computes is the values of the polynomial, and what Commit   *)
(* computes from them is its coefficients.                                 *)
LEMMA ExtensionFacts ==
    ASSUME NEW d \in Data, NEW fs, fs = Settings[Length(d)], NEW odd, odd = DASFFTExtension(fs, d),
           NEW e, e = [p \in 0 .. 2 * Length(d) - 1 |->
                          IF p % 2 = 0 THEN d[p \div 2] ELSE odd[p \div 2]]
    PROVE  e = ExtendedOf(d) /\ FourierTransform(fs, ExtendedOf(d), TRUE) = PolyOf(d)
<1> DEFINE k == Log(d)
           n == TwoTo(k)
           w == Root(d)
           z == w \odot w
           c == LowerPoly(d)
           t(i) == TransformAt(Twist(c, w, k), z, k, i)
           out == dASFFTExtension(fs, d)
<1>1. /\ k \in Nat \ {0} /\ Length(d) = n /\ IsSlice(d, k) /\ k + 1 \in Nat
      /\ TwoTo(k + 1) = 2 * n /\ n \in Nat /\ DOMAIN d = 0 .. n - 1
  BY DataFacts, SliceLength
<1>2. /\ HasRoots(fs, w, k + 1) /\ Divides(k + 1) /\ Divides(k) /\ fs.MaxWidth = TwoTo(k + 1)
      /\ IsRoot(w, k + 1)
  <2>1. HasRoots(fs, w, k + 1) /\ Divides(k + 1) /\ fs.MaxWidth = TwoTo(k + 1) /\ IsRoot(w, k + 1)
    BY SettingsFacts
  <2>2. k \in 0 .. k + 1
    BY <1>1
  <2> HIDE DEF k, w
  <2> QED BY <1>1, <2>1, <2>2, DividesFacts
<1>3. /\ w \in Fr /\ z \in Fr /\ IsRoot(z, k) /\ IsSlice(c, k) /\ IsSlice(PolyOf(d), k + 1)
      /\ IsSlice(ExtendedOf(d), k + 1)
      /\ \A i \in 0 .. n - 1 : ExtendedOf(d)[2 * i] = d[i] /\ ExtendedOf(d)[2 * i + 1] = t(i)
  BY <1>1, PolyFacts
<1>4. ASSUME NEW i \in 0 .. n - 1
      PROVE  odd[i] = t(i)
  <2>1. out = OddValues(d, w, k)
    <3> HIDE DEF k, w
    <3> QED BY <1>1, <1>2, ExtensionExtends
  <2>2. out[i] = n \odot t(i)
    <3> HIDE DEF out, w
    <3> QED BY <2>1 DEF OddValues, LowerPoly, w
  <2>3. odd[i] = out[i] \odot InvModFr(n)
    <3>1. odd = [j \in DOMAIN d |-> MulModFr(out[j], InvModFr(Length(d)))]
      BY SliceIs DEF DASFFTExtension
    <3> HIDE DEF out, n
    <3> QED BY <1>1, <3>1
  <2>4. t(i) \in Fr
    <3>1. i \in Nat
      BY <1>1
    <3> HIDE DEF k, w, z, c
    <3> QED BY <1>1, <1>3, <3>1, TwistType, TransformType
  <2>5. n \in Fr /\ n # 0
    BY <1>1, <1>2, DividesFacts
  <2> HIDE DEF t, n, out
  <2>6. n \odot t(i) = t(i) \odot n
    BY <2>4, <2>5, FrCommutes
  <2>7. DivModFr(t(i) \odot n, n) = t(i)
    BY <2>4, <2>5, FrCancel
  <2> QED BY <2>2, <2>3, <2>6, <2>7 DEF DivModFr
<1>5. ASSUME NEW p \in 0 .. 2 * n - 1
      PROVE  (IF p % 2 = 0 THEN d[p \div 2] ELSE odd[p \div 2]) = ExtendedOf(d)[p]
  <2> HIDE DEF n, t
  <2> DEFINE q == p \div 2
  <2>1. /\ p \in Int /\ 0 <= p /\ p < 2 * n
        /\ q \in Int /\ (p % 2 = 0 => p = 2 * q) /\ (p % 2 # 0 => p = 2 * q + 1)
    BY <1>1
  <2>2. q \in 0 .. n - 1
    <3> HIDE DEF q
    <3>1. p = 2 * q \/ p = 2 * q + 1
      BY <2>1
    <3> QED BY <1>1, <2>1, <3>1
  <2> HIDE DEF q
  <2>3. ExtendedOf(d)[2 * q] = d[q] /\ ExtendedOf(d)[2 * q + 1] = odd[q]
    BY <1>3, <1>4, <2>2
  <2> QED BY <2>1, <2>3 DEF q
<1>6. e = ExtendedOf(d)
  <2>1. ExtendedOf(d) = [p \in 0 .. 2 * n - 1 |-> ExtendedOf(d)[p]]
    BY <1>1, <1>3 DEF IsSlice
  <2>2. e = [p \in 0 .. 2 * n - 1 |-> IF p % 2 = 0 THEN d[p \div 2] ELSE odd[p \div 2]]
    BY <1>1
  <2> HIDE DEF n
  <2> QED BY <1>5, <2>1, <2>2
<1>7. FourierTransform(fs, ExtendedOf(d), TRUE) = PolyOf(d)
  <2>1. ExtendedOf(d) = Transform(PolyOf(d), w, k + 1)
    BY DEF ExtendedOf
  <2> HIDE DEF k, w
  <2>2. FromValues(fs, ExtendedOf(d)) = Coefficients(ExtendedOf(d), w, k + 1)
    BY <1>1, <1>2, <1>3, TransformsOfAll
  <2>3. Coefficients(ExtendedOf(d), w, k + 1) = PolyOf(d)
    BY <1>1, <1>2, <1>3, <2>1, TransformUndone
  <2> QED BY <2>2, <2>3 DEF FromValues
<1> QED BY <1>6, <1>7

-----------------------------------------------------------------------------
(* Commitments to coefficients.                                            *)

(* CommitToPoly is the value at the secret.                                *)
LEMMA CommitToPolyIs ==
    ASSUME NEW d \in Data, NEW fs, fs = Settings[Length(d)], NEW n \in 1 .. 2 * Length(d),
           NEW a \in [0 .. n - 1 -> Fr]
    PROVE  CommitToPoly(fs, a) = PolyAt(a, n, Secret)
<1> DEFINE g == SubSlice(fs.SecretG1, 0, n)
           t == [i \in DOMAIN g |-> MulG1(g[i], a[i])]
<1>1. Length(a) = n /\ n \in Nat /\ Secret \in Fr /\ Length(d) \in Nat
      /\ 2 * Length(d) = TwoTo(Log(d) + 1)
  BY LengthIs, SecretAssumption, DataFacts
<1>2. g = [i \in 0 .. n - 1 |-> ExpModFr(Secret, i)]
  <2>1. g = [i \in 0 .. n - 0 - 1 |-> fs.SecretG1[0 + i]]
    BY SliceIs DEF SubSlice
  <2>2. fs.SecretG1 = [i \in 0 .. 2 * Length(d) - 1 |-> ExpModFr(Secret, i)]
    BY <1>1, SettingsFacts
  <2>3. \A i \in 0 .. n - 1 : fs.SecretG1[0 + i] = ExpModFr(Secret, i)
    BY <1>1, <2>2
  <2>4. n - 0 - 1 = n - 1
    BY <1>1
  <2> HIDE DEF g
  <2> QED BY <2>1, <2>3, <2>4
<1>3. DOMAIN g = 0 .. n - 1 /\ Length(g) = n
  <2>1. DOMAIN g = 0 .. n - 1
    BY <1>2
  <2> HIDE DEF g
  <2> QED BY <1>1, <2>1, LengthIs
<1>4. \A i \in 0 .. n - 1 : a[i] \in Fr
  OBVIOUS
<1>5. CommitToPoly(fs, a) = SumFr(t, n)
  <2>1. CommitToPoly(fs, a) = LinCombG1(g, a)
    BY <1>1 DEF CommitToPoly
  <2> HIDE DEF g
  <2> QED BY <1>3, <2>1 DEF LinCombG1
<1>6. SumFr(t, n) = SumFr(Monomials(a, n, Secret), n)
  <2>1. ASSUME NEW i \in 0 .. n - 1
        PROVE  Monomials(a, n, Secret)[i] \in Fr /\ t[i] = Monomials(a, n, Secret)[i]
    <3>1. /\ Monomials(a, n, Secret)[i] = a[i] \odot ExpModFr(Secret, i)
          /\ Monomials(a, n, Secret)[i] \in Fr /\ ExpModFr(Secret, i) \in Fr /\ a[i] \in Fr
      BY <1>1, <1>4, PolyAtType, ExpType
    <3>2. t[i] = ExpModFr(Secret, i) \odot a[i]
      <4>1. t[i] = MulG1(g[i], a[i]) /\ g[i] = ExpModFr(Secret, i)
        BY <1>2, <1>3
      <4> QED BY <4>1 DEF MulG1
    <3> QED BY <3>1, <3>2, FrCommutes
  <2> HIDE DEF t
  <2> QED BY <1>1, <2>1, SumEqual
<1> HIDE DEF t
<1> QED BY <1>5, <1>6 DEF PolyAt

-----------------------------------------------------------------------------
(* The sender's state.                                                     *)

(* The lower coefficients are what is committed to.                        *)
LEMMA LowerIs ==
    ASSUME NEW d \in Data
    PROVE  /\ SubSlice(PolyOf(d), 0, Length(d)) = LowerPoly(d)
           /\ LowerPoly(d) \in [0 .. Length(d) - 1 -> Fr]
           /\ PolyOf(d) \in [0 .. 2 * Length(d) - 1 -> Fr]
           /\ \A i \in 0 .. Length(d) - 1 : PolyOf(d)[i] = LowerPoly(d)[i]
           /\ \A i \in Length(d) .. 2 * Length(d) - 1 : PolyOf(d)[i] = 0
<1> DEFINE n == Length(d)
           c == LowerPoly(d)
           a == PolyOf(d)
<1>1. /\ n = TwoTo(Log(d)) /\ n \in Nat /\ 2 * n = TwoTo(Log(d) + 1)
      /\ c \in [0 .. n - 1 -> Fr] /\ a \in [0 .. 2 * n - 1 -> Fr]
  BY DataFacts, PolyFacts DEF IsSlice
<1>2. a = [j \in 0 .. 2 * n - 1 |-> IF j < n THEN c[j] ELSE 0]
  <2> HIDE DEF n, c
  <2> QED BY <1>1 DEF PolyOf, Padded, c
<1> HIDE DEF n, c, a
<1>3. /\ \A i \in 0 .. n - 1 : a[i] = c[i]
      /\ \A i \in n .. 2 * n - 1 : a[i] = 0
  BY <1>1, <1>2
<1>4. SubSlice(a, 0, n) = c
  <2>1. SubSlice(a, 0, n) = [i \in 0 .. n - 0 - 1 |-> a[0 + i]]
    BY SliceIs DEF SubSlice
  <2>2. n - 0 - 1 = n - 1 /\ \A i \in 0 .. n - 1 : a[0 + i] = c[i]
    BY <1>1, <1>3
  <2>3. c = [i \in 0 .. n - 1 |-> c[i]]
    BY <1>1
  <2> QED BY <2>1, <2>2, <2>3
<1> QED BY <1>1, <1>3, <1>4 DEF n, c, a

(* The commitment: the value of the polynomial at the secret.              *)
CommitOf(d) == PolyAt(LowerPoly(d), Length(d), Secret)

(* The committed value is that of the lower coefficients at the secret,    *)
(* and so that of all of them: the upper half is zero.                     *)
LEMMA CommitFacts ==
    ASSUME NEW d \in Data, NEW fs, fs = Settings[Length(d)]
    PROVE  /\ CommitToPoly(fs, SubSlice(PolyOf(d), 0, Length(d))) = CommitOf(d)
           /\ CommitOf(d) \in Fr
           /\ EvalPolyAt(PolyOf(d), Secret) = CommitOf(d)
<1> DEFINE n == Length(d)
<1>1. /\ n \in Nat /\ n \in 1 .. 2 * n /\ n + n = 2 * n /\ 2 * n \in Nat /\ Secret \in Fr
      /\ LowerPoly(d) \in [0 .. n - 1 -> Fr] /\ PolyOf(d) \in [0 .. 2 * n - 1 -> Fr]
  BY DataAssumption, LowerIs, SecretAssumption
<1>2. CommitToPoly(fs, SubSlice(PolyOf(d), 0, n)) = CommitOf(d)
  <2>1. SubSlice(PolyOf(d), 0, n) = LowerPoly(d)
    BY LowerIs
  <2> HIDE DEF n
  <2> QED BY <1>1, <2>1, CommitToPolyIs DEF CommitOf, n
<1>3. EvalPolyAt(PolyOf(d), Secret) = PolyAt(PolyOf(d), n + n, Secret)
  <2> HIDE DEF n
  <2> QED BY <1>1, EvalPolyIs
<1>4. PolyAt(PolyOf(d), n + n, Secret) = CommitOf(d)
  <2> DEFINE a == PolyOf(d)
             c == LowerPoly(d)
  <2>1. /\ \A i \in 0 .. n - 1 : a[i] = c[i]
        /\ \A i \in n .. 2 * n - 1 : a[i] = 0
    BY LowerIs
  <2>2. \A i \in 0 .. n - 1 : c[i] \in Fr
    BY <1>1
  <2> HIDE DEF n, a, c
  <2> DEFINE m == n
  <2>3. /\ m \in Nat
        /\ \A i \in 0 .. n - 1 : c[i] \in Fr /\ a[i] = c[i]
        /\ \A i \in n .. n + m - 1 : a[i] = 0
    BY <1>1, <2>1, <2>2
  <2> HIDE DEF m
  <2>4. PolyAt(a, n + m, Secret) = PolyAt(c, n, Secret)
    BY <1>1, <2>3, PolyAtZeros
  <2>5. PolyAt(a, n + n, Secret) = PolyAt(c, n, Secret)
    BY <2>4 DEF m
  <2> QED BY <2>5 DEF CommitOf, n, a, c
<1>5. CommitOf(d) \in Fr
  <2>1. \A i \in 0 .. n - 1 : LowerPoly(d)[i] \in Fr
    BY <1>1
  <2> HIDE DEF n
  <2> QED BY <1>1, <2>1, PolyAtType DEF CommitOf, n
<1> QED BY <1>2, <1>3, <1>4, <1>5

(* What the sender holds in each phase is determined by the data.          *)
DataKept ==
    /\ phase \in {"data", "extended", "committed", "proved", "receiving", "recovered"}
    /\ data \in Data
    /\ cosetWidth \in CosetWidth[Length(data)]
ExtendedKept == phase # "data" => extended = ExtendedOf(data)
CommitKept == phase \notin {"data", "extended"} => poly = PolyOf(data) /\ commit = CommitOf(data)
ProofsKept ==
    phase \notin {"data", "extended", "committed"} =>
        /\ proofs = FK20MultiDAOptimized(MultiSettings[Length(data)][cosetWidth], PolyOf(data))
        /\ singles = DAUsingFK20(SingleSettings[Length(data)], LowerPoly(data))
SenderInv == DataKept /\ ExtendedKept /\ CommitKept /\ ProofsKept

(* The sender has done nothing yet.                                        *)
LEMMA SenderInit == Init => SenderInv
BY DEF Init, SenderInv, DataKept, ExtendedKept, CommitKept, ProofsKept

(* Every step of the sender keeps it; the receivers leave it alone.        *)
LEMMA SenderNext == SenderInv /\ [Next]_vars => SenderInv'
<1> SUFFICES ASSUME SenderInv, [Next]_vars
             PROVE  SenderInv'
  OBVIOUS
<1> USE DEF SenderInv
<1>1. CASE Extend
  <2> DEFINE n == Length(data)
             odd == DASFFTExtension(ks, data)
             e == [p \in 0 .. size - 1 |-> IF p % 2 = 0 THEN data[p \div 2] ELSE odd[p \div 2]]
  <2>1. data \in Data /\ phase' = "extended" /\ UNCHANGED <<data, cosetWidth>> /\ extended' = e
    BY <1>1, SliceIs DEF Extend, DataKept
  <2>2. e = ExtendedOf(data)
    <3>1. e = [p \in 0 .. 2 * Length(data) - 1 |-> IF p % 2 = 0 THEN data[p \div 2] ELSE odd[p \div 2]]
      BY DEF size
    <3>2. ks = Settings[Length(data)]
      BY DEF ks
    <3> HIDE DEF e
    <3> QED BY <2>1, <3>1, <3>2, ExtensionFacts
  <2> HIDE DEF e
  <2> QED BY <2>1, <2>2 DEF DataKept, ExtendedKept, CommitKept, ProofsKept
<1>2. CASE Commit
  <2>1. /\ phase = "extended" /\ phase' = "committed" /\ data \in Data
        /\ UNCHANGED <<data, cosetWidth, extended>> /\ extended = ExtendedOf(data)
    BY <1>2 DEF Commit, DataKept, ExtendedKept
  <2>2. FourierTransform(ks, ExtendedOf(data), TRUE) = PolyOf(data)
    <3>1. ks = Settings[Length(data)]
      BY DEF ks
    <3> QED BY <2>1, <3>1, ExtensionFacts
  <2>3. CommitToPoly(ks, SubSlice(PolyOf(data), 0, Length(data))) = CommitOf(data)
    BY <2>1, CommitFacts DEF ks
  <2>4. poly' = PolyOf(data) /\ commit' = CommitOf(data)
    BY <1>2, <2>1, <2>2, <2>3 DEF Commit
  <2> QED BY <2>1, <2>4 DEF DataKept, ExtendedKept, CommitKept, ProofsKept
<1>3. CASE Prove
  <2>1. /\ phase = "committed" /\ phase' = "proved" /\ data \in Data /\ poly = PolyOf(data)
        /\ UNCHANGED <<data, cosetWidth, extended, poly, commit>>
        /\ proofs' = FK20MultiDAOptimized(MultiSettings[Length(data)][cosetWidth], poly)
        /\ singles' = DAUsingFK20(SingleSettings[Length(data)], SubSlice(poly, 0, Length(data)))
    BY <1>3 DEF Prove, DataKept, CommitKept
  <2>2. SubSlice(PolyOf(data), 0, Length(data)) = LowerPoly(data)
    BY <2>1, LowerIs
  <2> QED BY <2>1, <2>2 DEF DataKept, ExtendedKept, CommitKept, ProofsKept
<1>4. CASE Recover
  BY <1>4 DEF Recover, DataKept, ExtendedKept, CommitKept, ProofsKept
<1>5. ASSUME NEW i \in 0 .. sampleCount - 1, Receive(i)
      PROVE  SenderInv'
  BY <1>5 DEF Receive, DataKept, ExtendedKept, CommitKept, ProofsKept
<1>6. CASE UNCHANGED vars
  BY <1>6 DEF vars, DataKept, ExtendedKept, CommitKept, ProofsKept
<1> QED BY <1>1, <1>2, <1>3, <1>4, <1>5, <1>6 DEF Next

(* In every phase the sender holds what its data determines.               *)
THEOREM SenderKeepsWhatDataGives == Spec => []SenderInv
BY SenderInit, SenderNext, PTL DEF Spec

-----------------------------------------------------------------------------
(* The degree.                                                             *)

(* The upper half of the coefficients is zero, and the polynomial runs     *)
(* through the data: for data of any length that is a power of two, over   *)
(* every field with enough roots of unity.                                 *)
THEOREM DegreeIsHalved == Spec => []ExtensionHalvesDegree
<1>1. SenderInv => ExtensionHalvesDegree
  <2> SUFFICES ASSUME SenderInv, phase \notin {"data", "extended"}
               PROVE  /\ \A i \in Length(data) .. size - 1 : poly[i] = 0
                      /\ \A i \in DOMAIN data :
                             EvalPolyAt(poly, ks.ExpandedRootsOfUnity[2 * i]) = data[i]
    BY DEF ExtensionHalvesDegree
  <2> DEFINE n == Length(data)
             k == Log(data) + 1
             w == Root(data)
             a == PolyOf(data)
  <2>1. data \in Data /\ poly = a
    BY DEF SenderInv, DataKept, CommitKept
  <2>2. \A i \in Length(data) .. size - 1 : poly[i] = 0
    BY <2>1, LowerIs DEF size
  <2>3. /\ Powers(ks.ExpandedRootsOfUnity, w, k) /\ IsSlice(a, k) /\ w \in Fr /\ k \in Nat
        /\ TwoTo(k) = 2 * n /\ n \in Nat /\ DOMAIN data = 0 .. n - 1
        /\ a \in [0 .. 2 * n - 1 -> Fr] /\ n = TwoTo(Log(data)) /\ 2 * n \in Nat
    <3>1. HasRoots(ks, Root(data), Log(data) + 1)
      BY <2>1, SettingsFacts DEF ks
    <3>2. /\ Log(data) + 1 \in Nat /\ 2 * Length(data) = TwoTo(Log(data) + 1)
          /\ Length(data) \in Nat /\ Length(data) = TwoTo(Log(data)) /\ IsSlice(data, Log(data))
          /\ Log(data) \in Nat /\ 2 * Length(data) \in Nat
      BY <2>1, DataFacts
    <3>3. DOMAIN data = 0 .. Length(data) - 1
      BY <3>2, SliceLength
    <3>4. /\ IsSlice(PolyOf(data), Log(data) + 1) /\ Root(data) \in Fr
          /\ PolyOf(data) \in [0 .. 2 * Length(data) - 1 -> Fr]
      BY <2>1, PolyFacts, LowerIs
    <3> QED BY <3>1, <3>2, <3>3, <3>4 DEF HasRoots
  <2>4. ASSUME NEW i \in 0 .. n - 1
        PROVE  EvalPolyAt(a, ks.ExpandedRootsOfUnity[2 * i]) = data[i]
    <3>1. ExtendedOf(data)[2 * i] = data[i]
      BY <2>1, PolyFacts
    <3>2. ExtendedOf(data) = Transform(a, w, k)
      BY DEF ExtendedOf
    <3> HIDE DEF n, k, w, a
    <3>3. 2 * i \in 0 .. TwoTo(k) - 1 /\ 2 * i \in 0 .. TwoTo(k) /\ 2 * i \in Nat
      BY <2>3
    <3>4. ExtendedOf(data)[2 * i] = TransformAt(a, w, k, 2 * i)
      BY <3>2, <3>3 DEF Transform
    <3>5. TransformAt(a, w, k, 2 * i) = PolyAt(a, TwoTo(k), ExpModFr(w, 2 * i))
      BY <2>3, <3>3, TransformAtIs
    <3>6. ks.ExpandedRootsOfUnity[2 * i] = ExpModFr(w, 2 * i) /\ ExpModFr(w, 2 * i) \in Fr
      BY <2>3, <3>3, ExpType DEF Powers
    <3>7. EvalPolyAt(a, ExpModFr(w, 2 * i)) = PolyAt(a, 2 * n, ExpModFr(w, 2 * i))
      BY <2>3, <3>6, EvalPolyIs
    <3> QED BY <2>3, <3>1, <3>4, <3>5, <3>6, <3>7
  <2> QED BY <2>1, <2>2, <2>3, <2>4
<1> QED BY <1>1, SenderKeepsWhatDataGives, PTL

-----------------------------------------------------------------------------
(* The commitments.                                                        *)

Product(x, y, n) == [i \in 0 .. n - 1 |-> x[i] \odot y[i]]
Dot(x, y, n) == SumFr(Product(x, y, n), n)

(* The last two factors change places.                                     *)
LEMMA FrSwaps == \A a, b, c \in Fr : (a \odot b) \odot c = (a \odot c) \odot b
<1> SUFFICES ASSUME NEW a \in Fr, NEW b \in Fr, NEW c \in Fr
             PROVE  (a \odot b) \odot c = (a \odot c) \odot b
  OBVIOUS
<1>1. (a \odot b) \odot c = a \odot (b \odot c) /\ (a \odot c) \odot b = a \odot (c \odot b)
  BY FrAssociates
<1>2. b \odot c = c \odot b
  BY FrCommutes
<1> QED BY <1>1, <1>2

(* A transform may be moved from one factor of a product to the other.     *)
LEMMA TransformMoves ==
    ASSUME NEW k \in Nat, NEW w \in Fr, NEW x, IsSlice(x, k), NEW y, IsSlice(y, k)
    PROVE  Dot(Transform(x, w, k), y, TwoTo(k)) = Dot(x, Transform(y, w, k), TwoTo(k))
<1> DEFINE n == TwoTo(k)
           xw(i) == [j \in 0 .. n - 1 |-> x[j] \odot ExpModFr(w, i * j)]
           yw(j) == [i \in 0 .. n - 1 |-> y[i] \odot ExpModFr(w, j * i)]
           e == [i \in 0 .. n - 1 |-> [j \in 0 .. n - 1 |-> y[i] \odot xw(i)[j]]]
           f == [j \in 0 .. n - 1 |-> [i \in 0 .. n - 1 |-> x[j] \odot yw(j)[i]]]
           r == Product(Transform(x, w, k), y, n)
           c == Product(x, Transform(y, w, k), n)
<1>1. n \in Nat /\ (\A i \in 0 .. n - 1 : x[i] \in Fr /\ y[i] \in Fr /\ i \in Nat)
  <2>1. n \in Nat /\ x \in [0 .. n - 1 -> Fr] /\ y \in [0 .. n - 1 -> Fr]
    BY TwoToType DEF IsSlice
  <2> HIDE DEF n
  <2> QED BY <2>1
<1>2. ASSUME NEW i \in 0 .. n - 1, NEW j \in 0 .. n - 1
      PROVE  /\ xw(i)[j] = x[j] \odot ExpModFr(w, i * j) /\ xw(i)[j] \in Fr
             /\ yw(j)[i] = y[i] \odot ExpModFr(w, j * i) /\ yw(j)[i] \in Fr
             /\ e[i][j] = y[i] \odot xw(i)[j] /\ f[j][i] = x[j] \odot yw(j)[i]
             /\ e[i][j] \in Fr /\ f[j][i] = e[i][j]
  <2>1. /\ xw(i)[j] = x[j] \odot ExpModFr(w, i * j) /\ yw(j)[i] = y[i] \odot ExpModFr(w, j * i)
        /\ e[i][j] = y[i] \odot xw(i)[j] /\ f[j][i] = x[j] \odot yw(j)[i]
    OBVIOUS
  <2>2. /\ i \in Nat /\ j \in Nat /\ i * j \in Nat /\ i * j = j * i
        /\ x[j] \in Fr /\ y[i] \in Fr
    <3>1. i \in Nat /\ j \in Nat
      BY <1>1
    <3> QED BY <1>1, <3>1
  <2> DEFINE p == ExpModFr(w, i * j)
  <2>3. p \in Fr /\ p = ExpModFr(w, j * i)
    BY <2>2, ExpType
  <2> HIDE DEF p, e, f, xw, yw
  <2>4. xw(i)[j] = x[j] \odot p /\ yw(j)[i] = y[i] \odot p
    BY <2>1, <2>3 DEF p
  <2>5. x[j] \odot p \in Fr /\ y[i] \odot p \in Fr /\ y[i] \odot (x[j] \odot p) \in Fr
    BY <2>2, <2>3, FrClosed
  <2>6. y[i] \odot (x[j] \odot p) = x[j] \odot (y[i] \odot p)
    <3>1. y[i] \odot (x[j] \odot p) = (x[j] \odot p) \odot y[i]
      BY <2>2, <2>5, FrCommutes
    <3>2. (x[j] \odot p) \odot y[i] = x[j] \odot (p \odot y[i])
      BY <2>2, <2>3, FrAssociates
    <3>3. p \odot y[i] = y[i] \odot p
      BY <2>2, <2>3, FrCommutes
    <3> QED BY <3>1, <3>2, <3>3
  <2> QED BY <2>1, <2>4, <2>5, <2>6
<1>3. RowSums(e, r, n, n)
  <2>1. ASSUME NEW i \in 0 .. n - 1
        PROVE  r[i] = SumFr(e[i], n)
    <3>1. \A j \in 0 .. n - 1 : xw(i)[j] \in Fr /\ e[i][j] = y[i] \odot xw(i)[j]
      BY <1>2
    <3>2. SumFr(xw(i), n) = TransformAt(x, w, k, i)
      BY DEF TransformAt
    <3>3. r[i] = TransformAt(x, w, k, i) \odot y[i]
      BY DEF Product, Transform
    <3> HIDE DEF n, xw, e, r
    <3>4. SumFr(e[i], n) = y[i] \odot SumFr(xw(i), n)
      BY <1>1, <3>1, SumTimes
    <3>5. SumFr(xw(i), n) \in Fr /\ y[i] \in Fr
      BY <1>1, <3>1, SumType
    <3> QED BY <3>2, <3>3, <3>4, <3>5, FrCommutes
  <2> HIDE DEF n, e, r
  <2> QED BY <2>1 DEF RowSums
<1>4. RowSums(f, c, n, n)
  <2>1. ASSUME NEW j \in 0 .. n - 1
        PROVE  c[j] = SumFr(f[j], n)
    <3>1. \A i \in 0 .. n - 1 : yw(j)[i] \in Fr /\ f[j][i] = x[j] \odot yw(j)[i]
      BY <1>2
    <3>2. SumFr(yw(j), n) = TransformAt(y, w, k, j)
      BY DEF TransformAt
    <3>3. c[j] = x[j] \odot TransformAt(y, w, k, j)
      BY DEF Product, Transform
    <3>4. x[j] \in Fr
      BY <1>1
    <3> HIDE DEF n, yw, f, c
    <3>5. SumFr(f[j], n) = x[j] \odot SumFr(yw(j), n)
      BY <1>1, <3>1, <3>4, SumTimes
    <3> QED BY <3>2, <3>3, <3>5
  <2> HIDE DEF n, f, c
  <2> QED BY <2>1 DEF RowSums
<1>5. \A i \in 0 .. n - 1 : \A j \in 0 .. n - 1 : e[i][j] \in Fr /\ f[j][i] = e[i][j]
  BY <1>2
<1> HIDE DEF e, f, r, c, xw, yw, n
<1>6. SumFr(r, n) = SumFr(c, n)
  <2>1. /\ RowSums(e, r, n, n) /\ RowSums(f, c, n, n) /\ n \in Nat
        /\ \A i \in 0 .. n - 1 : \A j \in 0 .. n - 1 : e[i][j] \in Fr /\ f[j][i] = e[i][j]
    BY <1>1, <1>3, <1>4, <1>5
  <2> QED BY <2>1, SumExchanges
<1> QED BY <1>6 DEF Dot, r, c, n

(* So may the inverse transform.                                           *)
LEMMA CoefficientsMove ==
    ASSUME NEW k \in Nat, NEW w, IsRoot(w, k), Divides(k), NEW x, IsSlice(x, k),
           NEW y, IsSlice(y, k)
    PROVE  Dot(Coefficients(x, w, k), y, TwoTo(k)) = Dot(x, Coefficients(y, w, k), TwoTo(k))
<1> DEFINE n == TwoTo(k)
           v == InverseRoot(w, k)
           d == InvModFr(n)
           tx == Transform(x, v, k)
           ty == Transform(y, v, k)
           p == Product(tx, y, n)
           q == Product(x, ty, n)
           pd == Product(Coefficients(x, w, k), y, n)
           qd == Product(x, Coefficients(y, w, k), n)
<1>1. n \in Nat /\ d \in Fr /\ v \in Fr
  BY TwoToType, DividesFacts, RootInverse DEF IsRoot
<1>2. IsSlice(tx, k) /\ IsSlice(ty, k)
  <2> HIDE DEF v
  <2> QED BY <1>1, TransformType
<1>3. ASSUME NEW i \in 0 .. n - 1
      PROVE  /\ p[i] \in Fr /\ q[i] \in Fr /\ pd[i] = d \odot p[i] /\ qd[i] = d \odot q[i]
  <2>1. /\ p[i] = tx[i] \odot y[i] /\ q[i] = x[i] \odot ty[i]
        /\ pd[i] = Coefficients(x, w, k)[i] \odot y[i]
        /\ qd[i] = x[i] \odot Coefficients(y, w, k)[i]
    BY DEF Product
  <2>2. Coefficients(x, w, k)[i] = tx[i] \odot d /\ Coefficients(y, w, k)[i] = ty[i] \odot d
    BY DEF Coefficients, Transform
  <2>3. tx[i] \in Fr /\ ty[i] \in Fr /\ x[i] \in Fr /\ y[i] \in Fr
    BY <1>2 DEF IsSlice
  <2> HIDE DEF p, q, pd, qd, tx, ty, d
  <2>4. tx[i] \odot y[i] \in Fr /\ x[i] \odot ty[i] \in Fr
    BY <2>3, FrClosed
  <2>5. (tx[i] \odot d) \odot y[i] = (tx[i] \odot y[i]) \odot d
    BY <1>1, <2>3, FrSwaps
  <2>6. x[i] \odot (ty[i] \odot d) = (x[i] \odot ty[i]) \odot d
    BY <1>1, <2>3, FrAssociates
  <2>7. /\ (tx[i] \odot y[i]) \odot d = d \odot (tx[i] \odot y[i])
        /\ (x[i] \odot ty[i]) \odot d = d \odot (x[i] \odot ty[i])
    BY <1>1, <2>4, FrCommutes
  <2> QED BY <2>1, <2>2, <2>4, <2>5, <2>6, <2>7
<1>4. SumFr(p, n) = SumFr(q, n)
  <2>1. Dot(tx, y, n) = Dot(x, ty, n)
    <3> HIDE DEF v
    <3> QED BY <1>1, TransformMoves
  <2> QED BY <2>1 DEF Dot
<1>5. SumFr(pd, n) = d \odot SumFr(p, n) /\ SumFr(qd, n) = d \odot SumFr(q, n)
  <2> HIDE DEF n, d, p, q, pd, qd
  <2> QED BY <1>1, <1>3, SumTimes
<1> HIDE DEF p, q, pd, qd
<1> QED BY <1>4, <1>5 DEF Dot, pd, qd

(* The value at the secret is the product of the values of the polynomial  *)
(* and the inverse transform of the powers of the secret.                  *)
LEMMA ValuesCommit ==
    ASSUME NEW k \in Nat, NEW w, IsRoot(w, k), Divides(k), NEW a, IsSlice(a, k), NEW s \in Fr,
           NEW g, g = [i \in 0 .. TwoTo(k) - 1 |-> ExpModFr(s, i)]
    PROVE  /\ IsSlice(g, k)
           /\ Dot(Coefficients(g, w, k), Transform(a, w, k), TwoTo(k)) = PolyAt(a, TwoTo(k), s)
<1> DEFINE n == TwoTo(k)
           b == Transform(a, w, k)
<1>1. n \in Nat /\ w \in Fr
  BY TwoToType DEF IsRoot
<1>2. IsSlice(g, k)
  <2>1. \A i \in 0 .. n - 1 : ExpModFr(s, i) \in Fr
    BY <1>1, ExpType
  <2> QED BY <2>1 DEF IsSlice
<1>3. IsSlice(b, k) /\ Coefficients(b, w, k) = a
  BY <1>1, TransformType, TransformUndone
<1>4. Dot(Coefficients(g, w, k), b, n) = Dot(g, a, n)
  <2> HIDE DEF b
  <2> QED BY <1>2, <1>3, CoefficientsMove
<1>5. Product(g, a, n) = Monomials(a, n, s)
  <2>1. ASSUME NEW i \in 0 .. n - 1
        PROVE  g[i] \odot a[i] = a[i] \odot ExpModFr(s, i)
    <3>1. g[i] = ExpModFr(s, i) /\ ExpModFr(s, i) \in Fr /\ a[i] \in Fr
      BY <1>1, ExpType DEF IsSlice
    <3> QED BY <3>1, FrCommutes
  <2> HIDE DEF n
  <2> QED BY <2>1 DEF Product, Monomials
<1> QED BY <1>2, <1>4, <1>5 DEF Dot, PolyAt

(* The inverse transform of the powers of s is the barycentric weights.    *)
LEMMA BarycentricWeights ==
    ASSUME NEW k \in Nat, NEW w, IsRoot(w, k), Divides(k), NEW s \in Fr,
           ExpModFr(s, TwoTo(k)) # 1, NEW i \in 0 .. TwoTo(k) - 1,
           NEW g, g = [j \in 0 .. TwoTo(k) - 1 |-> ExpModFr(s, j)], NEW e \in Fr
    PROVE  LET u == ExpModFr(w, i)
               t == DivModFr(e \odot u, s \ominus u)
           IN  /\ t \in Fr
               /\ Coefficients(g, w, k)[i] \odot e =
                      DivModFr(ExpModFr(s, TwoTo(k)) \ominus 1, TwoTo(k)) \odot t
<1> DEFINE n == TwoTo(k)
           v == InverseRoot(w, k)
           u == ExpModFr(w, i)
           uv == ExpModFr(v, i)
           z == s \odot uv
           p == ExpModFr(s, n) \ominus 1
           q == s \ominus u
           d == InvModFr(n)
           f == InvModFr(q)
           gz == [j \in 0 .. n - 1 |-> g[j] \odot ExpModFr(v, i * j)]
           h == SumFr(gz, n)
<1>1. /\ n \in Nat /\ w \in Fr /\ v \in Fr /\ i \in Nat /\ d \in Fr /\ 1 \in Fr
      /\ u \in Fr /\ uv \in Fr /\ u \odot uv = 1 /\ ExpModFr(v, n) = 1 /\ ExpModFr(w, n) = 1
  <2>1. n \in Nat /\ w \in Fr /\ ExpModFr(w, n) = 1 /\ 1 \in Fr /\ d \in Fr
    BY TwoToType, ModulusFacts, DividesFacts DEF IsRoot
  <2>2. IsRoot(v, k)
    BY RootInverse
  <2>3. v \in Fr /\ ExpModFr(v, n) = 1
    <3> HIDE DEF v
    <3> QED BY <2>2 DEF IsRoot
  <2>4. i \in Nat
    BY <2>1
  <2>5. u \odot uv = 1
    BY <2>4, RootInverse
  <2> HIDE DEF v, n
  <2> QED BY <2>1, <2>3, <2>4, <2>5, ExpType
<1>2. z \in Fr /\ p \in Fr /\ q \in Fr /\ ExpModFr(s, n) \in Fr /\ z \ominus 1 \in Fr
  <2> HIDE DEF n, u, uv
  <2> QED BY <1>1, FrClosed, ExpType
<1>3. q # 0
  <2>1. ExpModFr(u, n) = 1
    <3>1. ExpModFr(w, i * n) = ExpModFr(u, n) /\ ExpModFr(w, n * i) = ExpModFr(ExpModFr(w, n), i)
      <4> HIDE DEF n
      <4> QED BY <1>1, ExpTimes
    <3>2. i * n = n * i /\ ExpModFr(1, i) = 1
      <4> HIDE DEF n
      <4> QED BY <1>1, ExpOfOne
    <3> QED BY <1>1, <3>1, <3>2
  <2> HIDE DEF u, n
  <2>2. q = 0 => s = u
    BY <1>1, FrDifferences
  <2> QED BY <2>1, <2>2 DEF n
<1>4. ASSUME NEW j \in 0 .. n - 1
      PROVE  gz[j] = ExpModFr(z, j)
  <2>1. j \in Nat /\ g[j] = ExpModFr(s, j) /\ gz[j] = g[j] \odot ExpModFr(v, i * j)
    BY <1>1
  <2>2. ExpModFr(v, i * j) = ExpModFr(uv, j)
    <3> HIDE DEF v
    <3> QED BY <1>1, <2>1, ExpTimes
  <2>3. ExpModFr(z, j) = ExpModFr(s, j) \odot ExpModFr(uv, j)
    <3> HIDE DEF uv
    <3> QED BY <1>1, <2>1, ExpProduct
  <2> HIDE DEF gz, z, uv
  <2> QED BY <2>1, <2>2, <2>3
<1>5. ExpModFr(z, n) = ExpModFr(s, n)
  <2>1. ExpModFr(z, n) = ExpModFr(s, n) \odot ExpModFr(uv, n)
    <3> HIDE DEF uv, n
    <3> QED BY <1>1, ExpProduct
  <2>2. ExpModFr(uv, n) = 1
    <3>1. ExpModFr(v, i * n) = ExpModFr(uv, n) /\ ExpModFr(v, n * i) = ExpModFr(ExpModFr(v, n), i)
      <4> HIDE DEF n, v
      <4> QED BY <1>1, ExpTimes
    <3>2. i * n = n * i /\ ExpModFr(1, i) = 1
      <4> HIDE DEF n
      <4> QED BY <1>1, ExpOfOne
    <3> QED BY <1>1, <3>1, <3>2
  <2> HIDE DEF z, uv, n
  <2> QED BY <1>2, <2>1, <2>2, FrUnits
<1>6. (z \ominus 1) \odot h = p /\ h \in Fr
  <2>1. \A j \in 0 .. n - 1 : gz[j] = ExpModFr(z, j) /\ gz[j] \in Fr
    <3> HIDE DEF n, z, gz
    <3> QED BY <1>1, <1>2, <1>4, ExpType
  <2> HIDE DEF n, z, gz
  <2>2. (z \ominus 1) \odot SumFr(gz, n) = ExpModFr(z, n) \ominus 1 /\ SumFr(gz, n) \in Fr
    BY <1>1, <1>2, <2>1, GeometricSum, SumType
  <2> QED BY <1>5, <2>2
<1> HIDE DEF n, v, h
<1>7. u \odot (z \ominus 1) = q
  <2> HIDE DEF u, uv
  <2>1. u \odot (z \ominus 1) = (u \odot z) \ominus (u \odot 1)
    BY <1>1, <1>2, FrDifferences
  <2>2. u \odot z = s
    <3>1. u \odot (s \odot uv) = (s \odot uv) \odot u
      BY <1>1, <1>2, FrCommutes
    <3>2. (s \odot uv) \odot u = s \odot (uv \odot u)
      BY <1>1, FrAssociates
    <3>3. uv \odot u = 1 /\ s \odot 1 = s
      BY <1>1, FrCommutes, FrUnits
    <3> QED BY <3>1, <3>2, <3>3
  <2>3. u \odot 1 = u
    BY <1>1, FrUnits
  <2> HIDE DEF z
  <2> QED BY <2>1, <2>2, <2>3
<1>8. h \odot q = p \odot u
  <2> DEFINE z1 == z \ominus 1
  <2> HIDE DEF z, u, p, q
  <2>1. h \odot (u \odot z1) = (u \odot z1) \odot h
    BY <1>1, <1>2, <1>6, FrCommutes, FrClosed
  <2>2. (u \odot z1) \odot h = u \odot (z1 \odot h)
    BY <1>1, <1>2, <1>6, FrAssociates
  <2>3. u \odot p = p \odot u
    BY <1>1, <1>2, FrCommutes
  <2> QED BY <1>6, <1>7, <2>1, <2>2, <2>3
<1>9. h = (p \odot u) \odot f /\ f \in Fr
  <2> HIDE DEF p, q, u
  <2>1. DivModFr(h \odot q, q) = h /\ f \in Fr
    BY <1>2, <1>3, <1>6, FrCancel, FrInverse
  <2> QED BY <1>8, <2>1 DEF DivModFr
<1>10. Coefficients(g, w, k)[i] = h \odot d
  <2>1. i \in 0 .. n - 1
    BY DEF n
  <2>2. Coefficients(g, w, k)[i] = TransformAt(g, v, k, i) \odot d
    BY <2>1 DEF Coefficients, n, v
  <2>3. TransformAt(g, v, k, i) = h
    BY DEF TransformAt, h, n
  <2> HIDE DEF d
  <2> QED BY <2>2, <2>3
<1> DEFINE m == u \odot f
           eu == e \odot u
<1>11. m \in Fr /\ eu \in Fr /\ p \odot d \in Fr /\ eu \odot f \in Fr
  <2> HIDE DEF u, f, p, d
  <2> QED BY <1>1, <1>2, <1>9, FrClosed
<1>12. (h \odot d) \odot e = (p \odot d) \odot (eu \odot f)
  <2> HIDE DEF u, f, p, d
  <2>1. h = p \odot m
    BY <1>1, <1>2, <1>9, FrAssociates
  <2> HIDE DEF m
  <2>2. (p \odot m) \odot d = (p \odot d) \odot m
    BY <1>1, <1>2, <1>11, FrSwaps
  <2>3. ((p \odot d) \odot m) \odot e = (p \odot d) \odot (m \odot e)
    BY <1>1, <1>2, <1>11, FrAssociates
  <2>4. m \odot e = eu \odot f
    <3>1. (u \odot f) \odot e = (u \odot e) \odot f
      BY <1>1, <1>9, FrSwaps
    <3>2. u \odot e = e \odot u
      BY <1>1, FrCommutes
    <3> QED BY <3>1, <3>2 DEF m
  <2> HIDE DEF eu
  <2> QED BY <2>1, <2>2, <2>3, <2>4
<1>13. DivModFr(p, n) = p \odot d /\ DivModFr(eu, q) = eu \odot f
  BY DEF DivModFr
<1> HIDE DEF m, eu, d, f, p, q, u
<1> QED BY <1>10, <1>11, <1>12, <1>13 DEF p, q, u, n, eu

(* The barycentric formula and the product with the inverse transform of   *)
(* the setup both give the commitment.                                     *)
LEMMA CommitmentFacts ==
    ASSUME NEW d \in Data, NEW fs, fs = Settings[Length(d)]
    PROVE  /\ CommitToEvalPoly(FFTG1(fs, fs.SecretG1, TRUE), ExtendedOf(d)) = CommitOf(d)
           /\ EvaluatePolyInEvaluationForm(ExtendedOf(d), Secret,
                  SubSlice(fs.ExpandedRootsOfUnity, 0, 2 * Length(d)), 0) = CommitOf(d)
<1> DEFINE k == Log(d) + 1
           n == TwoTo(k)
           w == Root(d)
           a == PolyOf(d)
           b == ExtendedOf(d)
           g == [i \in 0 .. n - 1 |-> ExpModFr(Secret, i)]
           c == Coefficients(g, w, k)
           roots == SubSlice(fs.ExpandedRootsOfUnity, 0, 2 * Length(d))
           term(i) == DivModFr(MulModFr(b[i], roots[i * TwoTo(0)]),
                               SubModFr(Secret, roots[i * TwoTo(0)]))
           t == [i \in DOMAIN b |-> term(i)]
           scale == DivModFr(ExpModFr(Secret, n) \ominus 1, n)
<1>1. /\ k \in Nat /\ n \in Nat /\ 2 * Length(d) = n /\ Secret \in Fr /\ ExpModFr(Secret, n) # 1
      /\ HasRoots(fs, w, k) /\ Divides(k) /\ IsRoot(w, k) /\ fs.MaxWidth = n /\ fs.SecretG1 = g
  BY DataFacts, SettingsFacts, SecretAssumption, TwoToType
<1>2. /\ IsSlice(a, k) /\ IsSlice(b, k) /\ b = Transform(a, w, k) /\ Length(b) = n
      /\ DOMAIN b = 0 .. n - 1
  <2>1. IsSlice(a, k) /\ IsSlice(b, k) /\ b = Transform(a, w, k)
    BY PolyFacts DEF ExtendedOf
  <2> HIDE DEF k, a, b, w
  <2> QED BY <1>1, <2>1, SliceLength
<1>3. IsSlice(g, k) /\ Dot(c, b, n) = PolyAt(a, n, Secret)
  <2>1. \A f : f = [i \in 0 .. TwoTo(k) - 1 |-> ExpModFr(Secret, i)] =>
            IsSlice(f, k) /\ Dot(Coefficients(f, w, k), Transform(a, w, k), TwoTo(k))
                                 = PolyAt(a, TwoTo(k), Secret)
    <3> HIDE DEF k, w, a
    <3> QED BY <1>1, <1>2, ValuesCommit
  <2> QED BY <1>2, <2>1
<1>4. PolyAt(a, n, Secret) = CommitOf(d)
  <2>1. EvalPolyAt(a, Secret) = CommitOf(d)
    BY CommitFacts
  <2>2. a \in [0 .. n - 1 -> Fr]
    BY <1>2 DEF IsSlice
  <2> HIDE DEF n, a
  <2> QED BY <1>1, <2>1, <2>2, EvalPolyIs
<1>5. CommitToEvalPoly(FFTG1(fs, fs.SecretG1, TRUE), b) = CommitOf(d)
  <2>1. FromValuesG1(fs, g) = c
    <3> HIDE DEF k, w, g
    <3> QED BY <1>1, <1>3, TransformsOfAll DEF n
  <2>2. FFTG1(fs, fs.SecretG1, TRUE) = c
    <3> HIDE DEF g, c
    <3> QED BY <1>1, <2>1 DEF FromValuesG1
  <2>3. DOMAIN c = 0 .. n - 1
    BY DEF Coefficients
  <2> HIDE DEF c, n, b
  <2>4. Length(c) = n
    BY <1>1, <2>3, LengthIs
  <2>5. LinCombG1(c, b) = Dot(c, b, n)
    BY <2>3, <2>4 DEF LinCombG1, Dot, Product, MulG1
  <2> QED BY <1>3, <1>4, <2>2, <2>5 DEF CommitToEvalPoly
<1>6. ASSUME NEW i \in 0 .. n - 1
      PROVE  t[i] \in Fr /\ Product(c, b, n)[i] = scale \odot t[i]
  <2> DEFINE u == ExpModFr(w, i)
  <2>1. roots[i * TwoTo(0)] = u
    <3>1. i * TwoTo(0) = i /\ 0 + i = i /\ i \in 0 .. n - 0 - 1 /\ i \in 0 .. TwoTo(k)
      BY <1>1, TwoToZero
    <3>2. roots = [j \in 0 .. n - 0 - 1 |-> fs.ExpandedRootsOfUnity[0 + j]]
      BY <1>1, SliceIs DEF SubSlice
    <3>3. roots[i] = fs.ExpandedRootsOfUnity[0 + i]
      <4> HIDE DEF roots
      <4> QED BY <3>1, <3>2
    <3>4. fs.ExpandedRootsOfUnity[i] = u
      <4> HIDE DEF k, w, n
      <4> QED BY <1>1, <3>1 DEF HasRoots, Powers
    <3> HIDE DEF roots, u
    <3> QED BY <3>1, <3>3, <3>4
  <2>2. t[i] = DivModFr(b[i] \odot u, Secret \ominus u)
    <3>1. t[i] = term(i)
      BY <1>2
    <3> HIDE DEF roots, u, b
    <3> QED BY <2>1, <3>1
  <2>3. b[i] \in Fr
    BY <1>2 DEF IsSlice
  <2>4. \A f, e : f = [j \in 0 .. TwoTo(k) - 1 |-> ExpModFr(Secret, j)] /\ e \in Fr =>
            /\ DivModFr(e \odot u, Secret \ominus u) \in Fr
            /\ Coefficients(f, w, k)[i] \odot e = scale \odot DivModFr(e \odot u, Secret \ominus u)
    <3>1. ExpModFr(Secret, TwoTo(k)) # 1 /\ i \in 0 .. TwoTo(k) - 1
      BY <1>1
    <3> HIDE DEF k, w
    <3> QED BY <1>1, <3>1, BarycentricWeights
  <2>5. Product(c, b, n)[i] = c[i] \odot b[i]
    <3> HIDE DEF c, b, n
    <3> QED BY DEF Product
  <2>6. c = Coefficients(g, w, k) /\ g = [j \in 0 .. TwoTo(k) - 1 |-> ExpModFr(Secret, j)]
    OBVIOUS
  <2> HIDE DEF c, b, t, scale, u, k, w, g
  <2> QED BY <2>2, <2>3, <2>4, <2>5, <2>6
<1>7. scale \in Fr
  <2>1. 1 \in Fr /\ n \in Fr /\ ExpModFr(Secret, n) \in Fr
    BY <1>1, ModulusFacts, DividesFacts, ExpType
  <2> HIDE DEF n
  <2>2. InvModFr(n) \in Fr /\ ExpModFr(Secret, n) \ominus 1 \in Fr
    BY <2>1, FrInverse, FrClosed
  <2> QED BY <2>2, FrClosed DEF DivModFr
<1>8. Dot(c, b, n) = scale \odot SumFr(t, n)
  <2> DEFINE p == Product(c, b, n)
  <2>1. n \in Nat /\ scale \in Fr /\ \A i \in 0 .. n - 1 : t[i] \in Fr /\ p[i] = scale \odot t[i]
    BY <1>1, <1>6, <1>7
  <2> HIDE DEF scale, t, c, b, n, p
  <2>2. SumFr(p, n) = scale \odot SumFr(t, n)
    BY <2>1, SumTimes
  <2> QED BY <2>2 DEF Dot, p
<1>9. SumFr(t, n) \odot scale = scale \odot SumFr(t, n)
  <2> HIDE DEF scale, t, n
  <2>1. SumFr(t, n) \in Fr
    BY <1>1, <1>6, SumType
  <2> QED BY <1>7, <2>1, FrCommutes
<1>10. EvaluatePolyInEvaluationForm(b, Secret, roots, 0) = SumFr(t, n) \odot scale
  <2> HIDE DEF b, roots, n
  <2> QED BY <1>2 DEF EvaluatePolyInEvaluationForm
<1> HIDE DEF n, a, b, c, g, t, roots, scale
<1> QED BY <1>3, <1>4, <1>5, <1>8, <1>9, <1>10 DEF b, roots

(* The commitment is the value of the polynomial at the secret, and the    *)
(* one computed from the values, on which the sender's peers rely, is the  *)
(* same.                                                                   *)
THEOREM CommitmentsAreOne == Spec => []CommitmentsAgree
<1>1. SenderInv => CommitmentsAgree
  <2> SUFFICES ASSUME SenderInv, phase = "committed"
               PROVE  /\ commit = CommitToEvalPoly(FFTG1(ks, ks.SecretG1, TRUE), extended)
                      /\ commit = EvalPolyAt(poly, Secret)
                      /\ commit = EvaluatePolyInEvaluationForm(extended, Secret,
                                      SubSlice(ks.ExpandedRootsOfUnity, 0, size), 0)
    BY DEF CommitmentsAgree
  <2>1. /\ data \in Data /\ poly = PolyOf(data) /\ extended = ExtendedOf(data)
        /\ commit = CommitOf(data) /\ ks = Settings[Length(data)] /\ size = 2 * Length(data)
    BY DEF SenderInv, DataKept, ExtendedKept, CommitKept, ks, size
  <2>2. /\ CommitToEvalPoly(FFTG1(ks, ks.SecretG1, TRUE), ExtendedOf(data)) = CommitOf(data)
        /\ EvaluatePolyInEvaluationForm(ExtendedOf(data), Secret,
               SubSlice(ks.ExpandedRootsOfUnity, 0, 2 * Length(data)), 0) = CommitOf(data)
    BY <2>1, CommitmentFacts
  <2>3. EvalPolyAt(PolyOf(data), Secret) = CommitOf(data)
    BY <2>1, CommitFacts
  <2> QED BY <2>1, <2>2, <2>3
<1> QED BY <1>1, SenderKeepsWhatDataGives, PTL

-----------------------------------------------------------------------------
(* The product with the Toeplitz matrix.                                   *)

(* What the product is taken of, for 2 ** (q + m) coefficients c in chunks *)
(* of 2 ** m and the offset o in a chunk: powers of the secret s, and      *)
(* coefficients, each with zeros.                                          *)
SetupPower(q, m, o, i) == TwoTo(q + m) - TwoTo(m) - 1 - o - i * TwoTo(m)
SetupPart(s, q, m, o) ==
    [i \in 0 .. TwoTo(q + 1) - 1 |->
        IF i < TwoTo(q) - 1 THEN ExpModFr(s, SetupPower(q, m, o, i)) ELSE 0]
StepPart(c, q, m, o) ==
    [i \in 0 .. TwoTo(q + 1) - 1 |->
        IF i = 0 THEN c[TwoTo(q + m) - 1 - o]
        ELSE IF i <= TwoTo(q) + 1 THEN 0
        ELSE c[2 * TwoTo(m) - o - 1 + (i - TwoTo(q) - 2) * TwoTo(m)]]

(* The places in a chunk and in the coefficients.                          *)
LEMMA ChunkFacts ==
    ASSUME NEW q \in Nat \ {0}, NEW m \in Nat, NEW o \in 0 .. TwoTo(m) - 1
    PROVE  LET k == TwoTo(q)
               l == TwoTo(m)
               n == TwoTo(q + m)
           IN  /\ k \in Nat /\ k >= 2 /\ l \in Nat /\ l > 0 /\ n \in Nat /\ n = k * l
               /\ q \in Nat /\ q + 1 \in Nat /\ q + m \in Nat /\ TwoTo(q + 1) = 2 * k /\ o \in Nat
               /\ o < l /\ l <= n
               /\ \A i \in 0 .. k - 2 : SetupPower(q, m, o, i) \in Nat
               /\ \A i \in 0 .. k - 3 :
                      SetupPower(q, m, o, i) = l + SetupPower(q, m, o, i + 1)
               /\ SetupPower(q, m, o, k - 2) = l - 1 - o
               /\ \A j \in 0 .. k - 1 : j * l \in Nat /\ j * l + (l - 1 - o) \in 0 .. n - 1
               /\ (k - 1) * l + (l - 1 - o) = n - 1 - o
               /\ \A j \in 1 .. k - 2 : 2 * l - o - 1 + (j - 1) * l = j * l + (l - 1 - o)
<1> DEFINE k == TwoTo(q)
           l == TwoTo(m)
           n == TwoTo(q + m)
<1>1. /\ k \in Nat /\ k >= 2 /\ l \in Nat /\ l > 0 /\ n \in Nat /\ n = k * l
      /\ q \in Nat /\ q + 1 \in Nat /\ q + m \in Nat /\ TwoTo(q + 1) = 2 * k
  <2>1. q \in Nat /\ q + 1 \in Nat /\ q + m \in Nat /\ TwoTo(q) > q
    BY TwoToType
  <2>2. k >= 2
    BY <2>1, TwoToType
  <2> QED BY <2>1, <2>2, TwoToType, TwoToAdds, TwoToNext
<1>2. o \in Nat /\ o < l
  <2> HIDE DEF k, n
  <2> QED BY <1>1
<1> HIDE DEF k, l, n
<1>3. \A x, y, z \in Nat : x <= y => x * z <= y * z
  OBVIOUS
<1>4. \A x, z \in Int : (x + 1) * z = x * z + z /\ (x - 1) * z = x * z - z
                        /\ (x - 2) * z = x * z - 2 * z
  OBVIOUS
<1>5. (k - 2) * l = n - 2 * l /\ (k - 1) * l = n - l /\ k - 2 \in Nat /\ k - 1 \in Nat
  BY <1>1, <1>4
<1>6. \A x \in Nat : x * l \in Nat
  BY <1>1
<1>7. ASSUME NEW i \in 0 .. k - 2
      PROVE  /\ SetupPower(q, m, o, i) \in Nat
             /\ i < k - 2 => SetupPower(q, m, o, i) = l + SetupPower(q, m, o, i + 1)
  <2>1. i \in Nat /\ i \in Int /\ l \in Int
    BY <1>1
  <2>2. (i + 1) * l = i * l + l /\ i * l \in Nat
    BY <1>4, <1>6, <2>1
  <2>3. i * l <= (k - 2) * l
    BY <1>1, <1>3, <1>5, <2>1
  <2>4. /\ SetupPower(q, m, o, i) = n - l - 1 - o - i * l
        /\ SetupPower(q, m, o, i + 1) = n - l - 1 - o - (i + 1) * l
    BY DEF SetupPower, n, l
  <2> QED BY <1>1, <1>2, <1>5, <2>2, <2>3, <2>4
<1>8. ASSUME NEW j \in 0 .. k - 1
      PROVE  j * l \in Nat /\ j * l + (l - 1 - o) \in 0 .. n - 1
  <2>1. j \in Nat /\ j <= k - 1
    BY <1>1
  <2>2. j * l <= (k - 1) * l /\ j * l \in Nat
    BY <1>1, <1>3, <1>5, <1>6, <2>1
  <2> QED BY <1>1, <1>2, <1>5, <2>2
<1>9. ASSUME NEW j \in 1 .. k - 2
      PROVE  2 * l - o - 1 + (j - 1) * l = j * l + (l - 1 - o)
  <2>1. (j - 1) * l = j * l - l /\ j * l \in Int
    BY <1>1, <1>4
  <2> QED BY <1>1, <1>2, <2>1
<1>10. l <= n
  BY <1>1, <1>3
<1>11. SetupPower(q, m, o, k - 2) = l - 1 - o /\ (k - 1) * l + (l - 1 - o) = n - 1 - o
  <2>1. SetupPower(q, m, o, k - 2) = n - l - 1 - o - (k - 2) * l
    BY DEF SetupPower, n, l
  <2> QED BY <1>1, <1>2, <1>5, <2>1
<1>12. \A i \in 0 .. k - 3 : i \in 0 .. k - 2 /\ i < k - 2
  BY <1>1
<1> QED BY <1>1, <1>2, <1>7, <1>8, <1>9, <1>10, <1>11, <1>12 DEF k, l, n

(* Each power of the secret is a chunk's width above the next one.         *)
LEMMA SetupPartFacts ==
    ASSUME NEW q \in Nat \ {0}, NEW m \in Nat, NEW o \in 0 .. TwoTo(m) - 1, NEW s \in Fr
    PROVE  LET k == TwoTo(q)
               x == SetupPart(s, q, m, o)
           IN  /\ IsSlice(x, q + 1)
               /\ \A i \in k - 1 .. 2 * k - 1 : x[i] = 0
               /\ x[k - 2] = ExpModFr(s, TwoTo(m) - 1 - o)
               /\ \A i \in 0 .. 2 * k - 2 :
                      i # k - 2 => x[i] = ExpModFr(s, TwoTo(m)) \odot x[i + 1]
<1> DEFINE k == TwoTo(q)
           l == TwoTo(m)
           n == TwoTo(q + m)
           x == SetupPart(s, q, m, o)
           p(i) == SetupPower(q, m, o, i)
<1>1. /\ k \in Nat /\ k >= 2 /\ l \in Nat /\ l > 0 /\ n \in Nat /\ o \in Nat /\ o < l
      /\ TwoTo(q + 1) = 2 * k
      /\ \A i \in 0 .. k - 2 : p(i) \in Nat
      /\ \A i \in 0 .. k - 3 : p(i) = l + p(i + 1)
      /\ p(k - 2) = l - 1 - o
  BY ChunkFacts
<1>2. x = [i \in 0 .. 2 * k - 1 |-> IF i < k - 1 THEN ExpModFr(s, p(i)) ELSE 0]
  BY <1>1 DEF SetupPart
<1> HIDE DEF k, l, n, x
<1>3. ASSUME NEW i \in 0 .. 2 * k - 1
      PROVE  /\ x[i] = IF i < k - 1 THEN ExpModFr(s, p(i)) ELSE 0
             /\ x[i] \in Fr
  <2>1. i < k - 1 => i \in 0 .. k - 2
    BY <1>1
  <2>2. x[i] = IF i < k - 1 THEN ExpModFr(s, p(i)) ELSE 0
    BY <1>2
  <2>3. i < k - 1 => ExpModFr(s, p(i)) \in Fr
    BY <1>1, <2>1, ExpType
  <2> QED BY <2>2, <2>3, ModulusFacts
<1>4. IsSlice(x, q + 1)
  <2>1. x = [i \in 0 .. 2 * k - 1 |-> x[i]]
    BY <1>2
  <2> QED BY <1>1, <1>3, <2>1 DEF IsSlice
<1>5. \A i \in k - 1 .. 2 * k - 1 : x[i] = 0
  BY <1>1, <1>3
<1>6. x[k - 2] = ExpModFr(s, l - 1 - o)
  <2>1. k - 2 \in 0 .. 2 * k - 1 /\ k - 2 < k - 1
    BY <1>1
  <2>2. x[k - 2] = ExpModFr(s, p(k - 2))
    BY <1>3, <2>1
  <2> QED BY <1>1, <2>2
<1>7. ASSUME NEW i \in 0 .. 2 * k - 2, i # k - 2
      PROVE  x[i] = ExpModFr(s, l) \odot x[i + 1]
  <2>1. i \in 0 .. 2 * k - 1 /\ i + 1 \in 0 .. 2 * k - 1 /\ ExpModFr(s, l) \in Fr
    BY <1>1, ExpType
  <2>2. CASE i < k - 2
    <3>1. i \in 0 .. k - 2 /\ i < k - 1 /\ i + 1 < k - 1 /\ i \in Int
      BY <1>1, <2>2
    <3>2. p(i + 1) \in Nat /\ p(i) \in Nat /\ p(i) = l + p(i + 1)
      <4>1. i \in 0 .. k - 3 /\ i + 1 \in 0 .. k - 2
        BY <1>1, <2>2
      <4> HIDE DEF p
      <4> QED BY <1>1, <3>1, <4>1
    <3>3. x[i] = ExpModFr(s, p(i)) /\ x[i + 1] = ExpModFr(s, p(i + 1))
      BY <1>3, <2>1, <3>1
    <3> HIDE DEF p
    <3>4. ExpModFr(s, l + p(i + 1)) = ExpModFr(s, l) \odot ExpModFr(s, p(i + 1))
      BY <1>1, <3>2, ExpAdds
    <3> QED BY <3>2, <3>3, <3>4
  <2>3. CASE ~ (i < k - 2)
    <3>1. i >= k - 1 /\ i + 1 >= k - 1
      BY <1>1, <1>7, <2>3
    <3>2. x[i] = 0 /\ x[i + 1] = 0
      BY <1>1, <1>3, <2>1, <3>1
    <3> QED BY <2>1, <3>2, FrUnits
  <2> QED BY <2>2, <2>3
<1> QED BY <1>4, <1>5, <1>6, <1>7 DEF k, l, x

(* The coefficients as far as the product needs them.                      *)
LEMMA StepPartFacts ==
    ASSUME NEW q \in Nat \ {0}, NEW m \in Nat, NEW o \in 0 .. TwoTo(m) - 1, NEW c, IsSlice(c, q + m)
    PROVE  LET k == TwoTo(q)
               l == TwoTo(m)
               t == StepPart(c, q, m, o)
           IN  /\ IsSlice(t, q + 1)
               /\ \A j \in 1 .. k - 1 : t[j] = 0
               /\ \A j \in 1 .. k - 1 : t[((j - 1) - (k - 2)) % (2 * k)] = c[j * l + (l - 1 - o)]
<1> DEFINE k == TwoTo(q)
           l == TwoTo(m)
           n == TwoTo(q + m)
           t == StepPart(c, q, m, o)
<1>1. /\ k \in Nat /\ k >= 2 /\ l \in Nat /\ l > 0 /\ n \in Nat /\ o \in Nat /\ o < l /\ l <= n
      /\ TwoTo(q + 1) = 2 * k
      /\ \A j \in 0 .. k - 1 : j * l \in Nat /\ j * l + (l - 1 - o) \in 0 .. n - 1
      /\ (k - 1) * l + (l - 1 - o) = n - 1 - o
      /\ \A j \in 1 .. k - 2 : 2 * l - o - 1 + (j - 1) * l = j * l + (l - 1 - o)
  BY ChunkFacts
<1>2. t = [i \in 0 .. 2 * k - 1 |->
              IF i = 0 THEN c[n - 1 - o] ELSE IF i <= k + 1 THEN 0
              ELSE c[2 * l - o - 1 + (i - k - 2) * l]]
  BY <1>1 DEF StepPart
<1>3. c \in [0 .. n - 1 -> Fr]
  BY DEF IsSlice
<1> HIDE DEF k, l, n, t
<1>4. t[0] = c[n - 1 - o] /\ \A i \in 1 .. k + 1 : i <= 2 * k - 1 => t[i] = 0
  BY <1>1, <1>2
<1>5. ASSUME NEW j \in 1 .. k - 2
      PROVE  k + 1 + j \in 0 .. 2 * k - 1 /\ t[k + 1 + j] = c[j * l + (l - 1 - o)]
  <2> DEFINE i == k + 1 + j
  <2>1. i \in 0 .. 2 * k - 1 /\ i # 0 /\ ~ (i <= k + 1) /\ i - k - 2 = j - 1
    BY <1>1
  <2> HIDE DEF i
  <2>2. t[i] = c[2 * l - o - 1 + (i - k - 2) * l]
    BY <1>2, <2>1
  <2>3. 2 * l - o - 1 + (j - 1) * l = j * l + (l - 1 - o)
    BY <1>1
  <2> QED BY <2>1, <2>2, <2>3 DEF i
<1>6. ASSUME NEW i \in 0 .. 2 * k - 1
      PROVE  t[i] \in Fr
  <2>1. CASE i = 0
    <3>1. n - 1 - o \in 0 .. n - 1
      BY <1>1
    <3> QED BY <1>3, <1>4, <2>1, <3>1
  <2>2. CASE i # 0 /\ i <= k + 1
    <3>1. i \in 1 .. k + 1 /\ i <= 2 * k - 1
      BY <1>1, <2>2
    <3> QED BY <1>4, <3>1, ModulusFacts
  <2>3. CASE ~ (i <= k + 1)
    <3> DEFINE j == i - (k + 1)
    <3>1. j \in 1 .. k - 2 /\ i = k + 1 + j /\ j \in 0 .. k - 1
      BY <1>1, <2>3
    <3> HIDE DEF j
    <3>2. t[i] = c[j * l + (l - 1 - o)] /\ j * l + (l - 1 - o) \in 0 .. n - 1
      BY <1>1, <1>5, <3>1
    <3> QED BY <1>3, <3>2
  <2> QED BY <2>1, <2>2, <2>3
<1>7. IsSlice(t, q + 1)
  <2>1. t = [i \in 0 .. 2 * k - 1 |-> t[i]]
    BY <1>2
  <2> QED BY <1>1, <1>6, <2>1 DEF IsSlice
<1>8. \A j \in 1 .. k - 1 : t[j] = 0
  BY <1>1, <1>4
<1>9. ASSUME NEW j \in 1 .. k - 1
      PROVE  t[((j - 1) - (k - 2)) % (2 * k)] = c[j * l + (l - 1 - o)]
  <2> DEFINE a == k - 2
             b == j - 1
             p == (b - a) % (2 * k)
  <2>1. a \in 0 .. 2 * k - 1 /\ b \in 0 .. 2 * k - 1 /\ 2 * k \in Nat \ {0}
    BY <1>1
  <2>2. p = IF b >= a THEN b - a ELSE 2 * k + b - a
    <3> HIDE DEF a, b
    <3> QED BY <2>1, TurnedIs
  <2>3. CASE j = k - 1
    <3>1. p = 0
      BY <1>1, <2>2, <2>3
    <3>2. j * l + (l - 1 - o) = n - 1 - o
      BY <1>1, <2>3
    <3> HIDE DEF p
    <3> QED BY <1>4, <3>1, <3>2 DEF p
  <2>4. CASE j # k - 1
    <3>1. j \in 1 .. k - 2 /\ p = k + 1 + j
      BY <1>1, <2>2, <2>4
    <3> HIDE DEF p
    <3> QED BY <1>5, <3>1 DEF p
  <2> QED BY <2>3, <2>4
<1> QED BY <1>7, <1>8, <1>9 DEF k, l, t

(* Each element of the product is made of the next one, and of one more    *)
(* coefficient; the last of the first half is zero.                        *)
LEMMA ToeplitzSteps ==
    ASSUME NEW q \in Nat \ {0}, NEW m \in Nat, NEW o \in 0 .. TwoTo(m) - 1, NEW s \in Fr,
           NEW c, IsSlice(c, q + m), NEW y,
           y = Convolution(SetupPart(s, q, m, o), StepPart(c, q, m, o), TwoTo(q + 1))
    PROVE  LET k == TwoTo(q)
               l == TwoTo(m)
           IN  /\ IsSlice(y, q + 1)
               /\ y[k - 1] = 0
               /\ \A j \in 1 .. k - 1 :
                      y[j - 1] = (c[j * l + (l - 1 - o)] \odot ExpModFr(s, l - 1 - o))
                                     \oplus (ExpModFr(s, l) \odot y[j])
<1> DEFINE k == TwoTo(q)
           l == TwoTo(m)
           n == 2 * k
           x == SetupPart(s, q, m, o)
           t == StepPart(c, q, m, o)
           sl == ExpModFr(s, l)
           se == ExpModFr(s, l - 1 - o)
           F(j) == Turn(x, t, n, j)
<1>1. /\ k \in Nat /\ k >= 2 /\ l \in Nat /\ o \in Nat /\ o < l /\ q + 1 \in Nat
      /\ TwoTo(q + 1) = n /\ n \in Nat /\ n \in Nat \ {0}
  BY ChunkFacts
<1>2. /\ IsSlice(x, q + 1) /\ \A i \in k - 1 .. n - 1 : x[i] = 0
      /\ x[k - 2] = se
      /\ \A i \in 0 .. n - 2 : i # k - 2 => x[i] = sl \odot x[i + 1]
  BY SetupPartFacts
<1>3. /\ IsSlice(t, q + 1) /\ \A j \in 1 .. k - 1 : t[j] = 0
      /\ \A j \in 1 .. k - 1 : t[((j - 1) - (k - 2)) % n] = c[j * l + (l - 1 - o)]
  BY StepPartFacts
<1>4. sl \in Fr /\ se \in Fr
  <2>1. l - 1 - o \in Nat
    BY <1>1
  <2> HIDE DEF l
  <2> QED BY <1>1, <2>1, ExpType
<1> HIDE DEF x, t, sl, se
<1>5. /\ IsSlice(y, q + 1)
      /\ \A j \in 0 .. n - 1 : \A i \in 0 .. n - 1 :
             /\ x[i] \in Fr /\ t[(j - i) % n] \in Fr
             /\ F(j)[i] = x[i] \odot t[(j - i) % n]
             /\ F(j)[i] \in Fr
  <2>1. y = Convolution(x, t, TwoTo(q + 1))
    BY DEF x, t
  <2>2. IsSlice(Convolution(x, t, TwoTo(q + 1)), q + 1)
    BY <1>1, <1>2, <1>3, ConvolutionType
  <2>3. \A j \in 0 .. TwoTo(q + 1) - 1 : \A i \in 0 .. TwoTo(q + 1) - 1 :
            /\ x[i] \in Fr /\ t[(j - i) % TwoTo(q + 1)] \in Fr
            /\ Turn(x, t, TwoTo(q + 1), j)[i] = x[i] \odot t[(j - i) % TwoTo(q + 1)]
            /\ Turn(x, t, TwoTo(q + 1), j)[i] \in Fr
    BY <1>1, <1>2, <1>3, ConvolutionType
  <2> HIDE DEF n
  <2> QED BY <1>1, <2>1, <2>2, <2>3
<1>6. \A j \in 0 .. n - 1 : y[j] = SumFr(F(j), n)
  <2>1. y = Convolution(x, t, n)
    BY <1>1 DEF x, t
  <2> HIDE DEF n
  <2> QED BY <2>1 DEF Convolution
<1> HIDE DEF F, k, l
<1>7. y[k - 1] = 0
  <2>1. ASSUME NEW i \in 0 .. n - 1
        PROVE  F(k - 1)[i] = 0
    <3> DEFINE p == ((k - 1) - i) % n
    <3>1. k - 1 \in 0 .. n - 1
      BY <1>1
    <3>2. x[i] \in Fr /\ t[p] \in Fr /\ F(k - 1)[i] = x[i] \odot t[p]
      BY <1>5, <3>1
    <3>3. CASE i >= k - 1
      <4>1. x[i] = 0
        BY <1>1, <1>2, <3>3
      <4> HIDE DEF p
      <4> QED BY <3>2, <4>1, FrUnits
    <3>4. CASE ~ (i >= k - 1)
      <4>1. p = IF k - 1 >= i THEN (k - 1) - i ELSE n + (k - 1) - i
        <5> HIDE DEF n
        <5> QED BY <1>1, <3>1, TurnedIs
      <4>2. p \in 1 .. k - 1
        BY <1>1, <3>4, <4>1
      <4> HIDE DEF p
      <4>3. t[p] = 0
        BY <1>3, <4>2
      <4> QED BY <3>2, <4>3, FrUnits
    <3> QED BY <3>3, <3>4
  <2>2. SumFr(F(k - 1), n) = 0
    <3> HIDE DEF n
    <3> QED BY <1>1, <2>1, SumZero
  <2>3. k - 1 \in 0 .. n - 1
    BY <1>1
  <2> QED BY <1>6, <2>2, <2>3
<1>8. ASSUME NEW j \in 1 .. k - 1
      PROVE  y[j - 1] = (c[j * l + (l - 1 - o)] \odot se) \oplus (sl \odot y[j])
  <2> DEFINE e == n - 1
             next == [i \in 0 .. e - 1 |-> F(j)[1 + i]]
             shifted == [i \in 0 .. e - 1 |-> sl \odot next[i]]
             cj == c[j * l + (l - 1 - o)]
             added == [i \in 0 .. e - 1 |-> IF i = k - 2 THEN cj \odot se ELSE 0]
  <2>1. /\ j \in 0 .. n - 1 /\ j - 1 \in 0 .. n - 1 /\ e \in Nat /\ 1 + e = n /\ e + 1 = n
        /\ 0 \in 0 .. n - 1 /\ e \in 0 .. n - 1 /\ k - 2 \in 0 .. e - 1 /\ k - 2 \in 0 .. n - 1
        /\ e \in k - 1 .. n - 1
    BY <1>1
  <2>2. cj = t[((j - 1) - (k - 2)) % n] /\ cj \in Fr
    <3>1. cj = t[((j - 1) - (k - 2)) % n]
      BY <1>3
    <3> HIDE DEF cj, n
    <3> QED BY <1>5, <2>1, <3>1
  <2>3. cj \odot se \in Fr /\ se \odot cj = cj \odot se
    <3> HIDE DEF cj
    <3> QED BY <1>4, <2>2, FrClosed, FrCommutes
  <2>4. ASSUME NEW i \in 0 .. e - 1
        PROVE  /\ i \in 0 .. n - 1 /\ 1 + i \in 0 .. n - 1 /\ i + 1 = 1 + i
               /\ next[i] = F(j)[1 + i] /\ next[i] \in Fr
               /\ shifted[i] = sl \odot next[i] /\ shifted[i] \in Fr
               /\ added[i] \in Fr /\ F(j - 1)[i] \in Fr
               /\ F(j - 1)[i] = shifted[i] \oplus added[i]
    <3>1. i \in 0 .. n - 1 /\ 1 + i \in 0 .. n - 1 /\ i + 1 = 1 + i /\ i \in 0 .. n - 2
          /\ (j - 1) - i = j - (1 + i)
      BY <1>1
    <3>2. /\ next[i] = F(j)[1 + i] /\ shifted[i] = sl \odot next[i]
          /\ added[i] = IF i = k - 2 THEN cj \odot se ELSE 0
      OBVIOUS
    <3> DEFINE ti == t[(j - (1 + i)) % n]
    <3>3. /\ F(j)[1 + i] = x[1 + i] \odot ti /\ F(j)[1 + i] \in Fr /\ ti \in Fr /\ x[1 + i] \in Fr
          /\ x[i] \in Fr
      BY <1>5, <2>1, <3>1
    <3>4. F(j - 1)[i] = x[i] \odot ti /\ F(j - 1)[i] \in Fr
      <4>1. F(j - 1)[i] = x[i] \odot t[((j - 1) - i) % n] /\ F(j - 1)[i] \in Fr
        BY <1>5, <2>1, <3>1
      <4> QED BY <3>1, <4>1
    <3>5. shifted[i] \in Fr /\ added[i] \in Fr
      <4> HIDE DEF shifted, added, next, cj, ti, F
      <4>1. next[i] \in Fr
        BY <3>2, <3>3
      <4>2. shifted[i] \in Fr
        BY <1>4, <3>2, <4>1, FrClosed
      <4>3. added[i] \in Fr
        BY <2>3, <3>2, ModulusFacts
      <4> QED BY <4>2, <4>3
    <3>6. CASE i = k - 2
      <4>1. x[1 + i] = 0 /\ x[i] = se
        <5>1. 1 + i \in k - 1 .. n - 1
          BY <1>1, <3>6
        <5> QED BY <1>2, <3>6, <5>1
      <4>2. ti = cj
        BY <2>2, <3>1, <3>6
      <4> HIDE DEF ti, cj, shifted, added, next
      <4>3. next[i] = 0 /\ shifted[i] = 0
        BY <1>4, <3>2, <3>3, <4>1, FrUnits
      <4> QED BY <2>3, <3>2, <3>3, <3>4, <3>5, <3>6, <4>1, <4>2, <4>3, FrUnits, <3>1
    <3>7. CASE i # k - 2
      <4>1. x[i] = sl \odot x[1 + i]
        BY <1>2, <3>1, <3>7
      <4> HIDE DEF ti, cj, shifted, added, next
      <4>2. (sl \odot x[1 + i]) \odot ti = sl \odot (x[1 + i] \odot ti)
        BY <1>4, <3>3, FrAssociates
      <4>3. shifted[i] \oplus 0 = shifted[i]
        BY <3>5, FrUnits
      <4> QED BY <3>1, <3>2, <3>3, <3>4, <3>5, <3>7, <4>1, <4>2, <4>3
    <3> QED BY <3>6, <3>7
  <2>5. SumFr(F(j), n) = SumFr(next, e)
    <3>1. F(j)[0] = 0
      <4>1. (j - 0) % n = j
        <5>1. (j - 0) % n = IF j >= 0 THEN j - 0 ELSE n + j - 0
          <6> HIDE DEF n
          <6> QED BY <1>1, <2>1, TurnedIs
        <5> QED BY <5>1
      <4>2. F(j)[0] = x[0] \odot t[(j - 0) % n] /\ x[0] \in Fr
        BY <1>5, <2>1
      <4>3. t[j] = 0
        BY <1>3
      <4> QED BY <4>1, <4>2, <4>3, FrUnits
    <3>2. /\ \A i \in 0 .. 1 + e - 1 : F(j)[i] \in Fr
          /\ \A i \in 0 .. e - 1 : next[i] = F(j)[1 + i]
      BY <1>5, <2>1
    <3> HIDE DEF next, e, n
    <3>3. SumFr(F(j), 1 + e) = SumFr(F(j), 1) \oplus SumFr(next, e)
      BY <2>1, <3>2, SumParts
    <3>4. SumFr(F(j), 1) = 0
      <4>1. \A i \in 0 .. 0 : F(j)[i] \in Fr
        BY <3>1, ModulusFacts
      <4>2. SumFr(F(j), 0 + 1) = SumFr(F(j), 0) \oplus F(j)[0]
        BY <4>1, SumNext
      <4> QED BY <3>1, <4>2, SumEmpty, FrUnits, ModulusFacts
    <3>5. SumFr(next, e) \in Fr
      BY <2>1, <2>4, SumType
    <3> QED BY <2>1, <3>3, <3>4, <3>5, FrUnits
  <2>6. SumFr(F(j - 1), n) = SumFr(F(j - 1), e) /\ SumFr(F(j - 1), e) \in Fr
    <3>1. F(j - 1)[e] = 0
      <4>1. F(j - 1)[e] = x[e] \odot t[((j - 1) - e) % n] /\ t[((j - 1) - e) % n] \in Fr
        <5> HIDE DEF e
        <5> QED BY <1>5, <2>1
      <4>2. x[e] = 0
        BY <1>2, <2>1
      <4> QED BY <4>1, <4>2, FrUnits
    <3>2. \A i \in 0 .. e : F(j - 1)[i] \in Fr
      BY <1>5, <2>1
    <3> HIDE DEF e, n
    <3>3. SumFr(F(j - 1), e) \in Fr /\ SumFr(F(j - 1), e + 1) = SumFr(F(j - 1), e) \oplus F(j - 1)[e]
      BY <2>1, <3>2, SumNext
    <3> QED BY <2>1, <3>1, <3>3, FrUnits
  <2>7. SumFr(F(j - 1), e) = SumFr(shifted, e) \oplus SumFr(added, e)
    <3> HIDE DEF shifted, added, next, e, n
    <3> QED BY <2>1, <2>4, SumAdds
  <2>8. SumFr(shifted, e) = sl \odot SumFr(next, e)
    <3>1. /\ e \in Nat /\ sl \in Fr
          /\ \A i \in 0 .. e - 1 : next[i] \in Fr /\ shifted[i] = sl \odot next[i]
      <4> HIDE DEF shifted, next, e, n, F
      <4> QED BY <1>4, <2>1, <2>4
    <3> HIDE DEF shifted, next, e, n
    <3> QED BY <3>1, SumTimes
  <2>9. SumFr(added, e) = cj \odot se
    <3> DEFINE z == k - 2
    <3>1. /\ added[z] = cj \odot se /\ \A i \in 0 .. e - 1 : i # z => added[i] = 0
          /\ z \in 0 .. e - 1
      <4> HIDE DEF cj, e
      <4> QED BY <2>1
    <3> HIDE DEF added, e, z, cj
    <3> QED BY <2>1, <2>3, <3>1, SumSingle
  <2>10. SumFr(shifted, e) \in Fr
    <3> HIDE DEF shifted, next, e, n
    <3> QED BY <2>1, <2>4, SumType
  <2>11. y[j - 1] = SumFr(F(j - 1), n) /\ y[j] = SumFr(F(j), n)
    <3> HIDE DEF n
    <3> QED BY <1>6, <2>1
  <2> HIDE DEF shifted, added, next, e, n, cj
  <2> QED BY <2>3, <2>5, <2>6, <2>7, <2>8, <2>9, <2>10, <2>11, FrCommutes DEF cj
<1> QED BY <1>5, <1>7, <1>8 DEF k, l, sl, se

-----------------------------------------------------------------------------
(* A polynomial of 2 ** (q + m) coefficients as one of 2 ** q chunks, each *)
(* a polynomial of 2 ** m coefficients; and what is left of it modulo      *)
(* x ** (2 ** m) - y.                                                      *)
Chunk(c, m, j) == [i \in 0 .. TwoTo(m) - 1 |-> c[j * TwoTo(m) + i]]
Chunks(c, q, m, x) == [j \in 0 .. TwoTo(q) - 1 |-> PolyAt(Chunk(c, m, j), TwoTo(m), x)]
Every(c, q, m, i) == [j \in 0 .. TwoTo(q) - 1 |-> c[j * TwoTo(m) + i]]
Residue(c, q, m, y) == [i \in 0 .. TwoTo(m) - 1 |-> PolyAt(Every(c, q, m, i), TwoTo(q), y)]

(* Where they have their coefficients from.                                *)
LEMMA ChunkElements ==
    ASSUME NEW q \in Nat, NEW m \in Nat, NEW c, IsSlice(c, q + m)
    PROVE  /\ \A j \in 0 .. TwoTo(q) - 1 : \A i \in 0 .. TwoTo(m) - 1 :
                  /\ Chunk(c, m, j)[i] = c[j * TwoTo(m) + i]
                  /\ Every(c, q, m, i)[j] = c[j * TwoTo(m) + i]
                  /\ c[j * TwoTo(m) + i] \in Fr
           /\ \A x \in Fr : IsSlice(Chunks(c, q, m, x), q) /\ IsSlice(Residue(c, q, m, x), m)
<1> DEFINE k == TwoTo(q)
           l == TwoTo(m)
<1>1. k \in Nat /\ l \in Nat /\ TwoTo(q + m) = k * l
  BY TwoToType, TwoToAdds
<1>2. c \in [0 .. k * l - 1 -> Fr]
  BY <1>1 DEF IsSlice
<1>3. ASSUME NEW j \in 0 .. k - 1, NEW i \in 0 .. l - 1
      PROVE  /\ Chunk(c, m, j)[i] = c[j * l + i] /\ Every(c, q, m, i)[j] = c[j * l + i]
             /\ c[j * l + i] \in Fr
  <2>1. Chunk(c, m, j)[i] = c[j * l + i] /\ Every(c, q, m, i)[j] = c[j * l + i]
    BY DEF Chunk, Every
  <2> HIDE DEF k, l
  <2>2. i + j * l \in 0 .. k * l - 1
    BY <1>1, RowElement
  <2>3. j * l \in Nat /\ i + j * l = j * l + i
    <3>1. \A u, v \in Nat : u * v \in Nat
      OBVIOUS
    <3>2. j \in Nat
      BY <1>1
    <3>3. j * l \in Nat
      BY <1>1, <3>1, <3>2
    <3> QED BY <1>1, <3>3
  <2>4. c[j * l + i] \in Fr
    BY <1>2, <2>2, <2>3
  <2> QED BY <2>1, <2>4 DEF l
<1>4. ASSUME NEW x \in Fr
      PROVE  IsSlice(Chunks(c, q, m, x), q)
  <2>1. ASSUME NEW j \in 0 .. k - 1
        PROVE  PolyAt(Chunk(c, m, j), l, x) \in Fr
    <3>1. \A i \in 0 .. l - 1 : Chunk(c, m, j)[i] \in Fr
      BY <1>3
    <3> HIDE DEF k, l
    <3> QED BY <1>1, <3>1, PolyAtType
  <2> QED BY <2>1 DEF IsSlice, Chunks
<1>5. ASSUME NEW x \in Fr
      PROVE  IsSlice(Residue(c, q, m, x), m)
  <2>1. ASSUME NEW i \in 0 .. l - 1
        PROVE  PolyAt(Every(c, q, m, i), k, x) \in Fr
    <3>1. \A j \in 0 .. k - 1 : Every(c, q, m, i)[j] \in Fr
      BY <1>3
    <3> HIDE DEF k, l
    <3> QED BY <1>1, <3>1, PolyAtType
  <2> QED BY <2>1 DEF IsSlice, Residue
<1> QED BY <1>3, <1>4, <1>5

(* The last coefficient apart.                                             *)
LEMMA PolyAtNext ==
    ASSUME NEW n \in Nat, NEW a, \A i \in 0 .. n : a[i] \in Fr, NEW x \in Fr
    PROVE  PolyAt(a, n + 1, x) = PolyAt(a, n, x) \oplus (ExpModFr(x, n) \odot a[n])
<1> DEFINE b == [i \in 0 .. 0 |-> a[n]]
           e == <<>>
<1>1. /\ \A i \in 0 .. n + 1 - 1 : a[i] \in Fr
      /\ \A i \in 0 .. 1 - 1 : b[i] = a[n + i]
      /\ \A i \in 0 .. 0 : b[i] \in Fr
      /\ \A i \in 0 .. 0 - 1 : e[i] = b[i + 1]
      /\ b[0] = a[n] /\ a[n] \in Fr /\ 1 \in Nat /\ 0 \in Nat
  OBVIOUS
<1> HIDE DEF b, e
<1>2. PolyAt(a, n + 1, x) = PolyAt(a, n, x) \oplus (ExpModFr(x, n) \odot PolyAt(b, 1, x))
  <2> DEFINE q == 1
  <2>1. /\ q \in Nat /\ \A i \in 0 .. n + q - 1 : a[i] \in Fr
        /\ \A i \in 0 .. q - 1 : b[i] = a[n + i]
    BY <1>1
  <2> HIDE DEF q
  <2>2. PolyAt(a, n + q, x) = PolyAt(a, n, x) \oplus (ExpModFr(x, n) \odot PolyAt(b, q, x))
    BY <2>1, PolyAtParts
  <2> QED BY <2>2 DEF q
<1>3. PolyAt(b, 0 + 1, x) = (PolyAt(e, 0, x) \odot x) \oplus b[0]
  BY <1>1, PolyAtFirst
<1>4. PolyAt(e, 0, x) = 0
  BY SumEmpty DEF PolyAt
<1> QED BY <1>1, <1>2, <1>3, <1>4, FrUnits

(* The chunks together are the polynomial.                                 *)
LEMMA ChunksAre ==
    ASSUME NEW q \in Nat, NEW m \in Nat, NEW c, IsSlice(c, q + m), NEW x \in Fr
    PROVE  PolyAt(Chunks(c, q, m, x), TwoTo(q), ExpModFr(x, TwoTo(m)))
               = PolyAt(c, TwoTo(q + m), x)
<1> DEFINE k == TwoTo(q)
           l == TwoTo(m)
           y == ExpModFr(x, l)
           a == Chunks(c, q, m, x)
           S == {i \in 0 .. k : PolyAt(a, i, y) = PolyAt(c, i * l, x)}
<1>1. k \in Nat /\ l \in Nat /\ TwoTo(q + m) = k * l
  BY TwoToType, TwoToAdds
<1>2. y \in Fr
  <2> HIDE DEF l
  <2> QED BY <1>1, ExpType
<1>3. \A i \in 0 .. k - 1 : a[i] \in Fr /\ a[i] = PolyAt(Chunk(c, m, i), l, x)
  <2>1. IsSlice(a, q)
    BY ChunkElements
  <2> QED BY <2>1 DEF IsSlice, Chunks
<1>4. c \in [0 .. k * l - 1 -> Fr]
  BY <1>1 DEF IsSlice
<1>5. \A j \in 0 .. k - 1 : \A i \in 0 .. l - 1 : Chunk(c, m, j)[i] = c[j * l + i]
  BY ChunkElements
<1> HIDE DEF k, l, y, a
<1>6. 0 \in S
  <2>1. 0 * l = 0
    BY <1>1
  <2> QED BY <1>1, <2>1, SumEmpty DEF PolyAt
<1>7. ASSUME NEW i \in 0 .. k - 1, i \in S
      PROVE  i + 1 \in S
  <2> DEFINE p == i * l
  <2>1. /\ i \in Nat /\ i \in 0 .. k /\ i + 1 \in 0 .. k /\ p \in Nat /\ (i + 1) * l = p + l
        /\ p + l <= k * l /\ l * i = p
    <3>1. \A u, v \in Nat : u * v \in Nat /\ (u + 1) * v = u * v + v /\ u * v = v * u
      OBVIOUS
    <3>2. \A u, v, z \in Nat : u <= v => u * z <= v * z
      OBVIOUS
    <3>3. i \in Nat /\ i + 1 \in Nat /\ i + 1 <= k /\ i \in 0 .. k /\ i + 1 \in 0 .. k
      BY <1>1
    <3>4. (i + 1) * l <= k * l
      BY <1>1, <3>2, <3>3
    <3> QED BY <1>1, <3>1, <3>3, <3>4
  <2> HIDE DEF p
  <2>2. PolyAt(a, i, y) = PolyAt(c, p, x)
    BY <1>7 DEF p
  <2>3. PolyAt(a, i + 1, y) = PolyAt(a, i, y) \oplus (ExpModFr(y, i) \odot a[i])
    <3>1. \A j \in 0 .. i : a[j] \in Fr
      BY <1>1, <1>3
    <3> QED BY <1>2, <2>1, <3>1, PolyAtNext
  <2>4. PolyAt(c, p + l, x) = PolyAt(c, p, x) \oplus (ExpModFr(x, p) \odot PolyAt(Chunk(c, m, i), l, x))
    <3>1. \A j \in 0 .. p + l - 1 : c[j] \in Fr
      <4>1. k * l \in Nat
        <5>1. \A u, v \in Nat : u * v \in Nat
          OBVIOUS
        <5> QED BY <1>1, <5>1
      <4> HIDE DEF p
      <4>2. \A j \in 0 .. p + l - 1 : j \in 0 .. k * l - 1
        BY <1>1, <2>1, <4>1
      <4> QED BY <1>4, <4>2
    <3>2. \A j \in 0 .. l - 1 : Chunk(c, m, i)[j] = c[p + j]
      BY <1>5 DEF p
    <3> QED BY <1>1, <2>1, <3>1, <3>2, PolyAtParts
  <2>5. ExpModFr(x, p) = ExpModFr(y, i)
    <3>1. ExpModFr(x, l * i) = ExpModFr(ExpModFr(x, l), i)
      BY <1>1, <2>1, ExpTimes
    <3> QED BY <2>1, <3>1 DEF y
  <2>6. PolyAt(a, i + 1, y) = PolyAt(c, (i + 1) * l, x)
    BY <1>3, <2>1, <2>2, <2>3, <2>4, <2>5
  <2> QED BY <2>1, <2>6
<1>8. \A i \in 0 .. k : i \in S
  <2> HIDE DEF S
  <2> QED BY <1>1, <1>6, <1>7, CountTo
<1>9. k \in S
  BY <1>1, <1>8
<1> QED BY <1>1, <1>9 DEF a, k, y, l

(* Summed the other way, they are what is left of the polynomial.          *)
LEMMA ResidueIs ==
    ASSUME NEW q \in Nat, NEW m \in Nat, NEW c, IsSlice(c, q + m), NEW x \in Fr, NEW y \in Fr
    PROVE  PolyAt(Chunks(c, q, m, x), TwoTo(q), y) = PolyAt(Residue(c, q, m, y), TwoTo(m), x)
<1> DEFINE k == TwoTo(q)
           l == TwoTo(m)
           a == Chunks(c, q, m, x)
           b == Residue(c, q, m, y)
           v(j, i) == c[j * l + i]
           xp(i) == ExpModFr(x, i)
           yp(j) == ExpModFr(y, j)
           e == [j \in 0 .. k - 1 |-> [i \in 0 .. l - 1 |-> (v(j, i) \odot xp(i)) \odot yp(j)]]
           f == [i \in 0 .. l - 1 |-> [j \in 0 .. k - 1 |-> (v(j, i) \odot yp(j)) \odot xp(i)]]
           am == Monomials(a, k, y)
           bm == Monomials(b, l, x)
<1>1. k \in Nat /\ l \in Nat
  BY TwoToType
<1>2. \A j \in 0 .. k - 1 : \A i \in 0 .. l - 1 :
          Chunk(c, m, j)[i] = v(j, i) /\ Every(c, q, m, i)[j] = v(j, i) /\ v(j, i) \in Fr
  BY ChunkElements
<1>3. /\ \A j \in 0 .. k - 1 : a[j] \in Fr /\ a[j] = PolyAt(Chunk(c, m, j), l, x)
      /\ \A i \in 0 .. l - 1 : b[i] \in Fr /\ b[i] = PolyAt(Every(c, q, m, i), k, y)
  <2>1. IsSlice(a, q) /\ IsSlice(b, m)
    BY ChunkElements
  <2> QED BY <2>1 DEF IsSlice, Chunks, Residue
<1> HIDE DEF k, l, a, b, v
<1>4. (\A i \in 0 .. l - 1 : xp(i) \in Fr) /\ (\A j \in 0 .. k - 1 : yp(j) \in Fr)
  <2>1. (\A i \in 0 .. l - 1 : i \in Nat) /\ (\A j \in 0 .. k - 1 : j \in Nat)
    BY <1>1
  <2> QED BY <2>1, ExpType
<1>5. ASSUME NEW j \in 0 .. k - 1, NEW i \in 0 .. l - 1
      PROVE  /\ e[j][i] = (v(j, i) \odot xp(i)) \odot yp(j)
             /\ f[i][j] = (v(j, i) \odot yp(j)) \odot xp(i)
             /\ e[j][i] \in Fr /\ f[i][j] = e[j][i]
  <2>1. v(j, i) \in Fr /\ xp(i) \in Fr /\ yp(j) \in Fr
    BY <1>2, <1>4
  <2>2. /\ e[j][i] = (v(j, i) \odot xp(i)) \odot yp(j)
        /\ f[i][j] = (v(j, i) \odot yp(j)) \odot xp(i)
    OBVIOUS
  <2> HIDE DEF e, f, xp, yp
  <2>3. (v(j, i) \odot xp(i)) \odot yp(j) = (v(j, i) \odot yp(j)) \odot xp(i)
    BY <2>1, FrSwaps
  <2>4. (v(j, i) \odot xp(i)) \odot yp(j) \in Fr
    BY <2>1, FrClosed
  <2> QED BY <2>2, <2>3, <2>4
<1>6. ASSUME NEW j \in 0 .. k - 1
      PROVE  am[j] = SumFr(e[j], l)
  <2> DEFINE cm == Monomials(Chunk(c, m, j), l, x)
  <2>1. \A i \in 0 .. l - 1 : Chunk(c, m, j)[i] \in Fr /\ Chunk(c, m, j)[i] = v(j, i)
    BY <1>2
  <2>2. \A i \in 0 .. l - 1 : cm[i] = v(j, i) \odot xp(i) /\ cm[i] \in Fr
    <3> HIDE DEF cm
    <3> QED BY <1>1, <2>1, PolyAtType DEF cm
  <2> HIDE DEF cm
  <2>3. \A i \in 0 .. l - 1 : cm[i] \in Fr /\ e[j][i] = yp(j) \odot cm[i]
    <3> HIDE DEF e, xp, yp
    <3> QED BY <1>4, <1>5, <2>2, FrCommutes
  <2>4. yp(j) \in Fr
    BY <1>4
  <2> HIDE DEF e, xp, yp
  <2>5. SumFr(e[j], l) = yp(j) \odot SumFr(cm, l) /\ SumFr(cm, l) \in Fr
    BY <1>1, <2>3, <2>4, SumTimes, SumType
  <2>6. am[j] = a[j] \odot yp(j)
    BY DEF Monomials, yp
  <2>7. a[j] = SumFr(cm, l)
    BY <1>3 DEF PolyAt, cm
  <2> QED BY <2>4, <2>5, <2>6, <2>7, FrCommutes
<1>7. ASSUME NEW i \in 0 .. l - 1
      PROVE  bm[i] = SumFr(f[i], k)
  <2> DEFINE cm == Monomials(Every(c, q, m, i), k, y)
  <2>1. \A j \in 0 .. k - 1 : Every(c, q, m, i)[j] \in Fr /\ Every(c, q, m, i)[j] = v(j, i)
    BY <1>2
  <2>2. \A j \in 0 .. k - 1 : cm[j] = v(j, i) \odot yp(j) /\ cm[j] \in Fr
    <3> HIDE DEF cm
    <3> QED BY <1>1, <2>1, PolyAtType DEF cm
  <2> HIDE DEF cm
  <2>3. \A j \in 0 .. k - 1 : cm[j] \in Fr /\ f[i][j] = xp(i) \odot cm[j]
    <3> HIDE DEF f, xp, yp
    <3> QED BY <1>4, <1>5, <2>2, FrCommutes
  <2>4. xp(i) \in Fr
    BY <1>4
  <2> HIDE DEF f, xp, yp
  <2>5. SumFr(f[i], k) = xp(i) \odot SumFr(cm, k) /\ SumFr(cm, k) \in Fr
    BY <1>1, <2>3, <2>4, SumTimes, SumType
  <2>6. bm[i] = b[i] \odot xp(i)
    BY DEF Monomials, xp
  <2>7. b[i] = SumFr(cm, k)
    BY <1>3 DEF PolyAt, cm
  <2> QED BY <2>4, <2>5, <2>6, <2>7, FrCommutes
<1> HIDE DEF e, f, am, bm, xp, yp
<1>8. /\ k \in Nat /\ l \in Nat
      /\ \A j \in 0 .. k - 1 : \A i \in 0 .. l - 1 : e[j][i] \in Fr /\ f[i][j] = e[j][i]
      /\ RowSums(e, am, k, l) /\ RowSums(f, bm, l, k)
  BY <1>1, <1>5, <1>6, <1>7 DEF RowSums
<1>9. SumFr(am, k) = SumFr(bm, l)
  BY <1>8, SumExchanges
<1> QED BY <1>9 DEF PolyAt, am, bm, a, b, k, l

(* What the product gives for each offset, the sum of these, and its half  *)
(* that is used.                                                           *)
ProductPart(s, c, q, m, o) == Convolution(SetupPart(s, q, m, o), StepPart(c, q, m, o), TwoTo(q + 1))
Products(s, c, q, m) ==
    [j \in 0 .. TwoTo(q + 1) - 1 |->
        SumFr([o \in 0 .. TwoTo(m) - 1 |-> ProductPart(s, c, q, m, o)[j]], TwoTo(m))]
Quotient(s, c, q, m) == [j \in 0 .. TwoTo(q) - 1 |-> Products(s, c, q, m)[j]]

(* The sum over the offsets is made of the next one and a whole chunk.     *)
LEMMA ProductSteps ==
    ASSUME NEW q \in Nat \ {0}, NEW m \in Nat, NEW s \in Fr, NEW c, IsSlice(c, q + m), NEW y,
           y = Products(s, c, q, m)
    PROVE  LET k == TwoTo(q)
           IN  /\ IsSlice(y, q + 1)
               /\ y[k - 1] = 0
               /\ \A j \in 1 .. k - 1 :
                      y[j - 1] = Chunks(c, q, m, s)[j] \oplus (ExpModFr(s, TwoTo(m)) \odot y[j])
<1> DEFINE k == TwoTo(q)
           l == TwoTo(m)
           sl == ExpModFr(s, l)
           part(o) == ProductPart(s, c, q, m, o)
           at(j) == [o \in 0 .. l - 1 |-> part(o)[j]]
           B == Chunks(c, q, m, s)
<1>1. /\ k \in Nat /\ k >= 2 /\ l \in Nat /\ l > 0 /\ TwoTo(q + 1) = 2 * k /\ q + 1 \in Nat
      /\ q \in Nat /\ q + m \in Nat
  <2>1. q \in Nat /\ q + 1 \in Nat /\ q + m \in Nat /\ TwoTo(q) > q
    BY TwoToType
  <2>2. k >= 2
    BY <2>1, TwoToType
  <2> QED BY <2>1, <2>2, TwoToType, TwoToNext
<1>2. sl \in Fr
  <2> HIDE DEF l
  <2> QED BY <1>1, ExpType
<1>3. ASSUME NEW o \in 0 .. l - 1
      PROVE  /\ IsSlice(part(o), q + 1)
             /\ part(o)[k - 1] = 0
             /\ \A j \in 1 .. k - 1 :
                    part(o)[j - 1] = (c[j * l + (l - 1 - o)] \odot ExpModFr(s, l - 1 - o))
                                         \oplus (sl \odot part(o)[j])
  BY ToeplitzSteps DEF ProductPart
<1>4. \A j \in 0 .. 2 * k - 1 : y[j] = SumFr(at(j), l)
  BY <1>1 DEF Products
<1>5. y = [j \in 0 .. 2 * k - 1 |-> y[j]]
  BY <1>1 DEF Products
<1>6. \A j \in 1 .. k - 1 : /\ B[j] = PolyAt(Chunk(c, m, j), l, s)
                            /\ \A i \in 0 .. l - 1 : /\ Chunk(c, m, j)[i] = c[j * l + i]
                                                     /\ c[j * l + i] \in Fr
  <2>1. \A j \in 0 .. k - 1 : \A i \in 0 .. l - 1 :
            Chunk(c, m, j)[i] = c[j * l + i] /\ c[j * l + i] \in Fr
    BY <1>1, ChunkElements
  <2>2. \A j \in 1 .. k - 1 : j \in 0 .. k - 1
    BY <1>1
  <2>3. \A j \in 0 .. k - 1 : B[j] = PolyAt(Chunk(c, m, j), l, s)
    BY DEF Chunks
  <2> HIDE DEF k, l, B
  <2> QED BY <2>1, <2>2, <2>3
<1> HIDE DEF k, l, sl, part, B
<1>7. \A o \in 0 .. l - 1 : \A j \in 0 .. 2 * k - 1 : part(o)[j] \in Fr
  BY <1>1, <1>3 DEF IsSlice
<1>8. \A j \in 0 .. 2 * k - 1 : y[j] \in Fr
  <2>1. \A j \in 0 .. 2 * k - 1 : \A o \in 0 .. l - 1 : at(j)[o] \in Fr
    BY <1>7
  <2> HIDE DEF at
  <2> QED BY <1>1, <1>4, <2>1, SumType
<1>9. y[k - 1] = 0
  <2>1. k - 1 \in 0 .. 2 * k - 1
    BY <1>1
  <2>2. \A o \in 0 .. l - 1 : at(k - 1)[o] = 0
    BY <1>3
  <2> HIDE DEF at
  <2> QED BY <1>1, <1>4, <2>1, <2>2, SumZero
<1>10. ASSUME NEW j \in 1 .. k - 1
       PROVE  y[j - 1] = B[j] \oplus (sl \odot y[j])
  <2> DEFINE a == Chunk(c, m, j)
             mono == Monomials(a, l, s)
             u == [o \in 0 .. l - 1 |-> mono[l - 1 - o]]
             v == [o \in 0 .. l - 1 |-> sl \odot at(j)[o]]
  <2>1. j \in 0 .. 2 * k - 1 /\ j - 1 \in 0 .. 2 * k - 1
    BY <1>1
  <2>2. \A i \in 0 .. l - 1 : a[i] = c[j * l + i] /\ a[i] \in Fr
    BY <1>6
  <2>3. \A i \in 0 .. l - 1 : mono[i] = a[i] \odot ExpModFr(s, i) /\ mono[i] \in Fr
    <3>1. \A i \in 0 .. l - 1 : a[i] \in Fr
      BY <2>2
    <3> HIDE DEF mono, a
    <3> QED BY <1>1, <3>1, PolyAtType DEF mono
  <2> HIDE DEF mono, a
  <2>4. ASSUME NEW o \in 0 .. l - 1
        PROVE  /\ l - 1 - o \in 0 .. l - 1 /\ u[o] = mono[l - 1 - o] /\ u[o] \in Fr
               /\ at(j)[o] \in Fr /\ v[o] = sl \odot at(j)[o] /\ v[o] \in Fr
               /\ at(j - 1)[o] = u[o] \oplus v[o]
    <3>1. l - 1 - o \in 0 .. l - 1 /\ u[o] = mono[l - 1 - o] /\ v[o] = sl \odot at(j)[o]
          /\ at(j)[o] = part(o)[j] /\ at(j - 1)[o] = part(o)[j - 1]
      BY <1>1
    <3>2. u[o] = c[j * l + (l - 1 - o)] \odot ExpModFr(s, l - 1 - o) /\ u[o] \in Fr
      <4> HIDE DEF u
      <4> QED BY <2>2, <2>3, <3>1
    <3>3. part(o)[j] \in Fr
      BY <1>7, <2>1
    <3>4. part(o)[j - 1] = (c[j * l + (l - 1 - o)] \odot ExpModFr(s, l - 1 - o))
                               \oplus (sl \odot part(o)[j])
      BY <1>3
    <3> HIDE DEF u, v, at
    <3> QED BY <1>2, <3>1, <3>2, <3>3, <3>4, FrClosed
  <2> HIDE DEF u, v, at
  <2>5. SumFr(at(j - 1), l) = SumFr(u, l) \oplus SumFr(v, l)
    <3>1. \A o \in 0 .. l - 1 : u[o] \in Fr /\ v[o] \in Fr /\ at(j - 1)[o] = u[o] \oplus v[o]
      BY <2>4
    <3> QED BY <1>1, <3>1, SumAdds
  <2>6. SumFr(v, l) = sl \odot SumFr(at(j), l)
    <3>1. \A o \in 0 .. l - 1 : at(j)[o] \in Fr /\ v[o] = sl \odot at(j)[o]
      BY <2>4
    <3> QED BY <1>1, <1>2, <3>1, SumTimes
  <2>7. SumFr(u, l) = SumFr(mono, l)
    <3>1. /\ \A i \in 0 .. l - 1 : mono[i] \in Fr
          /\ \A o \in 0 .. l - 1 : u[o] = mono[l - 1 - o]
      BY <2>3, <2>4
    <3> QED BY <1>1, <3>1, SumReverses
  <2>8. B[j] = SumFr(mono, l)
    BY <1>6 DEF PolyAt, mono, a
  <2> QED BY <1>4, <2>1, <2>5, <2>6, <2>7, <2>8
<1>11. IsSlice(y, q + 1)
  BY <1>1, <1>5, <1>8 DEF IsSlice
<1> QED BY <1>9, <1>10, <1>11 DEF k, B, sl, l

(* The half of the products is the quotient: what is left of the           *)
(* polynomial is lost.                                                     *)
THEOREM QuotientDivides ==
    ASSUME NEW q \in Nat \ {0}, NEW m \in Nat, NEW s \in Fr, NEW c, IsSlice(c, q + m), NEW z \in Fr
    PROVE  /\ IsSlice(Quotient(s, c, q, m), q)
           /\ PolyAt(Quotient(s, c, q, m), TwoTo(q), z) \odot (ExpModFr(s, TwoTo(m)) \ominus z)
                  = PolyAt(c, TwoTo(q + m), s) \ominus PolyAt(Residue(c, q, m, z), TwoTo(m), s)
<1> DEFINE k == TwoTo(q)
           l == TwoTo(m)
           sl == ExpModFr(s, l)
           y == Products(s, c, q, m)
           g == Quotient(s, c, q, m)
           B == Chunks(c, q, m, s)
           h == [j \in 0 .. k |-> IF j = 0 THEN B[0] \oplus (sl \odot y[0]) ELSE y[j - 1]]
<1>1. q \in Nat /\ k \in Nat /\ k > 0 /\ l \in Nat /\ TwoTo(q + 1) = 2 * k
  <2>1. q \in Nat
    OBVIOUS
  <2> QED BY <2>1, TwoToType, TwoToNext
<1>2. sl \in Fr
  <2> HIDE DEF l
  <2> QED BY <1>1, ExpType
<1>3. /\ IsSlice(y, q + 1) /\ y[k - 1] = 0
      /\ \A j \in 1 .. k - 1 : y[j - 1] = B[j] \oplus (sl \odot y[j])
  BY ProductSteps
<1>4. IsSlice(B, q)
  BY <1>1, ChunkElements
<1>5. \A j \in 0 .. k - 1 : g[j] = y[j]
  BY DEF Quotient
<1>6. g = [j \in 0 .. k - 1 |-> g[j]]
  BY DEF Quotient
<1>7. (\A j \in 0 .. 2 * k - 1 : y[j] \in Fr) /\ (\A j \in 0 .. k - 1 : B[j] \in Fr)
  BY <1>1, <1>3, <1>4 DEF IsSlice
<1> HIDE DEF k, sl, y, g, B
<1>8. IsSlice(g, q)
  <2>1. \A j \in 0 .. k - 1 : g[j] \in Fr
    BY <1>1, <1>5, <1>7
  <2> QED BY <1>6, <2>1 DEF IsSlice, k
<1>9. h[0] = B[0] \oplus (sl \odot y[0]) /\ h[0] \in Fr
  <2>1. h[0] = B[0] \oplus (sl \odot y[0])
    BY <1>1
  <2>2. B[0] \in Fr /\ y[0] \in Fr
    BY <1>1, <1>7
  <2> HIDE DEF h
  <2> QED BY <1>2, <2>1, <2>2, FrClosed
<1>10. \A j \in 1 .. k : h[j] = y[j - 1] /\ h[j] \in Fr
  <2>1. ASSUME NEW j \in 1 .. k
        PROVE  h[j] = y[j - 1] /\ y[j - 1] \in Fr
    <3>1. j - 1 \in 0 .. 2 * k - 1 /\ j \in 0 .. k /\ j # 0
      BY <1>1
    <3> QED BY <1>7, <3>1
  <2> QED BY <2>1
<1> HIDE DEF h
<1>11. /\ \A j \in 0 .. k : h[j] \in Fr
       /\ h[k] = 0
       /\ \A j \in 0 .. k - 1 : B[j] \in Fr /\ h[j] = B[j] \oplus (sl \odot h[j + 1])
                                /\ g[j] = h[j + 1]
  <2>1. \A j \in 0 .. k : h[j] \in Fr
    BY <1>1, <1>9, <1>10
  <2>2. h[k] = 0
    BY <1>1, <1>3, <1>10
  <2>3. ASSUME NEW j \in 0 .. k - 1
        PROVE  B[j] \in Fr /\ h[j] = B[j] \oplus (sl \odot h[j + 1]) /\ g[j] = h[j + 1]
    <3>1. h[j + 1] = y[j]
      <4>1. j + 1 \in 1 .. k /\ (j + 1) - 1 = j
        BY <1>1
      <4> QED BY <1>10, <4>1
    <3>2. h[j] = B[j] \oplus (sl \odot y[j])
      <4>1. CASE j = 0
        BY <1>9, <4>1
      <4>2. CASE j # 0
        <5>1. j \in 1 .. k - 1 /\ j \in 1 .. k
          BY <1>1, <4>2
        <5> QED BY <1>3, <1>10, <5>1
      <4> QED BY <4>1, <4>2
    <3> QED BY <1>5, <1>7, <3>1, <3>2
  <2> QED BY <2>1, <2>2, <2>3
<1>12. /\ PolyAt(g, k, z) \odot (sl \ominus z) = h[0] \ominus PolyAt(B, k, z)
       /\ PolyAt(g, k, sl) \odot (sl \ominus sl) = h[0] \ominus PolyAt(B, k, sl)
  <2>1. ASSUME NEW v \in Fr
        PROVE  PolyAt(g, k, v) \odot (sl \ominus v) = h[0] \ominus PolyAt(B, k, v)
    <3> HIDE DEF l, h
    <3>1. k \in Nat /\ sl \in Fr /\ v \in Fr
      BY <1>1, <1>2
    <3> QED BY <1>11, <3>1, Telescope
  <2> QED BY <1>2, <2>1
<1>13. h[0] = PolyAt(B, k, sl)
  <2>1. (\A j \in 0 .. k - 1 : g[j] \in Fr) /\ (\A j \in 0 .. k - 1 : B[j] \in Fr)
    BY <1>1, <1>5, <1>7
  <2>2. PolyAt(g, k, sl) \in Fr /\ PolyAt(B, k, sl) \in Fr
    BY <1>1, <1>2, <2>1, PolyAtType
  <2>3. PolyAt(g, k, sl) \odot (sl \ominus sl) = 0
    BY <1>2, <2>2, FrUnits
  <2> QED BY <1>9, <1>12, <2>2, <2>3, FrDifferences
<1>14. PolyAt(B, k, sl) = PolyAt(c, TwoTo(q + m), s)
  BY <1>1, ChunksAre DEF B, k, sl, l
<1>15. PolyAt(B, k, z) = PolyAt(Residue(c, q, m, z), l, s)
  BY <1>1, ResidueIs DEF B, k, l
<1> QED BY <1>8, <1>12, <1>13, <1>14, <1>15 DEF g, k, sl, l

-----------------------------------------------------------------------------
(* What fk20_single.go and fk20_multi.go compute.                          *)

(* Settings of 2 ** order roots of unity with the powers of the secret s.  *)
Prepared(fs, w, order, s) ==
    /\ HasRoots(fs, w, order) /\ Divides(order) /\ fs.MaxWidth = TwoTo(order)
    /\ fs.SecretG1 = [i \in 0 .. TwoTo(order) - 1 |-> ExpModFr(s, i)]

(* The points of the setup, padded.                                        *)
LEMMA SetupIs ==
    ASSUME NEW q \in Nat \ {0}, NEW m \in Nat, NEW o \in 0 .. TwoTo(m) - 1, NEW s \in Fr,
           NEW w, NEW fs, Prepared(fs, w, q + m + 1, s), NEW start,
           start = TwoTo(q + m) - TwoTo(m) - 1 - o, NEW x,
           x = setupDown(fs, TwoTo(q), start, TwoTo(m))
    PROVE  toeplitzPart1(fs, x) = ValuesG1(fs, SetupPart(s, q, m, o))
<1> DEFINE k == TwoTo(q)
           l == TwoTo(m)
           n == TwoTo(q + m)
           p(i) == SetupPower(q, m, o, i)
<1>1. /\ k \in Nat /\ k >= 2 /\ l \in Nat /\ l > 0 /\ n \in Nat /\ o \in Nat /\ o < l
      /\ TwoTo(q + 1) = 2 * k /\ q + m \in Nat
      /\ \A i \in 0 .. k - 2 : p(i) \in Nat
  BY ChunkFacts
<1>2. TwoTo(q + m + 1) = 2 * n
  BY <1>1, TwoToNext
<1>3. fs.SecretG1 = [i \in 0 .. 2 * n - 1 |-> ExpModFr(s, i)]
  BY <1>2 DEF Prepared
<1>4. x = [i \in 0 .. k - 1 |-> IF i = k - 1 THEN 0 ELSE fs.SecretG1[start - i * l]]
  BY SliceIs DEF setupDown, ZeroG1
<1>5. \A i \in 0 .. k - 2 : start - i * l = p(i)
  BY DEF SetupPower
<1>6. \A i \in 0 .. k - 2 : p(i) \in 0 .. 2 * n - 1
  <2>1. ASSUME NEW i \in 0 .. k - 2
        PROVE  p(i) \in 0 .. 2 * n - 1
    <3>1. i * l \in Nat
      <4>1. \A u, v \in Nat : u * v \in Nat
        OBVIOUS
      <4>2. i \in Nat
        BY <1>1
      <4> HIDE DEF l
      <4> QED BY <1>1, <4>1, <4>2
    <3>2. p(i) = n - l - 1 - o - i * l
      BY DEF SetupPower
    <3>3. p(i) \in Nat
      BY <1>1
    <3> HIDE DEF p, k, l, n
    <3> QED BY <1>1, <3>1, <3>2, <3>3
  <2> QED BY <2>1
<1> HIDE DEF k, l, n, p
<1>7. x = [i \in 0 .. k - 1 |-> IF i < k - 1 THEN ExpModFr(s, p(i)) ELSE 0]
  <2>1. ASSUME NEW i \in 0 .. k - 1
        PROVE  (IF i = k - 1 THEN 0 ELSE fs.SecretG1[start - i * l])
                   = IF i < k - 1 THEN ExpModFr(s, p(i)) ELSE 0
    <3>1. CASE i = k - 1
      BY <1>1, <3>1
    <3>2. CASE i # k - 1
      <4>1. i \in 0 .. k - 2 /\ i < k - 1
        BY <1>1, <3>2
      <4>2. fs.SecretG1[start - i * l] = ExpModFr(s, p(i))
        <5>1. start - i * l = p(i) /\ p(i) \in 0 .. 2 * n - 1
          BY <1>5, <1>6, <4>1
        <5> QED BY <1>3, <5>1
      <4> QED BY <3>2, <4>1, <4>2
    <3> QED BY <3>1, <3>2
  <2> QED BY <1>4, <2>1
<1>8. Length(x) = k /\ DOMAIN x = 0 .. k - 1
  <2>1. DOMAIN x = 0 .. k - 1
    BY <1>7
  <2> QED BY <1>1, <2>1, LengthIs
<1>9. padPoly(2 * Length(x), x) = SetupPart(s, q, m, o)
  <2>1. padPoly(2 * Length(x), x) = [i \in 0 .. 2 * k - 1 |-> IF i < k THEN x[i] ELSE 0]
    BY <1>8, SliceIs DEF padPoly
  <2>2. ASSUME NEW i \in 0 .. 2 * k - 1
        PROVE  (IF i < k THEN x[i] ELSE 0) = IF i < k - 1 THEN ExpModFr(s, p(i)) ELSE 0
    <3>1. CASE i < k
      <4>1. i \in 0 .. k - 1
        BY <1>1, <3>1
      <4> QED BY <1>7, <3>1, <4>1
    <3>2. CASE ~ (i < k)
      BY <1>1, <3>2
    <3> QED BY <3>1, <3>2
  <2>3. SetupPart(s, q, m, o)
            = [i \in 0 .. 2 * k - 1 |-> IF i < k - 1 THEN ExpModFr(s, p(i)) ELSE 0]
    BY <1>1 DEF SetupPart, p, k
  <2> QED BY <2>1, <2>2, <2>3
<1> QED BY <1>9 DEF toeplitzPart1, ValuesG1

(* The coefficients taken, with and without a stride.                      *)
LEMMA StepsAre ==
    ASSUME NEW q \in Nat \ {0}, NEW m \in Nat, NEW c, IsSlice(c, q + m)
    PROVE  /\ \A o \in 0 .. TwoTo(m) - 1 :
                  toeplitzCoeffsStepStrided(c, o, TwoTo(m)) = StepPart(c, q, m, o)
           /\ m = 0 => toeplitzCoeffsStep(c) = StepPart(c, q, m, 0)
<1> DEFINE k == TwoTo(q)
           l == TwoTo(m)
           n == TwoTo(q + m)
<1>1. k \in Nat /\ k >= 2 /\ l \in Nat \ {0} /\ n \in Nat /\ TwoTo(q + 1) = 2 * k /\ n = l * k
  <2>1. q \in Nat /\ TwoTo(q) > q
    BY TwoToType
  <2>2. k >= 2 /\ l \in Nat /\ l > 0 /\ q + m \in Nat
    BY <2>1, TwoToType
  <2>3. TwoTo(q + m) = k * l /\ k \in Nat /\ n \in Nat
    BY <2>1, <2>2, TwoToAdds, TwoToType
  <2>4. \A u, v \in Nat : u * v = v * u
    OBVIOUS
  <2>5. TwoTo(q + 1) = 2 * k
    BY <2>1, TwoToNext
  <2> HIDE DEF k, l, n
  <2> QED BY <2>2, <2>3, <2>4, <2>5 DEF n
<1>2. Length(c) = n
  <2>1. q + m \in Nat
    OBVIOUS
  <2> QED BY <2>1, SliceLength
<1>3. n \div l = k
  <2> HIDE DEF k, l, n
  <2> QED BY <1>1, FactorDivides
<1> HIDE DEF k, l, n
<1>4. ASSUME NEW o \in 0 .. l - 1
      PROVE  toeplitzCoeffsStepStrided(c, o, l) = StepPart(c, q, m, o)
  <2>1. toeplitzCoeffsStepStrided(c, o, l) =
            [i \in 0 .. 2 * k - 1 |->
                IF i = 0 THEN c[n - 1 - o] ELSE IF i <= k + 1 THEN 0
                ELSE c[2 * l - o - 1 + (i - k - 2) * l]]
    BY <1>2, <1>3, SliceIs DEF toeplitzCoeffsStepStrided
  <2> QED BY <1>1, <2>1 DEF StepPart, k, l, n
<1>5. ASSUME m = 0
      PROVE  toeplitzCoeffsStep(c) = StepPart(c, q, m, 0)
  <2>1. l = 1 /\ n = k
    BY <1>1, <1>5, TwoToZero DEF l
  <2>2. toeplitzCoeffsStep(c) =
            [i \in 0 .. 2 * k - 1 |->
                IF i = 0 THEN c[k - 1] ELSE IF i <= k + 1 THEN 0 ELSE c[i - k - 1]]
    BY <1>2, <2>1, SliceIs DEF toeplitzCoeffsStep
  <2>3. StepPart(c, q, m, 0) =
            [i \in 0 .. 2 * k - 1 |->
                IF i = 0 THEN c[k - 1 - 0] ELSE IF i <= k + 1 THEN 0
                ELSE c[2 * 1 - 0 - 1 + (i - k - 2) * 1]]
    BY <1>1, <2>1 DEF StepPart, k, l, n
  <2>4. k - 1 - 0 = k - 1 /\ \A i \in 0 .. 2 * k - 1 : 2 * 1 - 0 - 1 + (i - k - 2) * 1 = i - k - 1
    BY <1>1
  <2> QED BY <2>2, <2>3, <2>4
<1> QED BY <1>4, <1>5 DEF l

(* ToeplitzPart2: the transform of the product.                            *)
LEMMA PartTransforms ==
    ASSUME NEW q \in Nat \ {0}, NEW m \in Nat, NEW o \in 0 .. TwoTo(m) - 1, NEW s \in Fr,
           NEW w, NEW fs, Prepared(fs, w, q + m + 1, s), NEW c, IsSlice(c, q + m), NEW y,
           y = ExpModFr(w, TwoTo(m))
    PROVE  /\ IsRoot(y, q + 1) /\ IsSlice(ProductPart(s, c, q, m, o), q + 1)
           /\ ToeplitzPart2(fs, StepPart(c, q, m, o), ValuesG1(fs, SetupPart(s, q, m, o)))
                  = Transform(ProductPart(s, c, q, m, o), y, q + 1)
<1> DEFINE order == q + m + 1
           k == q + 1
           x == SetupPart(s, q, m, o)
           t == StepPart(c, q, m, o)
           a == ProductPart(s, c, q, m, o)
<1>1. order \in Nat /\ k \in 0 .. order /\ order - k = m /\ k \in Nat
  OBVIOUS
<1>2. IsSlice(x, k) /\ IsSlice(t, k)
  BY SetupPartFacts, StepPartFacts
<1>3. a = Convolution(x, t, TwoTo(k))
  BY DEF ProductPart
<1>4. /\ HasRoots(fs, w, order) /\ Divides(order) /\ fs.MaxWidth = TwoTo(order)
      /\ y = ExpModFr(w, TwoTo(order - k))
  BY <1>1 DEF Prepared
<1> HIDE DEF order, k, x, t, a
<1>5. /\ IsRoot(y, k) /\ Values(fs, t) = Transform(t, y, k) /\ ValuesG1(fs, x) = Transform(x, y, k)
  BY <1>1, <1>2, <1>4, TransformsComputed
<1>6. IsSlice(a, k)
  BY <1>1, <1>2, <1>3, ConvolutionType
<1> DEFINE N == TwoTo(k)
<1>7. ToeplitzPart2(fs, t, ValuesG1(fs, x))
          = [i \in 0 .. N - 1 |-> TransformAt(x, y, k, i) \odot TransformAt(t, y, k, i)]
  <2>1. FourierTransform(fs, t, FALSE) = Transform(t, y, k)
    BY <1>5 DEF Values
  <2>2. DOMAIN ValuesG1(fs, x) = 0 .. N - 1
    BY <1>5 DEF Transform
  <2>3. ToeplitzPart2(fs, t, ValuesG1(fs, x))
            = [i \in 0 .. N - 1 |-> MulG1(ValuesG1(fs, x)[i], FourierTransform(fs, t, FALSE)[i])]
    BY <2>2, SliceIs DEF ToeplitzPart2
  <2>4. \A i \in 0 .. N - 1 : /\ ValuesG1(fs, x)[i] = TransformAt(x, y, k, i)
                              /\ FourierTransform(fs, t, FALSE)[i] = TransformAt(t, y, k, i)
    BY <1>5, <2>1 DEF Transform
  <2> HIDE DEF N
  <2> QED BY <2>3, <2>4 DEF MulG1
<1>8. \A i \in 0 .. N - 1 :
          TransformAt(a, y, k, i) = TransformAt(x, y, k, i) \odot TransformAt(t, y, k, i)
  <2>1. \A i \in 0 .. TwoTo(k) - 1 :
            TransformAt(Convolution(x, t, TwoTo(k)), y, k, i)
                = TransformAt(x, y, k, i) \odot TransformAt(t, y, k, i)
    BY <1>1, <1>2, <1>5, ConvolutionTransforms
  <2> QED BY <1>3, <2>1
<1>9. ToeplitzPart2(fs, t, ValuesG1(fs, x)) = Transform(a, y, k)
  <2>1. Transform(a, y, k) = [i \in 0 .. N - 1 |-> TransformAt(a, y, k, i)]
    BY DEF Transform
  <2> HIDE DEF N
  <2> QED BY <1>7, <1>8, <2>1
<1> QED BY <1>5, <1>6, <1>9 DEF k, x, t, a

(* ToeplitzPart3: the first half of what was transformed.                  *)
LEMMA HalfIs ==
    ASSUME NEW q \in Nat, NEW m \in Nat, NEW w, NEW fs, NEW s, Prepared(fs, w, q + m + 1, s),
           NEW y, y = ExpModFr(w, TwoTo(m)), NEW a, IsSlice(a, q + 1)
    PROVE  ToeplitzPart3(fs, Transform(a, y, q + 1)) = [j \in 0 .. TwoTo(q) - 1 |-> a[j]]
<1> DEFINE order == q + m + 1
           k == q + 1
           b == Transform(a, y, k)
           h == TwoTo(q)
<1>1. order \in Nat /\ k \in 0 .. order /\ order - k = m /\ k \in Nat
  OBVIOUS
<1>2. /\ HasRoots(fs, w, order) /\ Divides(order) /\ fs.MaxWidth = TwoTo(order)
      /\ y = ExpModFr(w, TwoTo(order - k))
  BY <1>1 DEF Prepared
<1>3. h \in Nat /\ TwoTo(k) = 2 * h
  BY TwoToType, TwoToNext
<1> HIDE DEF order, h
<1>4. IsRoot(y, k) /\ Divides(k)
  <2>1. IsSlice(a, k)
    OBVIOUS
  <2> HIDE DEF k
  <2> QED BY <1>1, <1>2, <2>1, TransformsComputed, DividesFacts
<1>5. IsSlice(b, k) /\ Length(b) = 2 * h
  <2>1. IsSlice(a, k)
    OBVIOUS
  <2> HIDE DEF k
  <2>2. IsSlice(b, k)
    BY <1>1, <1>4, <2>1, TransformType DEF IsRoot
  <2> HIDE DEF b
  <2> QED BY <1>1, <1>3, <2>2, SliceLength
<1>6. FFTG1(fs, b, TRUE) = a
  <2>1. IsSlice(a, k)
    OBVIOUS
  <2>2. FromValuesG1(fs, b) = Coefficients(b, y, k)
    <3> HIDE DEF b, k
    <3> QED BY <1>1, <1>2, <1>5, TransformsComputed
  <2>3. Coefficients(b, y, k) = a
    <3> HIDE DEF k
    <3> QED BY <1>1, <1>4, <2>1, TransformUndone DEF b
  <2> QED BY <2>2, <2>3 DEF FromValuesG1
<1>7. (2 * h) \div 2 = h
  BY <1>3
<1>8. ToeplitzPart3(fs, b) = [j \in 0 .. h - 0 - 1 |-> a[0 + j]]
  <2> HIDE DEF b
  <2> QED BY <1>5, <1>6, <1>7, SliceIs DEF ToeplitzPart3, SubSlice
<1>9. h - 0 - 1 = h - 1 /\ \A j \in 0 .. h - 1 : a[0 + j] = a[j]
  BY <1>3
<1> QED BY <1>8, <1>9 DEF b, k, h

(* padPoly to twice the length.                                            *)
LEMMA PadPolyIs ==
    ASSUME NEW q \in Nat, NEW g, IsSlice(g, q)
    PROVE  padPoly(TwoTo(q + 1), g) = Padded(g, q) /\ IsSlice(Padded(g, q), q + 1)
<1>1. Length(g) = TwoTo(q)
  BY SliceLength
<1>2. padPoly(TwoTo(q + 1), g) = Padded(g, q)
  BY <1>1, SliceIs DEF padPoly, Padded
<1>3. IsSlice(Padded(g, q), q + 1)
  BY TransformPadded, ModulusFacts
<1> QED BY <1>2, <1>3

(* The settings for d are those of its domain.                             *)
LEMMA SettingsPrepared ==
    ASSUME NEW d \in Data, NEW fs, fs = Settings[Length(d)]
    PROVE  Prepared(fs, Root(d), Log(d) + 1, Secret) /\ Secret \in Fr
BY SettingsFacts, SecretAssumption DEF Prepared

(* The widths of samples are powers of two, below that of the data.        *)
Width(d, q, m) == q \in Nat \ {0} /\ m \in Nat /\ q + m = Log(d)

(* A coset width is a power of two, at most half the length of the data.   *)
LEMMA WidthFacts ==
    ASSUME NEW d \in Data, NEW width \in CosetWidth[Length(d)]
    PROVE  \E q, m \in Nat : Width(d, q, m) /\ width = TwoTo(m)
<1> DEFINE L == Log(d)
           n == Length(d)
<1>1. width \in 1 .. n \div 2 /\ IsPowerOfTwo(width)
  BY CosetWidthAssumption
<1>2. L \in Nat /\ n = TwoTo(L) /\ n \in Nat
  BY DataFacts
<1> HIDE DEF L, n
<1>3. width \in Nat \ {0} /\ width < n
  <2>1. n \div 2 \in Nat /\ n \div 2 <= n /\ (n > 0 => n \div 2 < n)
    BY <1>2
  <2> QED BY <1>1, <1>2, <2>1
<1>4. PICK m \in Nat : width = TwoTo(m)
  BY <1>1, <1>3, PowerOfTwo
<1>5. m < L
  <2>1. CASE L < m
    <3>1. TwoTo(L) < TwoTo(m) /\ TwoTo(L) \in Nat /\ TwoTo(m) \in Nat
      BY <1>2, <2>1, TwoToGrows, TwoToType
    <3> QED BY <1>2, <1>3, <1>4, <3>1
  <2>2. CASE L = m
    BY <1>2, <1>3, <1>4, <2>2
  <2> QED BY <1>2, <2>1, <2>2
<1>6. L - m \in Nat /\ L - m \in Nat \ {0} /\ (L - m) + m = L
  BY <1>2, <1>5
<1> QED BY <1>4, <1>6 DEF Width, L

(* All the proofs for samples, and for single values, at once.             *)
ProofsOf(d, q, m) ==
    Transform(Padded(Quotient(Secret, LowerPoly(d), q, m), q), ExpModFr(Root(d), TwoTo(m)), q + 1)

(* What FK20MultiDAOptimized returns: the transform, over the points of    *)
(* the cosets, of the quotients of the committed polynomial.               *)
LEMMA FK20MultiIs ==
    ASSUME NEW d \in Data, NEW fs, fs = Settings[Length(d)], NEW q, NEW m, Width(d, q, m), NEW fk,
           fk = NewFK20MultiSettings(fs, 2 * Length(d), TwoTo(m))
    PROVE  FK20MultiDAOptimized(fk, PolyOf(d)) = ProofsOf(d, q, m)
<1> DEFINE n == Length(d)
           k == TwoTo(q)
           l == TwoTo(m)
           s == Secret
           w == Root(d)
           y == ExpModFr(w, TwoTo(m))
           c == LowerPoly(d)
           part(o) == ProductPart(s, c, q, m, o)
           file == [o \in 0 .. l - 1 |->
               ToeplitzPart2(fk.ks, toeplitzCoeffsStepStrided(c, o, fk.chunkLen),
                             fk.xExtFFTFiles[o])]
           H == [j \in 0 .. 2 * k - 1 |-> SumFr([o \in 0 .. l - 1 |-> file[o][j]], l)]
<1>1. /\ q \in Nat \ {0} /\ q \in Nat /\ m \in Nat /\ q + m = Log(d) /\ q + m + 1 = Log(d) + 1
      /\ q + 1 \in Nat
  BY DEF Width
<1>2. /\ n = TwoTo(q + m) /\ n \in Nat /\ k \in Nat /\ l \in Nat \ {0} /\ TwoTo(q + 1) = 2 * k
      /\ n \div l = k /\ (2 * n) \div 2 = n
  <2>1. n = TwoTo(q + m) /\ n \in Nat
    BY <1>1, DataFacts
  <2>2. k \in Nat /\ l \in Nat /\ l > 0 /\ TwoTo(q + 1) = 2 * k /\ TwoTo(q + m) = k * l
    BY <1>1, TwoToType, TwoToNext, TwoToAdds
  <2> HIDE DEF n, k, l
  <2>3. k * l = l * k
    BY <2>2
  <2>4. n \div l = k
    BY <2>1, <2>2, <2>3, FactorDivides
  <2>5. (2 * n) \div 2 = n
    BY <2>1
  <2> QED BY <2>1, <2>2, <2>4, <2>5
<1>3. Prepared(fs, w, q + m + 1, s) /\ s \in Fr /\ IsSlice(c, q + m)
  BY <1>1, SettingsPrepared, PolyFacts
<1>4. /\ fk.ks = fs /\ fk.chunkLen = l
      /\ \A o \in 0 .. l - 1 :
             fk.xExtFFTFiles[o] = toeplitzPart1(fs, setupDown(fs, k, n - l - 1 - o, l))
  <2> HIDE DEF n, k, l
  <2> QED BY <1>2, SliceIs DEF NewFK20MultiSettings, l, n
<1>5. ASSUME NEW o \in 0 .. l - 1
      PROVE  /\ file[o] = Transform(part(o), y, q + 1)
             /\ IsSlice(part(o), q + 1) /\ IsRoot(y, q + 1)
  <2>1. file[o] = ToeplitzPart2(fs, toeplitzCoeffsStepStrided(c, o, l), fk.xExtFFTFiles[o])
    BY <1>4
  <2>2. toeplitzCoeffsStepStrided(c, o, l) = StepPart(c, q, m, o)
    BY <1>1, <1>3, StepsAre
  <2> DEFINE start == n - l - 1 - o
             x == setupDown(fs, k, start, l)
  <2>3. toeplitzPart1(fs, x) = ValuesG1(fs, SetupPart(s, q, m, o))
    <3>1. start = TwoTo(q + m) - TwoTo(m) - 1 - o /\ x = setupDown(fs, TwoTo(q), start, TwoTo(m))
      BY <1>2
    <3> HIDE DEF start, x, s, w
    <3> QED BY <1>1, <1>3, <3>1, SetupIs
  <2>4. fk.xExtFFTFiles[o] = ValuesG1(fs, SetupPart(s, q, m, o))
    BY <1>4, <2>3
  <2>5. /\ IsRoot(y, q + 1) /\ IsSlice(part(o), q + 1)
        /\ ToeplitzPart2(fs, StepPart(c, q, m, o), ValuesG1(fs, SetupPart(s, q, m, o)))
               = Transform(part(o), y, q + 1)
    <3> HIDE DEF s, w, c
    <3> QED BY <1>1, <1>3, PartTransforms
  <2> HIDE DEF file
  <2> QED BY <2>1, <2>2, <2>4, <2>5
<1> DEFINE parts == [o \in 0 .. l - 1 |-> part(o)]
           a == Products(s, c, q, m)
<1>6. IsRoot(y, q + 1) /\ y \in Fr
  <2>1. 0 \in 0 .. l - 1
    BY <1>2
  <2>2. IsRoot(y, q + 1)
    BY <1>5, <2>1
  <2> QED BY <2>2 DEF IsRoot
<1>7. a = SumOf(parts, l, q + 1)
  <2>1. \A j : [o \in 0 .. l - 1 |-> part(o)[j]] = [o \in 0 .. l - 1 |-> parts[o][j]]
    OBVIOUS
  <2> HIDE DEF parts
  <2> QED BY <2>1 DEF Products, SumOf
<1>8. \A o \in 0 .. l - 1 : parts[o] = part(o) /\ IsSlice(parts[o], q + 1)
  BY <1>5
<1>9. IsSlice(a, q + 1)
      /\ \A i \in Nat : TransformAt(a, y, q + 1, i)
                            = SumFr(TransformsAt(parts, l, y, q + 1, i), l)
  <2> DEFINE r == q + 1
  <2>1. r \in Nat /\ y \in Fr /\ l \in Nat /\ AreSlices(parts, l, r) /\ a = SumOf(parts, l, r)
    BY <1>1, <1>2, <1>6, <1>7, <1>8 DEF AreSlices
  <2> HIDE DEF r, parts, a, y, l
  <2>2. 0 \in Nat
    OBVIOUS
  <2>3. IsSlice(SumOf(parts, l, r), r)
    BY <2>1, <2>2, TransformOfSums
  <2>4. \A i \in Nat : TransformAt(SumOf(parts, l, r), y, r, i) = SumFr(TransformsAt(parts, l, y, r, i), l)
    <3>1. r \in Nat /\ y \in Fr /\ l \in Nat /\ AreSlices(parts, l, r)
      BY <2>1
    <3> QED BY <3>1, TransformOfSums
  <2> QED BY <2>1, <2>3, <2>4 DEF r
<1>10. H = Transform(a, y, q + 1)
  <2>1. ASSUME NEW j \in 0 .. 2 * k - 1
        PROVE  SumFr([o \in 0 .. l - 1 |-> file[o][j]], l) = TransformAt(a, y, q + 1, j)
    <3>1. j \in Nat /\ j \in 0 .. TwoTo(q + 1) - 1
      BY <1>2
    <3>2. ASSUME NEW o \in 0 .. l - 1
          PROVE  file[o][j] = TransformAt(parts[o], y, q + 1, j)
      <4>1. file[o] = Transform(part(o), y, q + 1) /\ parts[o] = part(o)
        BY <1>5, <1>8
      <4> HIDE DEF file, parts, part, y
      <4>2. Transform(part(o), y, q + 1)[j] = TransformAt(part(o), y, q + 1, j)
        BY <3>1 DEF Transform
      <4> QED BY <4>1, <4>2
    <3> HIDE DEF file, parts, part, a, y, l
    <3>3. [o \in 0 .. l - 1 |-> file[o][j]] = TransformsAt(parts, l, y, q + 1, j)
      BY <3>2 DEF TransformsAt
    <3> QED BY <1>9, <3>1, <3>3
  <2>2. Transform(a, y, q + 1) = [j \in 0 .. 2 * k - 1 |-> TransformAt(a, y, q + 1, j)]
    BY <1>2 DEF Transform
  <2> HIDE DEF file, a, y, l, k
  <2> QED BY <2>1, <2>2
<1> DEFINE g == Quotient(s, c, q, m)
<1>11. ToeplitzPart3(fs, H) = g
  <2>1. ToeplitzPart3(fs, Transform(a, y, q + 1)) = [j \in 0 .. TwoTo(q) - 1 |-> a[j]]
    <3>1. /\ q \in Nat /\ m \in Nat /\ Prepared(fs, w, q + m + 1, s) /\ y = ExpModFr(w, TwoTo(m))
          /\ IsSlice(a, q + 1)
      BY <1>1, <1>3, <1>9
    <3> HIDE DEF a, w, s, y
    <3> QED BY <3>1, HalfIs
  <2> HIDE DEF H, y
  <2> QED BY <1>10, <2>1 DEF Quotient
<1>12. IsSlice(g, q)
  <2>1. 0 \in Fr
    BY ModulusFacts
  <2> HIDE DEF c, s
  <2> QED BY <1>1, <1>3, <2>1, QuotientDivides
<1>13. FK20MultiDAOptimized(fk, PolyOf(d)) = FFTG1(fs, padPoly(2 * k, ToeplitzPart3(fs, H)), FALSE)
  <2>1. Length(PolyOf(d)) = 2 * n
    <3>1. IsSlice(PolyOf(d), q + m + 1) /\ q + m + 1 \in Nat /\ TwoTo(q + m + 1) = 2 * n
      BY <1>1, <1>2, PolyFacts, DataFacts
    <3> QED BY <3>1, SliceLength
  <2>2. SubSlice(PolyOf(d), 0, n) = c
    BY LowerIs
  <2> DEFINE p == PolyOf(d)
             files(b, width) == Slice([o \in 0 .. width - 1 |->
                 ToeplitzPart2(fk.ks, toeplitzCoeffsStepStrided(b, o, width), fk.xExtFFTFiles[o])])
             G(b, i, width) == Slice([j \in 0 .. i - 1 |->
                 SumFr([o \in 0 .. width - 1 |-> files(b, width)[o][j]], width)])
             np == Length(p) \div 2
             kp == 2 * (np \div fk.chunkLen)
  <2>3. FK20MultiDAOptimized(fk, p)
            = FFTG1(fk.ks, padPoly(kp, ToeplitzPart3(fk.ks, G(SubSlice(p, 0, np), kp, fk.chunkLen))),
                    FALSE)
    <3> HIDE DEF p
    <3> QED BY DEF FK20MultiDAOptimized
  <2>4. np = n /\ kp = 2 * k /\ SubSlice(p, 0, np) = c
    <3> HIDE DEF n, k, l, c
    <3> QED BY <1>2, <1>4, <2>1, <2>2
  <2>5. G(c, 2 * k, l) = H
    <3>1. fk.chunkLen = l
      BY <1>4
    <3> HIDE DEF l, k, c
    <3>2. files(c, l) = file
      BY <3>1, SliceIs
    <3> HIDE DEF file, files
    <3> QED BY <3>2, SliceIs
  <2> HIDE DEF G, np, kp, p, H, c, n, k, l
  <2> QED BY <1>4, <2>3, <2>4, <2>5 DEF p
<1>14. FFTG1(fs, padPoly(2 * k, g), FALSE) = Transform(Padded(g, q), y, q + 1)
  <2>1. padPoly(2 * k, g) = Padded(g, q) /\ IsSlice(Padded(g, q), q + 1)
    <3> HIDE DEF g, k
    <3> QED BY <1>1, <1>2, <1>12, PadPolyIs DEF k
  <2> DEFINE b == Padded(g, q)
             order == q + m + 1
             r == q + 1
  <2>2. /\ HasRoots(fs, w, order) /\ Divides(order) /\ fs.MaxWidth = TwoTo(order) /\ IsSlice(b, r)
        /\ order \in Nat /\ r \in 0 .. order /\ y = ExpModFr(w, TwoTo(order - r))
    <3>1. order - r = m
      BY <1>1
    <3> QED BY <1>1, <1>3, <2>1, <3>1 DEF Prepared
  <2> HIDE DEF b, order, r, y
  <2>3. ValuesG1(fs, b) = Transform(b, y, r)
    BY <2>2, TransformsComputed
  <2> QED BY <2>1, <2>3 DEF ValuesG1, b, r
<1> HIDE DEF H, g
<1> QED BY <1>11, <1>13, <1>14 DEF ProofsOf, g

(* With no stride there is only one product.                               *)
LEMMA OneProduct ==
    ASSUME NEW q \in Nat \ {0}, NEW s \in Fr, NEW c, IsSlice(c, q)
    PROVE  /\ Products(s, c, q, 0) = ProductPart(s, c, q, 0, 0)
           /\ IsSlice(ProductPart(s, c, q, 0, 0), q + 1)
<1> DEFINE a == ProductPart(s, c, q, 0, 0)
           at(j) == [o \in 0 .. 0 |-> ProductPart(s, c, q, 0, o)[j]]
           N == TwoTo(q + 1)
<1>1. TwoTo(0) = 1 /\ 0 \in Nat /\ q + 0 = q /\ 0 \in 0 .. TwoTo(0) - 1 /\ q + 1 \in Nat
  BY TwoToZero
<1>2. IsSlice(a, q + 1)
  <2>1. IsSlice(c, q + 0)
    BY <1>1
  <2>2. IsSlice(SetupPart(s, q, 0, 0), q + 1) /\ IsSlice(StepPart(c, q, 0, 0), q + 1)
    BY <1>1, <2>1, SetupPartFacts, StepPartFacts
  <2> QED BY <1>1, <2>2, ConvolutionType DEF ProductPart
<1>3. a = [j \in 0 .. N - 1 |-> a[j]] /\ \A j \in 0 .. N - 1 : a[j] \in Fr
  BY <1>2 DEF IsSlice
<1>4. Products(s, c, q, 0) = [j \in 0 .. N - 1 |-> SumFr(at(j), 1)]
  <2>1. 0 .. TwoTo(0) - 1 = 0 .. 0
    BY <1>1
  <2> HIDE DEF N
  <2> QED BY <1>1, <2>1 DEF Products, N
<1>5. ASSUME NEW j \in 0 .. N - 1
      PROVE  SumFr(at(j), 1) = a[j]
  <2> DEFINE z == 0
             n == 1
  <2>1. /\ n \in Nat /\ z \in 0 .. n - 1 /\ at(j)[z] = a[j] /\ at(j)[z] \in Fr
        /\ \A i \in 0 .. n - 1 : i # z => at(j)[i] = 0
    <3>1. at(j)[z] = a[j]
      OBVIOUS
    <3> HIDE DEF at
    <3> QED BY <1>3, <3>1
  <2> HIDE DEF at, z, n
  <2>2. SumFr(at(j), n) = at(j)[z]
    BY <2>1, SumSingle
  <2> QED BY <2>1, <2>2 DEF n
<1> HIDE DEF a, at, N
<1>6. Products(s, c, q, 0) = a
  BY <1>3, <1>4, <1>5
<1> QED BY <1>2, <1>6 DEF a

(* The proofs for single values.                                           *)
SinglesOf(d) ==
    Transform(Padded(Quotient(Secret, LowerPoly(d), Log(d), 0), Log(d)), Root(d), Log(d) + 1)

(* What FK20SingleDAOptimized and FK20Single return: one transform at all  *)
(* the powers of the root, and at the even ones.                           *)
LEMMA FK20SingleIs ==
    ASSUME NEW d \in Data, NEW fs, fs = Settings[Length(d)], NEW fk,
           fk = NewFK20SingleSettings(fs, 2 * Length(d))
    PROVE  /\ IsSlice(Quotient(Secret, LowerPoly(d), Log(d), 0), Log(d))
           /\ FK20SingleDAOptimized(fk, PolyOf(d)) = SinglesOf(d)
           /\ FK20Single(fk, LowerPoly(d))
                  = Transform(Quotient(Secret, LowerPoly(d), Log(d), 0), Root(d) \odot Root(d), Log(d))
<1> DEFINE n == Length(d)
           q == Log(d)
           s == Secret
           w == Root(d)
           z == w \odot w
           c == LowerPoly(d)
           a == ProductPart(s, c, q, 0, 0)
           g == Quotient(s, c, q, 0)
           order == q + 0 + 1
<1>1. /\ q \in Nat \ {0} /\ q \in Nat /\ q + 0 = q /\ order = q + 1 /\ 0 \in Nat /\ order \in Nat
      /\ n = TwoTo(q) /\ n \in Nat /\ TwoTo(q + 1) = 2 * n /\ TwoTo(0) = 1
      /\ (2 * n) \div 2 = n /\ n > 0
  <2>1. Log(d) \in Nat \ {0} /\ Length(d) = TwoTo(Log(d)) /\ Length(d) \in Nat
        /\ TwoTo(Log(d) + 1) = 2 * Length(d)
    BY DataFacts
  <2>2. \A i \in Nat : (2 * i) \div 2 = i
    OBVIOUS
  <2>3. TwoTo(q) > 0 /\ TwoTo(0) = 1
    BY <2>1, TwoToType, TwoToZero
  <2> QED BY <2>1, <2>2, <2>3
<1>2. /\ Prepared(fs, w, order, s) /\ s \in Fr /\ IsSlice(c, q) /\ IsSlice(c, q + 0)
      /\ IsRoot(w, q + 1) /\ w \in Fr /\ w = ExpModFr(w, TwoTo(0))
  <2>1. Prepared(fs, w, q + 1, s) /\ s \in Fr /\ IsSlice(c, q) /\ IsRoot(w, q + 1) /\ w \in Fr
    BY SettingsPrepared, SettingsFacts, PolyFacts
  <2>2. ExpModFr(w, 1) = w
    BY <2>1, ExpUnit
  <2> HIDE DEF q, w, s, c
  <2> QED BY <1>1, <2>1, <2>2
<1> HIDE DEF q, s, w, c, order
<1>3. fk.ks = fs /\ fk.xExtFFT = ValuesG1(fs, SetupPart(s, q, 0, 0))
  <2> DEFINE x == setupDown(fs, n, n - 2, 1)
             start == n - 2
  <2>1. fk.ks = fs /\ fk.xExtFFT = toeplitzPart1(fs, x)
    <3> HIDE DEF n
    <3> QED BY <1>1 DEF NewFK20SingleSettings, n
  <2>2. /\ Prepared(fs, w, q + 0 + 1, s) /\ 0 \in 0 .. TwoTo(0) - 1
        /\ start = TwoTo(q + 0) - TwoTo(0) - 1 - 0 /\ x = setupDown(fs, TwoTo(q), start, TwoTo(0))
    BY <1>1, <1>2 DEF order
  <2> HIDE DEF x, start, n
  <2>3. toeplitzPart1(fs, x) = ValuesG1(fs, SetupPart(s, q, 0, 0))
    BY <1>1, <1>2, <2>2, SetupIs
  <2> QED BY <2>1, <2>3
<1>4. toeplitzCoeffsStep(c) = StepPart(c, q, 0, 0)
  BY <1>1, <1>2, StepsAre
<1> DEFINE H == ToeplitzPart2(fs, toeplitzCoeffsStep(c), fk.xExtFFT)
<1>5. H = Transform(a, w, q + 1)
  <2>1. 0 \in 0 .. TwoTo(0) - 1 /\ Prepared(fs, w, q + 0 + 1, s)
    BY <1>1, <1>2 DEF order
  <2>2. ToeplitzPart2(fs, StepPart(c, q, 0, 0), ValuesG1(fs, SetupPart(s, q, 0, 0)))
            = Transform(a, w, q + 1)
    BY <1>1, <1>2, <2>1, PartTransforms
  <2> QED BY <1>3, <1>4, <2>2
<1>6. IsSlice(a, q + 1) /\ Products(s, c, q, 0) = a
  BY <1>1, <1>2, OneProduct
<1>7. ToeplitzPart3(fs, H) = g
  <2>1. Prepared(fs, w, q + 0 + 1, s)
    BY <1>2 DEF order
  <2> HIDE DEF a
  <2>2. ToeplitzPart3(fs, Transform(a, w, q + 1)) = [j \in 0 .. TwoTo(q) - 1 |-> a[j]]
    BY <1>1, <1>2, <1>6, <2>1, HalfIs
  <2> HIDE DEF H
  <2> QED BY <1>5, <1>6, <2>2 DEF Quotient
<1>8. IsSlice(g, q)
  <2>1. 0 \in Fr
    BY ModulusFacts
  <2> QED BY <1>1, <1>2, <2>1, QuotientDivides
<1>9. IsSlice(Padded(g, q), q + 1) /\ padPoly(2 * n, g) = Padded(g, q)
  <2> HIDE DEF g, n
  <2> QED BY <1>1, <1>8, PadPolyIs
<1>10. FK20Single(fk, c) = FFTG1(fs, g, FALSE)
  <2> HIDE DEF g
  <2> QED BY <1>3, <1>7 DEF FK20Single
<1>11. FK20SingleDAOptimized(fk, PolyOf(d)) = FFTG1(fs, Padded(g, q), FALSE)
  <2>1. Length(PolyOf(d)) = 2 * n
    <3>1. IsSlice(PolyOf(d), q + 1) /\ q + 1 \in Nat
      BY <1>1, PolyFacts DEF q
    <3> HIDE DEF n
    <3> QED BY <1>1, <3>1, SliceLength
  <2>2. SubSlice(PolyOf(d), 0, n) = c
    BY LowerIs DEF c
  <2> HIDE DEF n, g
  <2> QED BY <1>1, <1>3, <1>7, <1>9, <2>1, <2>2 DEF FK20SingleDAOptimized
<1> DEFINE b == Padded(g, q)
<1>12. FFTG1(fs, b, FALSE) = Transform(b, w, q + 1)
  <2> DEFINE r == q + 1
  <2>1. /\ HasRoots(fs, w, r) /\ Divides(r) /\ fs.MaxWidth = TwoTo(r) /\ IsSlice(b, r) /\ r \in Nat
    BY <1>1, <1>2, <1>9 DEF Prepared
  <2> HIDE DEF b, r
  <2>2. ValuesG1(fs, b) = Transform(b, w, r)
    BY <2>1, TransformsOfAll
  <2> QED BY <2>2 DEF ValuesG1, r
<1>13. FFTG1(fs, g, FALSE) = Transform(g, z, q)
  <2> DEFINE r == q + 1
  <2>1. /\ HasRoots(fs, w, r) /\ Divides(r) /\ fs.MaxWidth = TwoTo(r) /\ IsSlice(g, q) /\ r \in Nat
        /\ q \in 0 .. r
    BY <1>1, <1>2, <1>8 DEF Prepared
  <2>2. z = ExpModFr(w, TwoTo(r - q))
    <3>1. r - q = 1
      BY <1>1
    <3>2. TwoTo(0 + 1) = 2 * TwoTo(0) /\ 0 + 1 = 1
      BY TwoToNext, <1>1
    <3>3. z = ExpModFr(w, 2)
      BY <1>1, <1>2, RootSquare
    <3> HIDE DEF z, r
    <3> QED BY <1>1, <3>1, <3>2, <3>3
  <2> HIDE DEF g, r, z
  <2>3. ValuesG1(fs, g) = Transform(g, z, q)
    BY <2>1, <2>2, TransformsComputed
  <2> QED BY <2>3 DEF ValuesG1
<1> HIDE DEF g, b
<1> QED BY <1>8, <1>10, <1>11, <1>12, <1>13 DEF SinglesOf, g, b, c, s, w, q

-----------------------------------------------------------------------------
(* The proof of a sample.                                                  *)

(* The transform of a padded polynomial has its values at every power.     *)
LEMMA PaddedAt ==
    ASSUME NEW q \in Nat, NEW g, IsSlice(g, q), NEW w \in Fr, NEW i \in Nat
    PROVE  /\ TransformAt(Padded(g, q), w, q + 1, i) = PolyAt(g, TwoTo(q), ExpModFr(w, i))
           /\ PolyAt(g, TwoTo(q), ExpModFr(w, i)) \in Fr
<1> DEFINE n == TwoTo(q)
           c == Padded(g, q)
           x == ExpModFr(w, i)
<1>1. n \in Nat /\ TwoTo(q + 1) = n + n /\ q + 1 \in Nat /\ x \in Fr /\ IsSlice(c, q + 1)
  <2>1. n \in Nat /\ TwoTo(q + 1) = 2 * n
    BY TwoToNext
  <2>2. IsSlice(c, q + 1)
    BY PadPolyIs
  <2> HIDE DEF n, c
  <2> QED BY <2>1, <2>2, ExpType
<1>2. TransformAt(c, w, q + 1, i) = PolyAt(c, TwoTo(q + 1), x)
  <2> DEFINE r == q + 1
  <2>1. r \in Nat /\ IsSlice(c, r)
    BY <1>1
  <2> HIDE DEF r, c
  <2>2. TransformAt(c, w, r, i) = PolyAt(c, TwoTo(r), ExpModFr(w, i))
    BY <2>1, TransformAtIs
  <2> QED BY <2>2 DEF r
<1>3. /\ \A j \in 0 .. n - 1 : g[j] \in Fr /\ c[j] = g[j]
      /\ \A j \in n .. n + n - 1 : c[j] = 0
  <2>1. c = [j \in 0 .. n + n - 1 |-> IF j < n THEN g[j] ELSE 0]
    BY <1>1 DEF Padded
  <2>2. \A j \in 0 .. n - 1 : g[j] \in Fr
    BY DEF IsSlice
  <2> HIDE DEF n, c
  <2> QED BY <1>1, <2>1, <2>2
<1> HIDE DEF n, c, x
<1> DEFINE m == n
<1>4. /\ m \in Nat
      /\ \A j \in 0 .. n - 1 : g[j] \in Fr /\ c[j] = g[j]
      /\ \A j \in n .. n + m - 1 : c[j] = 0
  BY <1>1, <1>3
<1> HIDE DEF m
<1>5. PolyAt(c, n + m, x) = PolyAt(g, n, x)
  BY <1>1, <1>4, PolyAtZeros
<1>6. PolyAt(g, n, x) \in Fr
  <2>1. \A j \in 0 .. n - 1 : g[j] \in Fr
    BY <1>3
  <2> QED BY <1>1, <2>1, PolyAtType
<1> QED BY <1>1, <1>2, <1>5, <1>6 DEF m, n, c, x

(* The extended values are those of the polynomial.                        *)
LEMMA ExtendedAt ==
    ASSUME NEW d \in Data, NEW p \in 0 .. 2 * Length(d) - 1
    PROVE  /\ ExtendedOf(d)[p] = PolyAt(LowerPoly(d), TwoTo(Log(d)), ExpModFr(Root(d), p))
           /\ ExtendedOf(d)[p] \in Fr
<1> DEFINE q == Log(d)
           g == LowerPoly(d)
           w == Root(d)
<1>1. /\ q \in Nat /\ TwoTo(q + 1) = 2 * Length(d) /\ Length(d) \in Nat
      /\ IsSlice(g, q) /\ w \in Fr /\ p \in Nat
  BY DataFacts, PolyFacts
<1>2. ExtendedOf(d) = Transform(Padded(g, q), w, q + 1)
  BY DEF ExtendedOf, PolyOf
<1> HIDE DEF q, g, w
<1>3. ExtendedOf(d)[p] = TransformAt(Padded(g, q), w, q + 1, p)
  BY <1>1, <1>2 DEF Transform
<1>4. /\ TransformAt(Padded(g, q), w, q + 1, p) = PolyAt(g, TwoTo(q), ExpModFr(w, p))
      /\ PolyAt(g, TwoTo(q), ExpModFr(w, p)) \in Fr
  BY <1>1, PaddedAt
<1> QED BY <1>3, <1>4 DEF q, g, w

(* What a proof says of the commitment: it is off the polynomial of the    *)
(* sample by a multiple of what is zero at the points of the sample.       *)
LEMMA ProofAt ==
    ASSUME NEW d \in Data, NEW q, NEW m, Width(d, q, m), NEW p \in 0 .. TwoTo(q + 1) - 1, NEW y,
           y = ExpModFr(ExpModFr(Root(d), p), TwoTo(m))
    PROVE  /\ y \in Fr /\ ProofsOf(d, q, m)[p] \in Fr
           /\ ProofsOf(d, q, m)[p] = PolyAt(Quotient(Secret, LowerPoly(d), q, m), TwoTo(q), y)
           /\ ProofsOf(d, q, m)[p] \odot (ExpModFr(Secret, TwoTo(m)) \ominus y)
                  = CommitOf(d) \ominus PolyAt(Residue(LowerPoly(d), q, m, y), TwoTo(m), Secret)
<1> DEFINE c == LowerPoly(d)
           w == Root(d)
           s == Secret
           l == TwoTo(m)
           v == ExpModFr(w, l)
           g == Quotient(s, c, q, m)
<1>1. /\ q \in Nat \ {0} /\ q \in Nat /\ m \in Nat /\ q + m = Log(d) /\ w \in Fr /\ s \in Fr
      /\ Length(d) = TwoTo(q + m) /\ IsSlice(c, q + m) /\ l \in Nat /\ p \in Nat
      /\ TwoTo(q + 1) \in Nat /\ q + 1 \in Nat
  <2>1. q \in Nat \ {0} /\ m \in Nat /\ q + m = Log(d) /\ q + 1 \in Nat
    BY DEF Width
  <2>2. TwoTo(q + 1) \in Nat /\ l \in Nat
    BY <2>1, TwoToType
  <2> QED BY <2>1, <2>2, DataFacts, PolyFacts, SecretAssumption
<1>2. CommitOf(d) = PolyAt(c, TwoTo(q + m), s)
  BY <1>1 DEF CommitOf
<1> HIDE DEF c, w, s
<1>3. v \in Fr /\ y \in Fr /\ y = ExpModFr(v, p)
  <2>1. ExpModFr(w, p * l) = ExpModFr(ExpModFr(w, p), l) /\ ExpModFr(w, p) \in Fr
    BY <1>1, ExpTimes, ExpType
  <2>2. ExpModFr(w, l * p) = ExpModFr(v, p)
    BY <1>1, ExpTimes
  <2>3. p * l = l * p
    BY <1>1
  <2>4. v \in Fr /\ y \in Fr
    BY <1>1, <2>1, ExpType DEF w
  <2> QED BY <2>1, <2>2, <2>3, <2>4 DEF w
<1>4. /\ IsSlice(g, q)
      /\ PolyAt(g, TwoTo(q), y) \odot (ExpModFr(s, l) \ominus y)
             = PolyAt(c, TwoTo(q + m), s) \ominus PolyAt(Residue(c, q, m, y), l, s)
  BY <1>1, <1>3, QuotientDivides
<1>5. ProofsOf(d, q, m)[p] = TransformAt(Padded(g, q), v, q + 1, p)
  BY DEF ProofsOf, Transform, c, w, s
<1> HIDE DEF g, v
<1>6. /\ TransformAt(Padded(g, q), v, q + 1, p) = PolyAt(g, TwoTo(q), ExpModFr(v, p))
      /\ PolyAt(g, TwoTo(q), ExpModFr(v, p)) \in Fr
  BY <1>1, <1>3, <1>4, PaddedAt
<1> QED BY <1>2, <1>3, <1>4, <1>5, <1>6 DEF g, c, s

(* At the points whose powers are y, what is left has the values of the    *)
(* polynomial.                                                             *)
LEMMA ResidueAt ==
    ASSUME NEW q \in Nat, NEW m \in Nat, NEW c, IsSlice(c, q + m), NEW x \in Fr
    PROVE  PolyAt(Residue(c, q, m, ExpModFr(x, TwoTo(m))), TwoTo(m), x) = PolyAt(c, TwoTo(q + m), x)
<1> DEFINE y == ExpModFr(x, TwoTo(m))
<1>1. y \in Fr
  BY TwoToType, ExpType
<1>2. PolyAt(Chunks(c, q, m, x), TwoTo(q), y) = PolyAt(c, TwoTo(q + m), x)
  BY ChunksAre
<1> HIDE DEF y
<1>3. PolyAt(Chunks(c, q, m, x), TwoTo(q), y) = PolyAt(Residue(c, q, m, y), TwoTo(m), x)
  BY <1>1, ResidueIs
<1> QED BY <1>2, <1>3 DEF y

-----------------------------------------------------------------------------
(* The check of a proof.                                                   *)

(* What is not zero has no power that is; the powers of a root are not.    *)
LEMMA PowerNotZero ==
    ASSUME NEW x \in Fr, x # 0, NEW i \in Nat
    PROVE  ExpModFr(x, i) \in Fr /\ ExpModFr(x, i) # 0
<1> DEFINE y == InvModFr(x)
<1>1. y \in Fr /\ x \odot y = 1
  BY FrInverse
<1> HIDE DEF y
<1>2. ExpModFr(x \odot y, i) = ExpModFr(x, i) \odot ExpModFr(y, i)
  BY <1>1, ExpProduct
<1>3. ExpModFr(1, i) = 1 /\ ExpModFr(x, i) \in Fr /\ ExpModFr(y, i) \in Fr
  BY <1>1, ExpOfOne, ExpType
<1>4. 0 \odot ExpModFr(y, i) = 0
  BY <1>3, FrUnits
<1> QED BY <1>1, <1>2, <1>3, <1>4

(* No power of a root of unity is zero.                                    *)
LEMMA RootNotZero ==
    ASSUME NEW k \in Nat, NEW w, IsRoot(w, k), NEW p \in Nat
    PROVE  ExpModFr(w, p) \in Fr /\ ExpModFr(w, p) # 0
<1>1. w \in Fr /\ w \odot InverseRoot(w, k) = 1 /\ InverseRoot(w, k) \in Fr
  BY RootInverse DEF IsRoot
<1>2. w # 0
  BY <1>1, FrUnits
<1> QED BY <1>1, <1>2, PowerNotZero

(* Values at the points x * z ** j are a transform of the coefficients     *)
(* times the powers of x.                                                  *)
LEMMA TwistedAt ==
    ASSUME NEW k \in Nat, NEW c, IsSlice(c, k), NEW x \in Fr, NEW z \in Fr, NEW j \in Nat
    PROVE  TransformAt(Twist(c, x, k), z, k, j) = PolyAt(c, TwoTo(k), x \odot ExpModFr(z, j))
<1> DEFINE n == TwoTo(k)
           t == Twist(c, x, k)
           y == ExpModFr(z, j)
<1>1. n \in Nat /\ y \in Fr /\ x \odot y \in Fr
  BY TwoToType, ExpType, FrClosed
<1>2. IsSlice(t, k)
  BY TwistType
<1>3. TransformAt(t, z, k, j) = PolyAt(t, n, y)
  <2> HIDE DEF t
  <2> QED BY <1>2, TransformAtIs
<1>4. ASSUME NEW i \in 0 .. n - 1
      PROVE  t[i] \odot ExpModFr(y, i) = c[i] \odot ExpModFr(x \odot y, i)
  <2>1. i \in Nat /\ c[i] \in Fr
    <3>1. c[i] \in Fr
      BY DEF IsSlice
    <3> HIDE DEF n
    <3> QED BY <1>1, <3>1
  <2>2. t[i] = c[i] \odot ExpModFr(x, i)
    BY DEF Twist
  <2> HIDE DEF t, n, y
  <2>3. ExpModFr(x \odot y, i) = ExpModFr(x, i) \odot ExpModFr(y, i)
        /\ ExpModFr(x, i) \in Fr /\ ExpModFr(y, i) \in Fr
    BY <1>1, <2>1, ExpProduct, ExpType
  <2>4. (c[i] \odot ExpModFr(x, i)) \odot ExpModFr(y, i) = c[i] \odot (ExpModFr(x, i) \odot ExpModFr(y, i))
    BY <2>1, <2>3, FrAssociates
  <2> QED BY <2>2, <2>3, <2>4
<1>5. Monomials(t, n, y) = Monomials(c, n, x \odot y)
  <2> HIDE DEF t, n, y
  <2> QED BY <1>4 DEF Monomials
<1> QED BY <1>3, <1>5 DEF PolyAt

(* The polynomial CheckProofMulti interpolates from values at the points   *)
(* of a coset.                                                             *)
Interpolated(fs, ys, x, m) ==
    [i \in 0 .. TwoTo(m) - 1 |-> DivModFr(FromValues(fs, ys)[i], ExpModFr(x, i))]

(* It is the one that has these values.                                    *)
LEMMA InterpolatedIs ==
    ASSUME NEW order \in Nat, NEW m \in 0 .. order, NEW w, NEW fs, HasRoots(fs, w, order),
           Divides(order), fs.MaxWidth = TwoTo(order), NEW c, IsSlice(c, m), NEW x \in Fr, x # 0,
           NEW z, z = ExpModFr(w, TwoTo(order - m)), NEW ys, ys = Transform(Twist(c, x, m), z, m)
    PROVE  Interpolated(fs, ys, x, m) = c
<1> DEFINE t == Twist(c, x, m)
           n == TwoTo(m)
<1>1. m \in Nat /\ n \in Nat /\ Divides(m)
  <2>1. m \in Nat
    OBVIOUS
  <2> QED BY <2>1, TwoToType, DividesFacts
<1>2. IsSlice(t, m)
  BY <1>1, TwistType
<1>3. \A i \in 0 .. n - 1 : t[i] = c[i] \odot ExpModFr(x, i) /\ c[i] \in Fr
  BY DEF Twist, IsSlice
<1>4. ys = Transform(t, z, m)
  OBVIOUS
<1> HIDE DEF t
<1>5. IsRoot(z, m)
  <2>1. /\ order - m \in Nat /\ (order - m) + m = order
    BY <1>1
  <2>2. IsRoot(w, order)
    BY DEF HasRoots, Powers
  <2> DEFINE r == order - m
  <2>3. r \in Nat /\ IsRoot(w, r + m)
    BY <2>1, <2>2
  <2> HIDE DEF r
  <2>4. IsRoot(ExpModFr(w, TwoTo(r)), m)
    BY <1>1, <2>3, RootOfRoot
  <2> QED BY <2>4 DEF r
<1>6. IsSlice(ys, m) /\ Coefficients(ys, z, m) = t
  BY <1>1, <1>2, <1>4, <1>5, TransformType, TransformUndone DEF IsRoot
<1>7. FromValues(fs, ys) = Coefficients(ys, z, m)
  BY <1>6, TransformsComputed
<1>8. ASSUME NEW i \in 0 .. n - 1
      PROVE  DivModFr(FromValues(fs, ys)[i], ExpModFr(x, i)) = c[i]
  <2>1. i \in Nat
    BY <1>1
  <2>2. ExpModFr(x, i) \in Fr /\ ExpModFr(x, i) # 0
    BY <2>1, PowerNotZero
  <2> QED BY <1>3, <1>6, <1>7, <2>2, FrCancel
<1>9. c = [i \in 0 .. n - 1 |-> c[i]]
  BY DEF IsSlice
<1> HIDE DEF n
<1>10. [i \in 0 .. n - 1 |-> DivModFr(FromValues(fs, ys)[i], ExpModFr(x, i))] = c
  BY <1>8, <1>9
<1> QED BY <1>10 DEF Interpolated, n

(* What CheckProofMulti asks of the commitment and the proof.              *)
LEMMA CheckIs ==
    ASSUME NEW d \in Data, NEW fs, fs = Settings[Length(d)], NEW m \in Nat, m <= Log(d),
           NEW ys, IsSlice(ys, m), NEW x \in Fr, NEW commitment \in Fr, NEW proof \in Fr,
           NEW r, r = Interpolated(fs, ys, x, m), IsSlice(r, m)
    PROVE  CheckProofMulti(fs, commitment, proof, x, ys) <=>
               commitment \ominus PolyAt(r, TwoTo(m), Secret)
                   = proof \odot (ExpModFr(Secret, TwoTo(m)) \ominus ExpModFr(x, TwoTo(m)))
<1> DEFINE n == TwoTo(m)
           s == Secret
           sn == ExpModFr(s, n)
           xn == ExpModFr(x, n)
           v == PolyAt(r, n, s)
<1>1. /\ n \in Nat /\ Length(ys) = n /\ s \in Fr /\ n \in 1 .. 2 * Length(d)
      /\ n \in 0 .. TwoTo(Log(d) + 1) - 1
  <2>1. n \in Nat /\ n > 0 /\ Length(ys) = n /\ s \in Fr
    BY TwoToType, SliceLength, SecretAssumption
  <2>2. 2 * Length(d) = TwoTo(Log(d) + 1) /\ Length(d) = TwoTo(Log(d)) /\ Length(d) \in Nat /\ Log(d) \in Nat
    BY DataFacts
  <2>3. m < Log(d) + 1 /\ Log(d) + 1 \in Nat
    BY <2>2
  <2>4. n < TwoTo(Log(d) + 1)
    BY <2>3, TwoToGrows
  <2> HIDE DEF n, s
  <2> QED BY <2>1, <2>2, <2>4
<1>2. r \in [0 .. n - 1 -> Fr]
  BY DEF IsSlice
<1>3. sn \in Fr /\ xn \in Fr /\ v \in Fr
  <2>1. \A i \in 0 .. n - 1 : r[i] \in Fr
    BY <1>2
  <2> HIDE DEF n, s
  <2> QED BY <1>1, <2>1, ExpType, PolyAtType
<1>4. CommitToPoly(fs, r) = v
  <2> HIDE DEF n
  <2> QED BY <1>1, <1>2, CommitToPolyIs
<1>5. fs.SecretG2[n] = sn
  <2>1. fs.SecretG2 = [i \in 0 .. TwoTo(Log(d) + 1) - 1 |-> ExpModFr(Secret, i)]
    BY SettingsFacts
  <2> HIDE DEF n
  <2> QED BY <1>1, <2>1
<1>6. SubG2(fs.SecretG2[n], MulG2(GenG2, xn)) = sn \ominus xn
  <2>1. MulG2(GenG2, xn) = xn
    BY <1>3, FrUnits DEF MulG2, GenG2
  <2> QED BY <1>5, <2>1 DEF SubG2
<1> DEFINE c == FourierTransform(fs, ys, TRUE)
           i == Slice([j \in 0 .. n - 1 |-> DivModFr(c[j], ExpModFr(x, j))])
<1>7. i = r
  BY SliceIs DEF Interpolated, FromValues
<1>8. CheckProofMulti(fs, commitment, proof, x, ys) <=>
          PairingsVerify(SubG1(commitment, CommitToPoly(fs, i)), GenG2, proof,
                         SubG2(fs.SecretG2[n], MulG2(GenG2, xn)))
  <2> HIDE DEF n
  <2> QED BY <1>1 DEF CheckProofMulti
<1> HIDE DEF i
<1>9. CheckProofMulti(fs, commitment, proof, x, ys) <=>
          MulModFr(commitment \ominus v, 1) = MulModFr(proof, sn \ominus xn)
  <2> HIDE DEF n, v, sn, xn
  <2> QED BY <1>4, <1>6, <1>7, <1>8 DEF PairingsVerify, SubG1, GenG2
<1>10. MulModFr(commitment \ominus v, 1) = commitment \ominus v
  <2> HIDE DEF v
  <2>1. commitment \ominus v \in Fr
    BY <1>3, FrClosed
  <2> QED BY <2>1, FrUnits
<1> QED BY <1>9, <1>10

-----------------------------------------------------------------------------
(* The samples.                                                            *)

(* The n values from place i * n on, in the reverse order and in that      *)
(* itself, and those at every stride-th place.                             *)
SubOf(e, i, n) == SubSlice(reverseBitOrder(e), i * n, (i + 1) * n)
Cut(e, i, n) == [j \in 0 .. n - 1 |-> e[i * n + j]]
Spread(e, p, stride, n) == [j \in 0 .. n - 1 |-> e[j * stride + p]]

(* The values a of sample i out of e, as sent and in the order of the      *)
(* points.                                                                 *)
SampleHas(a, e, i, r, m) ==
    /\ \A j \in 0 .. TwoTo(m) - 1 : i * TwoTo(m) + j \in 0 .. TwoTo(r + m) - 1
    /\ a = Cut(reverseBitOrder(e), i, TwoTo(m))
    /\ \A j \in 0 .. TwoTo(m) - 1 : a[j] = e[Rev(m, j) * TwoTo(r) + Rev(r, i)]
    /\ reverseBitOrder(a) = Spread(e, Rev(r, i), TwoTo(r), TwoTo(m))

(* A sub-slice of the data in reverse bit order, reversed again, is the    *)
(* coset of one place: every 2 ** r-th value from the reversed index on.   *)
LEMMA SampleIs ==
    ASSUME NEW m \in Nat, NEW r \in Nat, NEW e, DOMAIN e = 0 .. TwoTo(r + m) - 1,
           NEW i \in 0 .. TwoTo(r) - 1, NEW a, a = SubOf(e, i, TwoTo(m))
    PROVE  SampleHas(a, e, i, r, m)
<1> DEFINE l == TwoTo(m)
           n == TwoTo(r)
           k == r + m
           b == reverseBitOrder(e)
<1>1. /\ l \in Nat /\ n \in Nat /\ TwoTo(k) = n * l /\ TwoTo(k) = l * n /\ i \in Nat /\ k \in Nat
      /\ i * l \in Nat /\ (i + 1) * l - i * l - 1 = l - 1
  <2>1. l \in Nat /\ n \in Nat /\ k \in Nat
    BY TwoToType
  <2>2. TwoTo(k) = n * l
    BY TwoToAdds
  <2>3. \A x, y \in Nat : x * y = y * x /\ x * y \in Nat /\ (x + 1) * y - x * y - 1 = y - 1
    OBVIOUS
  <2> HIDE DEF l, n, k
  <2>4. i \in Nat
    BY <2>1 DEF n
  <2> QED BY <2>1, <2>2, <2>3, <2>4
<1>2. \A j \in 0 .. l - 1 : i * l + j \in 0 .. TwoTo(k) - 1
  <2>1. ASSUME NEW j \in 0 .. l - 1
        PROVE  i * l + j \in 0 .. TwoTo(k) - 1
    <3>1. j + i * l \in 0 .. n * l - 1
      <4> HIDE DEF l
      <4> QED BY <1>1, RowElement
    <3>2. j + i * l = i * l + j
      <4> HIDE DEF l
      <4> QED BY <1>1
    <3> QED BY <1>1, <3>1, <3>2
  <2> QED BY <2>1
<1>3. Rev(r, i) \in 0 .. n - 1 /\ Rev(r, i) \in Nat
  BY <1>1, RevTwice
<1>5. b = [h \in 0 .. TwoTo(k) - 1 |-> e[Rev(k, h)]]
  <2> HIDE DEF k
  <2> QED BY <1>1, ReverseIs DEF k
<1> HIDE DEF b
<1>6. a = [j \in 0 .. l - 1 |-> b[i * l + j]]
  <2>1. a = [j \in 0 .. (i + 1) * l - i * l - 1 |-> b[i * l + j]]
    BY SliceIs DEF SubOf, SubSlice, b
  <2> HIDE DEF l
  <2> QED BY <1>1, <2>1
<1>7. ASSUME NEW j \in 0 .. l - 1
      PROVE  a[j] = e[Rev(m, j) * n + Rev(r, i)]
  <2>1. a[j] = b[i * l + j]
    BY <1>6
  <2>2. b[i * l + j] = e[Rev(k, i * l + j)]
    <3> HIDE DEF l, n, k
    <3> QED BY <1>2, <1>5
  <2>3. Rev(k, i * l + j) = Rev(m, j) * n + Rev(r, i)
    <3>1. Rev(m + r, i * TwoTo(m) + j) = Rev(m, j) * TwoTo(r) + Rev(r, i)
      BY <1>1, RevSplits
    <3>2. m + r = k
      OBVIOUS
    <3> HIDE DEF k
    <3> QED BY <3>1, <3>2
  <2> QED BY <2>1, <2>2, <2>3
<1>8. reverseBitOrder(a) = [j \in 0 .. l - 1 |-> a[Rev(m, j)]]
  <2> DEFINE f == a
  <2>1. DOMAIN f = 0 .. TwoTo(m) - 1
    BY <1>6
  <2> HIDE DEF f
  <2>2. reverseBitOrder(f) = [j \in 0 .. TwoTo(m) - 1 |-> f[Rev(m, j)]]
    BY <2>1, ReverseIs
  <2> QED BY <2>2 DEF f
<1>9. ASSUME NEW j \in 0 .. l - 1
      PROVE  a[Rev(m, j)] = e[j * n + Rev(r, i)]
  <2>1. Rev(m, j) \in 0 .. l - 1 /\ Rev(m, Rev(m, j)) = j
    BY RevTwice
  <2> HIDE DEF l, n
  <2> QED BY <1>7, <2>1
<1>10. reverseBitOrder(a) = [j \in 0 .. l - 1 |-> e[j * n + Rev(r, i)]]
  <2> HIDE DEF l, n
  <2> QED BY <1>8, <1>9
<1> QED BY <1>2, <1>6, <1>7, <1>10 DEF SampleHas, Cut, Spread, l, n, k, b

(* What the receiver of a sample computes with: the point, the coefficients*)
(* left at its power and the order of the points.                          *)
PointOf(d, p) == ExpModFr(Root(d), p)
ResidueOf(d, q, m, p) == Residue(LowerPoly(d), q, m, ExpModFr(PointOf(d, p), TwoTo(m)))
CosetRoot(d, q) == ExpModFr(Root(d), TwoTo(q + 1))
SampleOf(d, q, m, p) == Spread(ExtendedOf(d), p, TwoTo(q + 1), TwoTo(m))

(* The values of a sample are those of the polynomial left.                *)
LEMMA SampleValues ==
    ASSUME NEW d \in Data, NEW q, NEW m, Width(d, q, m), NEW p \in 0 .. TwoTo(q + 1) - 1
    PROVE  /\ IsSlice(ResidueOf(d, q, m, p), m)
           /\ PointOf(d, p) \in Fr /\ PointOf(d, p) # 0 /\ IsRoot(CosetRoot(d, q), m)
           /\ SampleOf(d, q, m, p)
                  = Transform(Twist(ResidueOf(d, q, m, p), PointOf(d, p), m), CosetRoot(d, q), m)
<1> DEFINE w == Root(d)
           l == TwoTo(m)
           n == TwoTo(q + 1)
           x == ExpModFr(w, p)
           y == ExpModFr(x, l)
           z == ExpModFr(w, n)
           c == LowerPoly(d)
           b == Residue(c, q, m, y)
           e == ExtendedOf(d)
<1>1. /\ q \in Nat /\ m \in Nat /\ q + m = Log(d) /\ l \in Nat /\ n \in Nat /\ p \in Nat
      /\ q + 1 \in Nat /\ w \in Fr /\ IsSlice(c, q + m) /\ 2 * Length(d) = l * n
      /\ IsRoot(w, q + 1 + m) /\ q + 1 + m \in Nat
  <2>1. q \in Nat /\ m \in Nat /\ q + m = Log(d) /\ q + 1 \in Nat /\ q + 1 + m = Log(d) + 1
    BY DEF Width
  <2>2. l \in Nat /\ n \in Nat
    BY <2>1, TwoToType
  <2>3. TwoTo(q + 1 + m) = n * l
    BY <2>1, TwoToAdds
  <2>4. IsRoot(w, Log(d) + 1)
    BY SettingsFacts
  <2>5. w \in Fr /\ IsSlice(c, Log(d)) /\ 2 * Length(d) = TwoTo(Log(d) + 1)
    BY DataFacts, PolyFacts
  <2>6. p \in Nat
    BY <2>2
  <2> HIDE DEF w, l, n, c
  <2>7. n * l = l * n
    BY <2>2
  <2> QED BY <2>1, <2>2, <2>3, <2>4, <2>5, <2>6, <2>7
<1>2. x \in Fr /\ x # 0
  <2> DEFINE k == q + 1 + m
  <2>1. k \in Nat /\ IsRoot(w, k)
    BY <1>1
  <2> HIDE DEF k, w
  <2> QED BY <1>1, <2>1, RootNotZero
<1>3. y \in Fr /\ IsSlice(b, m)
  <2>1. y \in Fr
    <3> HIDE DEF x, l
    <3> QED BY <1>1, <1>2, ExpType
  <2> HIDE DEF y
  <2> QED BY <1>1, <2>1, ChunkElements
<1>4. IsRoot(z, m) /\ z \in Fr /\ ExpModFr(z, l) = 1
  <2> DEFINE r == q + 1
  <2>1. r \in Nat /\ IsRoot(w, r + m)
    BY <1>1
  <2> HIDE DEF r, w
  <2>2. IsRoot(ExpModFr(w, TwoTo(r)), m)
    BY <1>1, <2>1, RootOfRoot
  <2> QED BY <2>2 DEF r, IsRoot
<1> HIDE DEF w, l, n, x, y, z, c, b, e
<1>5. ASSUME NEW j \in 0 .. l - 1
      PROVE  e[j * n + p] = TransformAt(Twist(b, x, m), z, m, j)
  <2> DEFINE v == ExpModFr(z, j)
             u == x \odot v
  <2>1. j \in Nat /\ v \in Fr /\ u \in Fr
    <3>1. j \in Nat
      BY <1>1
    <3>2. v \in Fr
      BY <1>4, <3>1, ExpType
    <3> QED BY <1>2, <3>1, <3>2, FrClosed
  <2>2. j * n + p \in 0 .. 2 * Length(d) - 1
    <3>1. p \in 0 .. n - 1
      BY DEF n
    <3>2. p + j * n \in 0 .. l * n - 1
      BY <1>1, <3>1, RowElement
    <3>3. j * n \in Int
      BY <1>1, <2>1
    <3>4. p + j * n = j * n + p
      BY <1>1, <3>3
    <3> QED BY <1>1, <3>2, <3>4
  <2>3. ExpModFr(w, j * n + p) = u
    <3>1. n * j \in Nat /\ n * j + p = j * n + p
      <4>1. \A f, g \in Nat : f * g \in Nat /\ f * g = g * f
        OBVIOUS
      <4> QED BY <1>1, <2>1, <4>1
    <3>2. ExpModFr(w, n * j + p) = ExpModFr(w, n * j) \odot ExpModFr(w, p)
      BY <1>1, <3>1, ExpAdds
    <3>3. ExpModFr(w, n * j) = v
      BY <1>1, <2>1, ExpTimes DEF z
    <3>4. v \odot x = x \odot v
      BY <1>2, <2>1, FrCommutes
    <3> HIDE DEF v
    <3> QED BY <3>1, <3>2, <3>3, <3>4 DEF x
  <2>4. e[j * n + p] = PolyAt(c, TwoTo(q + m), u)
    <3>1. e[j * n + p] = PolyAt(LowerPoly(d), TwoTo(Log(d)), ExpModFr(Root(d), j * n + p))
      BY <2>2, ExtendedAt DEF e
    <3> QED BY <1>1, <2>3, <3>1 DEF c, w
  <2>5. ExpModFr(u, l) = y
    <3>1. ExpModFr(x \odot v, l) = ExpModFr(x, l) \odot ExpModFr(v, l)
      BY <1>1, <1>2, <2>1, ExpProduct
    <3>2. ExpModFr(v, l) = ExpModFr(z, j * l)
      BY <1>1, <1>4, <2>1, ExpTimes
    <3>3. ExpModFr(z, l * j) = ExpModFr(ExpModFr(z, l), j) /\ j * l = l * j
      BY <1>1, <1>4, <2>1, ExpTimes
    <3>4. ExpModFr(v, l) = 1
      BY <1>4, <2>1, <3>2, <3>3, ExpOfOne
    <3> QED BY <1>3, <3>1, <3>4, FrUnits DEF y
  <2> HIDE DEF u
  <2>6. PolyAt(Residue(c, q, m, ExpModFr(u, TwoTo(m))), TwoTo(m), u) = PolyAt(c, TwoTo(q + m), u)
    BY <1>1, <2>1, ResidueAt
  <2>7. PolyAt(b, l, u) = PolyAt(c, TwoTo(q + m), u)
    BY <2>5, <2>6 DEF b, l
  <2>8. TransformAt(Twist(b, x, m), z, m, j) = PolyAt(b, TwoTo(m), x \odot ExpModFr(z, j))
    BY <1>1, <1>2, <1>3, <1>4, <2>1, TwistedAt
  <2> QED BY <2>4, <2>7, <2>8 DEF u, l
<1>6. SampleOf(d, q, m, p) = Transform(Twist(b, x, m), z, m)
  BY <1>5 DEF SampleOf, Spread, Transform, e, l, n
<1> QED BY <1>2, <1>3, <1>4, <1>6 DEF PointOf, ResidueOf, CosetRoot, b, c, y, x, z, w, l, n

(* An unaltered sample passes the check.                                   *)
LEMMA SampleAccepted ==
    ASSUME NEW d \in Data, NEW fs, fs = Settings[Length(d)], NEW q, NEW m, Width(d, q, m),
           NEW p \in 0 .. TwoTo(q + 1) - 1
    PROVE  CheckProofMulti(fs, CommitOf(d), ProofsOf(d, q, m)[p], PointOf(d, p), SampleOf(d, q, m, p))
<1> DEFINE x == PointOf(d, p)
           c == ResidueOf(d, q, m, p)
           ys == SampleOf(d, q, m, p)
           order == Log(d) + 1
           w == Root(d)
           z == CosetRoot(d, q)
           proof == ProofsOf(d, q, m)[p]
<1>1. /\ q \in Nat /\ m \in Nat /\ m \in 0 .. order /\ order \in Nat /\ order - m = q + 1 /\ m <= Log(d)
      /\ HasRoots(fs, w, order) /\ Divides(order) /\ fs.MaxWidth = TwoTo(order)
  <2>1. q \in Nat /\ m \in Nat /\ q + m = Log(d) /\ Log(d) \in Nat
    BY DataFacts DEF Width
  <2>2. HasRoots(fs, w, order) /\ Divides(order) /\ fs.MaxWidth = TwoTo(order)
    BY SettingsFacts
  <2> QED BY <2>1, <2>2
<1>2. /\ IsSlice(c, m) /\ x \in Fr /\ x # 0 /\ IsRoot(z, m) /\ ys = Transform(Twist(c, x, m), z, m)
  BY SampleValues
<1>3. z = ExpModFr(w, TwoTo(order - m))
  BY <1>1 DEF CosetRoot
<1>4. /\ proof \in Fr /\ CommitOf(d) \in Fr
      /\ proof \odot (ExpModFr(Secret, TwoTo(m)) \ominus ExpModFr(x, TwoTo(m)))
             = CommitOf(d) \ominus PolyAt(c, TwoTo(m), Secret)
  BY ProofAt, CommitFacts DEF PointOf, ResidueOf
<1> HIDE DEF x, c, ys, order, w, z, proof
<1>5. Interpolated(fs, ys, x, m) = c
  BY <1>1, <1>2, <1>3, InterpolatedIs
<1>6. IsSlice(ys, m)
  <2>1. IsSlice(Twist(c, x, m), m)
    BY <1>1, <1>2, TwistType
  <2>2. z \in Fr
    BY <1>2 DEF IsRoot
  <2> QED BY <1>1, <1>2, <2>1, <2>2, TransformType
<1> DEFINE i == Interpolated(fs, ys, x, m)
           com == CommitOf(d)
<1>7. IsSlice(i, m) /\ i = c /\ com \in Fr
  BY <1>2, <1>4, <1>5
<1> HIDE DEF i, com
<1>8. CheckProofMulti(fs, com, proof, x, ys) <=>
          com \ominus PolyAt(i, TwoTo(m), Secret)
              = proof \odot (ExpModFr(Secret, TwoTo(m)) \ominus ExpModFr(x, TwoTo(m)))
  <2>1. i = Interpolated(fs, ys, x, m)
    BY DEF i
  <2> QED BY <1>1, <1>2, <1>4, <1>6, <1>7, <2>1, CheckIs
<1>9. CheckProofMulti(fs, com, proof, x, ys)
  BY <1>4, <1>7, <1>8 DEF com
<1> QED BY <1>9 DEF com, proof, x, ys

(* The sizes and proofs in a state, by the logarithms of the samples.      *)
Sampled(q, m) ==
    /\ Width(data, q, m) /\ data \in Data
    /\ cosetWidth = TwoTo(m) /\ size = TwoTo(q + 1 + m) /\ sampleCount = TwoTo(q + 1)
    /\ q + 1 \in Nat /\ m \in Nat /\ TwoTo(q + 1) \in Nat
    /\ \A i : domainPos(i) = Rev(q + 1, i)
    /\ ks = Settings[Length(data)]

(* The coset width of a run, in terms of the data.                         *)
LEMMA SampledFacts ==
    ASSUME SenderInv
    PROVE  \E q, m : Sampled(q, m)
<1>1. data \in Data /\ cosetWidth \in CosetWidth[Length(data)]
  BY DEF SenderInv, DataKept
<1>2. PICK q, m \in Nat : Width(data, q, m) /\ cosetWidth = TwoTo(m)
  BY <1>1, WidthFacts
<1>3. q + m = Log(data) /\ q + 1 \in Nat /\ q + 1 + m = Log(data) + 1
  BY <1>2 DEF Width
<1>4. size = TwoTo(q + 1 + m)
  BY <1>1, <1>3, DataFacts DEF size
<1>5. sampleCount = TwoTo(q + 1) /\ TwoTo(q + 1) \in Nat
  <2> DEFINE l == TwoTo(m)
             n == TwoTo(q + 1)
  <2>1. l \in Nat /\ l > 0 /\ n \in Nat /\ size = n * l
    BY <1>2, <1>3, <1>4, TwoToType, TwoToAdds
  <2> HIDE DEF l, n
  <2>2. n * l = l * n /\ l \in Nat \ {0}
    BY <2>1
  <2>3. size \div l = n
    BY <2>1, <2>2, FactorDivides
  <2>4. sampleCount = size \div l
    BY <1>2 DEF sampleCount, l
  <2> QED BY <2>1, <2>3, <2>4 DEF n
<1>6. \A i : domainPos(i) = Rev(q + 1, i)
  BY <1>5 DEF domainPos, Rev
<1>7. ks = Settings[Length(data)]
  BY DEF ks
<1>8. Sampled(q, m)
  BY <1>1, <1>2, <1>3, <1>4, <1>5, <1>6, <1>7 DEF Sampled
<1> QED BY <1>8

(* What Verifies looks at, once the proofs are made.                       *)
LEMMA SampleFacts ==
    ASSUME SenderInv, phase \notin {"data", "extended", "committed"}, NEW q, NEW m, Sampled(q, m),
           NEW i \in 0 .. sampleCount - 1
    PROVE  /\ domainPos(i) \in 0 .. TwoTo(q + 1) - 1
           /\ commit = CommitOf(data) /\ poly = PolyOf(data)
           /\ proofs = ProofsOf(data, q, m)
           /\ ks.ExpandedRootsOfUnity[domainPos(i)] = PointOf(data, domainPos(i))
           /\ DOMAIN extended = 0 .. TwoTo(q + 1 + m) - 1
           /\ reverseBitOrder(Sub(i)) = SampleOf(data, q, m, domainPos(i))
           /\ Sub(i) = Cut(reverseBitOrder(extended), i, TwoTo(m))
           /\ \A j \in 0 .. TwoTo(m) - 1 : i * TwoTo(m) + j \in 0 .. TwoTo(q + 1 + m) - 1
           /\ \A j \in 0 .. TwoTo(m) - 1 : Sub(i)[j] = SampleOf(data, q, m, domainPos(i))[Rev(m, j)]
<1> DEFINE r == q + 1
           d == data
           p == domainPos(i)
<1>1. /\ d \in Data /\ Width(d, q, m) /\ cosetWidth = TwoTo(m) /\ size = TwoTo(r + m)
      /\ r \in Nat /\ m \in Nat /\ i \in 0 .. TwoTo(r) - 1 /\ p = Rev(r, i)
      /\ ks = Settings[Length(d)] /\ TwoTo(r) \in Nat
  BY DEF Sampled
<1>2. p \in 0 .. TwoTo(r) - 1
  <2> HIDE DEF r, p
  <2> QED BY <1>1, RevTwice
<1>3. /\ commit = CommitOf(d) /\ poly = PolyOf(d) /\ extended = ExtendedOf(d)
      /\ proofs = FK20MultiDAOptimized(MultiSettings[Length(d)][cosetWidth], PolyOf(d))
  BY DEF SenderInv, ExtendedKept, CommitKept, ProofsKept
<1>4. MultiSettings[Length(d)][cosetWidth] = NewFK20MultiSettings(ks, 2 * Length(d), TwoTo(m))
  <2>1. Length(d) \in Lengths /\ cosetWidth \in CosetWidth[Length(d)]
    BY <1>1 DEF Lengths, SenderInv, DataKept
  <2> HIDE DEF d
  <2> QED BY <1>1, <2>1 DEF MultiSettings
<1>5. proofs = ProofsOf(d, q, m)
  <2> HIDE DEF d
  <2> QED BY <1>1, <1>3, <1>4, FK20MultiIs
<1>6. IsSlice(extended, r + m) /\ DOMAIN extended = 0 .. TwoTo(r + m) - 1
  <2>1. r + m = Log(d) + 1 /\ r + m \in Nat
    BY <1>1 DEF Width
  <2>2. IsSlice(extended, Log(d) + 1)
    BY <1>1, <1>3, PolyFacts
  <2> HIDE DEF r, d
  <2>3. IsSlice(extended, r + m)
    BY <2>1, <2>2
  <2> QED BY <2>1, <2>3, SliceLength
<1>7. ks.ExpandedRootsOfUnity[p] = PointOf(d, p)
  <2>1. Powers(ks.ExpandedRootsOfUnity, Root(d), r + m)
    <3>1. HasRoots(ks, Root(d), Log(d) + 1)
      BY <1>1, SettingsFacts
    <3>2. r + m = Log(d) + 1
      BY <1>1 DEF Width
    <3> QED BY <3>1, <3>2 DEF HasRoots
  <2>2. p \in 0 .. TwoTo(r + m)
    <3> DEFINE n == TwoTo(r)
               l == TwoTo(m)
    <3>1. n \in Nat /\ l \in Nat /\ l > 0 /\ TwoTo(r + m) = n * l
      BY <1>1, TwoToType, TwoToAdds
    <3>2. \A x, y \in Nat : y > 0 => x <= x * y
      OBVIOUS
    <3> HIDE DEF n, l
    <3>3. n <= n * l
      BY <3>1, <3>2
    <3>4. p \in 0 .. n - 1 /\ n * l \in Nat
      <4>1. \A x, y \in Nat : x * y \in Nat
        OBVIOUS
      <4> QED BY <1>2, <3>1, <4>1 DEF n
    <3> HIDE DEF p, r
    <3> QED BY <3>1, <3>3, <3>4
  <2> HIDE DEF d, p, r
  <2> QED BY <2>1, <2>2 DEF Powers, PointOf
<1> DEFINE a == SubOf(extended, i, TwoTo(m))
<1>8. Sub(i) = a
  BY <1>1 DEF Sub, SubOf
<1>9. /\ \A j \in 0 .. TwoTo(m) - 1 : i * TwoTo(m) + j \in 0 .. TwoTo(r + m) - 1
      /\ a = Cut(reverseBitOrder(extended), i, TwoTo(m))
      /\ \A j \in 0 .. TwoTo(m) - 1 : a[j] = extended[Rev(m, j) * TwoTo(r) + Rev(r, i)]
      /\ reverseBitOrder(a) = Spread(extended, Rev(r, i), TwoTo(r), TwoTo(m))
  <2> DEFINE e == extended
  <2>1. /\ m \in Nat /\ r \in Nat /\ DOMAIN e = 0 .. TwoTo(r + m) - 1 /\ i \in 0 .. TwoTo(r) - 1
        /\ a = SubOf(e, i, TwoTo(m))
    BY <1>1, <1>6
  <2> HIDE DEF r, d, p, a, e
  <2>2. SampleHas(a, e, i, r, m)
    BY <2>1, SampleIs
  <2> QED BY <2>2 DEF SampleHas, e
<1> HIDE DEF a
<1>10. reverseBitOrder(a) = SampleOf(d, q, m, p)
  BY <1>1, <1>3, <1>9 DEF SampleOf
<1>11. ASSUME NEW j \in 0 .. TwoTo(m) - 1
       PROVE  a[j] = SampleOf(d, q, m, p)[Rev(m, j)]
  <2>1. Rev(m, j) \in 0 .. TwoTo(m) - 1
    BY <1>1, RevTwice
  <2> HIDE DEF p, d
  <2> QED BY <1>1, <1>3, <1>9, <2>1 DEF SampleOf, Spread
<1> QED BY <1>2, <1>3, <1>5, <1>6, <1>7, <1>8, <1>9, <1>10, <1>11

(* Every sample that is sent unaltered is accepted, and DAUsingFK20Multi   *)
(* has the proofs in the order of the samples: for data and samples of any *)
(* length.                                                                 *)
THEOREM SamplesAreAccepted == Spec => []SamplesVerify
<1>1. SenderInv => SamplesVerify
  <2> SUFFICES ASSUME SenderInv, phase = "proved", NEW i \in 0 .. sampleCount - 1
               PROVE  /\ Verifies(i, Sub(i))
                      /\ DAUsingFK20Multi(MultiSettings[Length(data)][cosetWidth],
                             SubSlice(poly, 0, Length(data)))[i] = proofs[domainPos(i)]
    BY DEF SamplesVerify
  <2>1. PICK q, m : Sampled(q, m)
    BY SampledFacts
  <2> DEFINE p == domainPos(i)
             d == data
             fk == MultiSettings[Length(d)][cosetWidth]
             c == LowerPoly(d)
  <2>2. phase \notin {"data", "extended", "committed"}
    OBVIOUS
  <2>3. /\ p \in 0 .. TwoTo(q + 1) - 1 /\ commit = CommitOf(d) /\ poly = PolyOf(d)
        /\ proofs = ProofsOf(d, q, m) /\ ks.ExpandedRootsOfUnity[p] = PointOf(d, p)
        /\ reverseBitOrder(Sub(i)) = SampleOf(d, q, m, p)
    BY <2>1, <2>2, SampleFacts
  <2>4. /\ d \in Data /\ Width(d, q, m) /\ ks = Settings[Length(d)]
        /\ i \in 0 .. TwoTo(q + 1) - 1 /\ q + 1 \in Nat /\ p = Rev(q + 1, i)
    BY <2>1 DEF Sampled
  <2>5. Verifies(i, Sub(i))
    <3> HIDE DEF p, d
    <3>1. CheckProofMulti(ks, CommitOf(d), ProofsOf(d, q, m)[p], PointOf(d, p), SampleOf(d, q, m, p))
      BY <2>3, <2>4, SampleAccepted
    <3> QED BY <2>3, <3>1 DEF Verifies, p
  <2>6. proofs = FK20MultiDAOptimized(fk, PolyOf(d))
    BY <2>2 DEF SenderInv, ProofsKept
  <2>7. SubSlice(poly, 0, Length(d)) = c /\ padPoly(2 * Length(c), c) = PolyOf(d)
    <3>1. SubSlice(PolyOf(d), 0, Length(d)) = c
      BY <2>4, LowerIs
    <3>2. IsSlice(c, Log(d)) /\ Log(d) \in Nat /\ TwoTo(Log(d) + 1) = 2 * Length(d)
          /\ Length(d) = TwoTo(Log(d))
      BY <2>4, PolyFacts, DataFacts
    <3> HIDE DEF c, d
    <3>3. Length(c) = Length(d)
      BY <3>2, SliceLength
    <3>4. padPoly(TwoTo(Log(d) + 1), c) = Padded(c, Log(d))
      BY <3>2, PadPolyIs
    <3> QED BY <2>3, <3>1, <3>2, <3>3, <3>4 DEF PolyOf, c
  <2>8. DAUsingFK20Multi(fk, c) = reverseBitOrder(proofs)
    <3> HIDE DEF fk, c, d
    <3> QED BY <2>6, <2>7 DEF DAUsingFK20Multi
  <2>9. reverseBitOrder(proofs)[i] = proofs[p]
    <3>1. DOMAIN proofs = 0 .. TwoTo(q + 1) - 1
      BY <2>3 DEF ProofsOf, Transform
    <3>2. reverseBitOrder(proofs) = [j \in 0 .. TwoTo(q + 1) - 1 |-> proofs[Rev(q + 1, j)]]
      <4> DEFINE r == q + 1
      <4>1. r \in Nat /\ DOMAIN proofs = 0 .. TwoTo(r) - 1
        BY <2>4, <3>1
      <4> HIDE DEF r
      <4>2. reverseBitOrder(proofs) = [j \in 0 .. TwoTo(r) - 1 |-> proofs[Rev(r, j)]]
        BY <4>1, ReverseIs
      <4> QED BY <4>2 DEF r
    <3> HIDE DEF p
    <3> QED BY <2>4, <3>2
  <2> QED BY <2>5, <2>7, <2>8, <2>9
<1> QED BY <1>1, SenderKeepsWhatDataGives, PTL

-----------------------------------------------------------------------------
(* Long division by x minus a point.                                       *)

(* The divisor of ComputeProofSingle, and a round of polyLongDiv.          *)
Linear(x) == Slice([i \in 0 .. 1 |-> IF i = 0 THEN SubModFr(0, x) ELSE 1])
RoundOf(dividend, divisor, bPos, steps, k, before) ==
    LET diff == steps - k
        quot == DivModFr(before.a[diff + bPos], divisor[bPos])
    IN  [a |-> Slice([i \in DOMAIN dividend |->
                   IF i - diff \in 0 .. bPos
                   THEN SubModFr(before.a[i], MulModFr(quot, divisor[i - diff]))
                   ELSE before.a[i]]),
         out |-> [before.out EXCEPT ![diff] = quot]]
StartOf(dividend, steps) == [a |-> dividend, out |-> Slice([i \in 0 .. steps - 1 |-> 0])]
RunOf(dividend, divisor, bPos, steps) ==
    CHOOSE g : g = [k \in 0 .. steps |->
                        IF k = 0 THEN StartOf(dividend, steps)
                        ELSE RoundOf(dividend, divisor, bPos, steps, k, g[k - 1])]

(* What a and out are after k rounds: a coefficient of the quotient is one *)
(* of the dividend and x times the next one of the quotient.               *)
Horner(c, out, x, n, j) == IF j = n THEN c[n] ELSE c[j] \oplus (x \odot out[j])
DivisionStates(n) == [a : [0 .. n -> Fr], out : [0 .. n - 1 -> Fr]]
Divided(c, x, n, k) ==
    {st \in DivisionStates(n) :
        /\ \A i \in 0 .. n - k - 1 : st.a[i] = c[i]
        /\ st.a[n - k] = Horner(c, st.out, x, n, n - k)
        /\ \A j \in n - k .. n - 1 : st.out[j] = Horner(c, st.out, x, n, j + 1)}

(* The divisor x minus a point has the point, negated, and 1 as its        *)
(* coefficients; dividing by its leading one changes nothing.              *)
LEMMA LinearIs ==
    ASSUME NEW x \in Fr
    PROVE  /\ Linear(x)[0] = 0 \ominus x /\ Linear(x)[1] = 1 /\ Length(Linear(x)) = 2
           /\ \A v \in Fr : DivModFr(v, Linear(x)[1]) = v
<1> DEFINE f == [i \in 0 .. 1 |-> IF i = 0 THEN SubModFr(0, x) ELSE 1]
<1>1. Linear(x) = f
  BY SliceIs DEF Linear
<1>2. f[0] = 0 \ominus x /\ f[1] = 1 /\ DOMAIN f = 0 .. 2 - 1
  OBVIOUS
<1> HIDE DEF f
<1>3. Length(f) = 2
  <2> DEFINE n == 2
  <2>1. n \in Nat /\ DOMAIN f = 0 .. n - 1
    BY <1>2
  <2> HIDE DEF n
  <2>2. Length(f) = n
    BY <2>1, LengthIs
  <2> QED BY <2>2 DEF n
<1>4. \A v \in Fr : DivModFr(v, 1) = v
  <2>1. SUFFICES ASSUME NEW v \in Fr PROVE DivModFr(v, 1) = v
    OBVIOUS
  <2>2. 1 \in Fr /\ 1 # 0 /\ v \odot 1 = v
    BY ModulusFacts, FrUnits
  <2> DEFINE u == 1
  <2>3. u \in Fr /\ u # 0 /\ v \odot u = v
    BY <2>2
  <2> HIDE DEF u
  <2>4. DivModFr(v \odot u, u) = v
    BY <2>3, FrCancel
  <2> QED BY <2>3, <2>4 DEF u
<1> QED BY <1>1, <1>2, <1>3, <1>4

(* A round keeps that.                                                     *)
LEMMA RoundDivides ==
    ASSUME NEW n \in Nat \ {0}, NEW c \in [0 .. n -> Fr], NEW x \in Fr, NEW k \in 1 .. n,
           NEW st \in Divided(c, x, n, k - 1)
    PROVE  RoundOf(c, Linear(x), 1, n, k, st) \in Divided(c, x, n, k)
<1> DEFINE D == Linear(x)
           diff == n - k
           quot == DivModFr(st.a[diff + 1], D[1])
           a == [i \in 0 .. n |-> IF i - diff \in 0 .. 1
                                  THEN SubModFr(st.a[i], MulModFr(quot, D[i - diff]))
                                  ELSE st.a[i]]
           out == [st.out EXCEPT ![diff] = quot]
<1>1. /\ st.a \in [0 .. n -> Fr] /\ st.out \in [0 .. n - 1 -> Fr]
      /\ \A i \in 0 .. n - k : st.a[i] = c[i]
      /\ st.a[n - k + 1] = Horner(c, st.out, x, n, n - k + 1)
      /\ \A j \in n - k + 1 .. n - 1 : st.out[j] = Horner(c, st.out, x, n, j + 1)
  <2>1. n - (k - 1) - 1 = n - k /\ n - (k - 1) = n - k + 1
    OBVIOUS
  <2> QED BY <2>1 DEF Divided, DivisionStates
<1>2. diff \in 0 .. n - 1 /\ diff + 1 \in 1 .. n /\ diff + 1 \in 0 .. n /\ diff \in 0 .. n
  OBVIOUS
<1>3. quot = st.a[diff + 1] /\ quot \in Fr
  <2>1. st.a[diff + 1] \in Fr
    BY <1>1, <1>2
  <2> HIDE DEF D, diff
  <2> QED BY <2>1, LinearIs DEF D
<1>4. RoundOf(c, Linear(x), 1, n, k, st) = [a |-> a, out |-> out]
  <2>1. DOMAIN c = 0 .. n
    OBVIOUS
  <2> QED BY <2>1, SliceIs DEF RoundOf
<1>5. D[0] = 0 \ominus x /\ D[1] = 1
  BY LinearIs
<1> HIDE DEF D
<1>6. /\ out \in [0 .. n - 1 -> Fr] /\ out[diff] = quot
      /\ \A j \in 0 .. n - 1 : j # diff => out[j] = st.out[j]
  <2> HIDE DEF quot, diff
  <2> QED BY <1>1, <1>2, <1>3
<1>7. /\ a[diff] = SubModFr(st.a[diff], MulModFr(quot, D[0]))
      /\ a[diff + 1] = SubModFr(st.a[diff + 1], MulModFr(quot, D[1]))
      /\ \A i \in 0 .. n : i # diff /\ i # diff + 1 => a[i] = st.a[i]
  <2>1. diff - diff = 0 /\ (diff + 1) - diff = 1
        /\ \A i \in 0 .. n : i # diff /\ i # diff + 1 => i - diff \notin 0 .. 1
    BY <1>2
  <2> HIDE DEF quot, diff
  <2> QED BY <1>2, <2>1
<1>8. a[diff] = c[diff] \oplus (x \odot quot) /\ a[diff] \in Fr /\ a[diff + 1] \in Fr
  <2> DEFINE v == c[diff]
             y == quot
  <2>1. v \in Fr /\ y \in Fr /\ st.a[diff] = v /\ 0 \in Fr /\ 1 \in Fr /\ x \odot y \in Fr
        /\ y \odot x \in Fr /\ y \odot x = x \odot y
    <3>1. v \in Fr /\ y \in Fr /\ st.a[diff] = v
      <4> HIDE DEF quot, diff
      <4> QED BY <1>1, <1>2, <1>3 DEF diff
    <3> HIDE DEF v, y
    <3> QED BY <3>1, ModulusFacts, FrClosed, FrCommutes
  <2>2. a[diff] = v \ominus (y \odot (0 \ominus x)) /\ a[diff + 1] = y \ominus (y \odot 1)
    BY <1>3, <1>5, <1>7, <2>1
  <2> HIDE DEF v, y, a, diff
  <2> DEFINE u == x \odot y
             z == 0
  <2>3. y \odot (0 \ominus x) = 0 \ominus u
    <3>1. z \in Fr /\ y \odot z = z
      BY <2>1, FrUnits
    <3> HIDE DEF z
    <3>2. y \odot (z \ominus x) = (y \odot z) \ominus (y \odot x)
      BY <2>1, <3>1, FrDifferences
    <3> QED BY <2>1, <3>1, <3>2 DEF z
  <2>4. v \ominus (0 \ominus u) = v \oplus u
    <3>1. v \in 0 .. Modulus - 1 /\ u \in 0 .. Modulus - 1 /\ Modulus \in Nat /\ Modulus > 1
      BY <2>1, ModulusFacts DEF Fr
    <3> HIDE DEF u, z
    <3> DEFINE t == 0 \ominus u
    <3>2. t \in Fr /\ t \oplus u = 0
      BY <2>1, <3>1, FrClosed, FrDifference DEF u
    <3> HIDE DEF t
    <3>3. u \in Fr
      BY <3>1 DEF Fr
    <3>4. (v \oplus u) \ominus (t \oplus u) = (v \ominus t) \oplus (u \ominus u)
      BY <2>1, <3>2, <3>3, FrDifferences
    <3>5. u \ominus u = 0 /\ v \oplus u \in Fr /\ v \ominus t \in Fr
      BY <2>1, <3>2, <3>3, FrUnits, FrClosed
    <3>6. v \oplus u = v \ominus t
      BY <3>2, <3>4, <3>5, FrUnits
    <3> QED BY <3>6 DEF t
  <2>5. a[diff] = v \oplus u
    BY <2>2, <2>3, <2>4
  <2>6. a[diff] \in Fr /\ a[diff + 1] \in Fr
    <3>1. u \in Fr /\ y \odot 1 \in Fr
      BY <2>1, FrClosed
    <3> HIDE DEF u
    <3> QED BY <2>1, <2>2, <2>5, <3>1, FrClosed
  <2> QED BY <2>5, <2>6 DEF v, y
<1>9. a \in [0 .. n -> Fr]
  <2>1. \A i \in 0 .. n : a[i] \in Fr
    <3> HIDE DEF a, diff
    <3> QED BY <1>1, <1>7, <1>8
  <2>2. a = [i \in 0 .. n |-> a[i]]
    OBVIOUS
  <2> HIDE DEF a
  <2> QED BY <2>1, <2>2
<1>10. Horner(c, out, x, n, diff) = c[diff] \oplus (x \odot quot)
  <2>1. diff # n
    BY <1>2
  <2> HIDE DEF out, diff, quot
  <2> QED BY <1>6, <2>1 DEF Horner
<1>11. \A j \in 0 .. n : j # diff => Horner(c, out, x, n, j) = Horner(c, st.out, x, n, j)
  <2> HIDE DEF out, diff, quot
  <2> QED BY <1>6 DEF Horner
<1>12. \A j \in diff .. n - 1 : out[j] = Horner(c, out, x, n, j + 1)
  <2>1. ASSUME NEW j \in diff .. n - 1
        PROVE  out[j] = Horner(c, out, x, n, j + 1)
    <3>1. j \in 0 .. n - 1 /\ j + 1 \in 0 .. n /\ j + 1 # diff
      BY <1>2
    <3>2. Horner(c, out, x, n, j + 1) = Horner(c, st.out, x, n, j + 1)
      <4> HIDE DEF out, diff, quot
      <4> QED BY <1>11, <3>1
    <3>3. CASE j = diff
      <4>1. Horner(c, st.out, x, n, diff + 1) = quot
        BY <1>1, <1>3
      <4> HIDE DEF out, diff, quot
      <4> QED BY <1>6, <3>2, <3>3, <4>1
    <3>4. CASE j # diff
      <4>1. st.out[j] = Horner(c, st.out, x, n, j + 1)
        <5>1. j \in n - k + 1 .. n - 1
          BY <1>2, <3>4
        <5> QED BY <1>1, <5>1
      <4> HIDE DEF out, diff, quot
      <4> QED BY <1>6, <3>1, <3>2, <3>4, <4>1
    <3> QED BY <3>3, <3>4
  <2> QED BY <2>1
<1>13. \A i \in 0 .. n - k - 1 : a[i] = c[i]
  <2>1. ASSUME NEW i \in 0 .. n - k - 1
        PROVE  a[i] = c[i]
    <3>1. i \in 0 .. n /\ i \in 0 .. n - k /\ i # diff /\ i # diff + 1
      BY <1>2
    <3> HIDE DEF a, diff
    <3> QED BY <1>1, <1>7, <3>1
  <2> QED BY <2>1
<1> DEFINE new == [a |-> a, out |-> out]
<1>14. new.a = a /\ new.out = out /\ new \in DivisionStates(n)
  <2> HIDE DEF a, out
  <2> QED BY <1>6, <1>9 DEF DivisionStates
<1>15. new.a[n - k] = Horner(c, new.out, x, n, n - k)
  <2>1. diff = n - k
    OBVIOUS
  <2> HIDE DEF new, a, out, quot, diff
  <2> QED BY <1>8, <1>10, <1>14, <2>1
<1>16. \A j \in n - k .. n - 1 : new.out[j] = Horner(c, new.out, x, n, j + 1)
  <2> HIDE DEF new, a, out, quot
  <2> QED BY <1>12, <1>14
<1>17. new \in Divided(c, x, n, k)
  <2> HIDE DEF new, a, out
  <2> QED BY <1>13, <1>14, <1>15, <1>16 DEF Divided
<1> QED BY <1>4, <1>17

(* The quotient polyLongDiv answers.                                       *)
LEMMA LongDivisionIs ==
    ASSUME NEW n \in Nat \ {0}, NEW c \in [0 .. n -> Fr], NEW x \in Fr, NEW h,
           h = polyLongDiv(c, Linear(x))
    PROVE  h \in [0 .. n - 1 -> Fr] /\ \A j \in 0 .. n - 1 : h[j] = Horner(c, h, x, n, j + 1)
<1> DEFINE D == Linear(x)
           round(k, before) == RoundOf(c, D, 1, n, k, before)
           V == [k \in 0 .. n |-> Divided(c, x, n, k)]
           step == [k \in 1 .. n |-> [st \in Divided(c, x, n, k - 1) |-> round(k, st)]]
           v0 == StartOf(c, n)
           F(g) == g = [k \in 0 .. n |-> IF k = 0 THEN v0 ELSE round(k, g[k - 1])]
           run == CHOOSE g : F(g)
<1>1. polyLongDiv(c, D) = run[n].out
  <2>1. Length(c) = n + 1
    <3> DEFINE l == n + 1
    <3>1. l \in Nat /\ DOMAIN c = 0 .. l - 1
      OBVIOUS
    <3> HIDE DEF l
    <3>2. Length(c) = l
      BY <3>1, LengthIs
    <3> QED BY <3>2 DEF l
  <2>2. Length(D) = 2
    BY LinearIs
  <2> DEFINE bPos == Length(D) - 1
             steps == Length(c) - bPos
  <2>3. polyLongDiv(c, D) = RunOf(c, D, bPos, steps)[steps].out
    <3> HIDE DEF D
    <3> QED BY DEF polyLongDiv, RunOf, RoundOf, StartOf
  <2>4. bPos = 1 /\ steps = n
    <3> HIDE DEF D
    <3> QED BY <2>1, <2>2
  <2> HIDE DEF bPos, steps, D
  <2>5. RunOf(c, D, 1, n) = run
    BY DEF RunOf
  <2> QED BY <2>3, <2>4, <2>5
<1>2. \A k \in 1 .. n : \A st \in V[k - 1] : step[k][st] = round(k, st) /\ round(k, st) \in V[k]
  <2>1. ASSUME NEW k \in 1 .. n, NEW st \in V[k - 1]
        PROVE  step[k][st] = round(k, st) /\ round(k, st) \in V[k]
    <3>1. V[k - 1] = Divided(c, x, n, k - 1) /\ V[k] = Divided(c, x, n, k)
      OBVIOUS
    <3>2. round(k, st) \in Divided(c, x, n, k)
      BY <3>1, RoundDivides
    <3> HIDE DEF round, V
    <3> QED BY <3>1, <3>2
  <2> QED BY <2>1
<1>3. v0 \in V[0]
  <2> DEFINE zeros == [i \in 0 .. n - 1 |-> 0]
  <2>1. v0 = [a |-> c, out |-> zeros]
    BY SliceIs DEF StartOf
  <2>2. zeros \in [0 .. n - 1 -> Fr]
    BY ModulusFacts
  <2> HIDE DEF zeros, v0
  <2>3. v0.a = c /\ v0.out = zeros /\ v0 \in DivisionStates(n)
    BY <2>1, <2>2 DEF DivisionStates
  <2>4. /\ \A i \in 0 .. n - 0 - 1 : v0.a[i] = c[i]
        /\ v0.a[n - 0] = Horner(c, v0.out, x, n, n - 0)
        /\ \A j \in n - 0 .. n - 1 : v0.out[j] = Horner(c, v0.out, x, n, j + 1)
    BY <2>3 DEF Horner
  <2> QED BY <2>3, <2>4 DEF Divided
<1> HIDE DEF D, round, V, step, v0
<1>4. PICK g : Loop(g, n, V, v0, step)
  BY <1>2, <1>3, LoopRuns
<1>5. F(g)
  <2>1. \A k \in 0 .. n : g[k] \in V[k]
    BY <1>4 DEF Loop
  <2>2. ASSUME NEW k \in 0 .. n
        PROVE  (IF k = 0 THEN v0 ELSE step[k][g[k - 1]])
                   = IF k = 0 THEN v0 ELSE round(k, g[k - 1])
    BY <1>2, <2>1
  <2>3. g = [k \in 0 .. n |-> IF k = 0 THEN v0 ELSE step[k][g[k - 1]]]
    BY <1>4 DEF Loop
  <2>4. [k \in 0 .. n |-> IF k = 0 THEN v0 ELSE step[k][g[k - 1]]]
            = [k \in 0 .. n |-> IF k = 0 THEN v0 ELSE round(k, g[k - 1])]
    BY <2>2
  <2> QED BY <2>3, <2>4
<1>6. F(run)
  <2> HIDE DEF F
  <2> QED BY <1>5
<1>7. \A k \in 0 .. n : run[k] = g[k]
  <2>1. /\ run[0] = v0
        /\ \A k \in 1 .. n : run[k] = round(k, run[k - 1])
    <3> HIDE DEF run
    <3> QED BY <1>6
  <2>2. Follows(run, n, V, v0, step)
    <3> HIDE DEF run, F
    <3> QED BY <1>2, <2>1 DEF Follows
  <2> HIDE DEF run, F
  <2> QED BY <1>4, <2>2, LoopFollowed
<1>8. h = g[n].out /\ g[n] \in Divided(c, x, n, n)
  <2>1. n \in 0 .. n
    OBVIOUS
  <2>2. g[n] \in V[n]
    BY <1>4, <2>1 DEF Loop
  <2>3. h = run[n].out
    BY <1>1 DEF D
  <2> HIDE DEF run
  <2> QED BY <1>7, <2>1, <2>2, <2>3 DEF V
<1>9. n - n = 0
  OBVIOUS
<1> QED BY <1>8, <1>9 DEF Divided, DivisionStates

(* A difference the other way round.                                       *)
LEMMA FrTurns == \A p, q, u, v \in Fr : p \ominus q = u \ominus v => q \ominus p = v \ominus u
<1>1. SUFFICES ASSUME NEW p \in Fr, NEW q \in Fr, NEW u \in Fr, NEW v \in Fr,
                      p \ominus q = u \ominus v
               PROVE  q \ominus p = v \ominus u
  OBVIOUS
<1> DEFINE z == p \ominus q
           a == q \ominus p
           b == v \ominus u
<1>2. z \oplus a = 0 /\ z \oplus b = 0
  <2>1. z \oplus a = q \ominus q /\ (u \ominus v) \oplus b = v \ominus v
    BY FrTelescopes
  <2> QED BY <1>1, <2>1, FrUnits
<1>3. z \in Fr /\ a \in Fr /\ b \in Fr
  BY FrClosed
<1> HIDE DEF z, a, b
<1>4. (z \oplus a) \ominus (z \oplus b) = (z \ominus z) \oplus (a \ominus b)
  BY <1>3, FrDifferences
<1>5. a \ominus b = 0
  <2>1. z \ominus z = 0 /\ a \ominus b \in Fr /\ 0 \ominus 0 = 0
    BY <1>3, FrUnits, FrClosed, ModulusFacts
  <2>2. 0 \oplus (a \ominus b) = a \ominus b
    BY <2>1, FrUnits
  <2> QED BY <1>2, <1>4, <2>1, <2>2
<1>6. a = b
  BY <1>3, <1>5, FrDifferences
<1> QED BY <1>6 DEF a, b

(* The quotient, at s, times what s is off the point is what the values    *)
(* there differ by.                                                        *)
THEOREM LongDivisionAt ==
    ASSUME NEW n \in Nat \ {0}, NEW c \in [0 .. n -> Fr], NEW x \in Fr, NEW s \in Fr, NEW h,
           h = polyLongDiv(c, Linear(x))
    PROVE  /\ h \in [0 .. n - 1 -> Fr] /\ PolyAt(h, n, s) \in Fr
           /\ PolyAt(h, n, s) \odot (s \ominus x) = PolyAt(c, n + 1, s) \ominus PolyAt(c, n + 1, x)
<1> DEFINE N == n + 1
           H == [j \in 0 .. N |-> IF j = N THEN 0
                                  ELSE IF j = 0 THEN c[0] \oplus (x \odot h[0]) ELSE h[j - 1]]
           G == [j \in 0 .. n |-> H[j + 1]]
<1>1. h \in [0 .. n - 1 -> Fr] /\ \A j \in 0 .. n - 1 : h[j] = Horner(c, h, x, n, j + 1)
  BY LongDivisionIs
<1>2. N \in Nat /\ N = n + 1 /\ 0 \in Fr /\ 0 \in 0 .. n - 1 /\ N - 1 = n
  BY ModulusFacts
<1>3. /\ H[N] = 0 /\ H[0] = c[0] \oplus (x \odot h[0])
      /\ \A j \in 1 .. n : H[j] = h[j - 1]
  OBVIOUS
<1>4. \A j \in 0 .. n : G[j] = H[j + 1]
  OBVIOUS
<1> HIDE DEF H, G, N
<1>5. \A j \in 0 .. N : H[j] \in Fr
  <2>1. H[0] \in Fr
    <3>1. c[0] \in Fr /\ h[0] \in Fr
      BY <1>1, <1>2
    <3> QED BY <1>3, <3>1, FrClosed
  <2>2. \A j \in 1 .. n : h[j - 1] \in Fr
    BY <1>1
  <2> QED BY <1>2, <1>3, <2>1, <2>2
<1>6. \A j \in 0 .. N - 1 : c[j] \in Fr /\ H[j] = c[j] \oplus (x \odot H[j + 1]) /\ G[j] = H[j + 1]
  <2>1. SUFFICES ASSUME NEW j \in 0 .. n
                 PROVE  c[j] \in Fr /\ H[j] = c[j] \oplus (x \odot H[j + 1]) /\ G[j] = H[j + 1]
    BY <1>2
  <2>2. c[j] \in Fr /\ G[j] = H[j + 1]
    BY <1>4
  <2>3. CASE j = 0
    <3>1. H[1] = h[0]
      <4>1. 1 \in 1 .. n /\ 1 - 1 = 0
        OBVIOUS
      <4> QED BY <1>3, <4>1
    <3> QED BY <1>3, <2>2, <2>3, <3>1
  <2>4. CASE j \in 1 .. n - 1
    <3>1. H[j] = h[j - 1] /\ H[j + 1] = h[j]
      <4>1. j \in 1 .. n /\ j + 1 \in 1 .. n /\ (j + 1) - 1 = j
        BY <2>4
      <4> QED BY <1>3, <4>1
    <3>2. h[j - 1] = Horner(c, h, x, n, j)
      <4>1. j - 1 \in 0 .. n - 1 /\ (j - 1) + 1 = j
        BY <2>4
      <4> QED BY <1>1, <4>1
    <3>3. j # n
      BY <2>4
    <3> QED BY <2>2, <3>1, <3>2, <3>3 DEF Horner
  <2>5. CASE j = n /\ j # 0
    <3>1. H[n] = h[n - 1] /\ H[n + 1] = 0
      <4>1. n \in 1 .. n
        OBVIOUS
      <4> QED BY <1>2, <1>3, <4>1
    <3>2. h[n - 1] = Horner(c, h, x, n, n)
      <4>1. n - 1 \in 0 .. n - 1 /\ (n - 1) + 1 = n
        OBVIOUS
      <4> QED BY <1>1, <4>1
    <3>3. c[n] \oplus (x \odot 0) = c[n]
      BY <2>2, <2>5, FrUnits
    <3> QED BY <2>2, <2>5, <3>1, <3>2, <3>3 DEF Horner
  <2> QED BY <2>3, <2>4, <2>5
<1>7. \A y \in Fr : /\ PolyAt(G, N, y) \odot (x \ominus y) = H[0] \ominus PolyAt(c, N, y)
                    /\ PolyAt(G, N, y) \in Fr /\ PolyAt(c, N, y) \in Fr
  <2>1. SUFFICES ASSUME NEW y \in Fr
                 PROVE  /\ PolyAt(G, N, y) \odot (x \ominus y) = H[0] \ominus PolyAt(c, N, y)
                        /\ PolyAt(G, N, y) \in Fr /\ PolyAt(c, N, y) \in Fr
    OBVIOUS
  <2>2. PolyAt(G, N, y) \odot (x \ominus y) = H[0] \ominus PolyAt(c, N, y)
    <3> DEFINE f == c
    <3>1. /\ N \in Nat /\ H[N] = 0 /\ \A j \in 0 .. N : H[j] \in Fr
          /\ \A j \in 0 .. N - 1 : f[j] \in Fr /\ H[j] = f[j] \oplus (x \odot H[j + 1])
                                   /\ G[j] = H[j + 1]
      BY <1>2, <1>3, <1>5, <1>6
    <3> HIDE DEF f
    <3>2. PolyAt(G, N, y) \odot (x \ominus y) = H[0] \ominus PolyAt(f, N, y)
      BY <3>1, Telescope
    <3> QED BY <3>2 DEF f
  <2>3. /\ \A j \in 0 .. N - 1 : G[j] \in Fr
        /\ \A j \in 0 .. N - 1 : c[j] \in Fr
    <3>1. \A j \in 0 .. N - 1 : j + 1 \in 0 .. N
      BY <1>2
    <3> QED BY <1>5, <1>6, <3>1
  <2>4. PolyAt(G, N, y) \in Fr /\ PolyAt(c, N, y) \in Fr
    BY <1>2, <2>3, PolyAtType
  <2> QED BY <2>2, <2>4
<1>8. H[0] = PolyAt(c, N, x)
  <2> DEFINE a == PolyAt(c, N, x)
             b == PolyAt(G, N, x)
  <2>1. b \odot (x \ominus x) = H[0] \ominus a /\ a \in Fr /\ b \in Fr /\ H[0] \in Fr
    BY <1>2, <1>5, <1>7
  <2> HIDE DEF a, b
  <2>2. x \ominus x = 0 /\ b \odot 0 = 0
    BY <2>1, FrUnits
  <2>3. H[0] = a
    BY <2>1, <2>2, FrDifferences
  <2> QED BY <2>3 DEF a
<1>9. PolyAt(G, N, s) = PolyAt(h, n, s)
  <2> DEFINE m == 1
  <2>1. /\ m \in Nat /\ n \in Nat /\ N = n + m
        /\ \A i \in 0 .. n - 1 : h[i] \in Fr /\ G[i] = h[i]
        /\ \A i \in n .. n + m - 1 : G[i] = 0
    <3>1. \A i \in 0 .. n - 1 : h[i] \in Fr /\ G[i] = h[i]
      <4>1. \A i \in 0 .. n - 1 : i \in 0 .. n /\ i + 1 \in 1 .. n /\ (i + 1) - 1 = i
        OBVIOUS
      <4> QED BY <1>1, <1>3, <1>4, <4>1
    <3>2. G[n] = 0
      <4>1. n \in 0 .. n
        OBVIOUS
      <4> QED BY <1>2, <1>3, <1>4, <4>1
    <3> QED BY <1>2, <3>1, <3>2
  <2> HIDE DEF m
  <2>2. PolyAt(G, n + m, s) = PolyAt(h, n, s)
    BY <2>1, PolyAtZeros
  <2> QED BY <2>1, <2>2
<1> DEFINE a == PolyAt(h, n, s)
           u == PolyAt(c, N, s)
           v == PolyAt(c, N, x)
<1>10. a \in Fr /\ u \in Fr /\ v \in Fr /\ a \odot (x \ominus s) = v \ominus u
  BY <1>7, <1>8, <1>9
<1> HIDE DEF a, u, v
<1>11. a \odot (s \ominus x) = u \ominus v
  <2>1. /\ a \odot (x \ominus s) = (a \odot x) \ominus (a \odot s)
        /\ a \odot (s \ominus x) = (a \odot s) \ominus (a \odot x)
        /\ a \odot x \in Fr /\ a \odot s \in Fr
    <3>1. a \odot x \in Fr /\ a \odot s \in Fr
      BY <1>10, FrClosed
    <3>2. a \odot (x \ominus s) = (a \odot x) \ominus (a \odot s)
      BY <1>10, FrDifferences
    <3>3. a \odot (s \ominus x) = (a \odot s) \ominus (a \odot x)
      BY <1>10, FrDifferences
    <3> QED BY <3>1, <3>2, <3>3
  <2> DEFINE p == a \odot x
             q == a \odot s
  <2>2. p \in Fr /\ q \in Fr /\ p \ominus q = v \ominus u
    BY <1>10, <2>1
  <2> HIDE DEF p, q
  <2>3. q \ominus p = u \ominus v
    BY <1>10, <2>2, FrTurns
  <2> QED BY <2>1, <2>3 DEF p, q
<1> QED BY <1>1, <1>10, <1>11 DEF a, u, v, N

-----------------------------------------------------------------------------
(* The proofs of single values.                                            *)

(* The secret is none of the points.                                       *)
LEMMA SecretOff ==
    ASSUME NEW d \in Data, NEW p \in Nat
    PROVE  /\ PointOf(d, p) \in Fr /\ Secret \in Fr /\ Secret \ominus PointOf(d, p) # 0
           /\ ExpModFr(PointOf(d, p), 2 * Length(d)) = 1
<1> DEFINE w == Root(d)
           N == 2 * Length(d)
           x == PointOf(d, p)
<1>1. N \in Nat /\ w \in Fr /\ ExpModFr(w, N) = 1 /\ Secret \in Fr /\ ExpModFr(Secret, N) # 1
  <2>1. IsRoot(w, Log(d) + 1) /\ N = TwoTo(Log(d) + 1) /\ Length(d) \in Nat
    BY SettingsFacts, DataFacts
  <2> QED BY <2>1, SecretAssumption DEF IsRoot
<1>2. x = ExpModFr(w, p)
  BY DEF PointOf
<1> HIDE DEF w, N, x
<1>3. x \in Fr /\ ExpModFr(x, N) = 1
  <2>1. ExpModFr(w, p * N) = ExpModFr(x, N) /\ ExpModFr(w, N * p) = ExpModFr(ExpModFr(w, N), p)
    BY <1>1, <1>2, ExpTimes
  <2>2. p * N = N * p
    BY <1>1
  <2> QED BY <1>1, <1>2, <2>1, <2>2, ExpOfOne, ExpType
<1>4. Secret # x
  BY <1>1, <1>3
<1>5. Secret \ominus x # 0
  BY <1>1, <1>3, <1>4, FrDifferences
<1> QED BY <1>1, <1>3, <1>5 DEF x, N

(* Those of FK20 are what proofs of samples of one value are.              *)
LEMMA SingleAt ==
    ASSUME NEW d \in Data, NEW p \in 0 .. 2 * Length(d) - 1
    PROVE  /\ SinglesOf(d)[p] \in Fr /\ ExtendedOf(d)[p] \in Fr
           /\ SinglesOf(d)[p] \odot (Secret \ominus PointOf(d, p)) = CommitOf(d) \ominus ExtendedOf(d)[p]
<1> DEFINE q == Log(d)
           c == LowerPoly(d)
           x == PointOf(d, p)
           y == ExpModFr(x, TwoTo(0))
           b == Residue(c, q, 0, y)
<1>1. /\ q \in Nat /\ 0 \in Nat /\ q + 0 = q /\ Width(d, q, 0) /\ p \in Nat
      /\ p \in 0 .. TwoTo(q + 1) - 1 /\ TwoTo(0) = 1 /\ IsSlice(c, q + 0) /\ IsSlice(c, q)
      /\ Root(d) \in Fr
  <2>1. q \in Nat \ {0} /\ TwoTo(q + 1) = 2 * Length(d) /\ Length(d) \in Nat
    BY DataFacts
  <2>2. IsSlice(c, q) /\ Root(d) \in Fr
    BY PolyFacts
  <2>3. q + 0 = q /\ 0 \in Nat /\ p \in Nat
    BY <2>1
  <2> HIDE DEF q, c
  <2>4. Width(d, q, 0)
    BY <2>1, <2>3 DEF Width, q
  <2> QED BY <2>1, <2>2, <2>3, <2>4, TwoToZero
<1>2. x \in Fr /\ Secret \in Fr /\ y = x
  <2>1. x \in Fr /\ Secret \in Fr
    BY <1>1, SecretOff
  <2> HIDE DEF x
  <2> QED BY <1>1, <2>1, ExpUnit
<1>3. SinglesOf(d) = ProofsOf(d, q, 0)
  <2>1. ExpModFr(Root(d), TwoTo(0)) = Root(d)
    BY <1>1, ExpUnit
  <2> QED BY <2>1 DEF SinglesOf, ProofsOf
<1>4. /\ ProofsOf(d, q, 0)[p] \in Fr
      /\ ProofsOf(d, q, 0)[p] \odot (ExpModFr(Secret, TwoTo(0)) \ominus y)
             = CommitOf(d) \ominus PolyAt(b, TwoTo(0), Secret)
  <2>1. y = ExpModFr(ExpModFr(Root(d), p), TwoTo(0))
    BY DEF PointOf
  <2> HIDE DEF y, q
  <2> DEFINE m == 0
  <2>2. /\ Width(d, q, m) /\ p \in 0 .. TwoTo(q + 1) - 1
        /\ y = ExpModFr(ExpModFr(Root(d), p), TwoTo(m))
    BY <1>1, <2>1
  <2> HIDE DEF m
  <2>3. /\ ProofsOf(d, q, m)[p] \in Fr
        /\ ProofsOf(d, q, m)[p] \odot (ExpModFr(Secret, TwoTo(m)) \ominus y)
               = CommitOf(d) \ominus PolyAt(Residue(LowerPoly(d), q, m, y), TwoTo(m), Secret)
    BY <2>2, ProofAt
  <2> QED BY <2>3 DEF m
<1>5. ExpModFr(Secret, TwoTo(0)) = Secret
  BY <1>1, <1>2, ExpUnit
<1>6. PolyAt(b, TwoTo(0), x) = ExtendedOf(d)[p] /\ ExtendedOf(d)[p] \in Fr
  <2>1. /\ ExtendedOf(d)[p] = PolyAt(c, TwoTo(q), x) /\ ExtendedOf(d)[p] \in Fr
    BY ExtendedAt DEF PointOf
  <2> HIDE DEF x, q, c
  <2> DEFINE m == 0
  <2>2. m \in Nat /\ IsSlice(c, q + m) /\ q + m = q
    BY <1>1
  <2> HIDE DEF m
  <2>3. PolyAt(Residue(c, q, m, ExpModFr(x, TwoTo(m))), TwoTo(m), x) = PolyAt(c, TwoTo(q + m), x)
    BY <1>1, <1>2, <2>2, ResidueAt
  <2> QED BY <2>1, <2>2, <2>3 DEF m
<1>7. PolyAt(b, TwoTo(0), Secret) = PolyAt(b, TwoTo(0), x)
  <2>1. IsSlice(b, 0)
    <3>1. y \in Fr
      BY <1>2
    <3> HIDE DEF y, q, c
    <3> DEFINE m == 0
    <3>2. m \in Nat /\ IsSlice(c, q + m)
      BY <1>1
    <3> HIDE DEF m
    <3>3. IsSlice(Residue(c, q, m, y), m)
      BY <1>1, <3>1, <3>2, ChunkElements
    <3> QED BY <3>3 DEF m
  <2> HIDE DEF b, x
  <2>2. b[0] \in Fr
    <3>1. b \in [0 .. 1 - 1 -> Fr]
      BY <1>1, <2>1 DEF IsSlice
    <3> QED BY <3>1
  <2>3. \A z \in Fr : PolyAt(b, 1, z) = b[0]
    <3>1. SUFFICES ASSUME NEW z \in Fr PROVE PolyAt(b, 1, z) = b[0]
      OBVIOUS
    <3> DEFINE n == 0
    <3>2. n \in Nat /\ \A i \in 0 .. n : b[i] \in Fr
      BY <2>2
    <3> HIDE DEF n
    <3>3. PolyAt(b, n + 1, z) = PolyAt(b, n, z) \oplus (ExpModFr(z, n) \odot b[n])
      BY <3>2, PolyAtNext
    <3>4. PolyAt(b, 0, z) = 0 /\ ExpModFr(z, 0) = 1
      BY SumEmpty, ExpZero DEF PolyAt
    <3>5. PolyAt(b, 0 + 1, z) = 0 \oplus (1 \odot b[0])
      BY <3>3, <3>4 DEF n
    <3>6. 0 + 1 = 1
      OBVIOUS
    <3> QED BY <2>2, <3>5, <3>6, FrUnits
  <2> QED BY <1>1, <1>2, <2>3
<1> HIDE DEF q, c, x, y, b
<1> QED BY <1>2, <1>3, <1>4, <1>5, <1>6, <1>7 DEF x

(* Long division gives the same proof, and CheckProofSingle accepts it.    *)
LEMMA SingleAccepted ==
    ASSUME NEW d \in Data, NEW fs, fs = Settings[Length(d)], NEW p \in 0 .. 2 * Length(d) - 1
    PROVE  /\ SinglesOf(d)[p] = ComputeProofSingle(fs, LowerPoly(d), PointOf(d, p))
           /\ CheckProofSingle(fs, CommitOf(d), SinglesOf(d)[p], PointOf(d, p), ExtendedOf(d)[p])
<1> DEFINE n == Length(d) - 1
           c == LowerPoly(d)
           x == PointOf(d, p)
           v == SinglesOf(d)[p]
           e == ExtendedOf(d)[p]
           com == CommitOf(d)
           s == Secret
           h == polyLongDiv(c, Linear(x))
<1>1. /\ n \in Nat \ {0} /\ n + 1 = Length(d) /\ n \in 1 .. 2 * Length(d) /\ p \in Nat
      /\ Length(d) = TwoTo(Log(d)) /\ 1 \in 0 .. TwoTo(Log(d) + 1) - 1
  <2>1. Length(d) \in Nat \ {0, 1} /\ Length(d) = TwoTo(Log(d)) /\ 2 * Length(d) = TwoTo(Log(d) + 1)
    BY DataAssumption, DataFacts
  <2> QED BY <2>1
<1>2. c \in [0 .. n -> Fr] /\ com \in Fr /\ com = PolyAt(c, n + 1, s)
  <2>1. c \in [0 .. Length(d) - 1 -> Fr]
    BY LowerIs
  <2>2. com \in Fr
    BY CommitFacts
  <2> HIDE DEF c, s
  <2> QED BY <1>1, <2>1, <2>2 DEF CommitOf, c, s
<1>3. x \in Fr /\ s \in Fr /\ s \ominus x # 0 /\ s \ominus x \in Fr
  <2>1. x \in Fr /\ s \in Fr /\ s \ominus x # 0
    BY <1>1, SecretOff
  <2> HIDE DEF x, s
  <2> QED BY <2>1, FrClosed
<1>4. v \in Fr /\ e \in Fr /\ v \odot (s \ominus x) = com \ominus e
  BY SingleAt
<1>5. e = PolyAt(c, n + 1, x)
  BY <1>1, ExtendedAt DEF PointOf
<1> HIDE DEF n, c, x, v, e, com, s
<1>6. /\ h \in [0 .. n - 1 -> Fr] /\ PolyAt(h, n, s) \in Fr
      /\ PolyAt(h, n, s) \odot (s \ominus x) = com \ominus e
  <2> DEFINE a == h
  <2>1. a = polyLongDiv(c, Linear(x))
    OBVIOUS
  <2> HIDE DEF a
  <2>2. /\ a \in [0 .. n - 1 -> Fr] /\ PolyAt(a, n, s) \in Fr
        /\ PolyAt(a, n, s) \odot (s \ominus x) = PolyAt(c, n + 1, s) \ominus PolyAt(c, n + 1, x)
    BY <1>1, <1>2, <1>3, <2>1, LongDivisionAt
  <2> QED BY <1>2, <1>5, <2>2 DEF a
<1> HIDE DEF h
<1>7. PolyAt(h, n, s) = v
  <2> DEFINE a == PolyAt(h, n, s)
             u == s \ominus x
  <2>1. a \in Fr /\ v \in Fr /\ u \in Fr /\ u # 0 /\ a \odot u = v \odot u
    BY <1>3, <1>4, <1>6
  <2> HIDE DEF a, u
  <2>2. a = v
    BY <2>1, FrCancel
  <2> QED BY <2>2 DEF a
<1>8. ComputeProofSingle(fs, c, x) = v
  <2>1. CommitToPoly(fs, h) = v
    <3>1. CommitToPoly(fs, h) = PolyAt(h, n, Secret)
      BY <1>1, <1>6, CommitToPolyIs
    <3> QED BY <1>7, <3>1 DEF s
  <2> QED BY <2>1 DEF ComputeProofSingle, Linear, h
<1>9. CheckProofSingle(fs, com, v, x, e)
  <2>1. fs.SecretG2[1] = s
    <3>1. fs.SecretG2 = [i \in 0 .. TwoTo(Log(d) + 1) - 1 |-> ExpModFr(Secret, i)]
      BY SettingsFacts
    <3>2. ExpModFr(Secret, 1) = s
      BY <1>3, ExpUnit DEF s
    <3> QED BY <1>1, <3>1, <3>2
  <2>2. MulModFr(1, x) = x /\ MulModFr(1, e) = e
    BY <1>3, <1>4, FrUnits
  <2>3. com \ominus e \in Fr /\ (com \ominus e) \odot 1 = com \ominus e
    <3>1. com \ominus e \in Fr
      BY <1>2, <1>4, FrClosed
    <3> DEFINE u == com \ominus e
    <3> HIDE DEF u
    <3>2. u \in Fr => u \odot 1 = u
      BY FrUnits
    <3> QED BY <3>1, <3>2 DEF u
  <2>4. CheckProofSingle(fs, com, v, x, e) <=>
            (com \ominus e) \odot 1 = v \odot (s \ominus x)
    BY <2>1, <2>2 DEF CheckProofSingle, CheckProofSingleG1, PairingsVerify, MulG1, MulG2, SubG1,
                     SubG2, GenG1, GenG2
  <2> QED BY <1>4, <2>3, <2>4
<1> QED BY <1>8, <1>9 DEF c, x, v, e, com

(* The proofs FK20 gives without the extension are every other one.        *)
LEMMA EvenSingles ==
    ASSUME NEW d \in Data, NEW i \in 0 .. Length(d) - 1
    PROVE  SinglesOf(d)[2 * i]
               = Transform(Quotient(Secret, LowerPoly(d), Log(d), 0), Root(d) \odot Root(d), Log(d))[i]
<1> DEFINE q == Log(d)
           w == Root(d)
           g == Quotient(Secret, LowerPoly(d), Log(d), 0)
<1>1. /\ q \in Nat /\ w \in Fr /\ Length(d) = TwoTo(q) /\ TwoTo(q + 1) = 2 * Length(d)
      /\ Length(d) \in Nat /\ i \in Nat
  BY DataFacts, PolyFacts
<1>2. IsSlice(g, q)
  <2> DEFINE fs == Settings[Length(d)]
             fk == NewFK20SingleSettings(fs, 2 * Length(d))
  <2>1. fs = Settings[Length(d)] /\ fk = NewFK20SingleSettings(fs, 2 * Length(d))
    OBVIOUS
  <2> HIDE DEF fs, fk
  <2> QED BY <2>1, FK20SingleIs
<1> HIDE DEF g, q, w
<1>3. TransformAt(Padded(g, q), w, q + 1, 2 * i) = TransformAt(g, w \odot w, q, i)
  BY <1>1, <1>2, TransformPadded
<1>4. SinglesOf(d) = Transform(Padded(g, q), w, q + 1)
  BY DEF SinglesOf, g, q, w
<1>5. 2 * i \in 0 .. TwoTo(q + 1) - 1 /\ i \in 0 .. TwoTo(q) - 1
  BY <1>1
<1> QED BY <1>3, <1>4, <1>5 DEF Transform, g, q, w

(* The proofs for single values the products with the Toeplitz matrix give *)
(* are those of long division, with and without the extension, in reverse  *)
(* bit order, and CheckProofSingle accepts them: for data of any length.   *)
THEOREM SingleProofsAreOne == Spec => []SingleProofsAgree
<1>1. SenderInv => SingleProofsAgree
  <2> DEFINE d == data
             fk == SingleSettings[Length(d)]
             lower == SubSlice(poly, 0, Length(d))
             c == LowerPoly(d)
  <2> SUFFICES ASSUME SenderInv, phase = "proved", NEW p \in 0 .. size - 1
               PROVE  LET proof == singles[reverseBitsLimited(size, p)]
                          x == ks.ExpandedRootsOfUnity[p]
                      IN  /\ proof = ComputeProofSingle(ks, lower, x)
                          /\ p % 2 = 0 => proof = FK20Single(fk, lower)[p \div 2]
                          /\ CheckProofSingle(ks, commit, proof, x, extended[p])
    BY DEF SingleProofsAgree
  <2>1. /\ d \in Data /\ poly = PolyOf(d) /\ extended = ExtendedOf(d) /\ commit = CommitOf(d)
        /\ ks = Settings[Length(d)] /\ size = 2 * Length(d)
        /\ singles = DAUsingFK20(fk, c)
    BY DEF SenderInv, DataKept, ExtendedKept, CommitKept, ProofsKept, ks, size
  <2>2. fk = NewFK20SingleSettings(ks, 2 * Length(d))
    <3>1. Length(d) \in Lengths
      BY <2>1 DEF Lengths
    <3> HIDE DEF d
    <3> QED BY <2>1, <3>1 DEF SingleSettings
  <2>3. lower = c /\ padPoly(2 * Length(c), c) = PolyOf(d)
    <3>1. SubSlice(PolyOf(d), 0, Length(d)) = c
      BY <2>1, LowerIs
    <3>2. IsSlice(c, Log(d)) /\ Log(d) \in Nat /\ TwoTo(Log(d) + 1) = 2 * Length(d)
          /\ Length(d) = TwoTo(Log(d))
      BY <2>1, PolyFacts, DataFacts
    <3> HIDE DEF c, d
    <3>3. Length(c) = Length(d)
      BY <3>2, SliceLength
    <3>4. padPoly(TwoTo(Log(d) + 1), c) = Padded(c, Log(d))
      BY <3>2, PadPolyIs
    <3> QED BY <2>1, <3>1, <3>2, <3>3, <3>4 DEF PolyOf, c
  <2> HIDE DEF d, fk, lower, c
  <2> DEFINE k == Log(d) + 1
             x == PointOf(d, p)
             v == SinglesOf(d)[p]
  <2>4. /\ FK20SingleDAOptimized(fk, PolyOf(d)) = SinglesOf(d)
        /\ FK20Single(fk, c) = Transform(Quotient(Secret, LowerPoly(d), Log(d), 0),
                                         Root(d) \odot Root(d), Log(d))
    BY <2>1, <2>2, FK20SingleIs DEF c
  <2>5. singles = reverseBitOrder(SinglesOf(d))
    BY <2>1, <2>3, <2>4 DEF DAUsingFK20
  <2>6. k \in Nat /\ size = TwoTo(k) /\ Length(d) \in Nat /\ p \in 0 .. TwoTo(k) - 1
        /\ p \in 0 .. TwoTo(k) /\ p \in 0 .. 2 * Length(d) - 1
    BY <2>1, DataFacts
  <2>7. singles[reverseBitsLimited(size, p)] = v
    <3>1. DOMAIN SinglesOf(d) = 0 .. TwoTo(k) - 1
      BY DEF SinglesOf, Transform
    <3> HIDE DEF k
    <3>2. reverseBitOrder(SinglesOf(d))[Rev(k, p)] = v
      BY <2>6, <3>1, ReverseIs
    <3> QED BY <2>5, <2>6, <3>2 DEF Rev
  <2>8. ks.ExpandedRootsOfUnity[p] = x
    <3>1. HasRoots(ks, Root(d), k)
      BY <2>1, SettingsFacts
    <3> HIDE DEF k
    <3> QED BY <2>6, <3>1 DEF HasRoots, Powers, PointOf
  <2> HIDE DEF k
  <2>9. v = ComputeProofSingle(ks, c, x) /\ CheckProofSingle(ks, CommitOf(d), v, x, ExtendedOf(d)[p])
    BY <2>1, <2>6, SingleAccepted DEF c
  <2>10. ASSUME p % 2 = 0
         PROVE  v = FK20Single(fk, c)[p \div 2]
    <3>1. p \div 2 \in 0 .. Length(d) - 1 /\ 2 * (p \div 2) = p
      BY <2>6, <2>10
    <3> DEFINE i == p \div 2
    <3>2. i \in 0 .. Length(d) - 1 /\ 2 * i = p
      BY <3>1
    <3> HIDE DEF i
    <3>3. SinglesOf(d)[2 * i]
              = Transform(Quotient(Secret, LowerPoly(d), Log(d), 0), Root(d) \odot Root(d), Log(d))[i]
      BY <2>1, <3>2, EvenSingles
    <3> QED BY <2>4, <3>2, <3>3 DEF i
  <2> QED BY <2>1, <2>3, <2>7, <2>8, <2>9, <2>10
<1> QED BY <1>1, SenderKeepsWhatDataGives, PTL

-----------------------------------------------------------------------------
(* An altered sample.                                                      *)

(* One value, at place h, is more by 1: so is every value of the transform *)
(* by a power of the root.                                                 *)
Altered(a, h, k) == [j \in 0 .. TwoTo(k) - 1 |-> IF j = h THEN a[j] \oplus 1 ELSE a[j]]

(* Altering one coefficient by 1 adds the powers of one element to the     *)
(* transform.                                                              *)
LEMMA AlteredTransform ==
    ASSUME NEW k \in Nat, NEW z \in Fr, NEW a, IsSlice(a, k), NEW h \in 0 .. TwoTo(k) - 1, NEW i \in Nat
    PROVE  /\ IsSlice(Altered(a, h, k), k)
           /\ TransformAt(Altered(a, h, k), z, k, i) = TransformAt(a, z, k, i) \oplus ExpModFr(z, i * h)
<1> DEFINE n == TwoTo(k)
           b == Altered(a, h, k)
           ta == [j \in 0 .. n - 1 |-> a[j] \odot ExpModFr(z, i * j)]
           tb == [j \in 0 .. n - 1 |-> b[j] \odot ExpModFr(z, i * j)]
           t == [j \in 0 .. n - 1 |-> IF j = h THEN ExpModFr(z, i * h) ELSE 0]
<1>1. n \in Nat /\ h \in Nat /\ 0 \in Fr /\ 1 \in Fr /\ a \in [0 .. n - 1 -> Fr] /\ h \in 0 .. n - 1
  <2>1. n \in Nat
    BY TwoToType
  <2> QED BY <2>1, ModulusFacts DEF IsSlice
<1>2. b = [j \in 0 .. n - 1 |-> IF j = h THEN a[j] \oplus 1 ELSE a[j]]
  BY DEF Altered
<1> HIDE DEF b
<1>3. TransformAt(a, z, k, i) = SumFr(ta, n) /\ TransformAt(b, z, k, i) = SumFr(tb, n)
  BY DEF TransformAt
<1> HIDE DEF n
<1>4. b \in [0 .. n - 1 -> Fr]
  <2>1. \A j \in 0 .. n - 1 : a[j] \in Fr /\ a[j] \oplus 1 \in Fr
    BY <1>1, FrClosed
  <2> QED BY <1>2, <2>1
<1>5. ASSUME NEW j \in 0 .. n - 1
      PROVE  ta[j] \in Fr /\ t[j] \in Fr /\ tb[j] = ta[j] \oplus t[j]
  <2> DEFINE e == ExpModFr(z, i * j)
  <2>1. e \in Fr /\ a[j] \in Fr
    <3>1. \A u, v \in Nat : u * v \in Nat
      OBVIOUS
    <3>2. i * j \in Nat
      BY <1>1, <3>1
    <3> QED BY <1>1, <3>2, ExpType
  <2>2. ta[j] = a[j] \odot e /\ tb[j] = b[j] \odot e /\ t[j] = IF j = h THEN e ELSE 0
    BY <1>1
  <2>3. b[j] = IF j = h THEN a[j] \oplus 1 ELSE a[j]
    BY <1>2
  <2> HIDE DEF e, ta, tb, t
  <2> DEFINE v == a[j]
  <2>4. v \in Fr /\ v \odot e \in Fr /\ (v \oplus 1) \odot e = (v \odot e) \oplus e
        /\ (v \odot e) \oplus 0 = v \odot e
    <3>1. v \in Fr
      BY <2>1
    <3> HIDE DEF v
    <3> DEFINE u == 1
    <3>2. u \in Fr
      BY <1>1
    <3> HIDE DEF u
    <3>3. (v \oplus u) \odot e = (v \odot e) \oplus (u \odot e)
      BY <2>1, <3>1, <3>2, FrDistributes
    <3>4. 1 \odot e = e /\ v \odot e \in Fr
      BY <2>1, <3>1, FrUnits, FrClosed
    <3>5. (v \odot e) \oplus 0 = v \odot e
      BY <3>4, FrUnits
    <3> QED BY <3>1, <3>3, <3>4, <3>5 DEF u
  <2> QED BY <1>1, <2>1, <2>2, <2>3, <2>4
<1>6. SumFr(t, n) = ExpModFr(z, i * h)
  <2>1. \A j \in 0 .. n - 1 : j # h => t[j] = 0
    OBVIOUS
  <2>2. t[h] = ExpModFr(z, i * h)
    BY <1>1
  <2>3. t[h] \in Fr
    BY <1>1, <1>5
  <2> HIDE DEF t
  <2>4. SumFr(t, n) = t[h]
    BY <1>1, <2>1, <2>3, SumSingle
  <2> QED BY <2>2, <2>4
<1> HIDE DEF ta, tb, t
<1>7. SumFr(tb, n) = SumFr(ta, n) \oplus SumFr(t, n)
  BY <1>1, <1>5, SumAdds
<1> QED BY <1>3, <1>4, <1>6, <1>7 DEF IsSlice, n, b

(* The first n powers.                                                     *)
PowersOf(v, n) == [i \in 0 .. n - 1 |-> ExpModFr(v, i)]

(* They have no sum that is zero, unless the next one is 1.                *)
LEMMA PowersNotZero ==
    ASSUME NEW n \in Nat, NEW v \in Fr, ExpModFr(v, n) # 1
    PROVE  SumFr(PowersOf(v, n), n) \in Fr /\ SumFr(PowersOf(v, n), n) # 0
<1> DEFINE a == PowersOf(v, n)
           u == SumFr(a, n)
<1>1. \A i \in 0 .. n - 1 : a[i] = ExpModFr(v, i) /\ a[i] \in Fr
  BY ExpType DEF PowersOf
<1> HIDE DEF a
<1>2. (v \ominus 1) \odot u = ExpModFr(v, n) \ominus 1
  BY <1>1, GeometricSum
<1>3. u \in Fr
  BY <1>1, SumType
<1>4. u # 0
  <2>1. SUFFICES ASSUME u = 0 PROVE FALSE
    OBVIOUS
  <2>2. v \ominus 1 \in Fr /\ 1 \in Fr /\ ExpModFr(v, n) \in Fr
    BY ModulusFacts, FrClosed, ExpType
  <2>3. ExpModFr(v, n) \ominus 1 = 0
    BY <1>2, <2>1, <2>2, FrUnits
  <2> QED BY <2>2, <2>3, FrDifferences
<1> QED BY <1>3, <1>4 DEF a

(* What is interpolated from the altered values differs, at s, by a sum of *)
(* powers: u is the inverse of the point whose value is altered.           *)
LEMMA InterpolatedAltered ==
    ASSUME NEW order \in Nat, NEW m \in 0 .. order, NEW w, NEW fs, HasRoots(fs, w, order),
           Divides(order), fs.MaxWidth = TwoTo(order), NEW z, z = ExpModFr(w, TwoTo(order - m)),
           NEW ys, IsSlice(ys, m), NEW x \in Fr, x # 0, NEW h \in 0 .. TwoTo(m) - 1, NEW s \in Fr,
           NEW u, u = ExpModFr(InverseRoot(z, m), h) \odot InvModFr(x),
           NEW f, f = Interpolated(fs, ys, x, m),
           NEW g, g = Interpolated(fs, Altered(ys, h, m), x, m)
    PROVE  /\ IsSlice(f, m) /\ IsSlice(g, m)
           /\ PolyAt(g, TwoTo(m), s) = PolyAt(f, TwoTo(m), s) \oplus
                  (InvModFr(TwoTo(m)) \odot SumFr(PowersOf(u \odot s, TwoTo(m)), TwoTo(m)))
<1> DEFINE n == TwoTo(m)
           v == InverseRoot(z, m)
           y == InvModFr(x)
           inv == InvModFr(n)
           b == Altered(ys, h, m)
           p == PowersOf(u, n)
           q == PowersOf(u \odot s, n)
<1>1. m \in Nat /\ n \in Nat /\ Divides(m) /\ inv \in Fr /\ y \in Fr /\ x \odot y = 1 /\ h \in Nat
  <2>1. m \in Nat
    OBVIOUS
  <2>2. Divides(m) /\ n \in Nat /\ y \in Fr /\ x \odot y = 1
    BY <2>1, TwoToType, DividesFacts, FrInverse
  <2> QED BY <2>1, <2>2, DividesFacts
<1>2. IsSlice(b, m)
  BY <1>1, AlteredTransform, ModulusFacts
<1>3. /\ IsRoot(z, m) /\ FromValues(fs, ys) = Coefficients(ys, z, m)
      /\ FromValues(fs, b) = Coefficients(b, z, m)
  <2> HIDE DEF b
  <2> QED BY <1>2, TransformsComputed
<1>4. v \in Fr /\ u \in Fr /\ u \odot s \in Fr /\ ExpModFr(v, h) \in Fr
  <2>1. v \in Fr
    BY <1>1, <1>3, RootInverse DEF IsRoot
  <2> HIDE DEF v, y
  <2>2. ExpModFr(v, h) \in Fr
    BY <1>1, <2>1, ExpType
  <2>3. u = ExpModFr(v, h) \odot y
    BY DEF v, y
  <2> QED BY <1>1, <2>1, <2>2, <2>3, FrClosed
<1>5. f = [i \in 0 .. n - 1 |-> f[i]] /\ g = [i \in 0 .. n - 1 |-> g[i]]
  BY DEF Interpolated
<1>6. \A i \in 0 .. n - 1 : p[i] = ExpModFr(u, i) /\ q[i] = ExpModFr(u \odot s, i)
  BY DEF PowersOf
<1>7. ASSUME NEW i \in 0 .. n - 1
      PROVE  f[i] \in Fr /\ p[i] \in Fr /\ g[i] = f[i] \oplus (inv \odot p[i])
  <2> DEFINE yi == ExpModFr(y, i)
             A == TransformAt(ys, v, m, i)
             B == ExpModFr(v, i * h)
             xi == ExpModFr(x, i)
  <2>1. i \in Nat /\ i * h \in Nat /\ i * h = h * i
    <3>1. \A j, k \in Nat : j * k \in Nat /\ j * k = k * j
      OBVIOUS
    <3>2. i \in Nat
      BY <1>1
    <3> QED BY <1>1, <3>1, <3>2
  <2>2. yi \in Fr /\ xi \in Fr /\ xi # 0 /\ A \in Fr /\ B \in Fr /\ xi \odot yi = 1
    <3>1. yi \in Fr /\ B \in Fr
      BY <1>1, <1>4, <2>1, ExpType
    <3>2. xi \in Fr /\ xi # 0
      BY <2>1, PowerNotZero
    <3>3. A \in Fr
      BY <1>1, <1>4, <2>1, TransformType
    <3>4. xi \odot yi = 1
      <4>1. ExpModFr(x \odot y, i) = xi \odot yi
        BY <1>1, <2>1, ExpProduct
      <4> QED BY <1>1, <2>1, <4>1, ExpOfOne
    <3> QED BY <3>1, <3>2, <3>3, <3>4
  <2>3. /\ f[i] = DivModFr(A \odot inv, xi)
        /\ g[i] = DivModFr(TransformAt(b, v, m, i) \odot inv, xi)
    <3>1. /\ f[i] = DivModFr(FromValues(fs, ys)[i], xi)
          /\ g[i] = DivModFr(FromValues(fs, b)[i], xi)
      BY DEF Interpolated
    <3>2. /\ Coefficients(ys, z, m)[i] = A \odot inv
          /\ Coefficients(b, z, m)[i] = TransformAt(b, v, m, i) \odot inv
      <4> HIDE DEF b
      <4> QED BY DEF Coefficients
    <3> HIDE DEF b, A, xi, inv
    <3> QED BY <1>3, <3>1, <3>2
  <2>4. TransformAt(b, v, m, i) = A \oplus B
    <3>1. /\ m \in Nat /\ v \in Fr /\ IsSlice(ys, m) /\ h \in 0 .. TwoTo(m) - 1 /\ i \in Nat
      BY <1>1, <1>4, <2>1
    <3> HIDE DEF v
    <3> QED BY <3>1, AlteredTransform
  <2> HIDE DEF yi, A, B, xi, inv, y, v, b
  <2>5. \A e \in Fr : DivModFr(e, xi) = e \odot yi
    <3>1. SUFFICES ASSUME NEW e \in Fr PROVE DivModFr(e, xi) = e \odot yi
      OBVIOUS
    <3> DEFINE c == e \odot yi
    <3>2. c \in Fr /\ c \odot xi = e
      <4>1. (e \odot yi) \odot xi = e \odot (yi \odot xi) /\ yi \odot xi = xi \odot yi /\ c \in Fr
        BY <2>2, FrAssociates, FrCommutes, FrClosed
      <4> QED BY <2>2, <4>1, FrUnits
    <3> HIDE DEF c
    <3>3. DivModFr(c \odot xi, xi) = c
      BY <2>2, <3>2, FrCancel
    <3> QED BY <3>2, <3>3 DEF c
  <2>6. f[i] = (A \odot inv) \odot yi /\ f[i] \in Fr
    <3>1. A \odot inv \in Fr
      BY <1>1, <2>2, FrClosed
    <3> DEFINE c == A \odot inv
    <3>2. c \in Fr /\ f[i] = DivModFr(c, xi)
      BY <2>3, <3>1
    <3> HIDE DEF c
    <3>3. f[i] = c \odot yi /\ c \odot yi \in Fr
      BY <2>2, <2>5, <3>2, FrClosed
    <3> QED BY <3>3 DEF c
  <2>7. g[i] = ((A \oplus B) \odot inv) \odot yi
    <3> DEFINE c == (A \oplus B) \odot inv
    <3>1. c \in Fr
      BY <1>1, <2>2, FrClosed
    <3>2. g[i] = DivModFr(c, xi)
      BY <2>3, <2>4
    <3> HIDE DEF c
    <3>3. g[i] = c \odot yi
      BY <2>5, <3>1, <3>2
    <3> QED BY <3>3 DEF c
  <2>8. ((A \oplus B) \odot inv) \odot yi = ((A \odot inv) \odot yi) \oplus (inv \odot (B \odot yi))
    <3> DEFINE ai == A \odot inv
               bi == B \odot inv
    <3>1. ai \in Fr /\ bi \in Fr /\ (A \oplus B) \odot inv = ai \oplus bi
      BY <1>1, <2>2, FrDistributes, FrClosed
    <3>2. bi = inv \odot B
      BY <1>1, <2>2, FrCommutes
    <3> HIDE DEF ai, bi
    <3>3. (ai \oplus bi) \odot yi = (ai \odot yi) \oplus (bi \odot yi)
      BY <2>2, <3>1, FrDistributes
    <3>4. (inv \odot B) \odot yi = inv \odot (B \odot yi)
      BY <1>1, <2>2, FrAssociates
    <3> QED BY <3>1, <3>2, <3>3, <3>4 DEF ai
  <2>9. p[i] = B \odot yi /\ p[i] \in Fr
    <3>1. u = ExpModFr(v, h) \odot y
      BY DEF v, y
    <3>2. ExpModFr(u, i) = ExpModFr(ExpModFr(v, h), i) \odot ExpModFr(y, i)
      BY <1>1, <1>4, <2>1, <3>1, ExpProduct
    <3>3. ExpModFr(v, h * i) = ExpModFr(ExpModFr(v, h), i)
      BY <1>1, <1>4, <2>1, ExpTimes
    <3>4. ExpModFr(u, i) \in Fr
      BY <1>4, <2>1, ExpType
    <3> HIDE DEF p
    <3> QED BY <1>6, <2>1, <3>2, <3>3, <3>4 DEF B, yi
  <2> QED BY <2>6, <2>7, <2>8, <2>9
<1>8. IsSlice(f, m) /\ IsSlice(g, m)
  <2>1. \A i \in 0 .. n - 1 : f[i] \in Fr /\ g[i] \in Fr
    <3>1. ASSUME NEW i \in 0 .. n - 1 PROVE f[i] \in Fr /\ g[i] \in Fr
      <4> DEFINE c == inv \odot p[i]
      <4>1. f[i] \in Fr /\ p[i] \in Fr /\ g[i] = f[i] \oplus c
        BY <1>7
      <4>2. c \in Fr
        <5> HIDE DEF inv, p
        <5> QED BY <1>1, <4>1, FrClosed
      <4> HIDE DEF c
      <4> QED BY <4>1, <4>2, FrClosed
    <3> QED BY <3>1
  <2> HIDE DEF n
  <2> QED BY <1>5, <2>1 DEF IsSlice, n
<1> HIDE DEF v, y, inv, b, p, q
<1>9. PolyAt(g, n, s) = PolyAt(f, n, s) \oplus (inv \odot PolyAt(p, n, s))
  <2>1. Combines(g, f, inv, p, n)
    BY <1>7 DEF Combines
  <2> HIDE DEF n
  <2> QED BY <1>1, <2>1, PolyAtLinear
<1>10. PolyAt(p, n, s) = SumFr(q, n)
  <2>1. ASSUME NEW i \in 0 .. n - 1
        PROVE  p[i] \odot ExpModFr(s, i) = q[i]
    <3>1. i \in Nat
      BY <1>1
    <3>2. ExpModFr(u \odot s, i) = ExpModFr(u, i) \odot ExpModFr(s, i)
      BY <1>4, <3>1, ExpProduct
    <3> QED BY <1>6, <3>2
  <2>2. Monomials(p, n, s) = q
    <3>1. q = [i \in 0 .. n - 1 |-> q[i]]
      BY DEF q, PowersOf
    <3> HIDE DEF n
    <3> QED BY <2>1, <3>1 DEF Monomials
  <2> HIDE DEF n
  <2> QED BY <2>2 DEF PolyAt
<1> QED BY <1>8, <1>9, <1>10 DEF n, inv, q

(* The check refuses the altered sample, as the secret is none of the      *)
(* points.                                                                 *)
LEMMA AlteredRefused ==
    ASSUME NEW d \in Data, NEW fs, fs = Settings[Length(d)], NEW q, NEW m, Width(d, q, m),
           NEW p \in 0 .. TwoTo(q + 1) - 1, NEW h \in 0 .. TwoTo(m) - 1
    PROVE  ~ CheckProofMulti(fs, CommitOf(d), ProofsOf(d, q, m)[p], PointOf(d, p),
                             Altered(SampleOf(d, q, m, p), h, m))
<1> DEFINE x == PointOf(d, p)
           c == ResidueOf(d, q, m, p)
           ys == SampleOf(d, q, m, p)
           bs == Altered(ys, h, m)
           order == Log(d) + 1
           w == Root(d)
           z == CosetRoot(d, q)
           proof == ProofsOf(d, q, m)[p]
           com == CommitOf(d)
           s == Secret
           n == TwoTo(m)
           k == TwoTo(q + 1)
           N == 2 * Length(d)
           u == ExpModFr(InverseRoot(z, m), h) \odot InvModFr(x)
           v == u \odot s
           inv == InvModFr(n)
           f == Interpolated(fs, ys, x, m)
           g == Interpolated(fs, bs, x, m)
           e == inv \odot SumFr(PowersOf(v, n), n)
<1>1. /\ q \in Nat /\ m \in Nat /\ m \in 0 .. order /\ order \in Nat /\ order - m = q + 1 /\ m <= Log(d)
      /\ HasRoots(fs, w, order) /\ Divides(order) /\ fs.MaxWidth = TwoTo(order) /\ w \in Fr
      /\ order = q + 1 + m
  <2>1. q \in Nat /\ m \in Nat /\ q + m = Log(d) /\ Log(d) \in Nat
    BY DataFacts DEF Width
  <2>2. HasRoots(fs, w, order) /\ Divides(order) /\ fs.MaxWidth = TwoTo(order) /\ w \in Fr
    BY SettingsFacts DEF IsRoot
  <2> QED BY <2>1, <2>2
<1>2. /\ IsSlice(c, m) /\ x \in Fr /\ x # 0 /\ IsRoot(z, m) /\ z \in Fr
      /\ ys = Transform(Twist(c, x, m), z, m)
  BY SampleValues DEF IsRoot
<1>3. z = ExpModFr(w, TwoTo(order - m)) /\ z = ExpModFr(w, k)
  BY <1>1 DEF CosetRoot
<1>4. proof \in Fr /\ com \in Fr /\ s \in Fr
  BY ProofAt, CommitFacts, SecretAssumption
<1>5. /\ n \in Nat /\ k \in Nat /\ N = k * n /\ N \in Nat /\ h \in Nat /\ p \in Nat
      /\ ExpModFr(s, N) # 1
  <2>1. q + 1 \in Nat /\ m \in Nat
    BY <1>1
  <2>2. n \in Nat /\ k \in Nat /\ TwoTo(q + 1 + m) = k * n
    BY <2>1, TwoToType, TwoToAdds
  <2>3. N = TwoTo(order) /\ Length(d) \in Nat
    BY DataFacts
  <2>4. ExpModFr(s, N) # 1
    BY SecretAssumption
  <2>5. h \in Nat /\ p \in Nat
    BY <2>2
  <2> HIDE DEF s, N, n, k, order
  <2>6. k * n \in Nat
    BY <2>2
  <2> QED BY <1>1, <2>2, <2>3, <2>4, <2>5, <2>6
<1>6. IsSlice(ys, m)
  <2> HIDE DEF c, x, z, ys
  <2>1. IsSlice(Twist(c, x, m), m)
    BY <1>1, <1>2, TwistType
  <2> QED BY <1>1, <1>2, <2>1, TransformType
<1>7. CheckProofMulti(fs, com, proof, x, ys)
  BY SampleAccepted
<1> HIDE DEF x, c, ys, order, w, z, proof, com
<1>8. IsSlice(bs, m)
  BY <1>1, <1>2, <1>6, AlteredTransform, ModulusFacts
<1>9. /\ IsSlice(f, m) /\ IsSlice(g, m)
      /\ PolyAt(g, n, s) = PolyAt(f, n, s) \oplus e
  <2> DEFINE ff == f
             gg == g
             uu == u
  <2>1. /\ ff = Interpolated(fs, ys, x, m) /\ gg = Interpolated(fs, Altered(ys, h, m), x, m)
        /\ uu = ExpModFr(InverseRoot(z, m), h) \odot InvModFr(x) /\ s \in Fr
    BY <1>4
  <2> HIDE DEF ff, gg, uu, s
  <2>2. /\ IsSlice(ff, m) /\ IsSlice(gg, m)
        /\ PolyAt(gg, TwoTo(m), s) = PolyAt(ff, TwoTo(m), s) \oplus
               (InvModFr(TwoTo(m)) \odot SumFr(PowersOf(uu \odot s, TwoTo(m)), TwoTo(m)))
    BY <1>1, <1>2, <1>3, <1>6, <2>1, InterpolatedAltered
  <2> QED BY <2>2 DEF ff, gg, uu
<1>10. u \in Fr /\ ExpModFr(u, N) = 1
  <2> DEFINE a == ExpModFr(z, h)
             b == ExpModFr(InverseRoot(z, m), h)
             y == InvModFr(x)
             t == a \odot x
  <2>1. /\ a \in Fr /\ b \in Fr /\ a \odot b = 1 /\ y \in Fr /\ x \odot y = 1
    <3>1. a \odot b = 1 /\ InverseRoot(z, m) \in Fr
      BY <1>1, <1>2, <1>5, RootInverse DEF IsRoot
    <3>2. a \in Fr /\ b \in Fr
      BY <1>2, <1>5, <3>1, ExpType
    <3>3. y \in Fr /\ x \odot y = 1
      BY <1>2, FrInverse
    <3> QED BY <3>1, <3>2, <3>3
  <2>2. ExpModFr(t, N) = 1
    <3>1. t = PointOf(d, k * h + p) /\ k * h + p \in Nat
      <4>1. \A i, j \in Nat : i * j \in Nat
        OBVIOUS
      <4>2. k * h \in Nat /\ k * h + p \in Nat
        BY <1>5, <4>1
      <4>3. a = ExpModFr(w, k * h)
        BY <1>1, <1>3, <1>5, ExpTimes
      <4>4. ExpModFr(w, k * h + p) = ExpModFr(w, k * h) \odot ExpModFr(w, p)
        BY <1>1, <1>5, <4>2, ExpAdds
      <4> QED BY <4>2, <4>3, <4>4 DEF PointOf, w, x
    <3> HIDE DEF t, N
    <3>2. ExpModFr(PointOf(d, k * h + p), 2 * Length(d)) = 1
      BY <3>1, SecretOff
    <3> QED BY <3>1, <3>2 DEF N
  <2> HIDE DEF a, b, y, N
  <2>3. t \in Fr /\ u \in Fr /\ t \odot u = 1
    <3>1. u = b \odot y
      BY DEF b, y
    <3>2. t \in Fr /\ u \in Fr
      BY <1>2, <2>1, <3>1, FrClosed
    <3>3. (a \odot x) \odot (b \odot y) = (a \odot b) \odot (x \odot y)
      BY <1>2, <2>1, FrExchange
    <3>4. 1 \odot 1 = 1
      BY ModulusFacts, FrUnits
    <3> QED BY <2>1, <3>1, <3>2, <3>3, <3>4
  <2> HIDE DEF t, u
  <2>4. ExpModFr(t \odot u, N) = ExpModFr(t, N) \odot ExpModFr(u, N) /\ ExpModFr(u, N) \in Fr
    BY <1>5, <2>3, ExpProduct, ExpType
  <2>5. ExpModFr(t \odot u, N) = 1
    BY <1>5, <2>3, ExpOfOne
  <2> QED BY <2>2, <2>3, <2>4, <2>5, FrUnits
<1> HIDE DEF u, s, N, n, k
<1>11. v \in Fr /\ ExpModFr(v, n) # 1
  <2>1. v \in Fr
    BY <1>4, <1>10, FrClosed
  <2>2. ExpModFr(v, N) = ExpModFr(u, N) \odot ExpModFr(s, N) /\ ExpModFr(s, N) \in Fr
    BY <1>4, <1>5, <1>10, ExpProduct, ExpType
  <2>3. ExpModFr(v, N) # 1
    BY <1>5, <1>10, <2>2, FrUnits
  <2> HIDE DEF v
  <2>4. ExpModFr(v, N) = ExpModFr(ExpModFr(v, n), k)
    <3>1. n * k = k * n
      BY <1>5
    <3>2. ExpModFr(v, n * k) = ExpModFr(ExpModFr(v, n), k)
      BY <1>5, <2>1, ExpTimes
    <3> QED BY <1>5, <3>1, <3>2
  <2>5. ExpModFr(1, k) = 1
    BY <1>5, ExpOfOne
  <2> QED BY <2>1, <2>3, <2>4, <2>5
<1> HIDE DEF v
<1>12. e \in Fr /\ e # 0
  <2> DEFINE a == SumFr(PowersOf(v, n), n)
  <2>1. a \in Fr /\ a # 0
    BY <1>5, <1>11, PowersNotZero
  <2>2. inv \in Fr /\ inv # 0
    <3>1. TwoTo(m) \in Fr /\ InvModFr(TwoTo(m)) \in Fr /\ InvModFr(TwoTo(m)) \odot TwoTo(m) = 1
      BY <1>1, DividesFacts
    <3>2. 0 \odot TwoTo(m) = 0
      BY <3>1, FrUnits
    <3> QED BY <3>1, <3>2 DEF n
  <2> HIDE DEF a, inv
  <2>3. inv \odot a \in Fr /\ inv \odot a # 0
    BY <2>1, <2>2, FrCancel, FrClosed
  <2> QED BY <2>3 DEF a
<1> HIDE DEF e
<1> DEFINE fv == PolyAt(f, n, s)
           gv == PolyAt(g, n, s)
           right == proof \odot (ExpModFr(s, n) \ominus ExpModFr(x, n))
<1>13. CheckProofMulti(fs, com, proof, x, ys) <=> com \ominus fv = right
  <2> DEFINE r == f
  <2>1. r = Interpolated(fs, ys, x, m) /\ IsSlice(r, m)
    BY <1>9
  <2> HIDE DEF r
  <2>2. CheckProofMulti(fs, com, proof, x, ys) <=>
            com \ominus PolyAt(r, TwoTo(m), Secret)
                = proof \odot (ExpModFr(Secret, TwoTo(m)) \ominus ExpModFr(x, TwoTo(m)))
    BY <1>1, <1>2, <1>4, <1>6, <2>1, CheckIs
  <2> QED BY <2>2 DEF r, n, s
<1>14. CheckProofMulti(fs, com, proof, x, bs) <=> com \ominus gv = right
  <2> DEFINE r == g
             b == bs
  <2>1. r = Interpolated(fs, b, x, m) /\ IsSlice(r, m) /\ IsSlice(b, m)
    BY <1>8, <1>9
  <2> HIDE DEF r, b
  <2>2. CheckProofMulti(fs, com, proof, x, b) <=>
            com \ominus PolyAt(r, TwoTo(m), Secret)
                = proof \odot (ExpModFr(Secret, TwoTo(m)) \ominus ExpModFr(x, TwoTo(m)))
    BY <1>1, <1>2, <1>4, <2>1, CheckIs
  <2> QED BY <2>2 DEF r, b, n, s
<1>15. fv \in Fr /\ gv \in Fr /\ gv = fv \oplus e
  <2>1. /\ \A i \in 0 .. n - 1 : f[i] \in Fr
        /\ \A i \in 0 .. n - 1 : g[i] \in Fr
    BY <1>9 DEF IsSlice, n
  <2> HIDE DEF f, g
  <2>2. fv \in Fr /\ gv \in Fr
    BY <1>4, <1>5, <2>1, PolyAtType
  <2> QED BY <1>9, <2>2
<1> HIDE DEF f, g, fv, gv, right, bs
<1>16. ~ CheckProofMulti(fs, com, proof, x, bs)
  <2>1. SUFFICES ASSUME com \ominus fv = com \ominus gv
                 PROVE  FALSE
    BY <1>7, <1>13, <1>14
  <2>2. fv \ominus com = gv \ominus com
    BY <1>4, <1>15, <2>1, FrTurns
  <2>3. fv = gv
    <3>1. (fv \ominus com) \oplus com = fv /\ (gv \ominus com) \oplus com = gv
      BY <1>4, <1>15, FrDifference
    <3> QED BY <2>2, <3>1
  <2>4. e = 0
    <3>1. fv \oplus e = e \oplus fv /\ (e \oplus fv) \ominus fv = e /\ fv \ominus fv = 0
      BY <1>12, <1>15, FrCommutes, FrDifference, FrUnits
    <3> QED BY <1>15, <2>3, <3>1
  <2> QED BY <1>12, <2>4
<1> QED BY <1>16 DEF com, proof, x, bs, ys

(* So a sample that is taken is as it was sent.                            *)
LEMMA TakenUnaltered ==
    ASSUME SenderInv, phase \notin {"data", "extended", "committed"}, NEW q, NEW m, Sampled(q, m),
           NEW i \in 0 .. sampleCount - 1, NEW change \in {0, 1}, NEW j \in {0, cosetWidth - 1},
           NEW sub, sub = [Sub(i) EXCEPT ![j] = AddModFr(@, change)], Verifies(i, sub)
    PROVE  sub = Sub(i)
<1> DEFINE d == data
           p == domainPos(i)
           l == TwoTo(m)
           a == Sub(i)
           ys == SampleOf(d, q, m, p)
<1>1. /\ d \in Data /\ Width(d, q, m) /\ ks = Settings[Length(d)] /\ m \in Nat /\ cosetWidth = l
  BY DEF Sampled
<1>2. /\ p \in 0 .. TwoTo(q + 1) - 1 /\ commit = CommitOf(d)
      /\ proofs = ProofsOf(d, q, m) /\ ks.ExpandedRootsOfUnity[p] = PointOf(d, p)
      /\ a = Cut(reverseBitOrder(extended), i, l)
      /\ \A h \in 0 .. l - 1 : a[h] = ys[Rev(m, h)]
  BY SampleFacts
<1>3. l \in Nat /\ l > 0
  BY <1>1, TwoToType
<1>4. a = [h \in 0 .. l - 1 |-> a[h]] /\ DOMAIN a = 0 .. l - 1
  BY <1>2 DEF Cut
<1>5. j \in 0 .. l - 1
  BY <1>1, <1>3
<1>6. IsSlice(ys, m)
  <2> DEFINE c == ResidueOf(d, q, m, p)
             x == PointOf(d, p)
             z == CosetRoot(d, q)
  <2>1. IsSlice(c, m) /\ x \in Fr /\ IsRoot(z, m) /\ ys = Transform(Twist(c, x, m), z, m)
    BY <1>1, <1>2, SampleValues
  <2> HIDE DEF c, x, z, ys
  <2>2. IsSlice(Twist(c, x, m), m)
    BY <1>1, <2>1, TwistType
  <2> QED BY <1>1, <2>1, <2>2, TransformType DEF IsRoot
<1> HIDE DEF d, p, a, ys
<1>7. \A h \in 0 .. l - 1 : Rev(m, h) \in 0 .. l - 1 /\ Rev(m, Rev(m, h)) = h
  BY <1>1, RevTwice
<1>8. \A h \in 0 .. l - 1 : a[h] \in Fr /\ ys[h] \in Fr
  <2>1. \A h \in 0 .. l - 1 : ys[h] \in Fr
    BY <1>6 DEF IsSlice
  <2> HIDE DEF l
  <2> QED BY <1>2, <1>7, <2>1
<1>9. /\ DOMAIN sub = 0 .. l - 1 /\ sub[j] = a[j] \oplus change
      /\ sub = [h \in 0 .. l - 1 |-> sub[h]]
      /\ \A h \in 0 .. l - 1 : h # j => sub[h] = a[h]
  <2>1. sub = [a EXCEPT ![j] = AddModFr(@, change)]
    BY DEF a
  <2> HIDE DEF l
  <2> QED BY <1>4, <1>5, <2>1
<1>10. CASE change = 0
  <2>1. a[j] \oplus 0 = a[j]
    BY <1>5, <1>8, FrUnits
  <2>2. \A h \in 0 .. l - 1 : sub[h] = a[h]
    BY <1>9, <1>10, <2>1
  <2> HIDE DEF l
  <2>3. sub = a
    BY <1>4, <1>9, <2>2
  <2> QED BY <2>3 DEF a
<1>11. CASE change = 1
  <2> DEFINE h == Rev(m, j)
  <2>1. h \in 0 .. l - 1 /\ Rev(m, h) = j
    BY <1>5, <1>7
  <2>2. reverseBitOrder(sub) = [k \in 0 .. l - 1 |-> sub[Rev(m, k)]]
    <3> DEFINE f == sub
    <3>1. DOMAIN f = 0 .. TwoTo(m) - 1 /\ m \in Nat
      BY <1>1, <1>9
    <3> HIDE DEF f
    <3>2. reverseBitOrder(f) = [k \in 0 .. TwoTo(m) - 1 |-> f[Rev(m, k)]]
      BY <3>1, ReverseIs
    <3> QED BY <3>2 DEF f
  <2>3. ASSUME NEW k \in 0 .. l - 1
        PROVE  sub[Rev(m, k)] = IF k = h THEN ys[k] \oplus 1 ELSE ys[k]
    <3>1. Rev(m, k) \in 0 .. l - 1 /\ Rev(m, Rev(m, k)) = k
      BY <1>7
    <3>2. a[Rev(m, k)] = ys[k]
      <4> HIDE DEF l
      <4> QED BY <1>2, <3>1 DEF a, ys
    <3>3. Rev(m, k) = j <=> k = h
      BY <2>1, <3>1
    <3> HIDE DEF h, l
    <3> QED BY <1>9, <1>11, <3>1, <3>2, <3>3
  <2>4. reverseBitOrder(sub) = Altered(ys, h, m)
    <3> HIDE DEF h
    <3>1. Altered(ys, h, m) = [k \in 0 .. l - 1 |-> IF k = h THEN ys[k] \oplus 1 ELSE ys[k]]
      BY DEF Altered
    <3> HIDE DEF l
    <3> QED BY <2>2, <2>3, <3>1
  <2>5. ~ CheckProofMulti(ks, CommitOf(d), ProofsOf(d, q, m)[p], PointOf(d, p), Altered(ys, h, m))
    <3>1. h \in 0 .. TwoTo(m) - 1
      BY <2>1
    <3> HIDE DEF h
    <3> QED BY <1>1, <1>2, <3>1, AlteredRefused DEF ys
  <2>6. ~ Verifies(i, sub)
    <3> HIDE DEF h
    <3> QED BY <1>2, <2>4, <2>5 DEF Verifies, p
  <2> QED BY <2>6
<1> QED BY <1>10, <1>11

(* Nothing is received before the proofs are sent, and nothing but what    *)
(* was sent.                                                               *)
ReceivedInv ==
    /\ DOMAIN received = 0 .. size - 1
    /\ phase \notin {"receiving", "recovered"} => \A p \in 0 .. size - 1 : received[p] = Nil
    /\ TakenAsSent

(* Nothing has been received yet.                                          *)
LEMMA ReceivedInit == Init => ReceivedInv
<1> SUFFICES ASSUME Init PROVE ReceivedInv
  OBVIOUS
<1>1. received = [p \in 0 .. size - 1 |-> Nil] /\ phase = "data"
  BY SliceIs DEF Init
<1> QED BY <1>1 DEF ReceivedInv, TakenAsSent

(* A step that keeps a sample keeps values of the extended data, at        *)
(* their own places; every other step leaves what was received alone.      *)
LEMMA ReceivedNext == SenderInv /\ ReceivedInv /\ [Next]_vars => ReceivedInv'
<1> SUFFICES ASSUME SenderInv, ReceivedInv, [Next]_vars
             PROVE  ReceivedInv'
  OBVIOUS
<1>1. CASE Extend \/ Commit \/ Prove
  <2>1. /\ phase \in {"data", "extended", "committed"} /\ phase' \in {"extended", "committed", "proved"}
        /\ UNCHANGED <<data, received>>
    BY <1>1 DEF Extend, Commit, Prove
  <2>2. size' = size
    BY <2>1 DEF size
  <2> QED BY <2>1, <2>2 DEF ReceivedInv, TakenAsSent
<1>2. CASE Recover
  <2>1. phase = "receiving" /\ phase' = "recovered" /\ UNCHANGED <<data, extended, received>>
    BY <1>2 DEF Recover
  <2>2. size' = size
    BY <2>1 DEF size
  <2> QED BY <2>1, <2>2 DEF ReceivedInv, TakenAsSent
<1>3. ASSUME NEW i \in 0 .. sampleCount - 1, Receive(i)
      PROVE  ReceivedInv'
  <2>1. PICK change \in {0, 1}, j \in {0, cosetWidth - 1} :
            LET sub == [Sub(i) EXCEPT ![j] = AddModFr(@, change)]
            IN  received' = IF Verifies(i, sub)
                            THEN [p \in DOMAIN received |->
                                     IF p \div cosetWidth = i THEN sub[p % cosetWidth] ELSE received[p]]
                            ELSE received
    BY <1>3 DEF Receive
  <2> DEFINE sub == [Sub(i) EXCEPT ![j] = AddModFr(@, change)]
             l == cosetWidth
             R == reverseBitOrder(extended)
  <2>2. /\ phase \in {"proved", "receiving"} /\ phase' = "receiving"
        /\ UNCHANGED <<data, cosetWidth, extended>>
    BY <1>3 DEF Receive
  <2>3. size' = size /\ R' = R
    BY <2>2 DEF size
  <2>4. DOMAIN received = 0 .. size - 1 /\ \A p \in DOMAIN received : received[p] # Nil => received[p] = R[p]
    BY DEF ReceivedInv, TakenAsSent
  <2>5. CASE Verifies(i, sub)
    <3>1. PICK q, m : Sampled(q, m)
      BY SampledFacts
    <3>2. phase \notin {"data", "extended", "committed"}
      BY <2>2
    <3>3. sub = Sub(i)
      BY <2>5, <3>1, <3>2, TakenUnaltered
    <3>4. received' = [p \in 0 .. size - 1 |-> IF p \div l = i THEN Sub(i)[p % l] ELSE received[p]]
      BY <2>1, <2>4, <2>5, <3>3
    <3>5. Sub(i) = Cut(R, i, l) /\ l \in Nat \ {0} /\ size \in Nat
      <4>1. Sub(i) = Cut(R, i, TwoTo(m)) /\ l = TwoTo(m) /\ m \in Nat /\ q + 1 + m \in Nat
            /\ size = TwoTo(q + 1 + m)
        BY <3>1, <3>2, SampleFacts DEF Sampled
      <4>2. TwoTo(m) \in Nat /\ TwoTo(m) > 0 /\ TwoTo(q + 1 + m) \in Nat
        BY <4>1, TwoToType
      <4> QED BY <4>1, <4>2
    <3> HIDE DEF sub, l, R
    <3>6. ASSUME NEW p \in 0 .. size - 1, p \div l = i
          PROVE  Sub(i)[p % l] = R[p]
      <4>1. p \in Int /\ p % l \in 0 .. l - 1 /\ l * (p \div l) + (p % l) = p
        BY <3>5
      <4>2. p \div l \in Int /\ l * (p \div l) = (p \div l) * l
        <5>1. \A b, e \in Int : b * e = e * b
          OBVIOUS
        <5>2. p \div l \in Int
          BY <3>5
        <5> QED BY <3>5, <5>1, <5>2
      <4>3. i * l + (p % l) = p
        BY <3>6, <4>1, <4>2
      <4> DEFINE b == p % l
      <4>4. b \in 0 .. l - 1 /\ i * l + b = p
        BY <4>1, <4>3
      <4> HIDE DEF b
      <4>5. Sub(i)[b] = R[i * l + b]
        BY <3>5, <4>4 DEF Cut
      <4> QED BY <4>4, <4>5 DEF b
    <3>7. /\ DOMAIN received' = 0 .. size - 1
          /\ \A p \in 0 .. size - 1 : received'[p] # Nil => received'[p] = R[p]
      <4>1. ASSUME NEW p \in 0 .. size - 1, received'[p] # Nil
            PROVE  received'[p] = R[p]
        <5>1. received'[p] = IF p \div l = i THEN Sub(i)[p % l] ELSE received[p]
          BY <3>4
        <5>2. CASE p \div l = i
          BY <3>6, <5>1, <5>2
        <5>3. CASE p \div l # i
          BY <2>4, <4>1, <5>1, <5>3
        <5> QED BY <5>2, <5>3
      <4> QED BY <3>4, <4>1
    <3> QED BY <2>2, <2>3, <3>7 DEF ReceivedInv, TakenAsSent, R
  <2>6. CASE ~ Verifies(i, sub)
    <3>1. received' = received
      BY <2>1, <2>6
    <3> HIDE DEF sub
    <3> QED BY <2>2, <2>3, <2>4, <3>1 DEF ReceivedInv, TakenAsSent
  <2> QED BY <2>5, <2>6
<1>4. CASE UNCHANGED vars
  <2>1. UNCHANGED <<phase, data, extended, received>>
    BY <1>4 DEF vars
  <2>2. size' = size
    BY <2>1 DEF size
  <2> QED BY <2>1, <2>2 DEF ReceivedInv, TakenAsSent
<1> QED BY <1>1, <1>2, <1>3, <1>4 DEF Next

(* A receiver never takes a sample one value of which was altered on the   *)
(* way: the proof in CheckProofMulti is one for the values sent only.      *)
THEOREM OnlySentIsTaken == Spec => []TakenAsSent
<1>1. Spec => []SenderInv
  BY SenderKeepsWhatDataGives
<1>2. Spec => [](SenderInv /\ ReceivedInv)
  <2>1. Init => SenderInv /\ ReceivedInv
    BY SenderInit, ReceivedInit
  <2>2. SenderInv /\ ReceivedInv /\ [Next]_vars => SenderInv' /\ ReceivedInv'
    BY SenderNext, ReceivedNext
  <2> QED BY <2>1, <2>2, PTL DEF Spec
<1>3. ReceivedInv => TakenAsSent
  BY DEF ReceivedInv
<1> QED BY <1>2, <1>3, PTL

HIDE DEF \oplus, \ominus, \odot

-----------------------------------------------------------------------------
(* Products of polynomials that are short enough.                          *)

(* The coefficients above e are zero.                                      *)
UpTo(x, n, e) == \A i \in 0 .. n - 1 : i > e => x[i] = 0

(* A slice is what its elements are.                                       *)
LEMMA SameSlice ==
    ASSUME NEW k, NEW a, IsSlice(a, k), NEW b, IsSlice(b, k),
           \A i \in 0 .. TwoTo(k) - 1 : a[i] = b[i]
    PROVE  a = b
<1>1. a = [i \in 0 .. TwoTo(k) - 1 |-> a[i]] /\ b = [i \in 0 .. TwoTo(k) - 1 |-> b[i]]
  BY DEF IsSlice
<1>2. [i \in 0 .. TwoTo(k) - 1 |-> a[i]] = [i \in 0 .. TwoTo(k) - 1 |-> b[i]]
  OBVIOUS
<1> QED BY <1>1, <1>2

(* A product modulo X ** n - 1 whose degree is below n is the product: so  *)
(* it is of the polynomials at z X.                                        *)
LEMMA ProductTwisted ==
    ASSUME NEW k \in Nat, NEW x, IsSlice(x, k), NEW t, IsSlice(t, k), NEW a \in Nat, NEW b \in Nat,
           a + b < TwoTo(k), UpTo(x, TwoTo(k), a), UpTo(t, TwoTo(k), b), NEW z \in Fr
    PROVE  /\ UpTo(Convolution(x, t, TwoTo(k)), TwoTo(k), a + b)
           /\ Twist(Convolution(x, t, TwoTo(k)), z, k)
                  = Convolution(Twist(x, z, k), Twist(t, z, k), TwoTo(k))
<1> DEFINE n == TwoTo(k)
           y == Convolution(x, t, n)
           tx == Twist(x, z, k)
           tt == Twist(t, z, k)
<1>1. n \in Nat /\ n > 0
  BY TwoToType
<1>2. /\ IsSlice(y, k)
      /\ \A j \in 0 .. n - 1 : \A i \in 0 .. n - 1 :
             /\ x[i] \in Fr /\ t[(j - i) % n] \in Fr
             /\ Turn(x, t, n, j)[i] = x[i] \odot t[(j - i) % n]
             /\ Turn(x, t, n, j)[i] \in Fr
  BY ConvolutionType
<1>3. IsSlice(tx, k) /\ IsSlice(tt, k)
  BY TwistType
<1>4. /\ IsSlice(Convolution(tx, tt, n), k)
      /\ \A j \in 0 .. n - 1 : \A i \in 0 .. n - 1 :
             Turn(tx, tt, n, j)[i] = tx[i] \odot tt[(j - i) % n]
  BY <1>3, ConvolutionType
<1>5. \A i \in 0 .. n - 1 : tx[i] = x[i] \odot ExpModFr(z, i) /\ tt[i] = t[i] \odot ExpModFr(z, i)
  BY DEF Twist
<1>6. \A j \in 0 .. n - 1 : y[j] = SumFr(Turn(x, t, n, j), n)
  BY DEF Convolution
<1>7. ASSUME NEW j \in 0 .. n - 1, NEW i \in 0 .. n - 1
      PROVE  /\ (j - i) % n = IF j >= i THEN j - i ELSE n + j - i
             /\ (j - i) % n \in 0 .. n - 1
             /\ i > a => x[i] = 0
             /\ (j - i) % n > b => t[(j - i) % n] = 0
  <2>1. /\ (j - i) % n = IF j >= i THEN j - i ELSE n + j - i
        /\ (j - i) % n \in 0 .. n - 1
    BY <1>1, TurnedIs
  <2> QED BY <2>1 DEF UpTo
<1>8. ASSUME NEW j \in 0 .. n - 1, NEW i \in 0 .. n - 1, x[i] = 0 \/ t[(j - i) % n] = 0
      PROVE  Turn(x, t, n, j)[i] = 0
  BY <1>2, <1>8, FrUnits
<1>9. UpTo(y, n, a + b)
  <2>1. SUFFICES ASSUME NEW j \in 0 .. n - 1, j > a + b
                 PROVE  y[j] = 0
    BY DEF UpTo
  <2>2. \A i \in 0 .. n - 1 : Turn(x, t, n, j)[i] = 0
    <3>1. SUFFICES ASSUME NEW i \in 0 .. n - 1
                   PROVE  x[i] = 0 \/ t[(j - i) % n] = 0
      BY <1>8
    <3>2. CASE i > a
      BY <1>7, <3>2
    <3>3. CASE i <= a
      <4>1. j >= i /\ j - i > b
        BY <2>1, <3>3
      <4>2. (j - i) % n = j - i
        BY <1>7, <4>1
      <4> QED BY <1>7, <4>1, <4>2
    <3> QED BY <3>2, <3>3
  <2> QED BY <1>1, <1>6, <2>2, SumZero
<1>10. ASSUME NEW j \in 0 .. n - 1, NEW i \in 0 .. n - 1
       PROVE  Turn(tx, tt, n, j)[i] = ExpModFr(z, j) \odot Turn(x, t, n, j)[i]
  <2> DEFINE h == (j - i) % n
  <2>1. h \in 0 .. n - 1 /\ i \in Nat /\ h \in Nat /\ j \in Nat
    BY <1>7
  <2>2. /\ ExpModFr(z, i) \in Fr /\ ExpModFr(z, h) \in Fr /\ ExpModFr(z, j) \in Fr
        /\ x[i] \in Fr /\ t[h] \in Fr
    BY <1>2, <2>1, ExpType
  <2>3. Turn(tx, tt, n, j)[i] = (x[i] \odot ExpModFr(z, i)) \odot (t[h] \odot ExpModFr(z, h))
    <3> HIDE DEF tx, tt
    <3> QED BY <1>4, <1>5, <2>1
  <2>4. (x[i] \odot ExpModFr(z, i)) \odot (t[h] \odot ExpModFr(z, h))
            = (x[i] \odot t[h]) \odot (ExpModFr(z, i) \odot ExpModFr(z, h))
    BY <2>2, FrExchange
  <2>5. Turn(x, t, n, j)[i] = x[i] \odot t[h] /\ x[i] \odot t[h] \in Fr
    BY <1>2
  <2>6. CASE j >= i
    <3>1. h = j - i /\ i + h = j
      BY <1>7, <2>6
    <3>2. ExpModFr(z, i) \odot ExpModFr(z, h) = ExpModFr(z, j)
      <4> HIDE DEF h
      <4> QED BY <2>1, <3>1, ExpAdds
    <3> QED BY <2>2, <2>3, <2>4, <2>5, <3>2, FrCommutes
  <2>7. CASE j < i
    <3>1. h = n + j - i
      BY <1>7, <2>7
    <3>2. i > a \/ h > b
      <4>1. a + b < n
        OBVIOUS
      <4> HIDE DEF h, n
      <4> QED BY <1>1, <2>1, <2>7, <3>1, <4>1
    <3>3. x[i] = 0 \/ t[h] = 0
      BY <1>7, <3>2
    <3>4. x[i] \odot t[h] = 0
      BY <2>2, <3>3, FrUnits
    <3>5. ExpModFr(z, i) \odot ExpModFr(z, h) \in Fr
      BY <2>2, FrClosed
    <3> QED BY <2>2, <2>3, <2>4, <2>5, <3>4, <3>5, FrUnits
  <2> QED BY <2>6, <2>7
<1>11. Twist(y, z, k) = Convolution(tx, tt, n)
  <2>1. ASSUME NEW j \in 0 .. n - 1
        PROVE  Twist(y, z, k)[j] = Convolution(tx, tt, n)[j]
    <3>1. Convolution(tx, tt, n)[j] = SumFr(Turn(tx, tt, n, j), n)
      BY DEF Convolution
    <3>2. ExpModFr(z, j) \in Fr
      BY ExpType
    <3>3. SumFr(Turn(tx, tt, n, j), n) = ExpModFr(z, j) \odot SumFr(Turn(x, t, n, j), n)
      <4> HIDE DEF n, tx, tt
      <4> QED BY <1>1, <1>2, <1>10, <3>2, SumTimes
    <3>4. Twist(y, z, k)[j] = y[j] \odot ExpModFr(z, j) /\ y[j] \in Fr
      BY <1>2 DEF Twist, IsSlice
    <3> QED BY <1>6, <3>1, <3>2, <3>3, <3>4, FrCommutes
  <2>2. IsSlice(Twist(y, z, k), k) /\ IsSlice(Convolution(tx, tt, n), k)
    BY <1>2, <1>4, TwistType
  <2> HIDE DEF y, tx, tt
  <2> QED BY <2>1, <2>2, SameSlice
<1> QED BY <1>9, <1>11

(* Its value is the product of the values.                                 *)
LEMMA ProductAt ==
    ASSUME NEW k \in Nat, NEW w, IsRoot(w, k), NEW x, IsSlice(x, k), NEW t, IsSlice(t, k),
           NEW a \in Nat, NEW b \in Nat, a + b < TwoTo(k), UpTo(x, TwoTo(k), a),
           UpTo(t, TwoTo(k), b), NEW z \in Fr
    PROVE  PolyAt(Convolution(x, t, TwoTo(k)), TwoTo(k), z)
               = PolyAt(x, TwoTo(k), z) \odot PolyAt(t, TwoTo(k), z)
<1> DEFINE n == TwoTo(k)
           y == Convolution(x, t, n)
<1>1. n \in Nat /\ 0 \in 0 .. n - 1 /\ w \in Fr /\ ExpModFr(w, 0) = 1 /\ z \odot 1 = z
  BY TwoToType, ExpZero, FrUnits DEF IsRoot
<1>2. IsSlice(y, k) /\ IsSlice(Twist(x, z, k), k) /\ IsSlice(Twist(t, z, k), k)
  BY ConvolutionType, TwistType
<1>3. Twist(y, z, k) = Convolution(Twist(x, z, k), Twist(t, z, k), n)
  BY ProductTwisted
<1>4. \A c : IsSlice(c, k) => TransformAt(Twist(c, z, k), w, k, 0) = PolyAt(c, n, z)
  BY <1>1, TwistedAt
<1>5. TransformAt(Twist(y, z, k), w, k, 0)
          = TransformAt(Twist(x, z, k), w, k, 0) \odot TransformAt(Twist(t, z, k), w, k, 0)
  BY <1>1, <1>2, <1>3, ConvolutionTransforms
<1> QED BY <1>2, <1>4, <1>5
-----------------------------------------------------------------------------
(* Polynomials that are zero at given points.                              *)

(* p, of n coefficients and a degree of at most e, is zero at S and        *)
(* nowhere else.                                                           *)
Vanishes(p, n, e, S) ==
    /\ p \in [0 .. n - 1 -> Fr]
    /\ UpTo(p, n, e)
    /\ \A z \in Fr : PolyAt(p, n, z) = 0 <=> z \in S

(* A product is zero where one of the factors is.                          *)
LEMMA ProductVanishes ==
    ASSUME NEW k \in Nat, NEW w, IsRoot(w, k), NEW x, NEW t, NEW a \in Nat, NEW b \in Nat,
           a + b < TwoTo(k), NEW S, NEW T, Vanishes(x, TwoTo(k), a, S), Vanishes(t, TwoTo(k), b, T)
    PROVE  Vanishes(Convolution(x, t, TwoTo(k)), TwoTo(k), a + b, S \cup T)
<1> DEFINE n == TwoTo(k)
           y == Convolution(x, t, n)
<1>1. n \in Nat /\ 0 \in Fr
  BY TwoToType, ModulusFacts
<1>2. IsSlice(x, k) /\ IsSlice(t, k) /\ UpTo(x, n, a) /\ UpTo(t, n, b)
  BY DEF Vanishes, IsSlice
<1>3. IsSlice(y, k)
  BY <1>2, ConvolutionType
<1>4. UpTo(y, n, a + b)
  BY <1>1, <1>2, ProductTwisted
<1>5. ASSUME NEW z \in Fr
      PROVE  PolyAt(y, n, z) = 0 <=> z \in S \cup T
  <2>1. PolyAt(y, n, z) = PolyAt(x, n, z) \odot PolyAt(t, n, z)
    BY <1>2, ProductAt
  <2>2. PolyAt(x, n, z) \in Fr /\ PolyAt(t, n, z) \in Fr
    BY <1>1, <1>2, PolyAtType DEF IsSlice
  <2>3. (PolyAt(x, n, z) = 0 <=> z \in S) /\ (PolyAt(t, n, z) = 0 <=> z \in T)
    BY DEF Vanishes
  <2>4. \A u, v \in Fr : u \odot v = 0 <=> u = 0 \/ v = 0
    BY FrUnits, FrCancel
  <2> QED BY <2>1, <2>2, <2>3, <2>4
<1> QED BY <1>3, <1>4, <1>5 DEF Vanishes, IsSlice

(* Zeros put above or taken away from there change nothing.                *)
LEMMA PaddedVanishes ==
    ASSUME NEW m \in Nat, NEW n \in Nat, m <= n, NEW e \in Nat, NEW S, NEW p, NEW c,
           c \in [0 .. n - 1 -> Fr],
           \A i \in 0 .. m - 1 : p[i] \in Fr /\ c[i] = p[i], \A i \in m .. n - 1 : c[i] = 0
    PROVE  /\ Vanishes(p, m, e, S) => Vanishes(c, n, e, S)
           /\ Vanishes(c, n, e, S) /\ p \in [0 .. m - 1 -> Fr] => Vanishes(p, m, e, S)
<1>1. PICK d \in Nat : n = m + d
  <2>1. n - m \in Nat /\ n = m + (n - m)
    OBVIOUS
  <2> QED BY <2>1
<1>2. \A z \in Fr : PolyAt(c, n, z) = PolyAt(p, m, z)
  <2>1. SUFFICES ASSUME NEW z \in Fr PROVE PolyAt(c, n, z) = PolyAt(p, m, z)
    OBVIOUS
  <2>2. \A i \in m .. m + d - 1 : c[i] = 0
    BY <1>1
  <2>3. PolyAt(c, m + d, z) = PolyAt(p, m, z)
    BY <2>2, PolyAtZeros
  <2> QED BY <1>1, <2>3
<1>3. UpTo(p, m, e) <=> UpTo(c, n, e)
  BY DEF UpTo
<1> QED BY <1>2, <1>3 DEF Vanishes

(* What padPoly makes of a polynomial.                                     *)
LEMMA PadVanishes ==
    ASSUME NEW m \in Nat, NEW n \in Nat, m <= n, NEW e \in Nat, NEW S, NEW p, Vanishes(p, m, e, S)
    PROVE  Vanishes(padPoly(n, p), n, e, S)
<1> DEFINE c == [i \in 0 .. n - 1 |-> IF i < m THEN p[i] ELSE 0]
<1>1. p \in [0 .. m - 1 -> Fr]
  BY DEF Vanishes
<1>2. Length(p) = m
  BY <1>1, LengthIs
<1>3. padPoly(n, p) = c
  BY <1>2, SliceIs DEF padPoly
<1>4. c \in [0 .. n - 1 -> Fr]
  BY <1>1, ModulusFacts
<1>5. \A i \in 0 .. m - 1 : p[i] \in Fr /\ c[i] = p[i]
  BY <1>1
<1>6. \A i \in m .. n - 1 : c[i] = 0
  OBVIOUS
<1> HIDE DEF c
<1>7. Vanishes(c, n, e, S)
  BY <1>4, <1>5, <1>6, PaddedVanishes
<1> QED BY <1>3, <1>7

(* The first elements of r from the one at a to the one below b.           *)
Among(r, a, b) == {r[k] : k \in a .. b - 1}

(* Adjoining parts.                                                        *)
LEMMA AmongJoins ==
    ASSUME NEW r, NEW a \in Nat, NEW b \in Nat, NEW c \in Nat, a <= b, b <= c
    PROVE  Among(r, a, b) \cup Among(r, b, c) = Among(r, a, c) /\ Among(r, a, a) = {}
<1>1. \A k : k \in a .. c - 1 <=> k \in a .. b - 1 \/ k \in b .. c - 1
  OBVIOUS
<1>2. a .. a - 1 = {}
  OBVIOUS
<1> QED BY <1>1, <1>2 DEF Among

(* The polynomial 1 is zero nowhere, and all its values are 1.             *)
LEMMA OneVanishes ==
    ASSUME NEW k \in Nat, NEW w \in Fr, NEW c,
           c = [j \in 0 .. TwoTo(k) - 1 |-> IF j = 0 THEN 1 ELSE 0]
    PROVE  /\ IsSlice(c, k) /\ Vanishes(c, TwoTo(k), 0, {})
           /\ Transform(c, w, k) = [j \in 0 .. TwoTo(k) - 1 |-> 1]
<1> DEFINE n == TwoTo(k)
<1>1. n \in Nat /\ 0 \in 0 .. n - 1 /\ 0 \in Fr /\ 1 \in Fr /\ 1 # 0
  BY TwoToType, ModulusFacts
<1>2. c \in [0 .. n - 1 -> Fr] /\ \A i \in 0 .. n - 1 : i > 0 => c[i] = 0
  BY <1>1
<1>3. ASSUME NEW z \in Fr
      PROVE  PolyAt(c, n, z) = 1
  <2> DEFINE t == Monomials(c, n, z)
  <2>1. ASSUME NEW i \in 0 .. n - 1
        PROVE  t[i] = c[i] \odot ExpModFr(z, i) /\ ExpModFr(z, i) \in Fr
    BY ExpType DEF Monomials
  <2>2. t[0] = 1
    <3>1. ExpModFr(z, 0) = 1 /\ 1 \odot 1 = 1
      BY <1>1, ExpZero, FrUnits
    <3>2. c[0] = 1
      BY <1>1
    <3> HIDE DEF t
    <3> QED BY <1>1, <2>1, <3>1, <3>2
  <2>3. \A i \in 0 .. n - 1 : i # 0 => t[i] = 0
    <3>1. SUFFICES ASSUME NEW i \in 0 .. n - 1, i # 0 PROVE t[i] = 0
      OBVIOUS
    <3>2. c[i] = 0
      BY <1>2, <3>1
    <3> HIDE DEF t
    <3> QED BY <2>1, <3>2, FrUnits
  <2>4. SumFr(t, n) = t[0]
    <3> HIDE DEF t
    <3> QED BY <1>1, <2>2, <2>3, SumSingle
  <2> QED BY <2>2, <2>4 DEF PolyAt
<1>4. Transform(c, w, k) = [j \in 0 .. n - 1 |-> 1]
  <2>1. ASSUME NEW i \in 0 .. n - 1
        PROVE  TransformAt(c, w, k, i) = 1
    <3>1. ExpModFr(w, i) \in Fr
      BY ExpType
    <3>2. TransformAt(c, w, k, i) = PolyAt(c, n, ExpModFr(w, i))
      <4>1. i \in Nat /\ IsSlice(c, k)
        BY <1>2 DEF IsSlice
      <4> HIDE DEF n
      <4> QED BY <4>1, TransformAtIs DEF n
    <3> QED BY <1>3, <3>1, <3>2
  <2> QED BY <2>1 DEF Transform
<1> QED BY <1>1, <1>2, <1>3, <1>4 DEF Vanishes, UpTo, IsSlice
-----------------------------------------------------------------------------
(* reduceLeaves: products of several polynomials.                          *)

(* ps are q polynomials, the i-th of which is zero at the elements of r    *)
(* from E[i - 1] to below E[i]; their product fits in n coefficients.      *)
AreLeaves(ps, q, E, r, n) ==
    /\ Len(ps) = q /\ E \in [0 .. q -> Nat] /\ E[0] <= E[q] /\ E[q] - E[0] < n
    /\ \A i \in 1 .. q :
           /\ E[0] <= E[i - 1] /\ E[i - 1] <= E[i] /\ E[i] <= E[q]
           /\ Length(ps[i]) \in 1 .. n
           /\ Vanishes(ps[i], Length(ps[i]), E[i] - E[i - 1], Among(r, E[i - 1], E[i]))

(* The transforms of polynomials that are zero at S.                       *)
ValuesOf(y, k, e, S) ==
    {Transform(c, y, k) : c \in {p \in [0 .. TwoTo(k) - 1 -> Fr] : Vanishes(p, TwoTo(k), e, S)}}

(* The transforms of the product of the first i of them.                   *)
ProductsOf(E, r, i, y, k) == ValuesOf(y, k, E[i] - E[0], Among(r, E[0], E[i]))

(* What a round of reduceLeaves makes of the values it has.                *)
TimesValues(fs, p, n, before) ==
    Slice([j \in 0 .. n - 1 |-> MulModFr(before[j], InplaceFFT(fs, padPoly(n, p), FALSE)[j])])

(* fs has the roots for the transforms of 2 ** k values: powers of y.      *)
HasTransforms(fs, y, k) ==
    /\ k \in Nat /\ IsRoot(y, k) /\ Divides(k)
    /\ \A c : IsSlice(c, k) => /\ InplaceFFT(fs, c, FALSE) = Transform(c, y, k)
                              /\ InplaceFFT(fs, c, TRUE) = Coefficients(c, y, k)

(* The transforms in place are those of the lengths the settings are for.  *)
LEMMA InplaceTransforms ==
    ASSUME NEW order \in Nat, NEW k \in 0 .. order, NEW w, NEW fs, HasRoots(fs, w, order),
           Divides(order), fs.MaxWidth = TwoTo(order), NEW y, y = ExpModFr(w, TwoTo(order - k))
    PROVE  HasTransforms(fs, y, k)
<1>1. k \in Nat
  OBVIOUS
<1>2. ASSUME NEW c, IsSlice(c, k)
      PROVE  /\ IsRoot(y, k)
             /\ InplaceFFT(fs, c, FALSE) = Transform(c, y, k)
             /\ InplaceFFT(fs, c, TRUE) = Coefficients(c, y, k)
  <2>1. IsRoot(y, k) /\ Values(fs, c) = Transform(c, y, k) /\ FromValues(fs, c) = Coefficients(c, y, k)
    BY <1>2, TransformsComputed
  <2>2. /\ FourierTransform(fs, c, FALSE) = InplaceFFT(fs, c, FALSE)
        /\ FourierTransform(fs, c, TRUE) = InplaceFFT(fs, c, TRUE)
    BY <1>1, <1>2, FourierTransformIs
  <2> QED BY <2>1, <2>2 DEF Values, FromValues
<1>3. Divides(k)
  BY DividesFacts
<1>4. IsSlice([j \in 0 .. TwoTo(k) - 1 |-> 0], k)
  BY ModulusFacts DEF IsSlice
<1> QED BY <1>1, <1>2, <1>3, <1>4 DEF HasTransforms

(* Multiplication of the values by those of another polynomial.            *)
LEMMA ValuesMultiply ==
    ASSUME NEW fs, NEW y, NEW k, HasTransforms(fs, y, k), NEW a \in Nat, NEW b \in Nat,
           a + b < TwoTo(k), NEW S, NEW T, NEW m \in Nat, m <= TwoTo(k),
           NEW p, Vanishes(p, m, b, T), NEW u \in ValuesOf(y, k, a, S)
    PROVE  TimesValues(fs, p, TwoTo(k), u) \in ValuesOf(y, k, a + b, S \cup T)
<1>0. PICK c \in [0 .. TwoTo(k) - 1 -> Fr] : u = Transform(c, y, k) /\ Vanishes(c, TwoTo(k), a, S)
  BY DEF ValuesOf
<1> DEFINE n == TwoTo(k)
           pad == padPoly(n, p)
           d == Convolution(c, pad, n)
<1>1. k \in Nat /\ n \in Nat
  BY TwoToType DEF HasTransforms
<1>2. Vanishes(pad, n, b, T)
  BY <1>1, PadVanishes
<1> HIDE DEF pad
<1>3. IsSlice(pad, k) /\ IsSlice(c, k)
  BY <1>2 DEF Vanishes, IsSlice
<1>4. IsRoot(y, k) /\ InplaceFFT(fs, pad, FALSE) = Transform(pad, y, k)
  BY <1>3 DEF HasTransforms
<1>5. Vanishes(d, n, a + b, S \cup T)
  BY <1>0, <1>1, <1>2, <1>4, ProductVanishes
<1>6. ASSUME NEW j \in 0 .. TwoTo(k) - 1
      PROVE  TransformAt(d, y, k, j) = TransformAt(c, y, k, j) \odot TransformAt(pad, y, k, j)
  BY <1>1, <1>3, <1>4, ConvolutionTransforms
<1>7. TimesValues(fs, p, n, Transform(c, y, k)) = Transform(d, y, k)
  <2> DEFINE v == Transform(c, y, k)
  <2>1. ASSUME NEW j \in 0 .. n - 1
        PROVE  MulModFr(v[j], InplaceFFT(fs, pad, FALSE)[j]) = TransformAt(d, y, k, j)
    <3>1. v[j] = TransformAt(c, y, k, j) /\ Transform(pad, y, k)[j] = TransformAt(pad, y, k, j)
      BY DEF Transform
    <3> HIDE DEF v, d
    <3>2. TransformAt(d, y, k, j) = TransformAt(c, y, k, j) \odot TransformAt(pad, y, k, j)
      BY <1>6
    <3> QED BY <1>4, <3>1, <3>2 DEF \odot
  <2>2. TimesValues(fs, p, n, v)
            = [j \in 0 .. n - 1 |-> MulModFr(v[j], InplaceFFT(fs, pad, FALSE)[j])]
    BY SliceIs DEF TimesValues, pad
  <2> HIDE DEF d, v
  <2>3. [j \in 0 .. n - 1 |-> MulModFr(v[j], InplaceFFT(fs, pad, FALSE)[j])]
            = [j \in 0 .. n - 1 |-> TransformAt(d, y, k, j)]
    BY <2>1
  <2> QED BY <2>2, <2>3 DEF Transform, v
<1>8. d \in [0 .. n - 1 -> Fr]
  BY <1>5 DEF Vanishes
<1> HIDE DEF d
<1> QED BY <1>0, <1>5, <1>7, <1>8 DEF ValuesOf

(* A round multiplies by the values of the next polynomial.                *)
LEMMA RoundMultiplies ==
    ASSUME NEW fs, NEW y, NEW k, HasTransforms(fs, y, k), NEW q \in Nat, NEW ps, NEW E, NEW r,
           AreLeaves(ps, q, E, r, TwoTo(k)), NEW i \in 1 .. q, NEW v \in ProductsOf(E, r, i - 1, y, k)
    PROVE  TimesValues(fs, ps[i], TwoTo(k), v) \in ProductsOf(E, r, i, y, k)
<1> DEFINE n == TwoTo(k)
           S == Among(r, E[0], E[i - 1])
           T == Among(r, E[i - 1], E[i])
           a == E[i - 1] - E[0]
           b == E[i] - E[i - 1]
           m == Length(ps[i])
<1>1. k \in Nat /\ n \in Nat /\ i - 1 \in 0 .. q /\ i \in 0 .. q
  BY TwoToType DEF HasTransforms
<1>2. v \in ValuesOf(y, k, a, S)
  BY DEF ProductsOf
<1>3. /\ E[i] \in Nat /\ E[i - 1] \in Nat /\ E[0] \in Nat /\ E[0] <= E[i - 1] /\ E[i - 1] <= E[i]
      /\ a \in Nat /\ b \in Nat /\ a + b = E[i] - E[0] /\ a + b < n
  <2>1. /\ E \in [0 .. q -> Nat] /\ E[q] - E[0] < n
        /\ E[0] <= E[i - 1] /\ E[i - 1] <= E[i] /\ E[i] <= E[q]
    BY DEF AreLeaves
  <2>2. E[i] \in Nat /\ E[i - 1] \in Nat /\ E[0] \in Nat /\ E[q] \in Nat
    BY <1>1, <2>1
  <2> HIDE DEF n
  <2> QED BY <1>1, <2>1, <2>2
<1>4. m \in Nat /\ m <= n /\ Vanishes(ps[i], m, b, T)
  BY <1>1 DEF AreLeaves
<1>5. S \cup T = Among(r, E[0], E[i])
  <2>1. PICK e0 \in Nat, e1 \in Nat, e2 \in Nat : e0 = E[0] /\ e1 = E[i - 1] /\ e2 = E[i]
    BY <1>3
  <2>2. e0 <= e1 /\ e1 <= e2
    BY <1>3, <2>1
  <2>3. Among(r, e0, e1) \cup Among(r, e1, e2) = Among(r, e0, e2)
    BY <2>2, AmongJoins
  <2> QED BY <2>1, <2>3
<1> HIDE DEF n, S, T, a, b, m
<1>6. TimesValues(fs, ps[i], n, v) \in ValuesOf(y, k, a + b, S \cup T)
  <2>1. PICK u \in Nat, z \in Nat, l \in Nat : u = a /\ z = b /\ l = m
    BY <1>3, <1>4
  <2> DEFINE p == ps[i]
  <2>2. /\ u + z < TwoTo(k) /\ l <= TwoTo(k) /\ Vanishes(p, l, z, T)
        /\ v \in ValuesOf(y, k, u, S)
    BY <1>2, <1>3, <1>4, <2>1 DEF n
  <2> HIDE DEF p
  <2>3. TimesValues(fs, p, TwoTo(k), v) \in ValuesOf(y, k, u + z, S \cup T)
    BY <2>2, ValuesMultiply
  <2> QED BY <2>1, <2>3 DEF n, p
<1> QED BY <1>3, <1>5, <1>6 DEF ProductsOf, n

(* Their product is zero at all these elements.                            *)
LEMMA ReduceLeavesIs ==
    ASSUME NEW fs, NEW y, NEW k, HasTransforms(fs, y, k), NEW q \in Nat, NEW ps, NEW E, NEW r,
           AreLeaves(ps, q, E, r, TwoTo(k))
    PROVE  Vanishes(reduceLeaves(fs, TwoTo(k), ps), TwoTo(k), E[q] - E[0], Among(r, E[0], E[q]))
<1> DEFINE n == TwoTo(k)
           V == [i \in 0 .. q |-> ProductsOf(E, r, i, y, k)]
           round(i, before) == TimesValues(fs, ps[i], n, before)
           step == [i \in 1 .. q |-> [v \in ProductsOf(E, r, i - 1, y, k) |-> round(i, v)]]
           v0 == Slice([j \in 0 .. n - 1 |-> 1])
           F(g) == g = [i \in 0 .. q |-> IF i = 0 THEN v0 ELSE round(i, g[i - 1])]
           run == CHOOSE g : F(g)
<1>1. k \in Nat /\ n \in Nat /\ Len(ps) = q /\ E \in [0 .. q -> Nat] /\ E[0] \in Nat
  <2>1. k \in Nat
    BY DEF HasTransforms
  <2>2. n \in Nat
    BY <2>1, TwoToType
  <2>3. Len(ps) = q /\ E \in [0 .. q -> Nat]
    BY DEF AreLeaves
  <2>4. 0 \in 0 .. q
    OBVIOUS
  <2> QED BY <2>1, <2>2, <2>3, <2>4
<1>2. /\ IsRoot(y, k) /\ Divides(k)
      /\ \A c : IsSlice(c, k) => InplaceFFT(fs, c, TRUE) = Coefficients(c, y, k)
  BY DEF HasTransforms
<1>3. reduceLeaves(fs, n, ps) = InplaceFFT(fs, run[q], TRUE)
  BY <1>1 DEF reduceLeaves, TimesValues
<1>4. \A i \in 1 .. q : \A v \in V[i - 1] : step[i][v] = round(i, v) /\ round(i, v) \in V[i]
  <2>1. ASSUME NEW i \in 1 .. q, NEW v \in V[i - 1]
        PROVE  step[i][v] = round(i, v) /\ round(i, v) \in V[i]
    <3>1. V[i - 1] = ProductsOf(E, r, i - 1, y, k) /\ V[i] = ProductsOf(E, r, i, y, k)
      OBVIOUS
    <3>2. round(i, v) \in ProductsOf(E, r, i, y, k)
      <4>1. v \in ProductsOf(E, r, i - 1, y, k)
        BY <3>1
      <4> HIDE DEF V
      <4> QED BY <4>1, RoundMultiplies
    <3> HIDE DEF round, V
    <3> QED BY <3>1, <3>2
  <2> QED BY <2>1
<1>5. v0 \in V[0]
  <2> DEFINE one == [j \in 0 .. n - 1 |-> IF j = 0 THEN 1 ELSE 0]
  <2>1. y \in Fr
    BY <1>2 DEF IsRoot
  <2>2. /\ IsSlice(one, k) /\ Vanishes(one, n, 0, {})
        /\ Transform(one, y, k) = [j \in 0 .. n - 1 |-> 1]
    BY <1>1, <2>1, OneVanishes
  <2>3. Among(r, E[0], E[0]) = {} /\ E[0] - E[0] = 0
    BY <1>1, AmongJoins
  <2>4. v0 = Transform(one, y, k)
    BY <2>2, SliceIs
  <2>5. V[0] = ProductsOf(E, r, 0, y, k)
    BY <1>1
  <2>6. one \in [0 .. TwoTo(k) - 1 -> Fr]
    BY <2>2 DEF IsSlice
  <2>7. Vanishes(one, TwoTo(k), E[0] - E[0], Among(r, E[0], E[0]))
    BY <2>2, <2>3
  <2> HIDE DEF one, v0, V, n
  <2> QED BY <2>4, <2>5, <2>6, <2>7 DEF ProductsOf, ValuesOf
<1> HIDE DEF round, V, step, v0
<1>6. PICK g : Loop(g, q, V, v0, step)
  BY <1>4, <1>5, LoopRuns
<1>7. F(g)
  <2>1. \A i \in 0 .. q : g[i] \in V[i]
    BY <1>6 DEF Loop
  <2>2. ASSUME NEW i \in 0 .. q
        PROVE  (IF i = 0 THEN v0 ELSE step[i][g[i - 1]]) = IF i = 0 THEN v0 ELSE round(i, g[i - 1])
    BY <1>4, <2>1
  <2>3. g = [i \in 0 .. q |-> IF i = 0 THEN v0 ELSE step[i][g[i - 1]]]
    BY <1>6 DEF Loop
  <2>4. [i \in 0 .. q |-> IF i = 0 THEN v0 ELSE step[i][g[i - 1]]]
            = [i \in 0 .. q |-> IF i = 0 THEN v0 ELSE round(i, g[i - 1])]
    BY <2>2
  <2> QED BY <2>3, <2>4
<1>8. F(run)
  <2> HIDE DEF F
  <2> QED BY <1>7
<1>9. run[q] \in V[q]
  <2> DEFINE S == {i \in 0 .. q : run[i] \in V[i]}
  <2>1. run[0] = v0 /\ \A i \in 1 .. q : run[i] = round(i, run[i - 1])
    <3> HIDE DEF run
    <3> QED BY <1>8
  <2> HIDE DEF run
  <2>2. 0 \in S
    BY <1>5, <2>1
  <2>3. ASSUME NEW i \in 0 .. q - 1, i \in S
        PROVE  i + 1 \in S
    <3>1. i + 1 \in 1 .. q /\ (i + 1) - 1 = i
      OBVIOUS
    <3>2. run[i] \in V[i]
      BY <2>3
    <3>3. round(i + 1, run[i]) \in V[i + 1]
      BY <1>4, <3>1, <3>2
    <3> QED BY <2>1, <3>1, <3>3
  <2>4. q \in S
    <3> HIDE DEF S
    <3> QED BY <2>2, <2>3, CountTo
  <2> QED BY <2>4
<1>10. PICK c \in [0 .. n - 1 -> Fr] :
           run[q] = Transform(c, y, k) /\ Vanishes(c, n, E[q] - E[0], Among(r, E[0], E[q]))
  <2>1. V[q] = ProductsOf(E, r, q, y, k)
    BY DEF V
  <2> HIDE DEF run
  <2> QED BY <1>9, <2>1 DEF ProductsOf, ValuesOf
<1>11. reduceLeaves(fs, n, ps) = c
  <2>1. IsSlice(c, k) /\ Divides(k) /\ y \in Fr
    BY <1>2 DEF IsSlice, IsRoot
  <2>2. IsSlice(Transform(c, y, k), k)
    BY <1>1, <2>1, TransformType
  <2>3. InplaceFFT(fs, Transform(c, y, k), TRUE) = Coefficients(Transform(c, y, k), y, k)
    BY <1>2, <2>2
  <2>4. Coefficients(Transform(c, y, k), y, k) = c
    BY <1>1, <1>2, <2>1, TransformUndone
  <2> HIDE DEF run
  <2> QED BY <1>2, <1>3, <1>10, <2>2, <2>3, <2>4
<1> QED BY <1>10, <1>11

(* The degree outDegree allows: one less than the length, for each.        *)
LEMMA OutDegreeIs ==
    ASSUME NEW q \in Nat, NEW ps, Len(ps) = q, \A i \in 1 .. q : Length(ps[i]) \in Nat \ {0}
    PROVE  \E sum \in [0 .. q -> Nat] :
               /\ sum[0] = 0 /\ outDegree(ps) = sum[q]
               /\ \A i \in 1 .. q : sum[i] = sum[i - 1] + Length(ps[i]) - 1
<1> DEFINE V == [i \in 0 .. q |-> Nat]
           step == [i \in 1 .. q |-> [v \in Nat |-> v + Length(ps[i]) - 1]]
           F(g) == g = [i \in 0 .. q |-> IF i = 0 THEN 0 ELSE g[i - 1] + Length(ps[i]) - 1]
           sum == CHOOSE g : F(g)
<1>1. outDegree(ps) = sum[q]
  BY DEF outDegree
<1>2. ASSUME NEW i \in 1 .. q, NEW v \in Nat
      PROVE  step[i][v] = v + Length(ps[i]) - 1 /\ v + Length(ps[i]) - 1 \in Nat
  <2>1. Length(ps[i]) \in Nat \ {0}
    OBVIOUS
  <2> QED BY <2>1
<1> HIDE DEF step
<1>3. PICK g : Loop(g, q, V, 0, step)
  <2>1. 0 \in V[0]
    OBVIOUS
  <2>2. ASSUME NEW i \in 1 .. q, NEW v \in V[i - 1]
        PROVE  step[i][v] \in V[i]
    <3>1. v \in Nat /\ V[i] = Nat
      BY <2>2
    <3> QED BY <1>2, <3>1
  <2> HIDE DEF V
  <2> QED BY <2>1, <2>2, LoopRuns
<1>4. F(g)
  <2>1. \A i \in 0 .. q : g[i] \in Nat
    BY <1>3 DEF Loop
  <2>2. ASSUME NEW i \in 0 .. q
        PROVE  (IF i = 0 THEN 0 ELSE step[i][g[i - 1]])
                   = IF i = 0 THEN 0 ELSE g[i - 1] + Length(ps[i]) - 1
    <3>1. CASE i = 0
      BY <3>1
    <3>2. CASE i # 0
      <4>1. i \in 1 .. q /\ i - 1 \in 0 .. q
        BY <3>2
      <4>2. g[i - 1] \in Nat
        BY <2>1, <4>1
      <4>3. step[i][g[i - 1]] = g[i - 1] + Length(ps[i]) - 1
        BY <1>2, <4>1, <4>2
      <4> QED BY <3>2, <4>3
    <3> QED BY <3>1, <3>2
  <2>3. g = [i \in 0 .. q |-> IF i = 0 THEN 0 ELSE step[i][g[i - 1]]]
    BY <1>3 DEF Loop
  <2>4. [i \in 0 .. q |-> IF i = 0 THEN 0 ELSE step[i][g[i - 1]]]
            = [i \in 0 .. q |-> IF i = 0 THEN 0 ELSE g[i - 1] + Length(ps[i]) - 1]
    BY <2>2
  <2> QED BY <2>3, <2>4
<1>5. F(sum)
  <2> HIDE DEF F
  <2> QED BY <1>4
<1> DEFINE S == {i \in 0 .. q : sum[i] \in Nat}
<1>6. /\ sum[0] = 0
      /\ \A i \in 1 .. q : sum[i] = sum[i - 1] + Length(ps[i]) - 1
  <2> HIDE DEF sum
  <2> QED BY <1>5
<1>7. \A i \in 0 .. q : i \in S
  <2> HIDE DEF sum
  <2>1. 0 \in S
    BY <1>6
  <2>2. ASSUME NEW i \in 0 .. q - 1, i \in S
        PROVE  i + 1 \in S
    <3>1. i + 1 \in 1 .. q /\ (i + 1) - 1 = i /\ sum[i] \in Nat
      BY <2>2
    <3>2. sum[i + 1] = sum[i] + Length(ps[i + 1]) - 1
      BY <1>6, <3>1
    <3>3. sum[i] + Length(ps[i + 1]) - 1 \in Nat
      BY <1>2, <3>1
    <3>4. i + 1 \in 0 .. q
      OBVIOUS
    <3> QED BY <3>2, <3>3, <3>4
  <2> HIDE DEF S
  <2> QED BY <2>1, <2>2, CountTo
<1>8. sum \in [0 .. q -> Nat]
  <2>1. sum = [i \in 0 .. q |-> IF i = 0 THEN 0 ELSE sum[i - 1] + Length(ps[i]) - 1]
    <3> HIDE DEF sum
    <3> QED BY <1>5
  <2>2. \A i \in 0 .. q : sum[i] \in Nat
    BY <1>7
  <2> HIDE DEF sum, S
  <2> QED BY <2>1, <2>2
<1> HIDE DEF sum
<1> QED BY <1>1, <1>6, <1>8

-----------------------------------------------------------------------------
(* recover_from_samples.go: division off the domain.                       *)

(* Twists are undone by the inverse.                                       *)
LEMMA TwistUndone ==
    ASSUME NEW k \in Nat, NEW c, IsSlice(c, k), NEW x \in Fr, NEW y \in Fr, x \odot y = 1
    PROVE  Twist(Twist(c, x, k), y, k) = c
<1> DEFINE n == TwoTo(k)
           f == Twist(Twist(c, x, k), y, k)
<1>1. IsSlice(f, k)
  BY TwistType
<1>2. ASSUME NEW j \in 0 .. n - 1
      PROVE  f[j] = c[j]
  <2>1. j \in Nat
    OBVIOUS
  <2>2. c[j] \in Fr /\ ExpModFr(x, j) \in Fr /\ ExpModFr(y, j) \in Fr
    BY <2>1, ExpType DEF IsSlice
  <2>3. f[j] = (c[j] \odot ExpModFr(x, j)) \odot ExpModFr(y, j)
    BY DEF Twist
  <2>4. (c[j] \odot ExpModFr(x, j)) \odot ExpModFr(y, j)
            = c[j] \odot (ExpModFr(x, j) \odot ExpModFr(y, j))
    BY <2>2, FrAssociates
  <2>5. ExpModFr(x, j) \odot ExpModFr(y, j) = 1
    <3>1. ExpModFr(x \odot y, j) = ExpModFr(x, j) \odot ExpModFr(y, j)
      BY <2>1, ExpProduct
    <3>2. ExpModFr(1, j) = 1
      BY <2>1, ExpOfOne
    <3> QED BY <3>1, <3>2
  <2> QED BY <2>2, <2>3, <2>4, <2>5, FrUnits
<1> HIDE DEF f
<1>3. f = c
  BY <1>1, <1>2, SameSlice
<1> QED BY <1>3 DEF f

(* ShiftPoly and UnshiftPoly are twists.                                   *)
LEMMA ShiftsAre ==
    ASSUME NEW k \in Nat, NEW c, IsSlice(c, k)
    PROVE  /\ ShiftPoly(c) = Twist(c, InvModFr(shiftFactor), k)
           /\ UnshiftPoly(c) = Twist(c, shiftFactor, k)
<1>1. DOMAIN c = 0 .. TwoTo(k) - 1
  BY DEF IsSlice
<1> QED BY <1>1, SliceIs DEF ShiftPoly, UnshiftPoly, Twist, \odot

(* The samples are values of c, but for those at the elements of S.        *)
SamplesOf(samples, c, w, k, S) ==
    /\ DOMAIN samples = 0 .. TwoTo(k) - 1
    /\ \A i \in 0 .. TwoTo(k) - 1 :
           samples[i] = IF ExpModFr(w, i) \in S THEN Nil ELSE Transform(c, w, k)[i]

(* Off the domain, at the points the shift leads to, S has no element.     *)
ShiftAvoids(w, k, S) ==
    /\ shiftFactor \in Fr \ {0}
    /\ \A i \in 0 .. TwoTo(k) - 1 : InvModFr(shiftFactor) \odot ExpModFr(w, i) \notin S

(* The samples times the zero polynomial are the values of the product.    *)
LEMMA SamplesTimesZero ==
    ASSUME NEW k \in Nat, NEW w, IsRoot(w, k), NEW c, IsSlice(c, k), NEW b \in Nat, NEW Z, NEW S,
           Vanishes(Z, TwoTo(k), b, S), NEW samples, SamplesOf(samples, c, w, k, S),
           NEW i \in 0 .. TwoTo(k) - 1
    PROVE  /\ IsSlice(Z, k)
           /\ Transform(Z, w, k)[i] = 0 <=> ExpModFr(w, i) \in S
           /\ samples[i] = Nil <=> ExpModFr(w, i) \in S
           /\ samples[i] \in {Nil, Transform(c, w, k)[i]}
           /\ (IF samples[i] = Nil THEN 0 ELSE MulModFr(samples[i], Transform(Z, w, k)[i]))
                  = Transform(Convolution(c, Z, TwoTo(k)), w, k)[i]
<1> DEFINE u == ExpModFr(w, i)
<1>1. IsSlice(Z, k) /\ i \in Nat /\ w \in Fr /\ u \in Fr
  BY ExpType DEF Vanishes, IsSlice, IsRoot
<1>2. /\ Transform(Z, w, k)[i] = TransformAt(Z, w, k, i)
      /\ Transform(c, w, k)[i] = TransformAt(c, w, k, i)
      /\ Transform(Convolution(c, Z, TwoTo(k)), w, k)[i]
             = TransformAt(Convolution(c, Z, TwoTo(k)), w, k, i)
  BY DEF Transform
<1>3. TransformAt(Z, w, k, i) = 0 <=> u \in S
  <2>1. TransformAt(Z, w, k, i) = PolyAt(Z, TwoTo(k), u)
    BY <1>1, TransformAtIs
  <2> HIDE DEF u
  <2> QED BY <1>1, <2>1 DEF Vanishes
<1>4. TransformAt(Convolution(c, Z, TwoTo(k)), w, k, i)
          = TransformAt(c, w, k, i) \odot TransformAt(Z, w, k, i)
  BY <1>1, ConvolutionTransforms
<1>5. TransformAt(c, w, k, i) \in Fr /\ TransformAt(Z, w, k, i) \in Fr
  BY <1>1, TransformType
<1>6. Nil \notin Fr
  BY ModulusFacts DEF Nil, Fr
<1>7. samples[i] = IF u \in S THEN Nil ELSE Transform(c, w, k)[i]
  BY DEF SamplesOf
<1>8. samples[i] = Nil <=> u \in S
  BY <1>2, <1>5, <1>6, <1>7
<1>9. CASE u \in S
  <2>1. TransformAt(c, w, k, i) \odot TransformAt(Z, w, k, i) = 0
    BY <1>3, <1>5, <1>9, FrUnits
  <2> HIDE DEF u
  <2> QED BY <1>1, <1>2, <1>3, <1>4, <1>7, <1>8, <1>9, <2>1 DEF u
<1>10. CASE u \notin S
  <2>1. samples[i] = TransformAt(c, w, k, i) /\ samples[i] # Nil
    BY <1>2, <1>7, <1>8, <1>10
  <2> HIDE DEF u
  <2> QED BY <1>1, <1>2, <1>3, <1>4, <1>7, <1>8, <1>10, <2>1 DEF u, \odot
<1> QED BY <1>9, <1>10

(* The division off the domain gives the values back: every value of the   *)
(* zero polynomial there has an inverse.                                   *)
LEMMA ShiftedDivides ==
    ASSUME NEW k \in Nat, NEW w, IsRoot(w, k), Divides(k), NEW c, IsSlice(c, k), NEW a \in Nat, NEW b \in Nat,
           a + b < TwoTo(k), UpTo(c, TwoTo(k), a), NEW Z, NEW S, Vanishes(Z, TwoTo(k), b, S),
           ShiftAvoids(w, k, S), NEW v, v = InvModFr(shiftFactor), NEW y,
           y = Convolution(c, Z, TwoTo(k)), NEW i \in 0 .. TwoTo(k) - 1
    PROVE  DivModFr(TransformAt(Twist(y, v, k), w, k, i), TransformAt(Twist(Z, v, k), w, k, i))
               = TransformAt(Twist(c, v, k), w, k, i)
<1> DEFINE u == ExpModFr(w, i)
           x == v \odot u
           zi == TransformAt(Twist(Z, v, k), w, k, i)
           ci == TransformAt(Twist(c, v, k), w, k, i)
<1>1. IsSlice(Z, k) /\ UpTo(Z, TwoTo(k), b) /\ i \in Nat /\ w \in Fr /\ u \in Fr
  BY ExpType DEF Vanishes, IsSlice, IsRoot
<1>2. v \in Fr
  BY FrInverse DEF ShiftAvoids
<1>3. x \in Fr /\ x \notin S
  BY <1>1, <1>2, FrClosed DEF ShiftAvoids
<1>4. IsSlice(Twist(c, v, k), k) /\ IsSlice(Twist(Z, v, k), k)
  BY <1>1, <1>2, TwistType
<1>5. zi = PolyAt(Z, TwoTo(k), x)
  BY <1>1, <1>2, TwistedAt
<1>6. zi # 0
  <2> HIDE DEF x, zi
  <2> QED BY <1>3, <1>5 DEF Vanishes
<1>7. Twist(y, v, k) = Convolution(Twist(c, v, k), Twist(Z, v, k), TwoTo(k))
  BY <1>1, <1>2, ProductTwisted
<1>8. TransformAt(Twist(y, v, k), w, k, i) = ci \odot zi
  BY <1>4, <1>7, ConvolutionTransforms
<1>9. ci \in Fr /\ zi \in Fr
  BY <1>1, <1>4, TransformType
<1> HIDE DEF zi, ci
<1> QED BY <1>6, <1>8, <1>9, FrCancel DEF zi, ci

(* Reconstructed returns the values all samples are taken from.            *)
LEMMA ReconstructedIs ==
    ASSUME NEW k \in Nat, NEW w, NEW fs, HasRoots(fs, w, k), Divides(k), fs.MaxWidth = TwoTo(k),
           NEW c, IsSlice(c, k), NEW a \in Nat, NEW b \in Nat, a + b < TwoTo(k), UpTo(c, TwoTo(k), a),
           NEW Z, NEW S, Vanishes(Z, TwoTo(k), b, S), ShiftAvoids(w, k, S),
           NEW samples, SamplesOf(samples, c, w, k, S)
    PROVE  Reconstructed(fs, samples, Z, Transform(Z, w, k)) = Transform(c, w, k)
<1> DEFINE n == TwoTo(k)
           v == InvModFr(shiftFactor)
           y == Convolution(c, Z, n)
           e == Transform(Z, w, k)
           ewz == [i \in 0 .. n - 1 |->
                      IF samples[i] = Nil THEN 0 ELSE MulModFr(samples[i], e[i])]
           quotients == [i \in 0 .. n - 1 |-> DivModFr(Transform(Twist(y, v, k), w, k)[i],
                                                       Transform(Twist(Z, v, k), w, k)[i])]
<1>1. IsRoot(w, k) /\ w \in Fr /\ n \in Nat
  BY TwoToType DEF HasRoots, Powers, IsRoot
<1>2. ASSUME NEW f, IsSlice(f, k)
      PROVE  /\ FourierTransform(fs, f, FALSE) = Transform(f, w, k)
             /\ FourierTransform(fs, f, TRUE) = Coefficients(f, w, k)
             /\ IsSlice(Transform(f, w, k), k)
  BY <1>1, <1>2, TransformsOfAll, TransformType DEF Values, FromValues
<1>3. /\ IsSlice(Z, k) /\ v \in Fr /\ shiftFactor \in Fr /\ v \odot shiftFactor = 1
      /\ Length(samples) = n
  BY <1>1, FrInverse, LengthIs DEF Vanishes, IsSlice, ShiftAvoids, SamplesOf
<1>4. IsSlice(y, k)
  BY <1>3, ConvolutionType
<1>5. ewz = Transform(y, w, k)
  <2>1. ASSUME NEW i \in 0 .. n - 1
        PROVE  (IF samples[i] = Nil THEN 0 ELSE MulModFr(samples[i], e[i])) = Transform(y, w, k)[i]
    BY <1>1, SamplesTimesZero
  <2>2. ewz = [i \in 0 .. n - 1 |-> Transform(y, w, k)[i]]
    BY <2>1
  <2>3. Transform(y, w, k) = [i \in 0 .. n - 1 |-> Transform(y, w, k)[i]]
    BY DEF Transform
  <2> HIDE DEF ewz, y
  <2> QED BY <2>2, <2>3
<1> HIDE DEF y, e, ewz
<1>6. FourierTransform(fs, ewz, TRUE) = y
  BY <1>1, <1>2, <1>4, <1>5, TransformUndone
<1>7. \A f : IsSlice(f, k) => /\ ShiftPoly(f) = Twist(f, v, k) /\ IsSlice(Twist(f, v, k), k)
                              /\ UnshiftPoly(f) = Twist(f, shiftFactor, k)
  <2>1. ASSUME NEW f, IsSlice(f, k)
        PROVE  /\ ShiftPoly(f) = Twist(f, v, k) /\ IsSlice(Twist(f, v, k), k)
               /\ UnshiftPoly(f) = Twist(f, shiftFactor, k)
    BY <1>3, <2>1, ShiftsAre, TwistType
  <2> QED BY <2>1
<1>8. /\ FourierTransform(fs, ShiftPoly(y), FALSE) = Transform(Twist(y, v, k), w, k)
      /\ FourierTransform(fs, ShiftPoly(Z), FALSE) = Transform(Twist(Z, v, k), w, k)
  <2> HIDE DEF v
  <2> QED BY <1>2, <1>3, <1>4, <1>7
<1>9. quotients = Transform(Twist(c, v, k), w, k)
  <2>1. ASSUME NEW i \in 0 .. n - 1
        PROVE  DivModFr(Transform(Twist(y, v, k), w, k)[i], Transform(Twist(Z, v, k), w, k)[i])
                   = TransformAt(Twist(c, v, k), w, k, i)
    <3>1. DivModFr(TransformAt(Twist(y, v, k), w, k, i), TransformAt(Twist(Z, v, k), w, k, i))
              = TransformAt(Twist(c, v, k), w, k, i)
      BY <1>1, ShiftedDivides DEF y
    <3>2. /\ Transform(Twist(y, v, k), w, k)[i] = TransformAt(Twist(y, v, k), w, k, i)
          /\ Transform(Twist(Z, v, k), w, k)[i] = TransformAt(Twist(Z, v, k), w, k, i)
      BY DEF Transform
    <3> HIDE DEF v
    <3> QED BY <3>1, <3>2
  <2> HIDE DEF v
  <2> QED BY <2>1 DEF Transform
<1> HIDE DEF quotients
<1>10. FourierTransform(fs, quotients, TRUE) = Twist(c, v, k)
  <2>1. IsSlice(Twist(c, v, k), k)
    BY <1>3, TwistType
  <2> HIDE DEF v
  <2> QED BY <1>1, <1>2, <1>9, <2>1, TransformUndone
<1>11. UnshiftPoly(Twist(c, v, k)) = c
  <2>1. UnshiftPoly(Twist(c, v, k)) = Twist(Twist(c, v, k), shiftFactor, k)
    BY <1>7
  <2>2. Twist(Twist(c, v, k), shiftFactor, k) = c
    <3> HIDE DEF v
    <3> QED BY <1>3, TwistUndone
  <2> QED BY <2>1, <2>2
<1>12. FourierTransform(fs, c, FALSE) = Transform(c, w, k)
  BY <1>2
<1> HIDE DEF v
<1>13. Reconstructed(fs, samples, Z, e)
           = FourierTransform(fs, UnshiftPoly(FourierTransform(fs, quotients, TRUE)), FALSE)
  <2> DEFINE p == FourierTransform(fs, ShiftPoly(FourierTransform(fs, ewz, TRUE)), FALSE)
             z == FourierTransform(fs, ShiftPoly(Z), FALSE)
             q == [i \in 0 .. n - 1 |-> DivModFr(p[i], z[i])]
  <2>1. Length(samples) = n
    BY <1>3
  <2> HIDE DEF n
  <2>2. Reconstructed(fs, samples, Z, e)
            = FourierTransform(fs, UnshiftPoly(FourierTransform(fs, q, TRUE)), FALSE)
    BY <2>1, SliceIs DEF Reconstructed, ewz
  <2>3. p = Transform(Twist(y, v, k), w, k) /\ z = Transform(Twist(Z, v, k), w, k)
    BY <1>6, <1>8
  <2> HIDE DEF p, z
  <2>4. q = quotients
    BY <2>3 DEF quotients
  <2> HIDE DEF q
  <2> QED BY <2>2, <2>4
<1> QED BY <1>10, <1>11, <1>12, <1>13 DEF e

(* A function on indices is no empty sequence.                             *)
LEMMA NotEmpty ==
    ASSUME NEW k \in Nat, NEW c, IsSlice(c, k)
    PROVE  c # <<>>
<1>1. 0 \in 0 .. TwoTo(k) - 1
  BY TwoToType
<1>2. 0 \in DOMAIN c
  BY <1>1 DEF IsSlice
<1>3. DOMAIN << >> = {}
  OBVIOUS
<1> QED BY <1>2, <1>3

(* With a polynomial that is zero where the samples are missing they all   *)
(* are recovered, and no panic and no error ends it.                       *)
LEMMA RecoversWith ==
    ASSUME NEW k \in Nat, NEW w, NEW fs, HasRoots(fs, w, k), Divides(k), fs.MaxWidth = TwoTo(k),
           NEW c, IsSlice(c, k), NEW a \in Nat, NEW b \in Nat, a + b < TwoTo(k), UpTo(c, TwoTo(k), a),
           NEW Z, NEW S, Vanishes(Z, TwoTo(k), b, S), ShiftAvoids(w, k, S),
           NEW samples, SamplesOf(samples, c, w, k, S),
           Z = ZeroPolyViaMultiplication(fs, missingIndices(samples), TwoTo(k))
    PROVE  RecoverPolyFromSamples(fs, samples) = Answer(Transform(c, w, k))
<1> DEFINE n == TwoTo(k)
           e == Transform(Z, w, k)
           r == Reconstructed(fs, samples, Z, e)
<1>1. IsRoot(w, k) /\ n \in Nat /\ DOMAIN samples = 0 .. n - 1
  BY TwoToType DEF HasRoots, Powers, SamplesOf
<1>2. IsSlice(Z, k)
  BY DEF Vanishes, IsSlice
<1>3. FourierTransform(fs, Z, FALSE) = e
  BY <1>2, TransformsOfAll DEF Values
<1>4. r = Transform(c, w, k)
  BY ReconstructedIs
<1>5. ASSUME NEW i \in 0 .. n - 1
      PROVE  /\ samples[i] = Nil <=> e[i] = 0
             /\ samples[i] \in {Nil, Transform(c, w, k)[i]}
  <2>1. /\ e[i] = 0 <=> ExpModFr(w, i) \in S
        /\ samples[i] = Nil <=> ExpModFr(w, i) \in S
        /\ samples[i] \in {Nil, Transform(c, w, k)[i]}
    BY <1>1, SamplesTimesZero
  <2> QED BY <2>1
<1>6. Z # <<>>
  BY <1>2, NotEmpty
<1>7. Length(samples) = n
  BY <1>1, LengthIs
<1> HIDE DEF e, r, n
<1>8. RecoverPolyFromSamples(fs, samples) = RecoverWithZeroPoly(fs, samples, Z, e)
  BY <1>3, <1>6, <1>7 DEF RecoverPolyFromSamples, n
<1>9. ~ \E i \in DOMAIN samples : (samples[i] = Nil) # (e[i] = 0)
  BY <1>1, <1>5
<1>10. RecoverWithZeroPoly(fs, samples, Z, e) = Checked(samples, r, Failure("error"))
  BY <1>9 DEF RecoverWithZeroPoly, r
<1>11. Checked(samples, r, Failure("error")) = Answer(r)
  BY <1>1, <1>4, <1>5 DEF Checked
<1> QED BY <1>4, <1>8, <1>10, <1>11

(* Without a missing value the zero polynomial is no such polynomial: it   *)
(* is zero everywhere, and the values do not fit to that.                  *)
LEMMA NothingMissing ==
    ASSUME NEW k \in Nat, NEW w, NEW fs, HasRoots(fs, w, k), Divides(k), fs.MaxWidth = TwoTo(k),
           NEW samples, DOMAIN samples = 0 .. TwoTo(k) - 1, samples[0] # Nil,
           NEW Z, Z = [i \in 0 .. TwoTo(k) - 1 |-> 0],
           Z = ZeroPolyViaMultiplication(fs, missingIndices(samples), TwoTo(k))
    PROVE  RecoverPolyFromSamples(fs, samples) = Failure("panic")
<1> DEFINE n == TwoTo(k)
           e == Transform(Z, w, k)
<1>1. IsRoot(w, k) /\ w \in Fr /\ n \in Nat /\ 0 \in 0 .. n - 1
  BY TwoToType DEF HasRoots, Powers, IsRoot
<1>2. IsSlice(Z, k)
  BY ModulusFacts DEF IsSlice
<1>3. FourierTransform(fs, Z, FALSE) = e
  BY <1>2, TransformsOfAll DEF Values
<1>4. e[0] = 0
  <2> DEFINE t == [j \in 0 .. n - 1 |-> Z[j] \odot ExpModFr(w, 0 * j)]
  <2>1. ASSUME NEW j \in 0 .. n - 1
        PROVE  t[j] = 0
    <3>1. 0 * j = 0 /\ 0 \in Nat /\ Z[j] = 0
      OBVIOUS
    <3>2. ExpModFr(w, 0 * j) \in Fr
      BY <1>1, <3>1, ExpType
    <3>3. 0 \odot ExpModFr(w, 0 * j) = 0
      BY <3>2, FrUnits
    <3> QED BY <3>1, <3>3
  <2>2. SumFr(t, n) = 0
    <3> HIDE DEF t
    <3> QED BY <1>1, <2>1, SumZero
  <2>3. e[0] = TransformAt(Z, w, k, 0)
    BY <1>1 DEF Transform
  <2> QED BY <2>2, <2>3 DEF TransformAt
<1>5. Z # <<>>
  BY <1>2, NotEmpty
<1>6. Length(samples) = n
  BY <1>1, LengthIs
<1> HIDE DEF e, n
<1>7. RecoverPolyFromSamples(fs, samples) = RecoverWithZeroPoly(fs, samples, Z, e)
  BY <1>3, <1>5, <1>6 DEF RecoverPolyFromSamples, n
<1>8. \E i \in DOMAIN samples : (samples[i] = Nil) # (e[i] = 0)
  <2>1. 0 \in DOMAIN samples
    BY <1>1 DEF n
  <2> QED BY <1>4, <2>1
<1> QED BY <1>7, <1>8 DEF RecoverWithZeroPoly

-----------------------------------------------------------------------------
(* makeZeroPolyMulLeaf: one linear factor after the other.                 *)

(* q is p times X + g.                                                     *)
LEMMA TimesLinear ==
    ASSUME NEW m \in Nat, NEW p, \A j \in 0 .. m : p[j] \in Fr, p[m] = 0, NEW g \in Fr, NEW q,
           \A j \in 0 .. m : q[j] = (IF j = 0 THEN 0 ELSE p[j - 1]) \oplus (g \odot p[j]),
           NEW z \in Fr
    PROVE  PolyAt(q, m + 1, z) = PolyAt(p, m + 1, z) \odot (z \oplus g)
<1> DEFINE t == [j \in 0 .. m |-> IF j = 0 THEN 0 ELSE p[j - 1]]
           y == PolyAt(p, m, z)
<1>1. \A j \in 0 .. m : t[j] \in Fr
  <2>1. ASSUME NEW j \in 0 .. m
        PROVE  (IF j = 0 THEN 0 ELSE p[j - 1]) \in Fr
    <3>1. j = 0 \/ j - 1 \in 0 .. m
      OBVIOUS
    <3> QED BY <3>1, ModulusFacts
  <2> QED BY <2>1
<1>2. /\ \A j \in 0 .. m - 1 : p[j] = t[j + 1]
      /\ t[0] = 0
  OBVIOUS
<1>3. \A j \in 0 .. m : q[j] = t[j] \oplus (g \odot p[j])
  OBVIOUS
<1> HIDE DEF t
<1>4. \A j \in 0 .. m - 1 : p[j] \in Fr
  OBVIOUS
<1>5. y \in Fr
  BY <1>4, PolyAtType
<1>6. PolyAt(t, m + 1, z) = y \odot z
  <2>1. PolyAt(t, m + 1, z) = (PolyAt(p, m, z) \odot z) \oplus t[0]
    BY <1>1, <1>2, PolyAtFirst
  <2>2. y \odot z \in Fr
    BY <1>5, FrClosed
  <2> HIDE DEF y
  <2> QED BY <1>2, <2>1, <2>2, FrUnits DEF y
<1>7. PolyAt(p, m + 1, z) = y
  <2>1. PolyAt(p, m + 1, z) = PolyAt(p, m, z) \oplus (ExpModFr(z, m) \odot p[m])
    BY PolyAtNext
  <2>2. ExpModFr(z, m) \odot p[m] = 0
    BY ExpType, FrUnits
  <2> HIDE DEF y
  <2> QED BY <1>5, <2>1, <2>2, FrUnits DEF y
<1>8. PolyAt(q, m + 1, z) = PolyAt(t, m + 1, z) \oplus (g \odot PolyAt(p, m + 1, z))
  <2>1. Combines(q, t, g, p, m + 1)
    BY <1>1, <1>3 DEF Combines
  <2> QED BY <2>1, PolyAtLinear
<1>9. (y \odot z) \oplus (g \odot y) = y \odot (z \oplus g)
  <2> HIDE DEF y
  <2>1. g \odot y = y \odot g
    BY <1>5, FrCommutes
  <2> QED BY <1>5, <2>1, FrDistributes
<1> HIDE DEF y
<1> QED BY <1>6, <1>7, <1>8, <1>9

(* A linear factor is zero at one point.                                   *)
LEMMA LinearZero ==
    ASSUME NEW x \in Fr, NEW z \in Fr
    PROVE  (0 \ominus x) \in Fr /\ (z \oplus (0 \ominus x) = 0 <=> z = x)
<1> DEFINE g == 0 \ominus x
<1>1. g \in Fr /\ g \oplus x = 0 /\ 0 \in Fr
  BY ModulusFacts, FrClosed, FrDifference
<1> HIDE DEF g
<1>2. x \oplus g = 0
  BY <1>1, FrCommutes
<1>3. (x \oplus g) \ominus g = x /\ (z \oplus g) \ominus g = z
  BY <1>1, FrDifference
<1> QED BY <1>1, <1>2, <1>3 DEF g

(* The first i elements of d are the coefficients of a polynomial, and the *)
(* next one would be 1.                                                    *)
Lead(d, i, n) == [j \in 0 .. n - 1 |-> IF j < i THEN d[j] ELSE IF j = i THEN 1 ELSE 0]

LeafStates(i, n, l, r) ==
    {d \in [0 .. n - 1 -> Fr] :
        /\ \A j \in i .. n - 1 : d[j] = IF j = l THEN 1 ELSE 0
        /\ Vanishes(Lead(d, i, n), n, i, Among(r, 0, i))}

(* A round of makeZeroPolyMulLeaf.                                         *)
TimesFactor(d, i, n, g) ==
    Slice([j \in 0 .. n - 1 |->
        IF j >= i THEN d[j]
        ELSE AddModFr(IF j = i - 1 THEN g ELSE MulModFr(d[j], g), IF j = 0 THEN 0 ELSE d[j - 1])])

(* It multiplies by the factor of the next root.                           *)
LEMMA FactorMultiplies ==
    ASSUME NEW n \in Nat, NEW l \in 0 .. n - 1, NEW r, NEW i \in 1 .. l, r[i - 1] \in Fr,
           NEW g, g = 0 \ominus r[i - 1], NEW d \in LeafStates(i - 1, n, l, r)
    PROVE  TimesFactor(d, i, n, g) \in LeafStates(i, n, l, r)
<1> DEFINE p == Lead(d, i - 1, n)
           e == TimesFactor(d, i, n, g)
           q == Lead(e, i, n)
           x == r[i - 1]
<1>1. /\ d \in [0 .. n - 1 -> Fr]
      /\ \A j \in i - 1 .. n - 1 : d[j] = IF j = l THEN 1 ELSE 0
      /\ Vanishes(p, n, i - 1, Among(r, 0, i - 1))
  BY DEF LeafStates
<1>2. g \in Fr /\ \A z \in Fr : z \oplus g = 0 <=> z = x
  BY LinearZero
<1>3. i < n /\ n - 1 \in Nat /\ (n - 1) + 1 = n /\ i - 1 \in Nat
  OBVIOUS
<1>4. /\ \A j \in 0 .. n - 1 : p[j] = IF j < i - 1 THEN d[j] ELSE IF j = i - 1 THEN 1 ELSE 0
      /\ \A j \in 0 .. n - 1 : q[j] = IF j < i THEN e[j] ELSE IF j = i THEN 1 ELSE 0
      /\ \A j \in 0 .. n - 1 : p[j] \in Fr
  BY <1>1 DEF Lead, Vanishes
<1>5. ASSUME NEW j \in 0 .. n - 1
      PROVE  /\ e[j] = IF j >= i THEN d[j]
                       ELSE (IF j = i - 1 THEN g ELSE d[j] \odot g)
                                \oplus (IF j = 0 THEN 0 ELSE d[j - 1])
             /\ e[j] \in Fr
  <2>1. e[j] = IF j >= i THEN d[j]
               ELSE (IF j = i - 1 THEN g ELSE d[j] \odot g) \oplus (IF j = 0 THEN 0 ELSE d[j - 1])
    BY SliceIs DEF TimesFactor, \oplus, \odot
  <2>2. d[j] \in Fr
    BY <1>1
  <2>3. CASE j >= i
    <3> HIDE DEF e
    <3> QED BY <2>1, <2>2, <2>3
  <2>4. CASE j < i
    <3>1. (IF j = i - 1 THEN g ELSE d[j] \odot g) \in Fr
      BY <1>2, <2>2, FrClosed
    <3>2. (IF j = 0 THEN 0 ELSE d[j - 1]) \in Fr
      <4>1. j = 0 \/ j - 1 \in 0 .. n - 1
        OBVIOUS
      <4> QED BY <1>1, <4>1, ModulusFacts
    <3>3. e[j] = (IF j = i - 1 THEN g ELSE d[j] \odot g) \oplus (IF j = 0 THEN 0 ELSE d[j - 1])
      <4> HIDE DEF e
      <4> QED BY <2>1, <2>4
    <3> HIDE DEF e
    <3> QED BY <2>1, <3>1, <3>2, <3>3, FrClosed
  <2> QED BY <2>1, <2>3, <2>4
<1>6. e \in [0 .. n - 1 -> Fr]
  <2>1. e = [j \in 0 .. n - 1 |-> e[j]]
    BY SliceIs DEF TimesFactor
  <2> HIDE DEF e
  <2> QED BY <1>5, <2>1
<1> HIDE DEF e, p, q, x
<1>7. \A j \in i .. n - 1 : e[j] = IF j = l THEN 1 ELSE 0
  BY <1>1, <1>5
<1>8. ASSUME NEW j \in 0 .. n - 1
      PROVE  q[j] = (IF j = 0 THEN 0 ELSE p[j - 1]) \oplus (g \odot p[j])
  <2>1. d[j] \in Fr /\ 0 \in Fr /\ 1 \in Fr
    BY <1>1, ModulusFacts
  <2>2. j # 0 => j - 1 \in 0 .. n - 1
    OBVIOUS
  <2>3. j # 0 => d[j - 1] \in Fr
    BY <1>1, <2>2
  <2>4. g \odot d[j] = d[j] \odot g /\ d[j] \odot g \in Fr /\ g \odot 1 = g /\ g \odot 0 = 0
    BY <1>2, <2>1, FrCommutes, FrClosed, FrUnits
  <2>5. CASE j < i - 1
    <3>1. q[j] = (d[j] \odot g) \oplus (IF j = 0 THEN 0 ELSE d[j - 1])
      BY <1>3, <1>4, <1>5, <2>5
    <3>2. p[j] = d[j] /\ (j # 0 => p[j - 1] = d[j - 1])
      BY <1>4, <2>2, <2>5
    <3>3. (IF j = 0 THEN 0 ELSE p[j - 1]) = (IF j = 0 THEN 0 ELSE d[j - 1])
      BY <3>2
    <3>4. (IF j = 0 THEN 0 ELSE d[j - 1]) \in Fr
      BY <2>1, <2>3
    <3> QED BY <2>4, <3>1, <3>2, <3>3, <3>4, FrCommutes
  <2>6. CASE j = i - 1
    <3>1. q[j] = g \oplus (IF j = 0 THEN 0 ELSE d[j - 1])
      BY <1>3, <1>4, <1>5, <2>6
    <3>2. p[j] = 1 /\ (j # 0 => p[j - 1] = d[j - 1])
      BY <1>4, <2>2, <2>6
    <3>3. (IF j = 0 THEN 0 ELSE p[j - 1]) = (IF j = 0 THEN 0 ELSE d[j - 1])
      BY <3>2
    <3>4. (IF j = 0 THEN 0 ELSE d[j - 1]) \in Fr
      BY <2>1, <2>3
    <3> QED BY <1>2, <2>4, <3>1, <3>2, <3>3, <3>4, FrCommutes
  <2>7. CASE j = i
    <3>1. q[j] = 1 /\ p[j] = 0 /\ j # 0
      BY <1>3, <1>4, <2>7
    <3>2. p[j - 1] = 1
      BY <1>4, <2>2, <2>7, <3>1
    <3> QED BY <2>1, <2>4, <3>1, <3>2, FrUnits
  <2>8. CASE j > i
    <3>1. q[j] = 0 /\ p[j] = 0 /\ j # 0
      BY <1>3, <1>4, <2>8
    <3>2. p[j - 1] = 0
      BY <1>4, <2>2, <2>8, <3>1
    <3> QED BY <2>1, <2>4, <3>1, <3>2, FrUnits
  <2> QED BY <2>5, <2>6, <2>7, <2>8
<1>9. ASSUME NEW z \in Fr
      PROVE  PolyAt(q, n, z) = 0 <=> z \in Among(r, 0, i)
  <2>1. \A j \in 0 .. n - 1 : p[j] \in Fr
    BY <1>4
  <2>2. p[n - 1] = 0
    BY <1>3, <1>4
  <2>3. PolyAt(q, (n - 1) + 1, z) = PolyAt(p, (n - 1) + 1, z) \odot (z \oplus g)
    BY <1>2, <1>3, <1>8, <2>1, <2>2, TimesLinear
  <2>4. PolyAt(q, n, z) = PolyAt(p, n, z) \odot (z \oplus g)
    BY <1>3, <2>3
  <2>5. PolyAt(p, n, z) \in Fr /\ z \oplus g \in Fr
    BY <1>2, <2>1, PolyAtType, FrClosed
  <2>6. PolyAt(p, n, z) = 0 <=> z \in Among(r, 0, i - 1)
    BY <1>1 DEF Vanishes
  <2>7. z \in Among(r, 0, i) <=> z \in Among(r, 0, i - 1) \/ z = x
    <3>1. \A k : k \in 0 .. i - 1 <=> k \in 0 .. (i - 1) - 1 \/ k = i - 1
      OBVIOUS
    <3> QED BY <3>1 DEF Among, x
  <2>8. \A u, v \in Fr : u \odot v = 0 <=> u = 0 \/ v = 0
    BY FrUnits, FrCancel
  <2> QED BY <1>2, <2>4, <2>5, <2>6, <2>7, <2>8
<1>10. q \in [0 .. n - 1 -> Fr] /\ UpTo(q, n, i)
  <2>1. q = [j \in 0 .. n - 1 |-> q[j]]
    BY DEF q, Lead
  <2>2. \A j \in 0 .. n - 1 : q[j] \in Fr
    BY <1>4, <1>5, ModulusFacts
  <2>3. UpTo(q, n, i)
    BY <1>3, <1>4 DEF UpTo
  <2> QED BY <2>1, <2>2, <2>3
<1>11. Vanishes(q, n, i, Among(r, 0, i))
  BY <1>9, <1>10 DEF Vanishes
<1> QED BY <1>6, <1>7, <1>11 DEF LeafStates, q, e

(* A leaf is the polynomial of degree l that is zero at the l roots.       *)
LEMMA LeafIs ==
    ASSUME NEW n \in Nat, NEW l \in 0 .. n - 1, NEW fs, NEW indices, Length(indices) = l,
           NEW stride, NEW r,
           \A i \in 0 .. l - 1 : /\ r[i] = fs.ExpandedRootsOfUnity[indices[i] * stride]
                                 /\ r[i] \in Fr
    PROVE  Vanishes(makeZeroPolyMulLeaf(fs, n, indices, stride), n, l, Among(r, 0, l))
<1> DEFINE V == [i \in 0 .. l |-> LeafStates(i, n, l, r)]
           neg(i) == SubModFr(0, fs.ExpandedRootsOfUnity[indices[i - 1] * stride])
           round(i, v) == TimesFactor(v, i, n, neg(i))
           step == [i \in 1 .. l |-> [v \in LeafStates(i - 1, n, l, r) |-> round(i, v)]]
           v0 == Slice([j \in 0 .. n - 1 |-> IF j = l THEN 1 ELSE 0])
           F(g) == g = [i \in 0 .. l |-> IF i = 0 THEN v0 ELSE round(i, g[i - 1])]
           dst == CHOOSE g : F(g)
<1>1. l \in Nat /\ 0 \in 0 .. l /\ l \in 0 .. l
  OBVIOUS
<1>2. makeZeroPolyMulLeaf(fs, n, indices, stride) = dst[l]
  BY DEF makeZeroPolyMulLeaf, TimesFactor
<1>3. ASSUME NEW i \in 1 .. l
      PROVE  neg(i) = 0 \ominus r[i - 1] /\ r[i - 1] \in Fr
  <2>1. i - 1 \in 0 .. l - 1
    OBVIOUS
  <2>2. r[i - 1] = fs.ExpandedRootsOfUnity[indices[i - 1] * stride] /\ r[i - 1] \in Fr
    BY <2>1
  <2> QED BY <2>2 DEF \ominus
<1> HIDE DEF neg
<1>4. \A i \in 1 .. l : \A v \in V[i - 1] : step[i][v] = round(i, v) /\ round(i, v) \in V[i]
  <2>1. ASSUME NEW i \in 1 .. l, NEW v \in V[i - 1]
        PROVE  step[i][v] = round(i, v) /\ round(i, v) \in V[i]
    <3>1. V[i - 1] = LeafStates(i - 1, n, l, r) /\ V[i] = LeafStates(i, n, l, r)
      OBVIOUS
    <3>2. v \in LeafStates(i - 1, n, l, r)
      BY <3>1
    <3> HIDE DEF V
    <3>3. round(i, v) \in LeafStates(i, n, l, r)
      BY <1>3, <3>2, FactorMultiplies
    <3>4. step[i][v] = round(i, v)
      <4> HIDE DEF round
      <4> QED BY <3>2
    <3> QED BY <3>1, <3>3, <3>4
  <2> QED BY <2>1
<1>5. v0 \in V[0]
  <2>1. \A j \in 0 .. n - 1 : v0[j] = IF j = l THEN 1 ELSE 0
    BY SliceIs
  <2>2. v0 \in [0 .. n - 1 -> Fr]
    BY SliceIs, ModulusFacts
  <2> DEFINE p == Lead(v0, 0, n)
  <2>3. p = [j \in 0 .. n - 1 |-> IF j = 0 THEN 1 ELSE 0]
    BY DEF Lead
  <2>4. p \in [0 .. n - 1 -> Fr] /\ UpTo(p, n, 0)
    BY <2>3, ModulusFacts DEF UpTo
  <2>5. ASSUME NEW z \in Fr
        PROVE  PolyAt(p, n, z) # 0 /\ z \notin Among(r, 0, 0)
    <3>1. /\ 0 \in 0 .. n - 1 /\ 0 \in 0 .. 1 - 1 /\ n - 1 \in Nat /\ 1 \in Nat /\ 1 + (n - 1) = n
          /\ 1 # 0 /\ 0 .. 0 - 1 = {}
      OBVIOUS
    <3> DEFINE one == [j \in 0 .. 0 |-> 1]
    <3>2. PolyAt(one, 1, z) = 1
      <4> DEFINE t == Monomials(one, 1, z)
      <4>1. t[0] = 1 \odot ExpModFr(z, 0)
        BY DEF Monomials
      <4>2. t[0] = 1 /\ 1 \in Fr
        BY <4>1, ExpZero, FrUnits, ModulusFacts
      <4>3. \A i \in 0 .. 1 - 1 : i # 0 => t[i] = 0
        OBVIOUS
      <4> HIDE DEF t
      <4>4. SumFr(t, 1) = t[0]
        BY <3>1, <4>2, <4>3, SumSingle
      <4> QED BY <4>2, <4>4 DEF PolyAt, t
    <3>3. \A j \in 0 .. 1 - 1 : one[j] \in Fr /\ p[j] = one[j]
      BY <2>3, <3>1, ModulusFacts
    <3>4. \A j \in 1 .. 1 + (n - 1) - 1 : p[j] = 0
      BY <2>3
    <3> HIDE DEF one, p
    <3>5. PICK u \in Nat, m \in Nat : u = 1 /\ m = n - 1 /\ u + m = n
      BY <3>1
    <3>6. /\ \A j \in 0 .. u - 1 : one[j] \in Fr /\ p[j] = one[j]
          /\ \A j \in u .. u + m - 1 : p[j] = 0
      BY <3>3, <3>4, <3>5
    <3>7. PolyAt(p, u + m, z) = PolyAt(one, u, z)
      BY <3>6, PolyAtZeros
    <3> QED BY <3>1, <3>2, <3>5, <3>7 DEF Among
  <2>6. Vanishes(p, n, 0, Among(r, 0, 0))
    BY <2>4, <2>5 DEF Vanishes
  <2>7. V[0] = LeafStates(0, n, l, r)
    BY <1>1
  <2> HIDE DEF v0, V
  <2> QED BY <2>1, <2>2, <2>6, <2>7 DEF LeafStates
<1> HIDE DEF round, V, step, v0
<1>6. PICK g : Loop(g, l, V, v0, step)
  BY <1>1, <1>4, <1>5, LoopRuns
<1>7. F(g)
  <2>1. \A i \in 0 .. l : g[i] \in V[i]
    BY <1>6 DEF Loop
  <2>2. ASSUME NEW i \in 0 .. l
        PROVE  (IF i = 0 THEN v0 ELSE step[i][g[i - 1]]) = IF i = 0 THEN v0 ELSE round(i, g[i - 1])
    BY <1>4, <2>1
  <2>3. g = [i \in 0 .. l |-> IF i = 0 THEN v0 ELSE step[i][g[i - 1]]]
    BY <1>6 DEF Loop
  <2>4. [i \in 0 .. l |-> IF i = 0 THEN v0 ELSE step[i][g[i - 1]]]
            = [i \in 0 .. l |-> IF i = 0 THEN v0 ELSE round(i, g[i - 1])]
    BY <2>2
  <2> QED BY <2>3, <2>4
<1>8. F(dst)
  <2> HIDE DEF F
  <2> QED BY <1>7
<1>9. dst[l] \in V[l]
  <2> DEFINE S == {i \in 0 .. l : dst[i] \in V[i]}
  <2>1. dst[0] = v0 /\ \A i \in 1 .. l : dst[i] = round(i, dst[i - 1])
    <3> HIDE DEF dst
    <3> QED BY <1>1, <1>8
  <2> HIDE DEF dst
  <2>2. 0 \in S
    BY <1>1, <1>5, <2>1
  <2>3. ASSUME NEW i \in 0 .. l - 1, i \in S
        PROVE  i + 1 \in S
    <3>1. i + 1 \in 1 .. l /\ (i + 1) - 1 = i
      OBVIOUS
    <3>2. dst[i] \in V[i]
      BY <2>3
    <3>3. round(i + 1, dst[i]) \in V[i + 1]
      BY <1>4, <3>1, <3>2
    <3> QED BY <2>1, <3>1, <3>3
  <2>4. l \in S
    <3> HIDE DEF S
    <3> QED BY <1>1, <2>2, <2>3, CountTo
  <2> QED BY <2>4
<1> HIDE DEF dst
<1>10. dst[l] \in LeafStates(l, n, l, r)
  BY <1>1, <1>9 DEF V
<1>11. PICK d \in [0 .. n - 1 -> Fr] :
           /\ d = dst[l] /\ Vanishes(Lead(d, l, n), n, l, Among(r, 0, l))
           /\ \A j \in l .. n - 1 : d[j] = IF j = l THEN 1 ELSE 0
  BY <1>10 DEF LeafStates
<1>12. Lead(d, l, n) = d
  <2>1. \A j \in 0 .. n - 1 : (IF j < l THEN d[j] ELSE IF j = l THEN 1 ELSE 0) = d[j]
    BY <1>1, <1>11
  <2>2. d = [j \in 0 .. n - 1 |-> d[j]]
    OBVIOUS
  <2> QED BY <2>1, <2>2 DEF Lead
<1> QED BY <1>2, <1>11, <1>12

-----------------------------------------------------------------------------
(* reduceTree: leaves are multiplied four at a time.                       *)

(* A function on 1 .. n is a sequence of n elements.                       *)
LEMMA LenIs ==
    ASSUME NEW n \in Nat, NEW S, NEW f \in [1 .. n -> S]
    PROVE  f \in Seq(S) /\ Len(f) = n
<1>1. f \in Seq(S)
  BY SeqDef
<1>2. Len(f) \in Nat /\ DOMAIN f = 1 .. Len(f)
  BY <1>1, LenProperties
<1>3. 1 .. n = 1 .. Len(f)
  BY <1>2
<1>4. n = Len(f)
  BY <1>2, <1>3
<1> QED BY <1>1, <1>4

(* The powers of two grow with the exponent.                               *)
LEMMA TwoToOrder ==
    ASSUME NEW i \in Nat, NEW j \in Nat
    PROVE  /\ TwoTo(i) <= TwoTo(j) <=> i <= j
           /\ TwoTo(i) < TwoTo(j) <=> i < j
           /\ TwoTo(i) < TwoTo(j) => 2 * TwoTo(i) <= TwoTo(j)
<1>1. i < j => 2 * TwoTo(i) <= TwoTo(j) /\ TwoTo(i) < TwoTo(j)
  BY TwoToGrows
<1>2. j < i => TwoTo(j) < TwoTo(i)
  BY TwoToGrows
<1>3. TwoTo(i) \in Nat /\ TwoTo(j) \in Nat
  BY TwoToType
<1> QED BY <1>1, <1>2, <1>3

(* The least power of two that is not less than v.                         *)
LEMMA NextPowerIs ==
    ASSUME NEW g \in Nat, NEW v \in Nat \ {0}, v <= TwoTo(g), TwoTo(g) < 2 * v
    PROVE  nextPowOf2(v) = TwoTo(g)
<1> DEFINE P(i) == TwoTo(i) >= v /\ \A j \in 0 .. i - 1 : TwoTo(j) < v
<1>1. \A j \in 0 .. g - 1 : TwoTo(j) < v
  <2>1. ASSUME NEW j \in 0 .. g - 1
        PROVE  TwoTo(j) < v
    <3>1. j \in Nat /\ j < g
      OBVIOUS
    <3>2. 2 * TwoTo(j) <= TwoTo(g) /\ TwoTo(j) \in Nat /\ TwoTo(g) \in Nat
      BY <3>1, TwoToGrows, TwoToType
    <3> QED BY <3>2
  <2> QED BY <2>1
<1>2. g \in 0 .. v
  <2>1. CASE g = 0
    BY <2>1
  <2>2. CASE g > 0
    <3>1. g - 1 \in Nat /\ g - 1 \in 0 .. g - 1
      BY <2>2
    <3>2. TwoTo(g - 1) < v /\ TwoTo(g - 1) > g - 1 /\ TwoTo(g - 1) \in Nat
      BY <1>1, <3>1, TwoToType
    <3> QED BY <3>2
  <2> QED BY <2>1, <2>2
<1>3. P(g)
  <2>1. TwoTo(g) \in Nat
    BY TwoToType
  <2> QED BY <1>1, <2>1
<1>4. \A i \in 0 .. v : P(i) => i = g
  <2>1. ASSUME NEW i \in 0 .. v, P(i), i # g
        PROVE  FALSE
    <3>1. TwoTo(i) \in Nat /\ TwoTo(g) \in Nat
      BY TwoToType
    <3>2. CASE i < g
      <4>1. i \in 0 .. g - 1
        BY <3>2
      <4>2. TwoTo(i) < v
        BY <1>1, <4>1
      <4> QED BY <2>1, <3>1, <4>2
    <3>3. CASE i > g
      <4>1. g \in 0 .. i - 1
        BY <3>3
      <4>2. TwoTo(g) < v
        BY <2>1, <4>1
      <4> QED BY <3>1, <4>2
    <3> QED BY <2>1, <3>2, <3>3
  <2> QED BY <2>1
<1>5. (CHOOSE i \in 0 .. v : P(i)) = g
  <2> HIDE DEF P
  <2> QED BY <1>2, <1>3, <1>4
<1> QED BY <1>5 DEF nextPowOf2

(* The part of out that a group lies in.                                   *)
Within(room, width, last, lam, g, c, i) ==
    /\ width = TwoTo(g + 2) /\ width \in Nat /\ room \in Nat
    /\ \E j \in 0 .. lam : room = TwoTo(j)
    /\ room <= width /\ i * width + room <= TwoTo(lam)
    /\ i * width + room = LesserOf((i + 1) * width, TwoTo(lam))
    /\ room = width \/ (c = 2 /\ i = 0 /\ room = 2 * TwoTo(g))

(* Where a group of leaves lies: it has room for a power of two of         *)
(* coefficients, as many as four leaves, or two if that is all there is.   *)
LEMMA RoomIs ==
    ASSUME NEW g \in Nat, NEW lam \in Nat, NEW c \in Nat, c >= 2, NEW i \in Nat, 4 * i < c,
           NEW last \in Nat, last >= 1, (c - 1) * TwoTo(g) + last <= TwoTo(lam),
           NEW width, width = 4 * TwoTo(g), NEW room,
           room = LesserOf((i + 1) * width, TwoTo(lam)) - i * width
    PROVE  Within(room, width, last, lam, g, c, i)
<1> DEFINE G == TwoTo(g)
           L == TwoTo(lam)
<1>1. G \in Nat /\ L \in Nat /\ G > 0 /\ L > 0
  BY TwoToType
<1>2. width = TwoTo(g + 2) /\ g + 2 \in Nat
  <2>1. TwoTo(g + 1) = 2 * TwoTo(g) /\ TwoTo((g + 1) + 1) = 2 * TwoTo(g + 1)
    BY TwoToNext
  <2>2. (g + 1) + 1 = g + 2
    OBVIOUS
  <2> HIDE DEF G, L
  <2>3. TwoTo(g + 2) = 2 * TwoTo(g + 1)
    BY <2>1, <2>2
  <2> QED BY <1>1, <2>1, <2>3 DEF G
<1>3. i * width < L
  <2>1. (4 * i) * G <= (c - 1) * G
    <3>1. 4 * i <= c - 1 /\ 4 * i \in Nat /\ c - 1 \in Nat
      OBVIOUS
    <3>2. \A x, y, z \in Nat : x <= y => x * z <= y * z
      OBVIOUS
    <3> HIDE DEF G
    <3> QED BY <1>1, <3>1, <3>2
  <2>2. i * width = (4 * i) * G
    <3> HIDE DEF G, L
    <3> QED BY <1>1 DEF G
  <2>3. (c - 1) * G \in Nat /\ (c - 1) * G + last <= L
    <3>1. \A x, y \in Nat : x * y \in Nat
      OBVIOUS
    <3> QED BY <1>1, <3>1
  <2>4. (4 * i) * G \in Nat
    BY <1>1
  <2> HIDE DEF G, L
  <2> QED BY <1>1, <2>1, <2>2, <2>3, <2>4
<1>4. width \in Nat /\ i * width \in Nat /\ (i + 1) * width = i * width + width
  <2> HIDE DEF G
  <2> QED BY <1>1 DEF G
<1>5. CASE g + 2 <= lam
  <2>1. PICK h \in Nat : L = width * TwoTo(h) /\ TwoTo(h) \in Nat
    <3>1. lam - (g + 2) \in Nat /\ (g + 2) + (lam - (g + 2)) = lam
      BY <1>5
    <3>2. TwoTo((g + 2) + (lam - (g + 2))) = TwoTo(g + 2) * TwoTo(lam - (g + 2))
      BY <1>2, <3>1, TwoToAdds
    <3> QED BY <1>2, <3>1, <3>2, TwoToType
  <2>2. i + 1 <= TwoTo(h)
    <3>1. i * width < width * TwoTo(h)
      BY <1>3, <2>1
    <3>2. ASSUME TwoTo(h) <= i
          PROVE  FALSE
      <4>1. \A x, y, z \in Nat : x <= y => z * x <= y * z
        OBVIOUS
      <4>2. width * TwoTo(h) <= i * width
        BY <1>4, <2>1, <3>2, <4>1
      <4> QED BY <1>4, <2>1, <3>1, <4>2
    <3> QED BY <2>1, <3>2
  <2>3. (i + 1) * width <= L
    <3>1. \A x, y, z \in Nat : x <= y => x * z <= z * y
      OBVIOUS
    <3>2. i + 1 \in Nat
      OBVIOUS
    <3> QED BY <1>4, <2>1, <2>2, <3>1, <3>2
  <2>4. LesserOf((i + 1) * width, L) = (i + 1) * width /\ room = width
    <3>1. LesserOf((i + 1) * width, L) = (i + 1) * width
      BY <1>1, <1>4, <2>3 DEF LesserOf
    <3> HIDE DEF L
    <3> QED BY <1>4, <3>1 DEF L
  <2>5. g + 2 \in 0 .. lam
    BY <1>5
  <2>6. \E j \in 0 .. lam : room = TwoTo(j)
    BY <1>2, <2>4, <2>5
  <2>7. room \in Nat /\ room <= width /\ i * width + room = (i + 1) * width
    BY <1>4, <2>4
  <2>8. i * width + room <= TwoTo(lam) /\ i * width + room = LesserOf((i + 1) * width, TwoTo(lam))
    BY <2>3, <2>4, <2>7
  <2> QED BY <1>2, <1>4, <2>4, <2>6, <2>7, <2>8 DEF Within
<1>6. CASE g + 2 > lam
  <2>1. 2 * L <= width
    BY <1>2, <1>6, TwoToGrows
  <2>2. i = 0
    <3>1. ASSUME i >= 1
          PROVE  FALSE
      <4>1. i * width >= width
        <5>1. \A x, y \in Nat : x >= 1 => x * y >= y
          OBVIOUS
        <5> QED BY <1>4, <3>1, <5>1
      <4> HIDE DEF G, L
      <4> QED BY <1>1, <1>3, <1>4, <2>1, <4>1
    <3> QED BY <3>1
  <2>3. G < L
    <3>1. (c - 1) * G >= G
      <4>1. c - 1 \in Nat /\ c - 1 >= 1
        OBVIOUS
      <4>2. \A x, y \in Nat : x >= 1 => x * y >= y
        OBVIOUS
      <4> HIDE DEF G
      <4> QED BY <1>1, <4>1, <4>2
    <3>2. (c - 1) * G \in Int
      BY <1>1
    <3>3. (c - 1) * G + last <= L
      OBVIOUS
    <3> HIDE DEF G, L
    <3> QED BY <1>1, <3>1, <3>2, <3>3
  <2>4. lam = g + 1
    BY <1>6, <2>3, TwoToOrder
  <2>5. L = 2 * G
    BY <2>4, TwoToNext
  <2>6. c = 2
    <3>1. ASSUME c >= 3
          PROVE  FALSE
      <4>1. (c - 1) * G >= 2 * G
        <5>1. c - 1 \in Nat /\ c - 1 >= 2
          BY <3>1
        <5>2. \A x, y \in Nat : x >= 2 => x * y >= 2 * y
          OBVIOUS
        <5> HIDE DEF G
        <5> QED BY <1>1, <5>1, <5>2
      <4>2. (c - 1) * G \in Int /\ (c - 1) * G + last <= L
        BY <1>1
      <4> HIDE DEF G, L
      <4> QED BY <1>1, <2>5, <4>1, <4>2
    <3> QED BY <3>1
  <2>7. room = L /\ LesserOf((i + 1) * width, L) = L
    <3>1. (i + 1) * width = width /\ i * width = 0
      BY <1>4, <2>2
    <3>2. LesserOf(width, L) = L
      <4> HIDE DEF G, L
      <4> QED BY <1>1, <1>4, <2>1 DEF LesserOf
    <3> HIDE DEF L
    <3> QED BY <1>1, <3>1, <3>2 DEF L
  <2>8. lam \in 0 .. lam /\ i * width = 0
    BY <1>4, <2>2
  <2>9. \E j \in 0 .. lam : room = TwoTo(j)
    BY <2>7, <2>8
  <2>10. room \in Nat /\ room <= width /\ i * width + room = room
    <3>1. room = L /\ L \in Nat /\ 2 * L <= width /\ width \in Nat /\ i * width = 0
      BY <1>1, <1>4, <2>1, <2>7, <2>8
    <3> HIDE DEF L
    <3>2. \A x, y \in Nat : 2 * x <= y => x <= y /\ 0 + x = x
      OBVIOUS
    <3> QED BY <3>1, <3>2
  <2>11. i * width + room <= TwoTo(lam) /\ i * width + room = LesserOf((i + 1) * width, TwoTo(lam))
    <3>1. L <= L
      BY <1>1
    <3> QED BY <2>7, <2>10, <3>1
  <2> QED BY <1>2, <1>4, <2>2, <2>5, <2>6, <2>7, <2>9, <2>10, <2>11 DEF Within
<1> QED BY <1>5, <1>6

-----------------------------------------------------------------------------
(* The parts of reduceTree, named as there.                                *)
GroupSize(tree) == 4 * nextPowOf2(tree.leaves[1].length)
GroupCount(tree) == (Len(tree.leaves) + 3) \div 4
RoomOf(tree, i) == LesserOf((i + 1) * GroupSize(tree), Length(tree.out)) - i * GroupSize(tree)
GroupOf(tree, i) == SubSeq(tree.leaves, 4 * i + 1, LesserOf(4 * i + 4, Len(tree.leaves)))
LeafOf(tree, leaf) == SubSlice(tree.out, leaf.offset, leaf.offset + leaf.length)
PolysOf(tree, i) == [k \in DOMAIN GroupOf(tree, i) |-> LeafOf(tree, GroupOf(tree, i)[k])]
IsAlone(tree, i) == Len(GroupOf(tree, i)) = 1
TreePanics(fs, tree) ==
    \E i \in 0 .. GroupCount(tree) - 1 :
        ~IsAlone(tree, i) /\ reduceLeavesPanics(fs, RoomOf(tree, i), PolysOf(tree, i))
WrittenAt(fs, tree, i) ==
    IF IsAlone(tree, i)
    THEN SubSlice(tree.out, i * GroupSize(tree), i * GroupSize(tree) + RoomOf(tree, i))
    ELSE reduceLeaves(fs, RoomOf(tree, i), PolysOf(tree, i))
Written(fs, tree) == Slice([i \in 0 .. GroupCount(tree) - 1 |-> WrittenAt(fs, tree, i)])
NewLength(tree, i) ==
    IF IsAlone(tree, i) THEN RoomOf(tree, i) ELSE outDegree(PolysOf(tree, i)) + 1
TreeReduced(fs, tree) ==
    [out |-> Slice([p \in DOMAIN tree.out |->
         IF p \div GroupSize(tree) < GroupCount(tree)
         THEN Written(fs, tree)[p \div GroupSize(tree)][p - (p \div GroupSize(tree)) * GroupSize(tree)]
         ELSE tree.out[p]]),
     leaves |-> [i \in 1 .. GroupCount(tree) |->
         [offset |-> (i - 1) * GroupSize(tree), length |-> NewLength(tree, i - 1)]]]
TreeRound(fs, tree) ==
    IF Len(tree.leaves) <= 1 THEN tree
    ELSE IF TreePanics(fs, tree) THEN [out |-> <<>>, leaves |-> <<>>]
    ELSE TreeReduced(fs, tree)
ResultOf(tree) == IF tree.leaves = <<>> THEN <<>> ELSE LeafOf(tree, tree.leaves[1])
RoundsOf(f, fs, out, leaves) ==
    f = [round \in 0 .. Len(leaves) |->
            IF round = 0 THEN [out |-> out, leaves |-> leaves] ELSE TreeRound(fs, f[round - 1])]

(* reduceTree does as many rounds as it is given leaves.                   *)
LEMMA ReduceTreeIs ==
    ASSUME NEW fs, NEW out, NEW leaves
    PROVE  reduceTree(fs, out, leaves)
               = ResultOf((CHOOSE f : RoundsOf(f, fs, out, leaves))[Len(leaves)])
BY DEF reduceTree, ResultOf, RoundsOf, TreeRound, TreeReduced, NewLength, Written, WrittenAt,
       TreePanics, IsAlone, PolysOf, LeafOf, GroupOf, RoomOf, GroupCount, GroupSize

(* A leaf is a part of out.                                                *)
PartOf(tree, leaf) ==
    /\ LeafOf(tree, leaf) \in [0 .. leaf.length - 1 -> Fr]
    /\ Length(LeafOf(tree, leaf)) = leaf.length
    /\ \A k \in 0 .. leaf.length - 1 : LeafOf(tree, leaf)[k] = tree.out[leaf.offset + k]

(* It is if it ends where out ends, or before.                             *)
LEMMA LeafOfIs ==
    ASSUME NEW n \in Nat, NEW tree, tree.out \in [0 .. n - 1 -> Fr], NEW leaf,
           leaf.offset \in Nat, leaf.length \in Nat, leaf.offset + leaf.length <= n
    PROVE  PartOf(tree, leaf)
<1>1. PICK o \in Nat, l \in Nat : o = leaf.offset /\ l = leaf.length /\ o + l <= n
  OBVIOUS
<1>2. LeafOf(tree, leaf) = [k \in 0 .. (o + l) - o - 1 |-> tree.out[o + k]]
  BY <1>1, SliceIs DEF LeafOf, SubSlice
<1>3. (o + l) - o - 1 = l - 1
  OBVIOUS
<1>4. \A k \in 0 .. l - 1 : o + k \in 0 .. n - 1
  BY <1>1
<1>5. LeafOf(tree, leaf) \in [0 .. l - 1 -> Fr]
  BY <1>2, <1>3, <1>4
<1>6. DOMAIN LeafOf(tree, leaf) = 0 .. l - 1
  BY <1>5
<1>7. Length(LeafOf(tree, leaf)) = l
  BY <1>6, LengthIs
<1> QED BY <1>1, <1>2, <1>3, <1>5, <1>7 DEF PartOf

(* The groups there are, when there are c leaves.                          *)
CountHas(m, c) ==
    /\ m \in Nat \ {0} /\ 4 * (m - 1) < c /\ c <= 4 * m
    /\ \A i \in Nat : i \in 0 .. m - 1 <=> 4 * i < c
    /\ \A i \in Nat : i + 1 < m => 4 * i + 4 < c
    /\ c >= 2 => m < c

(* So many they are.                                                       *)
LEMMA GroupCountIs ==
    ASSUME NEW c \in Nat \ {0}, NEW m, m = (c + 3) \div 4
    PROVE  CountHas(m, c)
BY DEF CountHas

(* The leaves of group i are four, or those that are left.                 *)
GroupHas(tree, c, i, q) ==
    /\ q \in 1 .. 4 /\ 4 * i + q <= c /\ (q = 4 \/ 4 * i + q = c)
    /\ Len(tree.leaves) = c /\ Len(PolysOf(tree, i)) = q
    /\ IsAlone(tree, i) <=> q = 1
    /\ \A j \in 1 .. q : PolysOf(tree, i)[j] = LeafOf(tree, tree.leaves[4 * i + j])

(* They are.                                                               *)
LEMMA GroupIs ==
    ASSUME NEW c \in Nat, NEW S, NEW tree, tree.leaves \in [1 .. c -> S], NEW i \in Nat, 4 * i < c,
           NEW q, q = LesserOf(4, c - 4 * i)
    PROVE  GroupHas(tree, c, i, q)
<1>1. q \in 1 .. 4 /\ 4 * i + q <= c /\ (q = 4 \/ 4 * i + q = c) /\ LesserOf(4 * i + 4, c) = 4 * i + q
  BY DEF LesserOf
<1>2. tree.leaves \in Seq(S) /\ Len(tree.leaves) = c
  BY LenIs
<1>3. GroupOf(tree, i) = SubSeq(tree.leaves, 4 * i + 1, 4 * i + q)
  BY <1>1, <1>2 DEF GroupOf
<1>4. PICK a \in Int, b \in Int : a = 4 * i + 1 /\ b = 4 * i + q
  BY <1>1
<1>5. /\ SubSeq(tree.leaves, a, b) \in Seq(S)
      /\ Len(SubSeq(tree.leaves, a, b)) = IF a <= b THEN b - a + 1 ELSE 0
      /\ \A j \in 1 .. b - a + 1 : SubSeq(tree.leaves, a, b)[j] = tree.leaves[a + j - 1]
  <2>1. \A j \in a .. b : tree.leaves[j] \in S
    BY <1>1, <1>4
  <2> QED BY <2>1, SubSeqProperties
<1>6. a <= b /\ b - a + 1 = q /\ \A j \in 1 .. q : a + j - 1 = 4 * i + j
  BY <1>1, <1>4
<1>7. /\ GroupOf(tree, i) \in Seq(S) /\ Len(GroupOf(tree, i)) = q
      /\ \A j \in 1 .. q : GroupOf(tree, i)[j] = tree.leaves[4 * i + j]
  BY <1>3, <1>4, <1>5, <1>6
<1>8. DOMAIN GroupOf(tree, i) = 1 .. q
  BY <1>7, LenProperties
<1>9. PolysOf(tree, i) = [j \in 1 .. q |-> LeafOf(tree, tree.leaves[4 * i + j])]
  BY <1>7, <1>8 DEF PolysOf
<1>10. Len(PolysOf(tree, i)) = q
  <2>1. q \in Nat
    BY <1>1
  <2> DEFINE T == {LeafOf(tree, tree.leaves[4 * i + j]) : j \in 1 .. q}
  <2>2. PolysOf(tree, i) \in [1 .. q -> T]
    BY <1>9
  <2> HIDE DEF T
  <2> QED BY <2>1, <2>2, LenIs
<1>11. IsAlone(tree, i) <=> q = 1
  BY <1>7 DEF IsAlone
<1>12. \A j \in 1 .. q : PolysOf(tree, i)[j] = LeafOf(tree, tree.leaves[4 * i + j])
  BY <1>9
<1> QED BY <1>1, <1>2, <1>10, <1>11, <1>12 DEF GroupHas

(* The roots up to leaf i, when a leaf has D of them and there are M.      *)
RootsTo(i, D, M) == LesserOf(i * D, M)

(* Leaf i is the polynomial that is zero at its roots; it has room for     *)
(* TwoTo(g) coefficients.                                                  *)
GoodLeaf(tree, i, lam, g, D, c, r, M) ==
    /\ tree.leaves[i].offset = (i - 1) * TwoTo(g)
    /\ tree.leaves[i].length \in 1 .. TwoTo(g)
    /\ (i - 1) * TwoTo(g) + tree.leaves[i].length <= TwoTo(lam)
    /\ i < c => tree.leaves[i].length = D + 1
    /\ RootsTo(i, D, M) - RootsTo(i - 1, D, M) < tree.leaves[i].length
    /\ Vanishes(LeafOf(tree, tree.leaves[i]), tree.leaves[i].length,
                RootsTo(i, D, M) - RootsTo(i - 1, D, M),
                Among(r, RootsTo(i - 1, D, M), RootsTo(i, D, M)))

(* What the leaves lie in: nothing follows the last of them.               *)
GoodTree(tree, lam, g, D, c, r, M) ==
    /\ g \in Nat /\ D \in Nat /\ D < TwoTo(g) /\ TwoTo(g) <= 2 * D
    /\ c \in Nat \ {0} /\ (c - 1) * D < M /\ M <= c * D
    /\ tree.out \in [0 .. TwoTo(lam) - 1 -> Fr]
    /\ tree.leaves \in [1 .. c -> [offset : Nat, length : Nat]]
    /\ \A i \in 1 .. c : GoodLeaf(tree, i, lam, g, D, c, r, M)
    /\ \A p \in 0 .. TwoTo(lam) - 1 :
           p >= (c - 1) * TwoTo(g) + tree.leaves[c].length => tree.out[p] = 0

-----------------------------------------------------------------------------
(* Leaves and their roots.                                                 *)

(* A product of numbers grows with each of them.                           *)
LEMMA ProductGrows ==
    \A x, y, z \in Nat : /\ x * z \in Nat
                         /\ x <= y => x * z <= y * z
                         /\ (x + 1) * z = x * z + z
OBVIOUS

(* All leaves but the last have D roots, and it has no more.               *)
LEMMA RootsToIs ==
    ASSUME NEW D \in Nat, NEW c \in Nat \ {0}, NEW M \in Nat, (c - 1) * D < M, M <= c * D,
           NEW i \in 0 .. c
    PROVE  /\ RootsTo(i, D, M) \in Nat /\ RootsTo(i, D, M) <= M
           /\ i < c => /\ RootsTo(i, D, M) = i * D
                       /\ RootsTo(i, D, M) <= RootsTo(i + 1, D, M)
                       /\ RootsTo(i + 1, D, M) - RootsTo(i, D, M) <= D
           /\ RootsTo(c, D, M) = M
<1>1. i * D \in Nat /\ c * D \in Nat /\ (i + 1) * D = i * D + D /\ (c - 1) * D \in Nat
  BY ProductGrows
<1>2. i < c => i * D <= (c - 1) * D
  <2>1. \A x, y, z \in Nat : x <= y => x * z <= y * z
    BY ProductGrows
  <2>2. i < c => i \in Nat /\ c - 1 \in Nat /\ i <= c - 1
    OBVIOUS
  <2> QED BY <2>1, <2>2
<1> DEFINE u == i * D
           v == c * D
           b == (c - 1) * D
<1>3. u \in Nat /\ v \in Nat /\ b \in Nat /\ b < M /\ M <= v /\ (i < c => u <= b)
  BY <1>1, <1>2
<1>4. RootsTo(i, D, M) = LesserOf(u, M) /\ RootsTo(i + 1, D, M) = LesserOf(u + D, M)
      /\ RootsTo(c, D, M) = LesserOf(v, M)
  BY <1>1 DEF RootsTo
<1> HIDE DEF u, v, b
<1>5. /\ LesserOf(u, M) \in Nat /\ LesserOf(u, M) <= M /\ LesserOf(v, M) = M
      /\ i < c => /\ LesserOf(u, M) = u /\ LesserOf(u, M) <= LesserOf(u + D, M)
                  /\ LesserOf(u + D, M) - LesserOf(u, M) <= D
  BY <1>3 DEF LesserOf
<1> QED BY <1>4, <1>5 DEF u

(* The roots of a group, when a group has four times those of a leaf.      *)
GroupRoots(i, q, D, M) ==
    /\ RootsTo(4 * i, D, M) = RootsTo(i, 4 * D, M)
    /\ RootsTo(4 * i + q, D, M) = RootsTo(i + 1, 4 * D, M)

(* It has.                                                                 *)
LEMMA RootsOfGroup ==
    ASSUME NEW D \in Nat, NEW c \in Nat \ {0}, NEW M \in Nat, (c - 1) * D < M, M <= c * D,
           NEW i \in Nat, 4 * i < c, NEW q \in 1 .. 4, 4 * i + q <= c, q = 4 \/ 4 * i + q = c
    PROVE  GroupRoots(i, q, D, M)
<1>1. (4 * i) * D = i * (4 * D) /\ (4 * i + 4) * D = (i + 1) * (4 * D)
  OBVIOUS
<1>2. RootsTo(4 * i, D, M) = RootsTo(i, 4 * D, M)
  BY <1>1 DEF RootsTo
<1>3. CASE q = 4
  BY <1>1, <1>2, <1>3 DEF RootsTo, GroupRoots
<1>4. CASE q # 4
  <2>1. 4 * i + q = c /\ c <= 4 * i + 4
    BY <1>4
  <2>2. c * D <= (4 * i + 4) * D /\ c * D \in Nat /\ (4 * i + 4) * D \in Nat
    <3>1. 4 * i + 4 \in Nat /\ c \in Nat
      OBVIOUS
    <3> QED BY <2>1, <3>1, ProductGrows
  <2>3. RootsTo(c, D, M) = M
    <3>1. c \in 0 .. c
      OBVIOUS
    <3> QED BY <3>1, RootsToIs
  <2>4. RootsTo(i + 1, 4 * D, M) = M
    <3> DEFINE u == (4 * i + 4) * D
               v == c * D
    <3>1. u \in Nat /\ v \in Nat /\ M <= v /\ v <= u
      BY <2>2
    <3>2. RootsTo(i + 1, 4 * D, M) = LesserOf(u, M)
      BY <1>1 DEF RootsTo
    <3> HIDE DEF u, v
    <3> QED BY <3>1, <3>2 DEF LesserOf
  <2> QED BY <1>2, <2>1, <2>3, <2>4 DEF GroupRoots
<1> QED BY <1>3, <1>4

(* Leaf i lies where it is said to lie.                                    *)
LeafLies(tree, i, g) ==
    /\ LeafOf(tree, tree.leaves[i]) \in [0 .. tree.leaves[i].length - 1 -> Fr]
    /\ Length(LeafOf(tree, tree.leaves[i])) = tree.leaves[i].length
    /\ \A k \in 0 .. tree.leaves[i].length - 1 :
           LeafOf(tree, tree.leaves[i])[k] = tree.out[(i - 1) * TwoTo(g) + k]

(* It does.                                                                *)
LEMMA GoodLeafIs ==
    ASSUME NEW tree, NEW lam \in Nat, NEW g, NEW D, NEW c, NEW r, NEW M \in Nat,
           GoodTree(tree, lam, g, D, c, r, M), NEW i \in 1 .. c
    PROVE  LeafLies(tree, i, g)
<1>1. TwoTo(lam) \in Nat /\ TwoTo(g) \in Nat /\ i - 1 \in Nat
  <2>1. g \in Nat /\ c \in Nat
    BY DEF GoodTree
  <2> QED BY <2>1, TwoToType
<1>2. tree.out \in [0 .. TwoTo(lam) - 1 -> Fr]
  BY DEF GoodTree
<1>3. GoodLeaf(tree, i, lam, g, D, c, r, M)
  BY DEF GoodTree
<1>4. (i - 1) * TwoTo(g) \in Nat
  BY <1>1, ProductGrows
<1>5. tree.leaves[i].offset = (i - 1) * TwoTo(g) /\ tree.leaves[i].length \in Nat
      /\ (i - 1) * TwoTo(g) + tree.leaves[i].length <= TwoTo(lam)
  BY <1>1, <1>3 DEF GoodLeaf
<1>6. tree.leaves[i].offset \in Nat
      /\ tree.leaves[i].offset + tree.leaves[i].length <= TwoTo(lam)
  BY <1>4, <1>5
<1>7. /\ LeafOf(tree, tree.leaves[i]) \in [0 .. tree.leaves[i].length - 1 -> Fr]
      /\ Length(LeafOf(tree, tree.leaves[i])) = tree.leaves[i].length
      /\ \A k \in 0 .. tree.leaves[i].length - 1 :
             LeafOf(tree, tree.leaves[i])[k] = tree.out[tree.leaves[i].offset + k]
  <2>1. PICK n \in Nat, leaf \in {tree.leaves[i]} : n = TwoTo(lam) /\ leaf = tree.leaves[i]
    BY <1>1
  <2>2. /\ tree.out \in [0 .. n - 1 -> Fr] /\ leaf.offset \in Nat /\ leaf.length \in Nat
        /\ leaf.offset + leaf.length <= n
    BY <1>2, <1>5, <1>6, <2>1
  <2>3. /\ LeafOf(tree, leaf) \in [0 .. leaf.length - 1 -> Fr]
        /\ Length(LeafOf(tree, leaf)) = leaf.length
        /\ \A k \in 0 .. leaf.length - 1 : LeafOf(tree, leaf)[k] = tree.out[leaf.offset + k]
    <3>1. PartOf(tree, leaf)
      BY <2>2, LeafOfIs
    <3> QED BY <3>1 DEF PartOf
  <2> QED BY <2>1, <2>3
<1> QED BY <1>5, <1>7 DEF LeafLies

-----------------------------------------------------------------------------
(* The leaves of a group.                                                  *)

(* A later leaf ends at a later root.                                      *)
LEMMA RootsToGrows ==
    \A i, j, D, M \in Nat : i <= j => RootsTo(i, D, M) <= RootsTo(j, D, M)
<1>1. ASSUME NEW i \in Nat, NEW j \in Nat, NEW D \in Nat, NEW M \in Nat, i <= j
      PROVE  RootsTo(i, D, M) <= RootsTo(j, D, M)
  <2>1. PICK u \in Nat, v \in Nat : u = i * D /\ v = j * D /\ u <= v
    BY <1>1, ProductGrows
  <2> QED BY <2>1 DEF RootsTo, LesserOf
<1> QED BY <1>1

(* The leaves of a group of such a tree.                                   *)
LEMMA TreeGroupIs ==
    ASSUME NEW tree, NEW lam, NEW g, NEW D, NEW c, NEW r, NEW M,
           GoodTree(tree, lam, g, D, c, r, M), NEW i \in Nat, 4 * i < c,
           NEW q, q = LesserOf(4, c - 4 * i)
    PROVE  GroupHas(tree, c, i, q)
<1>1. PICK S : tree.leaves \in [1 .. c -> S]
  BY DEF GoodTree
<1>2. PICK m \in Nat : m = c
  BY DEF GoodTree
<1>3. tree.leaves \in [1 .. m -> S] /\ 4 * i < m /\ q = LesserOf(4, m - 4 * i)
  BY <1>1, <1>2
<1>4. GroupHas(tree, m, i, q)
  BY <1>3, GroupIs
<1> QED BY <1>2, <1>4

(* A leaf that is zero from root a to b, of those of the group.            *)
LeafHas(p, a, b, g, D, c, r, M, i, j, q) ==
    /\ Length(p) \in 1 .. TwoTo(g) /\ a \in Nat /\ b \in Nat /\ a <= b /\ b - a <= D
    /\ RootsTo(4 * i, D, M) <= a /\ b <= RootsTo(4 * i + q, D, M)
    /\ b - a < Length(p) /\ Vanishes(p, Length(p), b - a, Among(r, a, b))
    /\ 4 * i + j < c => Length(p) = D + 1

(* Leaf j of group i.                                                      *)
LEMMA GroupLeafIs ==
    ASSUME NEW tree, NEW lam \in Nat, NEW g, NEW D, NEW c, NEW r, NEW M \in Nat,
           GoodTree(tree, lam, g, D, c, r, M), NEW i \in Nat, 4 * i < c,
           NEW q, q = LesserOf(4, c - 4 * i), NEW j \in 1 .. q, NEW p, p = PolysOf(tree, i)[j],
           NEW a, a = RootsTo(4 * i + (j - 1), D, M), NEW b, b = RootsTo(4 * i + j, D, M)
    PROVE  LeafHas(p, a, b, g, D, c, r, M, i, j, q)
<1>1. /\ g \in Nat /\ D \in Nat /\ c \in Nat \ {0} /\ (c - 1) * D < M /\ M <= c * D
      /\ tree.leaves \in [1 .. c -> [offset : Nat, length : Nat]]
      /\ \A k \in 1 .. c : GoodLeaf(tree, k, lam, g, D, c, r, M)
  BY DEF GoodTree
<1>20. GroupHas(tree, c, i, q)
  BY TreeGroupIs
<1>2. /\ q \in 1 .. 4 /\ 4 * i + q <= c /\ Len(PolysOf(tree, i)) = q
      /\ \A k \in 1 .. q : PolysOf(tree, i)[k] = LeafOf(tree, tree.leaves[4 * i + k])
  BY <1>20 DEF GroupHas
<1>3. PICK k \in 1 .. c : k = 4 * i + j
  BY <1>1, <1>2
<1>4. k - 1 = 4 * i + (j - 1) /\ k - 1 \in 0 .. c /\ k - 1 < c /\ (k - 1) + 1 = k
  BY <1>1, <1>2, <1>3
<1>5. a = RootsTo(k - 1, D, M) /\ b = RootsTo(k, D, M) /\ p = LeafOf(tree, tree.leaves[k])
  BY <1>2, <1>3, <1>4
<1>6. a \in Nat /\ b \in Nat /\ a <= b /\ b - a <= D
  <2>1. PICK h \in 0 .. c : h = k - 1
    BY <1>4
  <2>2. h + 1 \in 0 .. c /\ h + 1 = k /\ h < c
    BY <1>4, <2>1
  <2>3. RootsTo(h, D, M) \in Nat /\ RootsTo(h, D, M) <= RootsTo(h + 1, D, M)
        /\ RootsTo(h + 1, D, M) - RootsTo(h, D, M) <= D
    BY <1>1, <2>2, RootsToIs
  <2>4. RootsTo(h + 1, D, M) \in Nat
    BY <1>1, <2>2, RootsToIs
  <2> QED BY <1>5, <2>1, <2>2, <2>3, <2>4
<1>7. RootsTo(4 * i, D, M) <= a /\ b <= RootsTo(4 * i + q, D, M)
  <2>1. 4 * i \in Nat /\ k - 1 \in Nat /\ 4 * i <= k - 1
    BY <1>2, <1>3
  <2>2. k \in Nat /\ 4 * i + q \in Nat /\ k <= 4 * i + q
    BY <1>2, <1>3
  <2> QED BY <1>1, <1>5, <2>1, <2>2, RootsToGrows
<1>8. Length(p) = tree.leaves[k].length
  BY <1>5, GoodLeafIs DEF LeafLies
<1>9. GoodLeaf(tree, k, lam, g, D, c, r, M)
  BY <1>1
<1>10. /\ tree.leaves[k].length \in 1 .. TwoTo(g) /\ b - a < tree.leaves[k].length
       /\ k < c => tree.leaves[k].length = D + 1
       /\ Vanishes(p, tree.leaves[k].length, b - a, Among(r, a, b))
  BY <1>5, <1>9 DEF GoodLeaf
<1> QED BY <1>3, <1>6, <1>7, <1>8, <1>10 DEF LeafHas

(* The leaves of a group can be multiplied in a room they fit into.        *)
LEMMA GroupIsLeaves ==
    ASSUME NEW tree, NEW lam \in Nat, NEW g, NEW D, NEW c, NEW r, NEW M \in Nat,
           GoodTree(tree, lam, g, D, c, r, M), NEW i \in Nat, 4 * i < c,
           NEW q, q = LesserOf(4, c - 4 * i), NEW n \in Nat, TwoTo(g) <= n,
           NEW E, E = [j \in 0 .. q |-> RootsTo(4 * i + j, D, M)], E[q] - E[0] < n
    PROVE  AreLeaves(PolysOf(tree, i), q, E, r, n)
<1>1. /\ g \in Nat /\ D \in Nat /\ c \in Nat \ {0} /\ (c - 1) * D < M /\ M <= c * D
      /\ tree.leaves \in [1 .. c -> [offset : Nat, length : Nat]]
  BY DEF GoodTree
<1>20. GroupHas(tree, c, i, q)
  BY TreeGroupIs
<1>2. q \in 1 .. 4 /\ 4 * i + q <= c /\ Len(PolysOf(tree, i)) = q
  BY <1>20 DEF GroupHas
<1>3. E \in [0 .. q -> Nat]
  <2>1. ASSUME NEW j \in 0 .. q
        PROVE  RootsTo(4 * i + j, D, M) \in Nat
    <3>1. 4 * i + j \in 0 .. c
      BY <1>1, <1>2
    <3> QED BY <1>1, <3>1, RootsToIs
  <2> QED BY <2>1
<1>4. E[0] = RootsTo(4 * i, D, M) /\ E[q] = RootsTo(4 * i + q, D, M)
  BY <1>2
<1>5. E[0] <= E[q]
  <2>1. 4 * i \in Nat /\ 4 * i + q \in Nat /\ 4 * i <= 4 * i + q
    BY <1>2
  <2> QED BY <1>1, <1>4, <2>1, RootsToGrows
<1>6. ASSUME NEW j \in 1 .. q
      PROVE  /\ E[0] <= E[j - 1] /\ E[j - 1] <= E[j] /\ E[j] <= E[q]
             /\ Length(PolysOf(tree, i)[j]) \in 1 .. n
             /\ Vanishes(PolysOf(tree, i)[j], Length(PolysOf(tree, i)[j]), E[j] - E[j - 1],
                         Among(r, E[j - 1], E[j]))
  <2>1. j - 1 \in 0 .. q /\ j \in 0 .. q
    BY <1>2
  <2>2. E[j - 1] = RootsTo(4 * i + (j - 1), D, M) /\ E[j] = RootsTo(4 * i + j, D, M)
    BY <2>1
  <2>3. PICK p, a, b : p = PolysOf(tree, i)[j] /\ a = E[j - 1] /\ b = E[j]
    OBVIOUS
  <2>6. LeafHas(p, a, b, g, D, c, r, M, i, j, q)
    BY <2>2, <2>3, GroupLeafIs
  <2>4. /\ Length(p) \in 1 .. TwoTo(g) /\ a <= b
        /\ RootsTo(4 * i, D, M) <= a /\ b <= RootsTo(4 * i + q, D, M)
        /\ Vanishes(p, Length(p), b - a, Among(r, a, b))
    BY <2>6 DEF LeafHas
  <2>5. Length(p) \in 1 .. n
    <3>1. TwoTo(g) \in Nat
      BY <1>1, TwoToType
    <3> QED BY <2>4, <3>1
  <2> QED BY <1>4, <2>3, <2>4, <2>5
<1> QED BY <1>2, <1>3, <1>5, <1>6 DEF AreLeaves

-----------------------------------------------------------------------------
(* What a group needs.                                                     *)
DegreeHas(d, a, b, g, D, c, i, q) ==
    /\ d \in Nat /\ a \in Nat /\ b \in Nat /\ a <= b
    /\ b - a <= d /\ b - a <= q * D /\ d <= q * (TwoTo(g) - 1)
    /\ 4 * i + 4 < c => d = 4 * D

(* outDegree is enough for the roots of a group, and not too much for its  *)
(* room.                                                                   *)
LEMMA GroupDegreeIs ==
    ASSUME NEW tree, NEW lam \in Nat, NEW g, NEW D, NEW c, NEW r, NEW M \in Nat,
           GoodTree(tree, lam, g, D, c, r, M), NEW i \in Nat, 4 * i < c,
           NEW q, q = LesserOf(4, c - 4 * i), NEW d, d = outDegree(PolysOf(tree, i)),
           NEW a, a = RootsTo(4 * i, D, M), NEW b, b = RootsTo(4 * i + q, D, M)
    PROVE  DegreeHas(d, a, b, g, D, c, i, q)
<1>1. /\ g \in Nat /\ D \in Nat /\ c \in Nat \ {0} /\ (c - 1) * D < M /\ M <= c * D
  BY DEF GoodTree
<1>2. GroupHas(tree, c, i, q)
  BY TreeGroupIs
<1>3. q \in 1 .. 4 /\ 4 * i + q <= c /\ Len(PolysOf(tree, i)) = q
  BY <1>2 DEF GroupHas
<1> DEFINE ps == PolysOf(tree, i)
           e(j) == RootsTo(4 * i + j, D, M)
<1>4. PICK G \in Nat : G = TwoTo(g) /\ D < G
  BY <1>1, TwoToType DEF GoodTree
<1>5. ASSUME NEW j \in 1 .. q
      PROVE  /\ Length(ps[j]) \in 1 .. G /\ e(j - 1) \in Nat /\ e(j) \in Nat /\ e(j - 1) <= e(j)
             /\ e(j) - e(j - 1) <= D /\ e(j) - e(j - 1) < Length(ps[j])
             /\ 4 * i + j < c => Length(ps[j]) = D + 1
  <2>1. PICK p, u, v : p = ps[j] /\ u = e(j - 1) /\ v = e(j)
    OBVIOUS
  <2>2. p = PolysOf(tree, i)[j] /\ u = RootsTo(4 * i + (j - 1), D, M)
        /\ v = RootsTo(4 * i + j, D, M)
    BY <2>1
  <2>4. LeafHas(p, u, v, g, D, c, r, M, i, j, q)
    BY <2>2, GroupLeafIs
  <2>3. /\ Length(p) \in 1 .. TwoTo(g) /\ u \in Nat /\ v \in Nat /\ u <= v /\ v - u <= D
        /\ v - u < Length(p)
        /\ 4 * i + j < c => Length(p) = D + 1
    BY <2>4 DEF LeafHas
  <2> HIDE DEF ps, e
  <2> QED BY <1>4, <2>1, <2>3
<1>6. a = e(0) /\ b = e(q)
  BY <1>3
<1>7. PICK sum \in [0 .. q -> Nat] :
          /\ sum[0] = 0 /\ outDegree(ps) = sum[q]
          /\ \A j \in 1 .. q : sum[j] = sum[j - 1] + Length(ps[j]) - 1
  <2>1. \A j \in 1 .. q : Length(ps[j]) \in Nat \ {0}
    <3> HIDE DEF ps, e
    <3> QED BY <1>4, <1>5
  <2>2. q \in Nat /\ Len(ps) = q
    BY <1>3
  <2> HIDE DEF ps
  <2> QED BY <2>1, <2>2, OutDegreeIs
<1> DEFINE S == {j \in 0 .. q : /\ e(j) \in Nat /\ e(0) <= e(j) /\ e(j) - e(0) <= sum[j]
                                /\ e(j) - e(0) <= j * D /\ sum[j] <= j * (G - 1)
                                /\ 4 * i + j < c => sum[j] = j * D}
<1>8. \A j \in 0 .. q : j \in S
  <2>1. 0 \in S
    <3>1. e(0) \in Nat
      <4>1. 1 \in 1 .. q
        BY <1>3
      <4> HIDE DEF e, ps
      <4>2. e(1 - 1) \in Nat
        BY <1>5, <4>1
      <4> QED BY <4>2
    <3>2. 0 * D = 0 /\ 0 * (G - 1) = 0 /\ 0 \in 0 .. q
      BY <1>1, <1>3, <1>4
    <3> HIDE DEF e, ps
    <3> QED BY <1>7, <3>1, <3>2
  <2>2. ASSUME NEW j \in 0 .. q - 1, j \in S
        PROVE  j + 1 \in S
    <3>1. PICK k \in 1 .. q : k = j + 1
      BY <1>3
    <3>2. k - 1 = j /\ k \in 0 .. q /\ j \in Nat
      BY <3>1
    <3> HIDE DEF e, ps
    <3>3. PICK l \in 1 .. G : l = Length(ps[k])
      BY <1>5
    <3>14. e(j) \in Nat /\ e(k) \in Nat /\ e(0) \in Nat
      <4>1. 1 \in 1 .. q /\ 1 - 1 = 0
        BY <1>3
      <4>2. e(0) \in Nat
        BY <1>5, <4>1
      <4> QED BY <1>5, <2>2, <4>2
    <3>4. PICK u \in Nat, v \in Nat, o \in Nat : u = e(j) /\ v = e(k) /\ o = e(0)
      BY ONLY <3>14
    <3>15. sum[j] \in Nat /\ sum[k] \in Nat
      <4>1. j \in 0 .. q
        BY <1>3
      <4> QED BY <3>2, <4>1
    <3>5. PICK s \in Nat, t \in Nat : s = sum[j] /\ t = sum[k]
      BY ONLY <3>15
    <3>6. t = s + l - 1
      BY <1>7, <3>2, <3>3, <3>5
    <3>7. u <= v /\ v - u <= D /\ v - u < l /\ (4 * i + k < c => l = D + 1)
      BY <1>5, <3>2, <3>3, <3>4
    <3>8. o <= u /\ u - o <= s /\ u - o <= j * D /\ s <= j * (G - 1)
          /\ (4 * i + j < c => s = j * D)
      BY <2>2, <3>4, <3>5
    <3>16. j * D \in Nat /\ j * (G - 1) \in Int
      BY <1>1, <1>4, <3>2
    <3>9. PICK x \in Nat, y \in Int : x = j * D /\ y = j * (G - 1)
      BY ONLY <3>16
    <3>10. k * D = x + D /\ k * (G - 1) = y + (G - 1)
      BY <1>1, <1>4, <3>1, <3>2, <3>9
    <3>17. s <= y /\ u - o <= x /\ (4 * i + j < c => s = x) /\ k = j + 1 /\ c \in Nat
      BY <1>1, <3>1, <3>8, <3>9
    <3>11. /\ o <= v /\ v - o <= t /\ v - o <= x + D /\ t <= y + (G - 1)
           /\ 4 * i + k < c => t = x + D
      BY <1>1, <3>6, <3>7, <3>8, <3>17
    <3> QED BY <3>1, <3>2, <3>4, <3>5, <3>10, <3>11
  <2> HIDE DEF S
  <2>3. q \in Nat
    BY <1>3
  <2> QED BY <2>1, <2>2, <2>3, CountTo
<1>9. 0 \in 0 .. q /\ q \in 0 .. q /\ q \in S /\ 0 \in S
  BY <1>3, <1>8
<1>10. 4 * i + 4 < c => q = 4
  BY <1>2 DEF GroupHas
<1>11. d = sum[q] /\ d \in Nat
  BY <1>3, <1>7
<1>12. /\ e(q) \in Nat /\ e(0) \in Nat /\ e(0) <= e(q) /\ e(q) - e(0) <= d
       /\ e(q) - e(0) <= q * D /\ d <= q * (G - 1)
       /\ 4 * i + q < c => d = q * D
  <2> HIDE DEF e
  <2> QED BY <1>9, <1>11
<1> HIDE DEF e, S
<1> QED BY <1>4, <1>6, <1>10, <1>11, <1>12 DEF DegreeHas

-----------------------------------------------------------------------------
(* The room of group i, which lies in out and holds the product.           *)
RoomHas(room, lam, g, i, q) ==
    /\ room \in Nat /\ room <= 4 * TwoTo(g) /\ TwoTo(g) <= room /\ q * (TwoTo(g) - 1) < room
    /\ \E j \in 0 .. lam : room = TwoTo(j)
    /\ i * (4 * TwoTo(g)) + room <= TwoTo(lam)
    /\ i * (4 * TwoTo(g)) + room = LesserOf((i + 1) * (4 * TwoTo(g)), TwoTo(lam))

(* The first leaf tells how large the groups are.                          *)
LEMMA GroupSizeIs ==
    ASSUME NEW tree, NEW lam \in Nat, NEW g, NEW D, NEW c, NEW r, NEW M \in Nat,
           GoodTree(tree, lam, g, D, c, r, M), c >= 2
    PROVE  GroupSize(tree) = 4 * TwoTo(g)
<1>1. /\ g \in Nat /\ D \in Nat /\ D < TwoTo(g) /\ TwoTo(g) <= 2 * D /\ c \in Nat
      /\ \A k \in 1 .. c : GoodLeaf(tree, k, lam, g, D, c, r, M)
  BY DEF GoodTree
<1>2. 1 \in 1 .. c /\ 1 < c
  BY <1>1
<1>3. tree.leaves[1].length = D + 1
  <2>1. GoodLeaf(tree, 1, lam, g, D, c, r, M)
    BY <1>1, <1>2
  <2> QED BY <1>2, <2>1 DEF GoodLeaf
<1>4. PICK v \in Nat \ {0} : v = D + 1
  BY <1>1
<1>5. v <= TwoTo(g) /\ TwoTo(g) < 2 * v
  BY <1>1, <1>4, TwoToType
<1>6. nextPowOf2(v) = TwoTo(g)
  BY <1>1, <1>5, NextPowerIs
<1> QED BY <1>3, <1>4, <1>6 DEF GroupSize

(* There is as much room as is needed.                                     *)
LEMMA TreeRoomIs ==
    ASSUME NEW tree, NEW lam \in Nat, NEW g, NEW D, NEW c, NEW r, NEW M \in Nat,
           GoodTree(tree, lam, g, D, c, r, M), c >= 2, NEW i \in Nat, 4 * i < c,
           NEW q, q = LesserOf(4, c - 4 * i), NEW room, room = RoomOf(tree, i)
    PROVE  RoomHas(room, lam, g, i, q)
<1>1. /\ g \in Nat /\ c \in Nat /\ tree.out \in [0 .. TwoTo(lam) - 1 -> Fr]
      /\ \A k \in 1 .. c : GoodLeaf(tree, k, lam, g, D, c, r, M)
  BY DEF GoodTree
<1>2. TwoTo(g) \in Nat /\ TwoTo(g) > 0 /\ TwoTo(lam) \in Nat
  BY <1>1, TwoToType
<1>3. Length(tree.out) = TwoTo(lam)
  <2>1. DOMAIN tree.out = 0 .. TwoTo(lam) - 1
    BY <1>1
  <2> QED BY <1>2, <2>1, LengthIs
<1>4. PICK last \in Nat : last = tree.leaves[c].length
                          /\ last >= 1 /\ (c - 1) * TwoTo(g) + last <= TwoTo(lam)
  <2>1. c \in 1 .. c
    BY <1>1
  <2>2. GoodLeaf(tree, c, lam, g, D, c, r, M)
    BY <1>1, <2>1
  <2> QED BY <1>2, <2>2 DEF GoodLeaf
<1>5. PICK width : width = 4 * TwoTo(g)
  OBVIOUS
<1>6. room = LesserOf((i + 1) * width, TwoTo(lam)) - i * width
  BY <1>3, <1>5, GroupSizeIs DEF RoomOf
<1>7. PICK m \in Nat : m = c
  BY <1>1
<1>8. m >= 2 /\ 4 * i < m /\ (m - 1) * TwoTo(g) + last <= TwoTo(lam)
  BY <1>4, <1>7
<1>12. Within(room, width, last, lam, g, m, i)
  BY <1>1, <1>4, <1>5, <1>6, <1>8, RoomIs
<1>9. /\ width = TwoTo(g + 2) /\ width \in Nat /\ room \in Nat
      /\ \E j \in 0 .. lam : room = TwoTo(j)
      /\ room <= width /\ i * width + room <= TwoTo(lam)
      /\ i * width + room = LesserOf((i + 1) * width, TwoTo(lam))
      /\ room = width \/ (m = 2 /\ i = 0 /\ room = 2 * TwoTo(g))
  BY <1>12 DEF Within
<1>10. q \in 1 .. 4 /\ (m = 2 /\ i = 0 => q = 2)
  BY <1>7, <1>8 DEF LesserOf
<1>11. TwoTo(g) <= room /\ q * (TwoTo(g) - 1) < room
  <2>1. PICK G \in Nat : G = TwoTo(g) /\ G > 0
    BY <1>2
  <2>2. CASE room = width
    <3>1. q = 1 \/ q = 2 \/ q = 3 \/ q = 4
      BY <1>10
    <3> QED BY <1>5, <2>1, <2>2, <3>1
  <2>3. CASE room # width
    <3>1. q = 2 /\ room = 2 * TwoTo(g)
      BY <1>9, <1>10, <2>3
    <3> QED BY <2>1, <3>1
  <2> QED BY <2>2, <2>3
<1> QED BY <1>5, <1>9, <1>11 DEF RoomHas

(* Transforms of any width up to TwoTo(lam) are there.                     *)
CanTransform(fs, lam) ==
    /\ fs.MaxWidth \in Nat /\ TwoTo(lam) <= fs.MaxWidth
    /\ \A k \in 0 .. lam : \E y : HasTransforms(fs, y, k)

(* What a group becomes: the polynomial W that is zero at its roots, of    *)
(* length at most len.                                                     *)
BlockHas(W, len, room, D, r, M, i) ==
    LET a == RootsTo(i, 4 * D, M)
        b == RootsTo(i + 1, 4 * D, M)
    IN  /\ W \in [0 .. room - 1 -> Fr] /\ len \in 1 .. room
        /\ a \in Nat /\ b \in Nat /\ a <= b /\ b - a < len
        /\ Vanishes(W, room, b - a, Among(r, a, b))
        /\ \A k \in 0 .. room - 1 : k >= len => W[k] = 0

(* The product of the leaves of a group, if there are several.             *)
LEMMA ProductIs ==
    ASSUME NEW tree, NEW lam \in Nat, NEW g, NEW D, NEW c, NEW r, NEW M \in Nat,
           GoodTree(tree, lam, g, D, c, r, M), c >= 2, NEW i \in Nat, 4 * i < c,
           NEW q, q = LesserOf(4, c - 4 * i), NEW room, RoomHas(room, lam, g, i, q),
           NEW fs, CanTransform(fs, lam)
    PROVE  /\ ~reduceLeavesPanics(fs, room, PolysOf(tree, i))
           /\ BlockHas(reduceLeaves(fs, room, PolysOf(tree, i)), outDegree(PolysOf(tree, i)) + 1,
                       room, D, r, M, i)
<1>1. /\ g \in Nat /\ D \in Nat /\ c \in Nat \ {0} /\ (c - 1) * D < M /\ M <= c * D
      /\ D < TwoTo(g)
  BY DEF GoodTree
<1>2. PICK G \in Nat : G = TwoTo(g)
  BY <1>1, TwoToType
<1>3. PICK k \in 0 .. lam : room = TwoTo(k)
  BY DEF RoomHas
<1>4. PICK y : HasTransforms(fs, y, k)
  BY DEF CanTransform
<1>5. room \in Nat /\ G <= room /\ q * (G - 1) < room
  BY <1>2 DEF RoomHas
<1>6. GroupHas(tree, c, i, q)
  BY TreeGroupIs
<1>7. q \in 1 .. 4 /\ 4 * i + q <= c /\ (q = 4 \/ 4 * i + q = c)
  BY <1>6 DEF GroupHas
<1>8. PICK d, a, b : /\ d = outDegree(PolysOf(tree, i)) /\ a = RootsTo(4 * i, D, M)
                     /\ b = RootsTo(4 * i + q, D, M)
  OBVIOUS
<1>21. DegreeHas(d, a, b, g, D, c, i, q)
  BY <1>8, GroupDegreeIs
<1>9. /\ d \in Nat /\ a \in Nat /\ b \in Nat /\ a <= b
      /\ b - a <= d /\ b - a <= q * D /\ d <= q * (TwoTo(g) - 1)
      /\ 4 * i + 4 < c => d = 4 * D
  BY <1>21 DEF DegreeHas
<1>10. d < room /\ b - a < room
  BY <1>2, <1>5, <1>7, <1>9
<1> DEFINE E == [j \in 0 .. q |-> RootsTo(4 * i + j, D, M)]
<1>11. E[0] = a /\ E[q] = b
  BY <1>7, <1>8
<1>12. AreLeaves(PolysOf(tree, i), q, E, r, room)
  <2>1. E[q] - E[0] < room /\ TwoTo(g) <= room
    BY <1>2, <1>5, <1>10, <1>11
  <2>2. PICK e : e = E
    OBVIOUS
  <2>3. e[q] - e[0] < room
    BY <2>1, <2>2
  <2>4. AreLeaves(PolysOf(tree, i), q, e, r, room)
    BY <1>5, <2>1, <2>2, <2>3, GroupIsLeaves
  <2> QED BY <2>2, <2>4
<1> HIDE DEF E
<1>13. PICK W : W = reduceLeaves(fs, room, PolysOf(tree, i))
  OBVIOUS
<1>14. Vanishes(W, room, b - a, Among(r, a, b))
  <2>1. q \in Nat
    BY <1>7
  <2>2. AreLeaves(PolysOf(tree, i), q, E, r, TwoTo(k))
    BY <1>3, <1>12
  <2>3. Vanishes(reduceLeaves(fs, TwoTo(k), PolysOf(tree, i)), TwoTo(k), E[q] - E[0],
                 Among(r, E[0], E[q]))
    BY <1>4, <2>1, <2>2, ReduceLeavesIs
  <2> QED BY <1>3, <1>11, <1>13, <2>3
<1>15. a = RootsTo(i, 4 * D, M) /\ b = RootsTo(i + 1, 4 * D, M)
  <2>1. GroupRoots(i, q, D, M)
    BY <1>1, <1>7, RootsOfGroup
  <2> QED BY <1>8, <2>1 DEF GroupRoots
<1>16. ~reduceLeavesPanics(fs, room, PolysOf(tree, i))
  <2>1. TwoTo(k) <= TwoTo(lam) /\ TwoTo(k) \in Nat /\ TwoTo(lam) \in Nat
    BY TwoToOrder, TwoToType
  <2>2. fs.MaxWidth \in Nat /\ TwoTo(lam) <= fs.MaxWidth
    BY DEF CanTransform
  <2>3. ~(room > fs.MaxWidth)
    BY <1>3, <2>1, <2>2
  <2>4. IsPowerOfTwo(room)
    <3>1. k \in Nat
      OBVIOUS
    <3> QED BY <1>3, <3>1, PowerOfTwo
  <2>5. ~(d + 1 > room)
    BY <1>5, <1>9, <1>10
  <2> QED BY <1>8, <2>3, <2>4, <2>5 DEF reduceLeavesPanics, InplaceFFTFails
<1>17. W \in [0 .. room - 1 -> Fr] /\ \A j \in 0 .. room - 1 : j > b - a => W[j] = 0
  BY <1>14 DEF Vanishes, UpTo
<1>18. \A j \in 0 .. room - 1 : j >= d + 1 => W[j] = 0
  BY <1>9, <1>17
<1>19. d + 1 \in 1 .. room /\ b - a < d + 1
  BY <1>5, <1>9, <1>10
<1>20. BlockHas(W, d + 1, room, D, r, M, i)
  BY <1>9, <1>14, <1>15, <1>17, <1>18, <1>19 DEF BlockHas
<1> QED BY <1>8, <1>13, <1>16, <1>20

(* A leaf that is alone in its group stays as it is.                       *)
LEMMA AloneIs ==
    ASSUME NEW tree, NEW lam \in Nat, NEW g, NEW D, NEW c, NEW r, NEW M \in Nat,
           GoodTree(tree, lam, g, D, c, r, M), c >= 2, NEW i \in Nat, 4 * i + 1 = c,
           NEW room, RoomHas(room, lam, g, i, 1), NEW o, o = i * (4 * TwoTo(g)),
           NEW W, W = SubSlice(tree.out, o, o + room)
    PROVE  BlockHas(W, room, room, D, r, M, i)
<1>1. /\ g \in Nat /\ D \in Nat /\ c \in Nat \ {0} /\ (c - 1) * D < M /\ M <= c * D
      /\ tree.out \in [0 .. TwoTo(lam) - 1 -> Fr]
      /\ \A k \in 1 .. c : GoodLeaf(tree, k, lam, g, D, c, r, M)
      /\ \A p \in 0 .. TwoTo(lam) - 1 :
             p >= (c - 1) * TwoTo(g) + tree.leaves[c].length => tree.out[p] = 0
  BY DEF GoodTree
<1>2. PICK G \in Nat, n \in Nat : G = TwoTo(g) /\ G > 0 /\ n = TwoTo(lam)
  BY <1>1, TwoToType
<1>3. room \in Nat /\ G <= room /\ i * (4 * G) + room <= n
  BY <1>2 DEF RoomHas
<1>4. o \in Nat /\ o = (c - 1) * G /\ o + room <= n
  <2>1. i * (4 * G) = (4 * i) * G /\ i * (4 * G) \in Nat /\ c - 1 = 4 * i
    BY <1>2
  <2> QED BY <1>2, <1>3, <2>1
<1>5. c \in 1 .. c /\ GoodLeaf(tree, c, lam, g, D, c, r, M)
  BY <1>1
<1>6. PICK p, a, b : /\ p = LeafOf(tree, tree.leaves[c]) /\ a = RootsTo(c - 1, D, M)
                     /\ b = RootsTo(c, D, M)
  OBVIOUS
<1>7. PICK l \in 1 .. G : l = tree.leaves[c].length
  BY <1>2, <1>5 DEF GoodLeaf
<1>8. b - a < l /\ Vanishes(p, l, b - a, Among(r, a, b))
  BY <1>5, <1>6, <1>7 DEF GoodLeaf
<1>9. p \in [0 .. l - 1 -> Fr] /\ \A k \in 0 .. l - 1 : p[k] = tree.out[o + k]
  <2>1. /\ LeafOf(tree, tree.leaves[c]) \in [0 .. tree.leaves[c].length - 1 -> Fr]
        /\ \A k \in 0 .. tree.leaves[c].length - 1 :
               LeafOf(tree, tree.leaves[c])[k] = tree.out[(c - 1) * TwoTo(g) + k]
    <3>1. LeafLies(tree, c, g)
      BY <1>5, GoodLeafIs
    <3> QED BY <3>1 DEF LeafLies
  <2> QED BY <1>2, <1>4, <1>6, <1>7, <2>1
<1>10. W = [k \in 0 .. room - 1 |-> tree.out[o + k]]
  <2>1. (o + room) - o - 1 = room - 1
    BY <1>3, <1>4
  <2> QED BY <2>1, SliceIs DEF SubSlice
<1>11. \A k \in 0 .. room - 1 : o + k \in 0 .. n - 1
  BY <1>3, <1>4
<1>12. W \in [0 .. room - 1 -> Fr]
  BY <1>1, <1>2, <1>10, <1>11
<1>13. \A k \in 0 .. l - 1 : p[k] \in Fr /\ W[k] = p[k]
  <2>1. ASSUME NEW k \in 0 .. l - 1
        PROVE  p[k] \in Fr /\ W[k] = p[k]
    <3>1. k \in 0 .. room - 1
      BY <1>3
    <3>2. W[k] = tree.out[o + k]
      BY <1>10, <3>1
    <3> QED BY <1>9, <3>2
  <2> QED BY <2>1
<1>14. \A k \in l .. room - 1 : W[k] = 0
  <2>1. ASSUME NEW k \in l .. room - 1
        PROVE  W[k] = 0
    <3>1. k \in 0 .. room - 1 /\ o + k \in 0 .. n - 1 /\ o + k >= (c - 1) * G + l
      BY <1>3, <1>4, <1>11
    <3>2. tree.out[o + k] = 0
      BY <1>1, <1>2, <1>7, <3>1
    <3> QED BY <1>10, <3>1, <3>2
  <2> QED BY <2>1
<1>15. a \in Nat /\ b \in Nat /\ a <= b /\ a = RootsTo(i, 4 * D, M) /\ b = RootsTo(i + 1, 4 * D, M)
  <2>1. c - 1 \in 0 .. c /\ c \in 0 .. c /\ c - 1 = 4 * i /\ c = 4 * i + 1
    BY <1>1
  <2>2. a \in Nat
    BY <1>1, <1>6, <2>1, RootsToIs
  <2>3. b \in Nat
    BY <1>1, <1>6, <2>1, RootsToIs
  <2>4. a <= b
    <3>1. c - 1 \in Nat /\ c \in Nat /\ c - 1 <= c
      BY <1>1
    <3> QED BY <1>1, <1>6, <3>1, RootsToGrows
  <2>5. PICK q \in 1 .. 4 : q = 1
    OBVIOUS
  <2>6. 4 * i + q <= c /\ 4 * i + q = c /\ 4 * i < c
    BY <2>1, <2>5
  <2>7. RootsTo(4 * i, D, M) = RootsTo(i, 4 * D, M)
        /\ RootsTo(4 * i + q, D, M) = RootsTo(i + 1, 4 * D, M)
    <3>1. GroupRoots(i, q, D, M)
      BY <1>1, <2>6, RootsOfGroup
    <3> QED BY <3>1 DEF GroupRoots
  <2> QED BY <1>6, <2>1, <2>2, <2>3, <2>4, <2>6, <2>7
<1>16. Vanishes(W, room, b - a, Among(r, a, b))
  <2>1. PICK e \in Nat, T \in {Among(r, a, b)} : e = b - a /\ T = Among(r, a, b)
    BY <1>15
  <2>2. l \in Nat /\ l <= room /\ Vanishes(p, l, e, T)
    BY <1>3, <1>8, <2>1
  <2>3. Vanishes(W, room, e, T)
    BY <1>3, <1>12, <1>13, <1>14, <2>2, PaddedVanishes
  <2> QED BY <2>1, <2>3
<1>17. b - a < room /\ room \in 1 .. room
  BY <1>2, <1>3, <1>8, <1>15
<1> QED BY <1>3, <1>12, <1>15, <1>16, <1>17 DEF BlockHas

-----------------------------------------------------------------------------
(* One round of reduceTree.                                                *)

(* What is written for group i, alone or not.                              *)
LEMMA BlockIs ==
    ASSUME NEW tree, NEW lam \in Nat, NEW g, NEW D, NEW c, NEW r, NEW M \in Nat,
           GoodTree(tree, lam, g, D, c, r, M), c >= 2, NEW fs, CanTransform(fs, lam),
           NEW i \in Nat, 4 * i < c, NEW room, room = RoomOf(tree, i)
    PROVE  /\ BlockHas(WrittenAt(fs, tree, i), NewLength(tree, i), room, D, r, M, i)
           /\ IsAlone(tree, i) \/ ~reduceLeavesPanics(fs, room, PolysOf(tree, i))
           /\ 4 * i + 4 < c => NewLength(tree, i) = 4 * D + 1
<1>1. PICK q : q = LesserOf(4, c - 4 * i)
  OBVIOUS
<1>2. GroupHas(tree, c, i, q)
  BY <1>1, TreeGroupIs
<1>3. RoomHas(room, lam, g, i, q)
  BY <1>1, TreeRoomIs
<1>4. GroupSize(tree) = 4 * TwoTo(g)
  BY GroupSizeIs
<1>5. c \in Nat
  BY DEF GoodTree
<1>6. CASE IsAlone(tree, i)
  <2>1. q = 1
    BY <1>2, <1>6 DEF GroupHas
  <2>2. 4 * i + 1 = c
    BY <1>2, <1>5, <2>1 DEF GroupHas
  <2>3. PICK o : o = i * (4 * TwoTo(g))
    OBVIOUS
  <2>4. WrittenAt(fs, tree, i) = SubSlice(tree.out, o, o + room)
    BY <1>4, <1>6, <2>3 DEF WrittenAt
  <2>5. NewLength(tree, i) = room
    BY <1>6 DEF NewLength
  <2>6. PICK W : W = SubSlice(tree.out, o, o + room)
    OBVIOUS
  <2>7. RoomHas(room, lam, g, i, 1)
    BY <1>3, <2>1
  <2>8. BlockHas(W, room, room, D, r, M, i)
    BY <2>2, <2>3, <2>6, <2>7, AloneIs
  <2>9. ~(4 * i + 4 < c)
    BY <1>5, <2>2
  <2> QED BY <1>6, <2>4, <2>5, <2>6, <2>8, <2>9
<1>7. CASE ~IsAlone(tree, i)
  <2>1. PICK d : d = outDegree(PolysOf(tree, i))
    OBVIOUS
  <2>2. WrittenAt(fs, tree, i) = reduceLeaves(fs, room, PolysOf(tree, i))
        /\ NewLength(tree, i) = d + 1
    BY <1>7, <2>1 DEF WrittenAt, NewLength
  <2>3. /\ ~reduceLeavesPanics(fs, room, PolysOf(tree, i))
        /\ BlockHas(reduceLeaves(fs, room, PolysOf(tree, i)), outDegree(PolysOf(tree, i)) + 1,
                    room, D, r, M, i)
    BY <1>1, <1>3, ProductIs
  <2>4. 4 * i + 4 < c => d = 4 * D
    <3>1. PICK a, b : a = RootsTo(4 * i, D, M) /\ b = RootsTo(4 * i + q, D, M)
      OBVIOUS
    <3>2. DegreeHas(d, a, b, g, D, c, i, q)
      BY <1>1, <2>1, <3>1, GroupDegreeIs
    <3> QED BY <3>2 DEF DegreeHas
  <2> QED BY <2>1, <2>2, <2>3, <2>4
<1> QED BY <1>6, <1>7

(* No round panics.                                                        *)
LEMMA RoundIs ==
    ASSUME NEW tree, NEW lam \in Nat, NEW g, NEW D, NEW c, NEW r, NEW M \in Nat,
           GoodTree(tree, lam, g, D, c, r, M), c >= 2, NEW fs, CanTransform(fs, lam)
    PROVE  TreeRound(fs, tree) = TreeReduced(fs, tree) /\ Len(tree.leaves) = c
           /\ GroupCount(tree) = (c + 3) \div 4
<1>1. c \in Nat \ {0} /\ 4 * 0 < c
  BY DEF GoodTree
<1>2. Len(tree.leaves) = c
  <2>1. PICK q : q = LesserOf(4, c - 4 * 0)
    OBVIOUS
  <2>2. GroupHas(tree, c, 0, q)
    BY <1>1, <2>1, TreeGroupIs
  <2> QED BY <2>2 DEF GroupHas
<1>3. GroupCount(tree) = (c + 3) \div 4
  BY <1>2 DEF GroupCount
<1>4. ASSUME NEW i \in 0 .. GroupCount(tree) - 1
      PROVE  IsAlone(tree, i) \/ ~reduceLeavesPanics(fs, RoomOf(tree, i), PolysOf(tree, i))
  <2>1. PICK m : m = GroupCount(tree)
    OBVIOUS
  <2>2. m \in Nat /\ \A j \in Nat : j \in 0 .. m - 1 <=> 4 * j < c
    BY <1>1, <1>3, <2>1, GroupCountIs DEF CountHas
  <2>3. i \in Nat /\ 4 * i < c
    BY <2>1, <2>2
  <2>4. PICK room : room = RoomOf(tree, i)
    OBVIOUS
  <2>5. /\ BlockHas(WrittenAt(fs, tree, i), NewLength(tree, i), room, D, r, M, i)
        /\ IsAlone(tree, i) \/ ~reduceLeavesPanics(fs, room, PolysOf(tree, i))
    BY <2>3, <2>4, BlockIs
  <2> QED BY <2>4, <2>5
<1>5. ~TreePanics(fs, tree)
  BY <1>4 DEF TreePanics
<1>6. ~(Len(tree.leaves) <= 1)
  BY <1>1, <1>2
<1> QED BY <1>2, <1>3, <1>5, <1>6 DEF TreeRound

-----------------------------------------------------------------------------
(* Element k of block i, when blocks are width wide.                       *)
PlacedAt(p, i, k, width) ==
    /\ i \in Nat /\ k \in Nat /\ width \in Nat \ {0} /\ k < width
    /\ i * width \in Nat /\ p = i * width + k

(* A number is the place of an element of a block.                         *)
LEMMA PlaceIs ==
    ASSUME NEW width \in Nat \ {0}, NEW p \in Nat
    PROVE  \E i, k : PlacedAt(p, i, k, width)
<1>1. p \div width \in Nat /\ p % width \in Nat /\ p % width < width
      /\ p = (p \div width) * width + (p % width) /\ (p \div width) * width \in Nat
  <2>1. p \div width \in Nat /\ p % width \in Nat /\ p % width < width
        /\ p = (p \div width) * width + (p % width)
    OBVIOUS
  <2> QED BY <2>1, ProductGrows
<1>2. PlacedAt(p, p \div width, p % width, width)
  BY <1>1 DEF PlacedAt
<1> QED BY <1>2

(* Element k of block i of the new out.                                    *)
LEMMA ReducedOutAt ==
    ASSUME NEW tree, NEW fs, NEW n \in Nat, DOMAIN tree.out = 0 .. n - 1,
           NEW i, NEW k, NEW p, PlacedAt(p, i, k, GroupSize(tree)), p < n, GroupCount(tree) \in Nat
    PROVE  TreeReduced(fs, tree).out[p] =
               IF i < GroupCount(tree) THEN WrittenAt(fs, tree, i)[k] ELSE tree.out[p]
<1>5. PICK width : width = GroupSize(tree) /\ PlacedAt(p, i, k, width)
  OBVIOUS
<1>6. PICK m \in Nat : m = GroupCount(tree)
  OBVIOUS
<1>0. /\ width = GroupSize(tree) /\ m = GroupCount(tree) /\ PlacedAt(p, i, k, width)
  BY <1>5, <1>6
<1>1. p \in 0 .. n - 1
  BY <1>0 DEF PlacedAt
<1>2. p \div width = i /\ p - i * width = k
  <2>1. i * width = width * i /\ i * width \in Nat /\ k \in 0 .. width - 1 /\ i \in Int
        /\ width \in Nat \ {0} /\ p = i * width + k
    BY <1>0 DEF PlacedAt
  <2>2. (width * i + k) \div width = i
    BY <2>1, QuotientIs
  <2> QED BY <2>1, <2>2
<1>3. TreeReduced(fs, tree).out[p] =
          IF p \div width < m THEN Written(fs, tree)[p \div width][p - (p \div width) * width]
          ELSE tree.out[p]
  BY <1>0, <1>1, SliceIs DEF TreeReduced
<1>4. i < m => Written(fs, tree)[i] = WrittenAt(fs, tree, i)
  <2>1. i \in Nat
    BY <1>0 DEF PlacedAt
  <2>2. i < m => i \in 0 .. m - 1
    BY <2>1
  <2> QED BY <1>0, <2>2, SliceIs DEF Written
<1> QED BY <1>0, <1>2, <1>3, <1>4

(* Element p of the new out, which is element k of block i.                *)
OutHas(fs, tree, p, i, k, m) ==
    /\ TreeReduced(fs, tree).out[p] \in Fr
    /\ i < m => TreeReduced(fs, tree).out[p] = WrittenAt(fs, tree, i)[k]
    /\ i < m /\ k >= NewLength(tree, i) => TreeReduced(fs, tree).out[p] = 0
    /\ i >= m => TreeReduced(fs, tree).out[p] = 0

(* The new out is one, and past the last block as it was.                  *)
LEMMA ReducedOutIs ==
    ASSUME NEW tree, NEW lam \in Nat, NEW g, NEW D, NEW c, NEW r, NEW M \in Nat,
           GoodTree(tree, lam, g, D, c, r, M), c >= 2, NEW fs, CanTransform(fs, lam),
           NEW m, m = (c + 3) \div 4, NEW width, width = 4 * TwoTo(g),
           NEW i, NEW k, NEW p, PlacedAt(p, i, k, width), p < TwoTo(lam)
    PROVE  OutHas(fs, tree, p, i, k, m)
<1>1. /\ g \in Nat /\ c \in Nat \ {0} /\ tree.out \in [0 .. TwoTo(lam) - 1 -> Fr]
      /\ \A j \in 1 .. c : GoodLeaf(tree, j, lam, g, D, c, r, M)
      /\ \A j \in 0 .. TwoTo(lam) - 1 :
             j >= (c - 1) * TwoTo(g) + tree.leaves[c].length => tree.out[j] = 0
  BY DEF GoodTree
<1>2. PICK n \in Nat, G \in Nat : n = TwoTo(lam) /\ G = TwoTo(g) /\ G > 0
  BY <1>1, TwoToType
<1>3. width \in Nat \ {0} /\ width = GroupSize(tree)
  BY <1>2, GroupSizeIs
<1>4. i \in Nat /\ k \in Nat /\ k < width /\ i * width \in Nat /\ p = i * width + k
  BY DEF PlacedAt
<1>5. m \in Nat /\ m = GroupCount(tree) /\ c <= 4 * m /\ \A j \in Nat : j \in 0 .. m - 1 <=> 4 * j < c
  <2>1. GroupCount(tree) = (c + 3) \div 4
    BY RoundIs
  <2> QED BY <1>1, <2>1, GroupCountIs DEF CountHas
<1>6. DOMAIN tree.out = 0 .. n - 1 /\ p < n /\ p \in 0 .. n - 1
  BY <1>1, <1>2, <1>4
<1>7. TreeReduced(fs, tree).out[p] = IF i < m THEN WrittenAt(fs, tree, i)[k] ELSE tree.out[p]
  <2>1. PlacedAt(p, i, k, GroupSize(tree)) /\ GroupCount(tree) \in Nat
    BY <1>3, <1>5
  <2>2. TreeReduced(fs, tree).out[p] =
            IF i < GroupCount(tree) THEN WrittenAt(fs, tree, i)[k] ELSE tree.out[p]
    BY <1>6, <2>1, ReducedOutAt
  <2> QED BY <1>5, <2>2
<1>8. CASE i < m
  <2>1. 4 * i < c
    BY <1>4, <1>5, <1>8
  <2>2. PICK room : room = RoomOf(tree, i)
    OBVIOUS
  <2>3. PICK W, len : W = WrittenAt(fs, tree, i) /\ len = NewLength(tree, i)
    OBVIOUS
  <2>4. BlockHas(W, len, room, D, r, M, i)
    BY <1>4, <2>1, <2>2, <2>3, BlockIs
  <2>5. PICK q : q = LesserOf(4, c - 4 * i)
    OBVIOUS
  <2>6. RoomHas(room, lam, g, i, q)
    BY <1>4, <2>1, <2>2, <2>5, TreeRoomIs
  <2>7. room \in Nat /\ i * width + room = LesserOf((i + 1) * width, n)
    BY <1>2, <2>6 DEF RoomHas
  <2>8. k < room
    <3>1. (i + 1) * width = i * width + width
      BY <1>3, <1>4, ProductGrows
    <3>2. PICK o \in Nat, l \in {LesserOf(i * width + width, n)} : o = i * width /\ l = LesserOf(o + width, n)
      BY <1>4
    <3>3. o + k < l
      <4>1. k \in Nat /\ k < width /\ o + k < n /\ width \in Nat
        BY <1>3, <1>4, <1>6, <3>2
      <4>2. l = o + width \/ l = n
        BY <3>2 DEF LesserOf
      <4> QED BY <4>1, <4>2
    <3>4. o + room = l
      BY <2>7, <3>1, <3>2
    <3> QED BY <1>4, <2>7, <3>3, <3>4
  <2>9. k \in 0 .. room - 1
    BY <1>4, <2>7, <2>8
  <2>10. W[k] \in Fr /\ (k >= len => W[k] = 0)
    BY <2>4, <2>9 DEF BlockHas
  <2>11. TreeReduced(fs, tree).out[p] = W[k] /\ ~(i >= m)
    BY <1>4, <1>5, <1>7, <1>8, <2>3
  <2> QED BY <2>3, <2>10, <2>11 DEF OutHas
<1>9. CASE ~(i < m)
  <2>1. i >= m
    BY <1>4, <1>5, <1>9
  <2>2. PICK l \in 1 .. G : l = tree.leaves[c].length
    <3>1. c \in 1 .. c
      BY <1>1
    <3> QED BY <1>1, <1>2, <3>1 DEF GoodLeaf
  <2>3. i * width >= (c - 1) * G + l
    <3>1. c <= 4 * i /\ 4 * i \in Nat /\ c \in Nat
      BY <1>1, <1>4, <1>5, <2>1
    <3>2. c * G <= (4 * i) * G /\ c * G \in Nat
      BY <1>2, <3>1, ProductGrows
    <3>7. width = 4 * G /\ c - 1 \in Nat /\ (c - 1) + 1 = c
      BY <1>1, <1>2
    <3>8. \A x, y \in Nat : (4 * x) * y = x * (4 * y)
      OBVIOUS
    <3>3. c * G = (c - 1) * G + G /\ (4 * i) * G = i * width
      BY <1>2, <1>4, <3>7, <3>8, ProductGrows
    <3>4. (c - 1) * G \in Nat /\ (4 * i) * G \in Nat
      BY <1>2, <3>1, <3>7, ProductGrows
    <3>5. PICK x \in Nat, y \in Nat : x = (c - 1) * G /\ y = (4 * i) * G
      BY <3>4
    <3>6. x + G <= y /\ i * width = y
      BY <3>2, <3>3, <3>5
    <3> QED BY <1>2, <3>5, <3>6
  <2>4. p >= (c - 1) * G + l
    <3>1. c - 1 \in Nat
      BY <1>1
    <3>2. (c - 1) * G \in Nat
      BY <1>2, <3>1, ProductGrows
    <3>3. PICK x \in Nat, y \in Nat : x = (c - 1) * G /\ y = i * width
      BY <1>4, <3>2
    <3>4. y >= x + l /\ p = y + k
      BY <1>4, <2>3, <3>3
    <3> QED BY <1>4, <3>3, <3>4
  <2>5. tree.out[p] = 0
    BY <1>1, <1>2, <1>6, <2>2, <2>4
  <2>6. 0 \in Fr
    BY ModulusFacts
  <2> QED BY <1>7, <1>9, <2>5, <2>6 DEF OutHas
<1> QED BY <1>8, <1>9

-----------------------------------------------------------------------------
(* What a round leaves.                                                    *)

(* The new out as a slice.                                                 *)
LEMMA ReducedOutType ==
    ASSUME NEW tree, NEW lam \in Nat, NEW g, NEW D, NEW c, NEW r, NEW M \in Nat,
           GoodTree(tree, lam, g, D, c, r, M), c >= 2, NEW fs, CanTransform(fs, lam)
    PROVE  TreeReduced(fs, tree).out \in [0 .. TwoTo(lam) - 1 -> Fr]
<1>1. g \in Nat /\ tree.out \in [0 .. TwoTo(lam) - 1 -> Fr]
  BY DEF GoodTree
<1>2. PICK n \in Nat : n = TwoTo(lam)
  BY TwoToType
<1>3. PICK width \in Nat \ {0} : width = 4 * TwoTo(g)
  BY <1>1, TwoToType
<1>4. PICK m : m = (c + 3) \div 4
  OBVIOUS
<1>5. PICK out : out = TreeReduced(fs, tree).out
  OBVIOUS
<1>6. ASSUME NEW p \in 0 .. n - 1
      PROVE  out[p] \in Fr
  <2>1. p \in Nat /\ p < TwoTo(lam)
    BY <1>2
  <2>2. PICK i, k : PlacedAt(p, i, k, width)
    BY <2>1, PlaceIs
  <2>3. TreeReduced(fs, tree).out[p] \in Fr
    BY <1>3, <1>4, <2>1, <2>2, ReducedOutIs DEF OutHas
  <2> QED BY <1>5, <2>3
<1>7. DOMAIN tree.out = 0 .. n - 1
  BY <1>1, <1>2
<1>8. \E f : out = [p \in 0 .. n - 1 |-> f[p]]
  <2> DEFINE f == [p \in DOMAIN tree.out |->
                       IF p \div GroupSize(tree) < GroupCount(tree)
                       THEN Written(fs, tree)[p \div GroupSize(tree)]
                                [p - (p \div GroupSize(tree)) * GroupSize(tree)]
                       ELSE tree.out[p]]
  <2>1. out = f
    BY <1>5, SliceIs DEF TreeReduced
  <2>2. f = [p \in 0 .. n - 1 |-> f[p]]
    BY <1>7
  <2> HIDE DEF f
  <2> QED BY <2>1, <2>2
<1>9. out \in [0 .. n - 1 -> Fr]
  BY <1>6, <1>8
<1> QED BY <1>2, <1>5, <1>9

(* What the new leaves are given.                                          *)
LEMMA ReducedLeavesAre ==
    ASSUME NEW tree, NEW lam \in Nat, NEW g, NEW D, NEW c, NEW r, NEW M \in Nat,
           GoodTree(tree, lam, g, D, c, r, M), c >= 2, NEW fs, CanTransform(fs, lam),
           NEW m, m = (c + 3) \div 4, NEW width, width = 4 * TwoTo(g)
    PROVE  TreeReduced(fs, tree).leaves =
               [i \in 1 .. m |-> [offset |-> (i - 1) * width, length |-> NewLength(tree, i - 1)]]
<1>1. GroupCount(tree) = m
  BY RoundIs
<1>2. GroupSize(tree) = width
  BY GroupSizeIs
<1> QED BY <1>1, <1>2 DEF TreeReduced

(* Each new leaf is good.                                                  *)
LEMMA ReducedLeafIs ==
    ASSUME NEW tree, NEW lam \in Nat, NEW g, NEW D, NEW c, NEW r, NEW M \in Nat,
           GoodTree(tree, lam, g, D, c, r, M), c >= 2, NEW fs, CanTransform(fs, lam),
           NEW m, m = (c + 3) \div 4, NEW h \in Nat, h < m, NEW i, i = h + 1,
           NEW tree2, tree2 = TreeReduced(fs, tree)
    PROVE  /\ GoodLeaf(tree2, i, lam, g + 2, 4 * D, m, r, M)
           /\ tree2.leaves[i] \in [offset : Nat, length : Nat]
<1>1. g \in Nat /\ c \in Nat \ {0} /\ TwoTo(lam) \in Nat
  BY TwoToType DEF GoodTree
<1>2. PICK width \in Nat \ {0} : width = 4 * TwoTo(g) /\ width = TwoTo(g + 2)
  <2>1. TwoTo(g + 1) = 2 * TwoTo(g) /\ TwoTo((g + 1) + 1) = 2 * TwoTo(g + 1)
    BY <1>1, TwoToNext
  <2>2. (g + 1) + 1 = g + 2
    BY <1>1
  <2>3. TwoTo(g) \in Nat /\ TwoTo(g) > 0
    BY <1>1, TwoToType
  <2>4. PICK x \in Nat, y \in {TwoTo(g + 2)} : x = TwoTo(g) /\ y = TwoTo(g + 2) /\ y = 2 * (2 * x) /\ x > 0
    BY <2>1, <2>2, <2>3
  <2>5. 4 * x \in Nat \ {0} /\ y = 4 * x
    BY <2>4
  <2> QED BY <2>4, <2>5
<1>3. /\ m \in Nat /\ h \in 0 .. m - 1 /\ 4 * h < c
      /\ h + 1 < m => 4 * h + 4 < c
  <2>1. CountHas(m, c)
    BY <1>1, GroupCountIs
  <2> QED BY <2>1 DEF CountHas
<1>4. PICK room, q : room = RoomOf(tree, h) /\ q = LesserOf(4, c - 4 * h)
  OBVIOUS
<1>5. RoomHas(room, lam, g, h, q)
  BY <1>3, <1>4, TreeRoomIs
<1>6. PICK W, len : W = WrittenAt(fs, tree, h) /\ len = NewLength(tree, h)
  OBVIOUS
<1>7. BlockHas(W, len, room, D, r, M, h) /\ (h + 1 < m => len = 4 * D + 1)
  BY <1>3, <1>4, <1>6, BlockIs
<1>8. PICK a, b : a = RootsTo(h, 4 * D, M) /\ b = RootsTo(h + 1, 4 * D, M)
  OBVIOUS
<1>9. /\ W \in [0 .. room - 1 -> Fr] /\ len \in 1 .. room
      /\ a \in Nat /\ b \in Nat /\ a <= b /\ b - a < len
      /\ Vanishes(W, room, b - a, Among(r, a, b))
  BY <1>7, <1>8 DEF BlockHas
<1>10. PICK o \in Nat, n \in Nat : o = h * width /\ n = TwoTo(lam)
  BY <1>1, <1>2, ProductGrows
<1>11. room \in Nat /\ room <= width /\ o + room <= n
  BY <1>2, <1>5, <1>10 DEF RoomHas
<1>12. len \in Nat /\ len >= 1 /\ len <= room /\ o + len <= n
  BY <1>9, <1>11
<1>13. PICK leaf : leaf = tree2.leaves[i]
  OBVIOUS
<1>14. leaf = [offset |-> o, length |-> len]
  <2>1. i \in 1 .. m /\ i - 1 = h
    BY <1>3
  <2>2. tree2.leaves = [j \in 1 .. m |-> [offset |-> (j - 1) * width, length |-> NewLength(tree, j - 1)]]
    BY <1>2, ReducedLeavesAre
  <2>3. tree2.leaves[i] = [offset |-> (i - 1) * width, length |-> NewLength(tree, i - 1)]
    BY <2>1, <2>2
  <2> QED BY <1>6, <1>10, <1>13, <2>1, <2>3
<1>15. leaf.offset = o /\ leaf.length = len /\ leaf \in [offset : Nat, length : Nat]
  BY <1>12, <1>14
<1>16. PICK L : L = LeafOf(tree2, leaf)
  OBVIOUS
<1>17. L \in [0 .. len - 1 -> Fr] /\ \A k \in 0 .. len - 1 : L[k] = tree2.out[o + k]
  <2>1. tree2.out \in [0 .. n - 1 -> Fr]
    BY <1>10, ReducedOutType
  <2>2. leaf.offset \in Nat /\ leaf.length \in Nat /\ leaf.offset + leaf.length <= n
    BY <1>12, <1>15
  <2>3. /\ LeafOf(tree2, leaf) \in [0 .. leaf.length - 1 -> Fr]
        /\ Length(LeafOf(tree2, leaf)) = leaf.length
        /\ \A k \in 0 .. leaf.length - 1 : LeafOf(tree2, leaf)[k] = tree2.out[leaf.offset + k]
    <3>1. PartOf(tree2, leaf)
      BY <2>1, <2>2, LeafOfIs
    <3> QED BY <3>1 DEF PartOf
  <2> QED BY <1>15, <1>16, <2>3
<1>18. \A k \in 0 .. len - 1 : L[k] \in Fr /\ W[k] = L[k]
  <2>1. ASSUME NEW k \in 0 .. len - 1
        PROVE  L[k] \in Fr /\ W[k] = L[k]
    <3>1. PICK p : p = o + k
      OBVIOUS
    <3>2. PlacedAt(p, h, k, width)
      <4>1. k \in Nat /\ k < width
        BY <1>11, <1>12
      <4> QED BY <1>10, <3>1, <4>1 DEF PlacedAt
    <3>3. p < TwoTo(lam)
      BY <1>10, <1>12, <3>1
    <3>4. TreeReduced(fs, tree).out[p] = WrittenAt(fs, tree, h)[k]
      <4>1. OutHas(fs, tree, p, h, k, m)
        BY <1>2, <3>2, <3>3, ReducedOutIs
      <4> QED BY <1>3, <4>1 DEF OutHas
    <3> QED BY <1>6, <1>17, <3>1, <3>4
  <2> QED BY <2>1
<1>19. \A k \in len .. room - 1 : W[k] = 0
  <2>1. \A k \in 0 .. room - 1 : k >= len => W[k] = 0
    BY <1>7 DEF BlockHas
  <2> QED BY <1>12, <2>1
<1>20. Vanishes(L, len, b - a, Among(r, a, b))
  <2>1. PICK e \in Nat, T \in {Among(r, a, b)} : e = b - a /\ T = Among(r, a, b)
    BY <1>9
  <2>2. Vanishes(W, room, e, T)
    BY <1>9, <2>1
  <2>3. Vanishes(L, len, e, T)
    BY <1>9, <1>11, <1>12, <1>17, <1>18, <1>19, <2>2, PaddedVanishes
  <2> QED BY <2>1, <2>3
<1>21. i - 1 = h /\ (i < m => len = 4 * D + 1)
  BY <1>7
<1>22. leaf.length \in 1 .. width
  BY <1>11, <1>12, <1>15
<1>23. (i - 1) * TwoTo(g + 2) = o
  BY <1>2, <1>10, <1>21
<1> QED BY <1>2, <1>8, <1>9, <1>10, <1>12, <1>13, <1>15, <1>16, <1>20, <1>21, <1>22, <1>23 DEF GoodLeaf

-----------------------------------------------------------------------------
(* A round and the tree.                                                   *)

(* A round leaves a good tree of fewer leaves, four times as large.        *)
LEMMA ReducedIsGood ==
    ASSUME NEW tree, NEW lam \in Nat, NEW g, NEW D, NEW c, NEW r, NEW M \in Nat,
           GoodTree(tree, lam, g, D, c, r, M), c >= 2, NEW fs, CanTransform(fs, lam),
           NEW m, m = (c + 3) \div 4, NEW tree2, tree2 = TreeReduced(fs, tree)
    PROVE  GoodTree(tree2, lam, g + 2, 4 * D, m, r, M) /\ m < c
<1>1. /\ g \in Nat /\ D \in Nat /\ D < TwoTo(g) /\ TwoTo(g) <= 2 * D
      /\ c \in Nat \ {0} /\ (c - 1) * D < M /\ M <= c * D
  BY DEF GoodTree
<1>2. PICK G \in Nat \ {0}, n \in Nat : G = TwoTo(g) /\ n = TwoTo(lam)
  <2>1. TwoTo(g) \in Nat \ {0} /\ TwoTo(lam) \in Nat
    BY <1>1, TwoToType
  <2> QED BY <2>1
<1>3. TwoTo(g + 2) = 4 * G /\ g + 2 \in Nat
  <2>1. TwoTo(g + 1) = 2 * TwoTo(g) /\ TwoTo((g + 1) + 1) = 2 * TwoTo(g + 1)
    BY <1>1, TwoToNext
  <2>2. (g + 1) + 1 = g + 2 /\ g + 2 \in Nat
    BY <1>1
  <2>3. PICK y : y = TwoTo(g + 2) /\ y = 2 * (2 * G)
    BY <1>2, <2>1, <2>2
  <2> QED BY <2>2, <2>3
<1>4. CountHas(m, c)
  BY <1>1, GroupCountIs
<1>5. m \in Nat \ {0} /\ 4 * (m - 1) <= c - 1 /\ c <= 4 * m /\ m < c
  BY <1>1, <1>4 DEF CountHas
<1>6. 4 * D \in Nat /\ 4 * D < 4 * G /\ 4 * G <= 2 * (4 * D)
  BY <1>1, <1>2
<1>7. (m - 1) * (4 * D) < M /\ M <= m * (4 * D)
  <2>1. (4 * (m - 1)) * D <= (c - 1) * D /\ (4 * (m - 1)) * D \in Nat /\ (c - 1) * D \in Nat
    <3>1. 4 * (m - 1) \in Nat /\ c - 1 \in Nat
      BY <1>1, <1>5
    <3> QED BY <1>1, <1>5, <3>1, ProductGrows
  <2>2. c * D <= (4 * m) * D /\ (4 * m) * D \in Nat /\ c * D \in Nat
    <3>1. 4 * m \in Nat /\ c \in Nat
      BY <1>1, <1>5
    <3> QED BY <1>1, <1>5, <3>1, ProductGrows
  <2>3. \A x, y \in Nat : (4 * x) * y = x * (4 * y)
    OBVIOUS
  <2>4. (4 * (m - 1)) * D = (m - 1) * (4 * D) /\ (4 * m) * D = m * (4 * D)
    <3>1. m - 1 \in Nat /\ m \in Nat
      BY <1>5
    <3> QED BY <1>1, <2>3, <3>1
  <2>5. PICK x \in Nat, y \in Nat : x = (4 * (m - 1)) * D /\ y = (c - 1) * D
    BY <2>1
  <2>6. x < M
    BY <1>1, <2>1, <2>5
  <2>7. PICK u \in Nat, v \in Nat : u = c * D /\ v = (4 * m) * D
    BY <2>2
  <2>8. M <= v
    BY <1>1, <2>2, <2>7
  <2> QED BY <2>4, <2>5, <2>6, <2>7, <2>8
<1>8. tree2.out \in [0 .. n - 1 -> Fr]
  BY <1>2, ReducedOutType
<1>9. ASSUME NEW i \in 1 .. m
      PROVE  /\ GoodLeaf(tree2, i, lam, g + 2, 4 * D, m, r, M)
             /\ tree2.leaves[i] \in [offset : Nat, length : Nat]
  <2>1. PICK h \in Nat : h = i - 1
    BY <1>5
  <2>2. h < m /\ i = h + 1
    BY <1>5, <2>1
  <2> QED BY <2>2, ReducedLeafIs
<1>10. PICK width \in Nat \ {0} : width = 4 * TwoTo(g) /\ width = 4 * G
  BY <1>2
<1>11. tree2.leaves = [i \in 1 .. m |-> [offset |-> (i - 1) * width, length |-> NewLength(tree, i - 1)]]
  BY <1>10, ReducedLeavesAre
<1>12. tree2.leaves \in [1 .. m -> [offset : Nat, length : Nat]]
  <2>1. \E f : tree2.leaves = [i \in 1 .. m |-> f[i]]
    <3> DEFINE f == [i \in 1 .. m |-> [offset |-> (i - 1) * width, length |-> NewLength(tree, i - 1)]]
    <3>1. f = [i \in 1 .. m |-> f[i]]
      OBVIOUS
    <3>2. tree2.leaves = f
      BY <1>11
    <3> HIDE DEF f
    <3> QED BY <3>1, <3>2
  <2>2. PICK R : R = [offset : Nat, length : Nat]
    OBVIOUS
  <2>3. \A i \in 1 .. m : tree2.leaves[i] \in R
    BY <1>9, <2>2
  <2>4. tree2.leaves \in [1 .. m -> R]
    BY <2>1, <2>3
  <2> QED BY <2>2, <2>4
<1>13. tree2.leaves[m].length = NewLength(tree, m - 1)
  BY <1>5, <1>11
<1>14. ASSUME NEW p \in 0 .. n - 1, p >= (m - 1) * (4 * G) + tree2.leaves[m].length
       PROVE  tree2.out[p] = 0
  <2>1. PICK i, k : PlacedAt(p, i, k, width)
    <3>1. p \in Nat
      OBVIOUS
    <3> QED BY <3>1, PlaceIs
  <2>2. OutHas(fs, tree, p, i, k, m)
    <3>1. p < TwoTo(lam)
      BY <1>2
    <3> QED BY <1>10, <2>1, <3>1, ReducedOutIs
  <2>3. i \in Nat /\ k \in Nat /\ k < width /\ i * width \in Nat /\ p = i * width + k
    BY <2>1 DEF PlacedAt
  <2>4. CASE i >= m
    BY <2>2, <2>4 DEF OutHas
  <2>5. CASE i < m - 1
    <3>1. PICK l \in Nat : l = tree2.leaves[m].length
      <4>1. m \in 1 .. m
        BY <1>5
      <4>2. tree2.leaves[m] \in [offset : Nat, length : Nat]
        BY <1>9, <4>1
      <4> QED BY <4>2
    <3>2. i + 1 \in Nat /\ m - 1 \in Nat /\ i + 1 <= m - 1
      BY <1>5, <2>3, <2>5
    <3>3. /\ (i + 1) * width <= (m - 1) * width /\ (m - 1) * width \in Nat
          /\ (i + 1) * width = i * width + width
      BY <1>10, <2>3, <3>2, ProductGrows
    <3>4. PICK x \in Nat, y \in Nat : x = i * width /\ y = (m - 1) * width
      BY <2>3, <3>3
    <3>5. x + width <= y /\ p = x + k /\ p >= y + l
      BY <1>10, <1>14, <2>3, <3>1, <3>3, <3>4
    <3> QED BY <1>10, <2>3, <3>1, <3>4, <3>5
  <2>6. CASE i = m - 1
    <3>1. PICK l \in Nat : l = NewLength(tree, i) /\ l = tree2.leaves[m].length
      <4>1. m \in 1 .. m
        BY <1>5
      <4>2. tree2.leaves[m] \in [offset : Nat, length : Nat]
        BY <1>9, <4>1
      <4> QED BY <1>13, <2>6, <4>2
    <3>2. PICK x \in Nat : x = i * width
      BY <2>3
    <3>3. p = x + k /\ p >= x + l
      BY <1>10, <1>14, <2>3, <2>6, <3>1, <3>2
    <3>4. k >= l /\ i < m
      BY <1>5, <2>3, <2>6, <3>1, <3>2, <3>3
    <3> QED BY <2>2, <3>1, <3>4 DEF OutHas
  <2>7. i >= m \/ i < m - 1 \/ i = m - 1
    BY <1>5, <2>3
  <2> QED BY <2>4, <2>5, <2>6, <2>7
<1> QED BY <1>2, <1>3, <1>5, <1>6, <1>7, <1>8, <1>9, <1>12, <1>14 DEF GoodTree

-----------------------------------------------------------------------------
(* After t rounds one leaf is left, or at least t fewer than there were.   *)
Progress(tree, t, lam, top, r, M) ==
    /\ tree = [out |-> tree.out, leaves |-> tree.leaves]
    /\ \E g, D, c : GoodTree(tree, lam, g, D, c, r, M) /\ (c = 1 \/ c + t <= top)

(* A round does not lose the progress, and makes some.                     *)
LEMMA RoundProgresses ==
    ASSUME NEW lam \in Nat, NEW top \in Nat, NEW r, NEW M \in Nat, NEW fs, CanTransform(fs, lam),
           NEW t \in Nat, NEW tree, Progress(tree, t, lam, top, r, M)
    PROVE  Progress(TreeRound(fs, tree), t + 1, lam, top, r, M)
<1>1. PICK g, D, c : GoodTree(tree, lam, g, D, c, r, M) /\ (c = 1 \/ c + t <= top)
  BY DEF Progress
<1>2. c \in Nat \ {0}
  BY <1>1 DEF GoodTree
<1>3. CASE c = 1
  <2>1. PICK q : q = LesserOf(4, c - 4 * 0)
    OBVIOUS
  <2>2. GroupHas(tree, c, 0, q)
    <3>1. 0 \in Nat /\ 4 * 0 < c
      BY <1>2
    <3> QED BY <1>1, <2>1, <3>1, TreeGroupIs
  <2>3. Len(tree.leaves) <= 1
    BY <1>3, <2>2 DEF GroupHas
  <2>4. TreeRound(fs, tree) = tree
    BY <2>3 DEF TreeRound
  <2> QED BY <1>1, <1>3, <2>4 DEF Progress
<1>4. CASE c # 1
  <2>1. c >= 2 /\ c + t <= top
    BY <1>1, <1>2, <1>4
  <2>2. PICK m, tree2 : m = (c + 3) \div 4 /\ tree2 = TreeReduced(fs, tree)
    OBVIOUS
  <2>3. GoodTree(tree2, lam, g + 2, 4 * D, m, r, M) /\ m < c
    BY <1>1, <2>1, <2>2, ReducedIsGood
  <2>4. TreeRound(fs, tree) = tree2
    BY <1>1, <2>1, <2>2, RoundIs
  <2>5. m + (t + 1) <= top
    <3>1. m \in Nat
      BY <2>3 DEF GoodTree
    <3> QED BY <1>2, <2>1, <2>3, <3>1
  <2>6. tree2 = [out |-> tree2.out, leaves |-> tree2.leaves]
    BY <2>2 DEF TreeReduced
  <2> QED BY <2>3, <2>4, <2>5, <2>6 DEF Progress
<1> QED BY <1>3, <1>4

(* Trees, as a set.                                                        *)
Trees(t, lam, top, r, M) ==
    {tree \in [out : [0 .. TwoTo(lam) - 1 -> Fr], leaves : Seq([offset : Nat, length : Nat])] :
        Progress(tree, t, lam, top, r, M)}

(* They are all in it.                                                     *)
LEMMA TreesAre ==
    ASSUME NEW t, NEW lam, NEW top, NEW r, NEW M, NEW tree, Progress(tree, t, lam, top, r, M)
    PROVE  tree \in Trees(t, lam, top, r, M)
<1>1. PICK g, D, c : GoodTree(tree, lam, g, D, c, r, M)
  BY DEF Progress
<1>2. PICK R, F : R = [offset : Nat, length : Nat] /\ F = [0 .. TwoTo(lam) - 1 -> Fr]
  OBVIOUS
<1>3. c \in Nat /\ tree.out \in F /\ tree.leaves \in [1 .. c -> R]
  BY <1>1, <1>2 DEF GoodTree
<1>4. tree.leaves \in Seq(R)
  BY <1>3, LenIs
<1>5. tree \in [out : F, leaves : Seq(R)]
  <2>1. tree = [out |-> tree.out, leaves |-> tree.leaves]
    BY DEF Progress
  <2> QED BY <1>3, <1>4, <2>1
<1> QED BY <1>2, <1>5 DEF Trees

(* The rounds are a recursion that is defined.                             *)
LEMMA RoundsAre ==
    ASSUME NEW lam \in Nat, NEW top \in Nat, NEW r, NEW M \in Nat, NEW fs, CanTransform(fs, lam),
           NEW out, NEW leaves, Len(leaves) = top,
           Progress([out |-> out, leaves |-> leaves], 0, lam, top, r, M)
    PROVE  \E f : RoundsOf(f, fs, out, leaves)
<1> DEFINE tree0 == [out |-> out, leaves |-> leaves]
           V == [t \in 0 .. top |-> Trees(t, lam, top, r, M)]
           step == [t \in 1 .. top |-> [v \in V[t - 1] |-> TreeRound(fs, v)]]
<1>1. tree0 \in V[0]
  <2>1. tree0 \in Trees(0, lam, top, r, M)
    BY TreesAre
  <2> QED BY <2>1
<1>2. \A t \in 1 .. top : \A v \in V[t - 1] :
          step[t][v] = TreeRound(fs, v) /\ step[t][v] \in V[t]
  <2>1. ASSUME NEW t \in 1 .. top, NEW v \in V[t - 1]
        PROVE  step[t][v] = TreeRound(fs, v) /\ step[t][v] \in V[t]
    <3>1. t - 1 \in Nat /\ t - 1 \in 0 .. top /\ t \in 0 .. top /\ (t - 1) + 1 = t
      OBVIOUS
    <3>2. v \in Trees(t - 1, lam, top, r, M)
      BY <3>1
    <3>3. Progress(v, t - 1, lam, top, r, M)
      BY <3>2 DEF Trees
    <3>4. PICK u \in Nat : u = t - 1
      BY <3>1
    <3>5. Progress(TreeRound(fs, v), u + 1, lam, top, r, M)
      BY <3>3, <3>4, RoundProgresses
    <3>6. Progress(TreeRound(fs, v), t, lam, top, r, M)
      BY <3>1, <3>4, <3>5
    <3>7. TreeRound(fs, v) \in Trees(t, lam, top, r, M)
      BY <3>6, TreesAre
    <3> QED BY <3>1, <3>7
  <2> HIDE DEF V, step
  <2> QED BY <2>1
<1> HIDE DEF step
<1>3. PICK f : Loop(f, top, V, tree0, step)
  <2>1. \A t \in 1 .. top : \A v \in V[t - 1] : step[t][v] \in V[t]
    BY <1>2
  <2> HIDE DEF V, tree0
  <2> QED BY <1>1, <2>1, LoopRuns
<1>4. f = [t \in 0 .. top |-> IF t = 0 THEN tree0 ELSE step[t][f[t - 1]]]
  BY <1>3 DEF Loop
<1>5. ASSUME NEW t \in 0 .. top
      PROVE  (IF t = 0 THEN tree0 ELSE step[t][f[t - 1]])
                 = IF t = 0 THEN tree0 ELSE TreeRound(fs, f[t - 1])
  <2>1. CASE t = 0
    BY <2>1
  <2>2. CASE t # 0
    <3>1. t \in 1 .. top /\ t - 1 \in 0 .. top
      BY <2>2
    <3>2. f[t - 1] \in V[t - 1]
      BY <1>3, <3>1 DEF Loop
    <3> HIDE DEF V
    <3>3. step[t][f[t - 1]] = TreeRound(fs, f[t - 1])
      BY <1>2, <3>1, <3>2
    <3> QED BY <2>2, <3>3
  <2> QED BY <2>1, <2>2
<1>6. f = [t \in 0 .. top |-> IF t = 0 THEN tree0 ELSE TreeRound(fs, f[t - 1])]
  <2> HIDE DEF V, tree0
  <2>1. [t \in 0 .. top |-> IF t = 0 THEN tree0 ELSE step[t][f[t - 1]]]
            = [t \in 0 .. top |-> IF t = 0 THEN tree0 ELSE TreeRound(fs, f[t - 1])]
    BY <1>5
  <2> QED BY <1>4, <2>1
<1>7. RoundsOf(f, fs, out, leaves)
  BY <1>6 DEF RoundsOf
<1> QED BY <1>7

(* reduceTree answers with the polynomial that is zero at all the roots.   *)
LEMMA ReduceTreeHas ==
    ASSUME NEW lam \in Nat, NEW r, NEW M \in Nat, NEW fs, CanTransform(fs, lam),
           NEW out, NEW leaves, NEW g, NEW D, NEW top,
           GoodTree([out |-> out, leaves |-> leaves], lam, g, D, top, r, M)
    PROVE  \E l \in 1 .. TwoTo(lam) :
               /\ Vanishes(reduceTree(fs, out, leaves), l, M, Among(r, 0, M)) /\ M < l
               /\ reduceTree(fs, out, leaves) \in [0 .. l - 1 -> Fr]
<1>1. top \in Nat \ {0}
  BY DEF GoodTree
<1>2. Len(leaves) = top
  <2>1. PICK R : R = [offset : Nat, length : Nat]
    OBVIOUS
  <2>2. leaves \in [1 .. top -> R]
    BY <2>1 DEF GoodTree
  <2> QED BY <1>1, <2>2, LenIs
<1>3. Progress([out |-> out, leaves |-> leaves], 0, lam, top, r, M)
  <2>1. top + 0 <= top
    BY <1>1
  <2> QED BY <2>1 DEF Progress
<1> DEFINE f == CHOOSE h : RoundsOf(h, fs, out, leaves)
<1>4. RoundsOf(f, fs, out, leaves)
  <2>1. \E h : RoundsOf(h, fs, out, leaves)
    BY <1>1, <1>2, <1>3, RoundsAre
  <2> QED BY <2>1
<1>5. reduceTree(fs, out, leaves) = ResultOf(f[top])
  BY <1>2, ReduceTreeIs
<1> HIDE DEF f
<1> DEFINE S == {t \in 0 .. top : Progress(f[t], t, lam, top, r, M)}
<1>6. \A t \in 0 .. top : t \in S
  <2>1. 0 \in S
    <3>1. f[0] = [out |-> out, leaves |-> leaves] /\ 0 \in 0 .. top
      BY <1>1, <1>2, <1>4 DEF RoundsOf
    <3> QED BY <1>3, <3>1
  <2>2. ASSUME NEW t \in 0 .. top - 1, t \in S
        PROVE  t + 1 \in S
    <3>1. t \in Nat /\ t + 1 \in 0 .. top /\ t + 1 # 0 /\ (t + 1) - 1 = t
      BY <1>1
    <3>2. f[t + 1] = TreeRound(fs, f[t])
      BY <1>2, <1>4, <3>1 DEF RoundsOf
    <3>3. Progress(f[t], t, lam, top, r, M)
      BY <2>2
    <3>4. Progress(TreeRound(fs, f[t]), t + 1, lam, top, r, M)
      BY <1>1, <3>1, <3>3, RoundProgresses
    <3> QED BY <3>1, <3>2, <3>4
  <2> HIDE DEF S
  <2> QED BY <1>1, <2>1, <2>2, CountTo
<1>7. PICK tree : tree = f[top] /\ Progress(tree, top, lam, top, r, M)
  <2>1. top \in 0 .. top
    BY <1>1
  <2>2. top \in S
    BY <1>6, <2>1
  <2> QED BY <2>2
<1>8. PICK h, d, c : GoodTree(tree, lam, h, d, c, r, M) /\ (c = 1 \/ c + top <= top)
  BY <1>7 DEF Progress
<1>9. /\ c = 1 /\ h \in Nat /\ d \in Nat /\ (c - 1) * d < M /\ M <= c * d
      /\ tree.leaves \in [1 .. c -> [offset : Nat, length : Nat]]
      /\ \A i \in 1 .. c : GoodLeaf(tree, i, lam, h, d, c, r, M)
  <2>1. c \in Nat \ {0}
    BY <1>8 DEF GoodTree
  <2>2. c = 1
    BY <1>1, <1>8, <2>1
  <2> QED BY <1>8, <2>2 DEF GoodTree
<1>10. M <= d /\ M > 0 /\ 1 \in 1 .. c
  BY <1>9
<1>11. RootsTo(1, d, M) = M /\ RootsTo(1 - 1, d, M) = 0
  <2>1. 1 * d = d /\ (1 - 1) * d = 0
    BY <1>9
  <2> QED BY <1>9, <1>10, <2>1 DEF RootsTo, LesserOf
<1>12. PICK G \in Nat, n \in Nat : G = TwoTo(h) /\ n = TwoTo(lam)
  BY <1>9, TwoToType
<1>13. PICK l \in 1 .. G : l = tree.leaves[1].length
  BY <1>9, <1>10, <1>12 DEF GoodLeaf
<1>14. PICK p : p = LeafOf(tree, tree.leaves[1])
  OBVIOUS
<1>15. M < l /\ Vanishes(p, l, M, Among(r, 0, M)) /\ l <= n
  <2>1. GoodLeaf(tree, 1, lam, h, d, c, r, M)
    BY <1>9, <1>10
  <2>2. M - 0 = M /\ (1 - 1) * TwoTo(h) = 0
    BY <1>12
  <2> QED BY <1>11, <1>12, <1>13, <1>14, <2>1, <2>2 DEF GoodLeaf
<1>16. tree.leaves # <<>>
  <2>1. DOMAIN tree.leaves = 1 .. c
    BY <1>9
  <2>2. DOMAIN <<>> = {}
    OBVIOUS
  <2> QED BY <1>10, <2>1, <2>2
<1>17. reduceTree(fs, out, leaves) = p
  BY <1>5, <1>7, <1>14, <1>16 DEF ResultOf
<1>18. l \in 1 .. TwoTo(lam) /\ p \in [0 .. l - 1 -> Fr]
  BY <1>12, <1>15 DEF Vanishes
<1> QED BY <1>15, <1>17, <1>18

-----------------------------------------------------------------------------
(* The indices of the missing values, in increasing order.                 *)

(* The missing ones, and those below one of them.                          *)
BelowIn(nils, i) == {j \in nils : j < i}
NilsOf(samples) == {i \in DOMAIN samples : samples[i] = Nil}

(* The elements below one are fewer than all, and more for a greater one.  *)
LEMMA RanksDiffer ==
    ASSUME NEW nils \in SUBSET Nat, IsFiniteSet(nils), NEW i \in nils
    PROVE  /\ IsFiniteSet(BelowIn(nils, i))
           /\ Cardinality(BelowIn(nils, i)) \in 0 .. Cardinality(nils) - 1
           /\ \A j \in nils : Cardinality(BelowIn(nils, j)) = Cardinality(BelowIn(nils, i)) => i = j
<1>1. ASSUME NEW u \in nils
      PROVE  /\ IsFiniteSet(BelowIn(nils, u))
             /\ Cardinality(BelowIn(nils, u)) \in 0 .. Cardinality(nils) - 1
  <2>1. BelowIn(nils, u) \in SUBSET nils /\ u \notin BelowIn(nils, u)
    BY DEF BelowIn
  <2>2. IsFiniteSet(BelowIn(nils, u)) /\ Cardinality(BelowIn(nils, u)) <= Cardinality(nils)
        /\ Cardinality(BelowIn(nils, u)) # Cardinality(nils)
    BY <2>1, FS_Subset
  <2>3. Cardinality(BelowIn(nils, u)) \in Nat /\ Cardinality(nils) \in Nat
    BY <2>2, FS_CardinalityType
  <2> QED BY <2>2, <2>3
<1>2. ASSUME NEW a \in nils, NEW b \in nils, a < b
      PROVE  Cardinality(BelowIn(nils, a)) # Cardinality(BelowIn(nils, b))
  <2>1. PICK A, B : A = BelowIn(nils, a) /\ B = BelowIn(nils, b)
    OBVIOUS
  <2>2. \A j \in A : j \in B
    <3>1. TAKE j \in A
    <3>2. j \in nils /\ j < a
      BY <2>1 DEF BelowIn
    <3>3. j \in Nat /\ a \in Nat /\ b \in Nat
      BY <3>2
    <3>4. j < b
      BY <1>2, <3>2, <3>3
    <3> QED BY <2>1, <3>2, <3>4 DEF BelowIn
  <2>3. a \in B /\ a \notin A
    BY <1>2, <2>1 DEF BelowIn
  <2>4. IsFiniteSet(B)
    BY <1>1, <2>1
  <2>5. A \in SUBSET B
    BY <2>2
  <2>6. Cardinality(B) = Cardinality(A) => B = A
    BY <2>4, <2>5, FS_Subset
  <2> QED BY <2>1, <2>3, <2>6
<1>3. ASSUME NEW j \in nils, Cardinality(BelowIn(nils, j)) = Cardinality(BelowIn(nils, i))
      PROVE  i = j
  <2>1. i \in Nat /\ j \in Nat
    OBVIOUS
  <2>2. ~ (i < j) /\ ~ (j < i)
    BY <1>2, <1>3
  <2> QED BY <2>1, <2>2
<1> QED BY <1>1, <1>3

(* Every number below the size of a finite set of numbers is that of the   *)
(* elements below one of them.                                             *)
LEMMA RanksAre ==
    ASSUME NEW nils \in SUBSET Nat, IsFiniteSet(nils), NEW M, M = Cardinality(nils),
           NEW k \in 0 .. M - 1
    PROVE  \E i \in nils : Cardinality(BelowIn(nils, i)) = k
<1>1. M \in Nat
  BY FS_CardinalityType
<1> DEFINE f == [i \in nils |-> Cardinality(BelowIn(nils, i))]
<1>2. f \in Injection(nils, 0 .. M - 1)
  <2>1. f \in [nils -> 0 .. M - 1]
    BY RanksDiffer
  <2>2. ASSUME NEW i \in nils, NEW j \in nils, f[i] = f[j]
        PROVE  i = j
    BY <2>2, RanksDiffer
  <2>3. DOMAIN f = nils
    OBVIOUS
  <2> HIDE DEF f
  <2>4. IsInjective(f)
    BY <2>2, <2>3 DEF IsInjective
  <2> QED BY <2>1, <2>4 DEF Injection
<1>3. IsFiniteSet(0 .. M - 1) /\ Cardinality(0 .. M - 1) = M
  <2>1. 0 \in Int /\ M - 1 \in Int /\ (0 > M - 1 => M = 0) /\ (M - 1) - 0 + 1 = M
    BY <1>1
  <2> QED BY <2>1, FS_Interval
<1>4. f \in Surjection(nils, 0 .. M - 1)
  <2> HIDE DEF f
  <2> QED BY <1>2, <1>3, FS_Injection
<1> QED BY <1>4 DEF Surjection

(* There are as many indices as values missing, each of one, none left     *)
(* out.                                                                    *)
IndicesAre(idx, nils, M) ==
    /\ M \in Nat /\ M = Cardinality(nils) /\ DOMAIN idx = 0 .. M - 1 /\ Length(idx) = M
    /\ \A k \in 0 .. M - 1 : idx[k] \in nils
    /\ \A i \in nils : \E k \in 0 .. M - 1 : idx[k] = i

(* So are those missingIndices gives.                                      *)
LEMMA MissingAre ==
    ASSUME NEW n \in Nat, NEW samples, DOMAIN samples = 0 .. n - 1
    PROVE  IndicesAre(missingIndices(samples), NilsOf(samples), Cardinality(NilsOf(samples)))
<1>1. PICK nils \in SUBSET Nat : nils = NilsOf(samples)
  <2>1. \A i \in NilsOf(samples) : i \in Nat
    BY DEF NilsOf
  <2> QED BY <2>1
<1>2. IsFiniteSet(nils)
  <2>1. nils \in SUBSET (0 .. n - 1) /\ IsFiniteSet(0 .. n - 1)
    BY <1>1, FS_Interval DEF NilsOf
  <2> QED BY <2>1, FS_Subset
<1>3. PICK M \in Nat : M = Cardinality(nils)
  BY <1>2, FS_CardinalityType
<1> DEFINE rank(i) == Cardinality(BelowIn(nils, i))
           idx == [k \in 0 .. M - 1 |-> CHOOSE i \in nils : rank(i) = k]
<1>4. missingIndices(samples) = idx
  <2>1. missingIndices(samples)
            = Slice([k \in 0 .. Cardinality(nils) - 1 |->
                  CHOOSE i \in nils : Cardinality({j \in nils : j < i}) = k])
    BY <1>1 DEF missingIndices, NilsOf
  <2> QED BY <1>3, <2>1, SliceIs DEF BelowIn
<1>5. ASSUME NEW k \in 0 .. M - 1
      PROVE  idx[k] \in nils /\ rank(idx[k]) = k
  <2>1. \E i \in nils : rank(i) = k
    BY <1>2, <1>3, RanksAre
  <2> QED BY <2>1
<1>6. ASSUME NEW i \in nils
      PROVE  rank(i) \in 0 .. M - 1 /\ idx[rank(i)] = i
  <2>1. rank(i) \in 0 .. M - 1
    BY <1>2, <1>3, RanksDiffer
  <2>2. PICK u : u = idx[rank(i)]
    OBVIOUS
  <2>3. u \in nils /\ rank(u) = rank(i)
    BY <1>5, <2>1, <2>2
  <2>4. u = i
    BY <1>2, <2>3, RanksDiffer
  <2> QED BY <2>1, <2>2, <2>4
<1>7. DOMAIN idx = 0 .. M - 1 /\ Length(idx) = M
  <2>1. DOMAIN idx = 0 .. M - 1
    OBVIOUS
  <2> HIDE DEF idx
  <2> QED BY <2>1, LengthIs
<1> HIDE DEF idx
<1> QED BY <1>1, <1>3, <1>4, <1>5, <1>6, <1>7 DEF IndicesAre

-----------------------------------------------------------------------------
(* The parts of ZeroPolyViaMultiplication, named as there.                 *)
PerLeaf == PerLeafPoly - 1
LeafCount(M) == (M + PerLeaf - 1) \div PerLeaf
TreeLeaf(fs, idx, i, M) ==
    makeZeroPolyMulLeaf(fs, PerLeafPoly, SubSlice(idx, i * PerLeaf, LesserOf((i + 1) * PerLeaf, M)), 1)
TreeOut(fs, idx, M, c) ==
    [p \in 0 .. nextPowOf2(c * PerLeafPoly) - 1 |->
        IF p < c * PerLeafPoly THEN TreeLeaf(fs, idx, p \div PerLeafPoly, M)[p % PerLeafPoly] ELSE 0]
TreeLeaves(c) == [i \in 1 .. c |-> [offset |-> (i - 1) * PerLeafPoly, length |-> PerLeafPoly]]

(* It is one leaf, or the product of the tree.                             *)
LEMMA ZeroPolyIs ==
    ASSUME NEW n \in Nat \ {0}, NEW fs, fs.MaxWidth = n, NEW idx, NEW M \in Nat, M = Length(idx)
    PROVE  ZeroPolyViaMultiplication(fs, idx, n) =
               IF M = 0 THEN [i \in 0 .. n - 1 |-> 0]
               ELSE IF M <= PerLeaf
               THEN IF M + 1 > n THEN <<>> ELSE makeZeroPolyMulLeaf(fs, n, idx, 1)
               ELSE padZeroPoly(n, reduceTree(fs, TreeOut(fs, idx, M, LeafCount(M)),
                                              TreeLeaves(LeafCount(M))))
<1>1. fs.MaxWidth \div n = 1
  OBVIOUS
<1>2. CASE M = 0
  BY <1>1, <1>2, SliceIs DEF ZeroPolyViaMultiplication
<1>3. CASE M > 0 /\ M <= PerLeaf
  BY <1>1, <1>3 DEF ZeroPolyViaMultiplication, PerLeaf
<1>4. CASE M > 0 /\ ~(M <= PerLeaf)
  <2>1. M # 0 /\ ~(M <= PerLeafPoly - 1)
    BY <1>4 DEF PerLeaf
  <2>2. ZeroPolyViaMultiplication(fs, idx, n)
            = padZeroPoly(n, reduceTree(fs, Slice(TreeOut(fs, idx, M, LeafCount(M))),
                                        TreeLeaves(LeafCount(M))))
    BY <1>1, <2>1 DEF ZeroPolyViaMultiplication, TreeOut, TreeLeaves, TreeLeaf, LeafCount, PerLeaf
  <2> QED BY <1>4, <2>2, SliceIs
<1> QED BY <1>2, <1>3, <1>4

(* Between a number and its double lies a power of two.                    *)
LEMMA PowerAbove ==
    ASSUME NEW v \in Nat \ {0}
    PROVE  \E g \in Nat : v <= TwoTo(g) /\ TwoTo(g) < 2 * v
<1> DEFINE S == {u \in Nat : \E g \in Nat : u + 1 <= TwoTo(g) /\ TwoTo(g) < 2 * (u + 1)}
<1>1. 0 \in S
  <2>1. 0 \in Nat /\ 0 + 1 <= TwoTo(0) /\ TwoTo(0) < 2 * (0 + 1)
    BY TwoToZero
  <2> QED BY <2>1
<1>2. ASSUME NEW u \in Nat, u \in S
      PROVE  u + 1 \in S
  <2>1. PICK g \in Nat : u + 1 <= TwoTo(g) /\ TwoTo(g) < 2 * (u + 1)
    BY <1>2
  <2>2. TwoTo(g) \in Nat /\ TwoTo(g + 1) = 2 * TwoTo(g) /\ g + 1 \in Nat
    BY TwoToNext
  <2>3. PICK h \in Nat : (u + 1) + 1 <= TwoTo(h) /\ TwoTo(h) < 2 * ((u + 1) + 1)
    <3>1. CASE (u + 1) + 1 <= TwoTo(g)
      BY <2>1, <2>2, <3>1
    <3>2. CASE ~((u + 1) + 1 <= TwoTo(g))
      <4>1. TwoTo(g) = u + 1
        BY <2>1, <2>2, <3>2
      <4>2. (u + 1) + 1 <= TwoTo(g + 1) /\ TwoTo(g + 1) < 2 * ((u + 1) + 1)
        BY <2>2, <4>1
      <4> QED BY <2>2, <4>2
    <3> QED BY <3>1, <3>2
  <2>4. u + 1 \in Nat
    OBVIOUS
  <2> QED BY <2>3, <2>4
<1>3. v - 1 \in S
  <2>1. v - 1 \in Nat
    OBVIOUS
  <2> HIDE DEF S
  <2> QED BY <1>1, <1>2, <2>1, CountAll
<1> QED BY <1>3

(* A place in a row of blocks of P.                                        *)
LEMMA BlockPlace ==
    ASSUME NEW P \in Nat \ {0}, NEW i \in Nat, NEW j \in 0 .. P - 1
    PROVE  /\ i * P + j \in Nat
           /\ (i * P + j) \div P = i /\ ((i * P + j) % P) = j
<1>1. i * P \in Nat
  BY ProductGrows
<1>2. PICK u \in Nat : u = i * P
  BY <1>1
<1>3. PICK a \in Nat : a = u + j
  OBVIOUS
<1>4. PICK q \in Nat, t \in 0 .. P - 1 : a = P * q + t /\ a \div P = q
  BY <1>3, DivisionIs
<1>5. q = i
  <2>1. P * q = q * P /\ q * P \in Nat
    BY ProductGrows
  <2>2. q < i => (q + 1) * P <= i * P
    BY ProductGrows
  <2>3. i < q => (i + 1) * P <= q * P
    BY ProductGrows
  <2>4. (q + 1) * P = q * P + P /\ (i + 1) * P = i * P + P
    BY ProductGrows
  <2>5. PICK w \in Nat : w = q * P
    BY <2>1
  <2>6. u + j = w + t
    BY <1>3, <1>4, <2>1, <2>5
  <2>7. q < i => w + P <= u
    BY <1>2, <2>2, <2>4, <2>5
  <2>8. i < q => u + P <= w
    BY <1>2, <2>3, <2>4, <2>5
  <2> QED BY ONLY <2>6, <2>7, <2>8, P \in Nat \ {0}, q \in Nat, i \in Nat, u \in Nat, w \in Nat,
               j \in 0 .. P - 1, t \in 0 .. P - 1
<1>6. t = j
  <2>1. P * q = u
    BY <1>2, <1>5, ProductGrows
  <2> QED BY ONLY <2>1, <1>3, <1>4, u \in Nat, j \in 0 .. P - 1, t \in 0 .. P - 1
<1>7. (a % P) = a - P * (a \div P)
  <2>1. a \in Int /\ P \in Int /\ P > 0
    OBVIOUS
  <2> QED BY <2>1
<1>8. (a % P) = j
  BY <1>4, <1>6, <1>7
<1> QED BY <1>1, <1>2, <1>3, <1>4, <1>5, <1>8

-----------------------------------------------------------------------------
(* What the leaves are, for M indices.                                     *)
RootsAt(fs, idx, r, M) ==
    \A j \in 0 .. M - 1 : idx[j] \in Nat /\ r[j] = fs.ExpandedRootsOfUnity[idx[j]] /\ r[j] \in Fr

(* There is room for more than one coefficient in a leaf.                  *)
LEMMA PerLeafFacts ==
    /\ PerLeaf \in Nat \ {0} /\ PerLeafPoly \in Nat \ {0} /\ PerLeafPoly = PerLeaf + 1
    /\ \E g \in Nat : PerLeafPoly = TwoTo(g)
BY PerLeafPolyAssumption, PowerOfTwo DEF PerLeaf

(* A leaf of its own is zero at the roots of all indices.                  *)
LEMMA OneLeafIs ==
    ASSUME NEW n \in Nat, NEW M \in Nat, M < n, NEW fs, NEW idx, Length(idx) = M, NEW r,
           RootsAt(fs, idx, r, M)
    PROVE  Vanishes(makeZeroPolyMulLeaf(fs, n, idx, 1), n, M, Among(r, 0, M))
<1>1. \A j \in 0 .. M - 1 : /\ r[j] = fs.ExpandedRootsOfUnity[idx[j] * 1]
                            /\ r[j] \in Fr
  <2>1. TAKE j \in 0 .. M - 1
  <2>2. idx[j] \in Nat /\ r[j] = fs.ExpandedRootsOfUnity[idx[j]] /\ r[j] \in Fr
    BY DEF RootsAt
  <2>3. idx[j] * 1 = idx[j]
    BY <2>2
  <2> QED BY <2>2, <2>3
<1>2. M \in 0 .. n - 1
  OBVIOUS
<1> QED BY <1>1, <1>2, LeafIs

(* Leaf i of the tree is zero at the roots of its part of the indices.     *)
LEMMA TreeLeafIs ==
    ASSUME NEW c \in Nat \ {0}, NEW M \in Nat, (c - 1) * PerLeaf < M, M <= c * PerLeaf,
           NEW fs, NEW idx, NEW r, RootsAt(fs, idx, r, M), NEW i \in 0 .. c - 1,
           NEW a, a = RootsTo(i, PerLeaf, M), NEW b, b = RootsTo(i + 1, PerLeaf, M)
    PROVE  /\ a \in Nat /\ b \in Nat /\ a <= b /\ b - a <= PerLeaf
           /\ Vanishes(TreeLeaf(fs, idx, i, M), PerLeafPoly, b - a, Among(r, a, b))
<1>1. PICK D \in Nat \ {0} : D = PerLeaf /\ PerLeafPoly = D + 1
  BY PerLeafFacts
<1>2. i \in 0 .. c /\ i < c /\ i + 1 \in 0 .. c
  OBVIOUS
<1>3. a \in Nat /\ b \in Nat /\ a = i * D /\ a <= b /\ b - a <= D /\ b <= M
  <2>1. (c - 1) * D < M /\ M <= c * D
    BY <1>1
  <2> QED BY <1>1, <1>2, <2>1, RootsToIs
<1>4. PICK l \in Nat : l = b - a
  BY <1>3
<1> DEFINE part == [j \in 0 .. l - 1 |-> idx[a + j]]
           s == [j \in 0 .. l - 1 |-> r[a + j]]
<1>5. TreeLeaf(fs, idx, i, M) = makeZeroPolyMulLeaf(fs, D + 1, part, 1)
  <2>1. SubSlice(idx, a, b) = part
    BY <1>3, <1>4, SliceIs DEF SubSlice
  <2>2. LesserOf((i + 1) * PerLeaf, M) = b
    BY DEF RootsTo
  <2>3. i * PerLeaf = a
    BY <1>1, <1>3
  <2> QED BY <1>1, <2>1, <2>2, <2>3 DEF TreeLeaf
<1>6. Length(part) = l
  <2>1. DOMAIN part = 0 .. l - 1
    OBVIOUS
  <2> HIDE DEF part
  <2> QED BY <2>1, LengthIs
<1>7. RootsAt(fs, part, s, l)
  <2>1. ASSUME NEW j \in 0 .. l - 1
        PROVE  part[j] \in Nat /\ s[j] = fs.ExpandedRootsOfUnity[part[j]] /\ s[j] \in Fr
    <3>1. a + j \in 0 .. M - 1
      BY <1>3, <1>4
    <3>2. idx[a + j] \in Nat /\ r[a + j] = fs.ExpandedRootsOfUnity[idx[a + j]] /\ r[a + j] \in Fr
      BY <3>1 DEF RootsAt
    <3> QED BY <3>2
  <2> HIDE DEF part, s
  <2> QED BY <2>1 DEF RootsAt
<1>8. Vanishes(makeZeroPolyMulLeaf(fs, D + 1, part, 1), D + 1, l, Among(s, 0, l))
  <2>1. D + 1 \in Nat /\ l < D + 1
    BY <1>3, <1>4
  <2> HIDE DEF part, s
  <2> QED BY <1>6, <1>7, <2>1, OneLeafIs
<1>9. Among(s, 0, l) = Among(r, a, b)
  <2>1. ASSUME NEW k \in 0 .. l - 1
        PROVE  s[k] = r[a + k] /\ a + k \in a .. b - 1
    BY <1>3, <1>4
  <2>2. ASSUME NEW k \in a .. b - 1
        PROVE  k - a \in 0 .. l - 1 /\ s[k - a] = r[k]
    <3>1. k - a \in 0 .. l - 1 /\ a + (k - a) = k
      BY <1>3, <1>4
    <3> QED BY <3>1
  <2> HIDE DEF s
  <2>3. \A x \in Among(s, 0, l) : x \in Among(r, a, b)
    BY <2>1 DEF Among
  <2>4. \A x \in Among(r, a, b) : x \in Among(s, 0, l)
    BY <2>2 DEF Among
  <2> QED BY <2>3, <2>4
<1> QED BY <1>1, <1>3, <1>4, <1>5, <1>8, <1>9

-----------------------------------------------------------------------------
(* The tree the leaves make.                                               *)

(* The values of out, block by block.                                      *)
OutIs(out, fs, idx, M, c, lam) ==
    /\ out \in [0 .. TwoTo(lam) - 1 -> Fr]
    /\ c * PerLeafPoly <= TwoTo(lam)
    /\ \A i \in 0 .. c - 1 : \A j \in 0 .. PerLeafPoly - 1 :
           /\ i * PerLeafPoly + j \in 0 .. TwoTo(lam) - 1
           /\ out[i * PerLeafPoly + j] = TreeLeaf(fs, idx, i, M)[j]
    /\ \A p \in 0 .. TwoTo(lam) - 1 : p >= c * PerLeafPoly => out[p] = 0

(* They are the coefficients of the leaves.                                *)
LEMMA TreeOutIs ==
    ASSUME NEW c \in Nat \ {0}, NEW M \in Nat, (c - 1) * PerLeaf < M, M <= c * PerLeaf,
           NEW fs, NEW idx, NEW r, RootsAt(fs, idx, r, M), NEW lam \in Nat,
           c * PerLeafPoly <= TwoTo(lam), TwoTo(lam) < 2 * (c * PerLeafPoly)
    PROVE  OutIs(TreeOut(fs, idx, M, c), fs, idx, M, c, lam)
<1>1. PICK P \in Nat \ {0} : P = PerLeafPoly
  BY PerLeafFacts
<1>2. PICK n \in Nat, m \in Nat \ {0} : n = TwoTo(lam) /\ m = c * P /\ m <= n /\ n < 2 * m
  <2>1. c * P \in Nat /\ TwoTo(lam) \in Nat
    BY ProductGrows, TwoToType
  <2> QED BY <1>1, <2>1
<1>3. nextPowOf2(c * PerLeafPoly) = n
  BY <1>1, <1>2, NextPowerIs
<1>4. PICK leaf : leaf = [i \in 0 .. c - 1 |-> TreeLeaf(fs, idx, i, M)]
  OBVIOUS
<1>5. ASSUME NEW i \in 0 .. c - 1
      PROVE  leaf[i] \in [0 .. P - 1 -> Fr]
  <2>1. PICK a, b : a = RootsTo(i, PerLeaf, M) /\ b = RootsTo(i + 1, PerLeaf, M)
    OBVIOUS
  <2>2. Vanishes(TreeLeaf(fs, idx, i, M), PerLeafPoly, b - a, Among(r, a, b))
    BY <2>1, TreeLeafIs
  <2> QED BY <1>1, <1>4, <2>2 DEF Vanishes
<1>6. PICK out : out = TreeOut(fs, idx, M, c)
  OBVIOUS
<1>7. ASSUME NEW p \in 0 .. n - 1
      PROVE  /\ p >= m => out[p] = 0
             /\ p < m => /\ p \div P \in 0 .. c - 1 /\ (p % P) \in 0 .. P - 1
                         /\ out[p] = leaf[p \div P][(p % P)]
  <2>1. out[p] = IF p < m THEN TreeLeaf(fs, idx, p \div P, M)[p % P] ELSE 0
    BY <1>1, <1>2, <1>3, <1>6 DEF TreeOut
  <2>2. PICK q \in Nat, t \in 0 .. P - 1 : p = P * q + t /\ p \div P = q
    <3>1. p \in Nat
      OBVIOUS
    <3> QED BY <3>1, DivisionIs
  <2>3. (p % P) \in 0 .. P - 1
    OBVIOUS
  <2>4. p < m => q \in 0 .. c - 1
    <3>1. P * q = q * P /\ q * P \in Nat
      BY ProductGrows
    <3>2. c <= q => c * P <= q * P
      BY ProductGrows
    <3>3. PICK u \in Nat : u = q * P
      BY <3>1
    <3>4. p >= u /\ (c <= q => m <= u)
      BY <1>2, <2>2, <3>1, <3>2, <3>3
    <3> QED BY <3>4
  <2> QED BY <1>2, <1>4, <2>1, <2>2, <2>3, <2>4
<1>8. out \in [0 .. n - 1 -> Fr]
  <2>1. out = [p \in 0 .. n - 1 |->
                  IF p < c * PerLeafPoly
                  THEN TreeLeaf(fs, idx, p \div PerLeafPoly, M)[p % PerLeafPoly] ELSE 0]
    BY <1>3, <1>6 DEF TreeOut
  <2>2. ASSUME NEW p \in 0 .. n - 1
        PROVE  out[p] \in Fr
    <3>1. CASE p < m
      BY <1>5, <1>7, <3>1
    <3>2. CASE p >= m
      BY <1>7, <3>2, ModulusFacts
    <3> QED BY <1>2, <3>1, <3>2
  <2>3. DOMAIN out = 0 .. n - 1 /\ out = [p \in 0 .. n - 1 |-> out[p]]
    BY <2>1
  <2> QED BY <2>2, <2>3
<1>9. ASSUME NEW i \in 0 .. c - 1, NEW j \in 0 .. P - 1
      PROVE  i * P + j \in 0 .. n - 1 /\ out[i * P + j] = TreeLeaf(fs, idx, i, M)[j]
  <2>1. i * P + j \in Nat /\ (i * P + j) \div P = i /\ ((i * P + j) % P) = j
    BY BlockPlace
  <2>2. i * P \in Nat /\ (i + 1) * P = i * P + P /\ (i + 1) * P <= c * P
    <3>1. i \in Nat /\ i + 1 \in Nat /\ i + 1 <= c
      OBVIOUS
    <3> QED BY <3>1, ProductGrows
  <2>3. PICK p \in Nat : p = i * P + j
    BY <2>1
  <2>4. p < m
    <3>1. PICK u \in Nat : u = i * P
      BY <2>2
    <3>2. p = u + j /\ u + P <= m
      BY <1>2, <2>2, <2>3, <3>1
    <3> QED BY <3>2
  <2>5. p \in 0 .. n - 1
    BY <1>2, <2>4
  <2>6. out[p] = leaf[i][j]
    BY <1>7, <2>1, <2>3, <2>4, <2>5
  <2> QED BY <1>4, <2>3, <2>5, <2>6
<1> QED BY <1>1, <1>2, <1>6, <1>7, <1>8, <1>9 DEF OutIs

(* It is one of those reduceTree reduces.                                  *)
LEMMA FirstTree ==
    ASSUME NEW c \in Nat \ {0}, NEW M \in Nat, (c - 1) * PerLeaf < M, M <= c * PerLeaf,
           NEW fs, NEW idx, NEW r, RootsAt(fs, idx, r, M), NEW lam \in Nat,
           c * PerLeafPoly <= TwoTo(lam), TwoTo(lam) < 2 * (c * PerLeafPoly)
    PROVE  \E g : GoodTree([out |-> TreeOut(fs, idx, M, c), leaves |-> TreeLeaves(c)],
                           lam, g, PerLeaf, c, r, M)
<1>1. PICK D \in Nat \ {0}, P \in Nat \ {0}, g \in Nat :
          D = PerLeaf /\ P = PerLeafPoly /\ P = D + 1 /\ P = TwoTo(g)
  BY PerLeafFacts
<1>2. PICK n \in Nat : n = TwoTo(lam)
  BY TwoToType
<1>3. OutIs(TreeOut(fs, idx, M, c), fs, idx, M, c, lam)
  BY TreeOutIs
<1>4. PICK tree : tree = [out |-> TreeOut(fs, idx, M, c), leaves |-> TreeLeaves(c)]
  OBVIOUS
<1>5. /\ tree.out \in [0 .. n - 1 -> Fr]
      /\ c * P <= n
      /\ \A i \in 0 .. c - 1 : \A j \in 0 .. P - 1 :
             i * P + j \in 0 .. n - 1 /\ tree.out[i * P + j] = TreeLeaf(fs, idx, i, M)[j]
      /\ \A p \in 0 .. n - 1 : p >= c * P => tree.out[p] = 0
  BY <1>1, <1>2, <1>3, <1>4 DEF OutIs
<1>6. ASSUME NEW i \in 1 .. c
      PROVE  /\ (i - 1) * P \in Nat /\ i - 1 \in 0 .. c - 1
             /\ (i - 1) * P + P <= c * P
             /\ tree.leaves[i] \in [offset : Nat, length : Nat]
             /\ tree.leaves[i].offset = (i - 1) * P /\ tree.leaves[i].length = P
  <2>1. i - 1 \in Nat /\ i \in Nat /\ (i - 1) + 1 = i /\ i <= c /\ i - 1 \in 0 .. c - 1
    OBVIOUS
  <2>2. (i - 1) * P \in Nat /\ ((i - 1) + 1) * P = (i - 1) * P + P /\ i * P <= c * P
    BY <2>1, ProductGrows
  <2>3. (i - 1) * P + P <= c * P
    BY <2>1, <2>2
  <2>4. tree.leaves = TreeLeaves(c)
    BY <1>4
  <2>5. TreeLeaves(c)[i] = [offset |-> (i - 1) * PerLeafPoly, length |-> PerLeafPoly]
    BY DEF TreeLeaves
  <2>6. PICK o \in Nat : o = (i - 1) * P
    BY <2>2
  <2>7. tree.leaves[i] = [offset |-> o, length |-> P]
    BY <1>1, <2>4, <2>5, <2>6
  <2>8. /\ tree.leaves[i] \in [offset : Nat, length : Nat]
        /\ tree.leaves[i].offset = o /\ tree.leaves[i].length = P
    BY ONLY <2>7, o \in Nat, P \in Nat \ {0}
  <2> QED BY <2>1, <2>2, <2>3, <2>6, <2>8
<1>7. tree.leaves \in [1 .. c -> [offset : Nat, length : Nat]]
  <2>1. PICK R : R = [offset : Nat, length : Nat]
    OBVIOUS
  <2>2. \A i \in 1 .. c : tree.leaves[i] \in R
    BY <1>6, <2>1
  <2>3. tree.leaves = [i \in 1 .. c |-> tree.leaves[i]]
    <3>1. tree.leaves = TreeLeaves(c)
      BY <1>4
    <3> QED BY <3>1 DEF TreeLeaves
  <2>4. tree.leaves \in [1 .. c -> R]
    BY <2>2, <2>3
  <2> QED BY <2>1, <2>4
<1>8. ASSUME NEW i \in 1 .. c
      PROVE  GoodLeaf(tree, i, lam, g, D, c, r, M)
  <2>1. PICK o \in Nat : o = (i - 1) * P
    BY <1>6
  <2>2. o + P <= n
    <3>1. o + P <= c * P /\ c * P \in Nat
      BY <1>6, <2>1, ProductGrows
    <3> QED BY <1>5, <3>1
  <2>3. tree.leaves[i].offset = o /\ tree.leaves[i].length = P
    BY <1>6, <2>1
  <2>4. PartOf(tree, tree.leaves[i])
    BY <1>5, <2>2, <2>3, LeafOfIs
  <2>5. PICK a, b : a = RootsTo(i - 1, PerLeaf, M) /\ b = RootsTo((i - 1) + 1, PerLeaf, M)
    OBVIOUS
  <2>6. /\ a \in Nat /\ b \in Nat /\ b - a <= D
        /\ Vanishes(TreeLeaf(fs, idx, i - 1, M), P, b - a, Among(r, a, b))
    BY <1>1, <1>6, <2>5, TreeLeafIs
  <2>7. LeafOf(tree, tree.leaves[i]) = TreeLeaf(fs, idx, i - 1, M)
    <3>1. \A j \in 0 .. P - 1 : LeafOf(tree, tree.leaves[i])[j] = TreeLeaf(fs, idx, i - 1, M)[j]
      <4>1. TAKE j \in 0 .. P - 1
      <4>2. LeafOf(tree, tree.leaves[i])[j] = tree.out[o + j]
        BY <2>3, <2>4 DEF PartOf
      <4>3. tree.out[(i - 1) * P + j] = TreeLeaf(fs, idx, i - 1, M)[j]
        BY <1>5, <1>6
      <4> QED BY <2>1, <4>2, <4>3
    <3>2. LeafOf(tree, tree.leaves[i]) \in [0 .. P - 1 -> Fr]
      BY <2>3, <2>4 DEF PartOf
    <3>3. TreeLeaf(fs, idx, i - 1, M) \in [0 .. P - 1 -> Fr]
      BY <2>6 DEF Vanishes
    <3> QED BY <3>1, <3>2, <3>3
  <2>8. b = RootsTo(i, D, M) /\ a = RootsTo(i - 1, D, M) /\ b - a < P
    <3>1. (i - 1) + 1 = i
      OBVIOUS
    <3>2. b - a < P
      BY <1>1, <2>6
    <3> QED BY <1>1, <2>5, <3>1, <3>2
  <2>9. P \in 1 .. TwoTo(g) /\ P = D + 1
    BY <1>1
  <2> QED BY <1>1, <1>2, <2>1, <2>2, <2>3, <2>6, <2>7, <2>8, <2>9 DEF GoodLeaf
<1>9. \A p \in 0 .. TwoTo(lam) - 1 :
          p >= (c - 1) * TwoTo(g) + tree.leaves[c].length => tree.out[p] = 0
  <2>1. c \in 1 .. c
    OBVIOUS
  <2>2. tree.leaves[c].length = P
    BY <1>6, <2>1
  <2>3. (c - 1) * P + P = c * P
    <3>1. c - 1 \in Nat /\ (c - 1) + 1 = c
      OBVIOUS
    <3> QED BY <3>1, ProductGrows
  <2> QED BY <1>1, <1>2, <1>5, <2>2, <2>3
<1>10. D < TwoTo(g) /\ TwoTo(g) <= 2 * D
  BY <1>1
<1>11. (c - 1) * D < M /\ M <= c * D
  BY <1>1
<1>12. GoodTree(tree, lam, g, D, c, r, M)
  BY <1>1, <1>2, <1>5, <1>7, <1>8, <1>9, <1>10, <1>11 DEF GoodTree
<1> QED BY <1>1, <1>4, <1>12

-----------------------------------------------------------------------------
(* The zero polynomial.                                                    *)

(* So many leaves have the indices, and room in half of the values.        *)
CountOfLeaves(M, D, c) ==
    /\ c \in Nat \ {0} /\ (c - 1) * D < M /\ M <= c * D
    /\ c * (D + 1) \in Nat \ {0} /\ c * (D + 1) <= 2 * M

(* So the code counts them.                                                *)
LEMMA LeafCountIs ==
    ASSUME NEW D \in Nat \ {0}, NEW M \in Nat, D < M, NEW c, c = (M + D - 1) \div D
    PROVE  CountOfLeaves(M, D, c)
<1>1. PICK a \in Nat : a = M + D - 1
  OBVIOUS
<1>2. PICK q \in Nat, t \in 0 .. D - 1 : a = D * q + t /\ c = q
  BY <1>1, DivisionIs
<1>3. PICK u \in Nat : u = q * D /\ D * q = u
  BY ProductGrows
<1>4. u <= M + D - 1 /\ M <= u
  BY ONLY <1>1, <1>2, <1>3, a \in Nat, u \in Nat, t \in 0 .. D - 1, M \in Nat, D \in Nat \ {0}
<1>5. q >= 2
  <2>1. 0 * D = 0 /\ 1 * D = D
    OBVIOUS
  <2>2. q # 0 /\ q # 1
    <3>1. q = 0 => u = 0
      BY <1>3, <2>1
    <3>2. q = 1 => u = D
      BY <1>3, <2>1
    <3> QED BY <1>4, <3>1, <3>2
  <2> QED BY <2>2
<1>6. (q - 1) * D \in Nat /\ (q - 1) * D + D = u
  <2>1. q - 1 \in Nat /\ (q - 1) + 1 = q
    BY <1>5
  <2> QED BY <1>3, <2>1, ProductGrows
<1>7. q * (D + 1) \in Nat /\ q * (D + 1) = u + q
  <2>1. \A x, y \in Nat : y * (x + 1) = x * y + y
    OBVIOUS
  <2>2. \A x, y \in Nat : x * y = y * x /\ x * y \in Nat
    OBVIOUS
  <2> QED BY <1>3, <2>1, <2>2
<1>8. q + D <= M + 1
  <2>1. \A x, y \in Nat : x >= 1 /\ y >= 1 => x + y <= x * y + 1
    <3>1. \A x, y \in Nat : (x + 1) * (y + 1) = x * y + x + y + 1 /\ x * y \in Nat
      OBVIOUS
    <3>2. TAKE x, y \in Nat
    <3>3. HAVE x >= 1 /\ y >= 1
    <3>4. PICK e \in Nat, f \in Nat : e = x - 1 /\ f = y - 1
      BY <3>3
    <3>5. (e + 1) * (f + 1) = e * f + e + f + 1 /\ e * f \in Nat
      BY <3>1
    <3>6. x = e + 1 /\ y = f + 1
      BY <3>4
    <3>7. x * y = e * f + e + f + 1
      BY <3>5, <3>6
    <3> QED BY <3>5, <3>6, <3>7
  <2>2. PICK v \in Nat : v = q - 1 /\ v >= 1
    BY <1>5
  <2>3. v + D <= v * D + 1
    BY <2>1, <2>2
  <2>4. PICK z \in Nat : z = v * D /\ z + D = u
    BY <1>6, <2>2
  <2> QED BY <1>4, <2>2, <2>3, <2>4
<1>9. (q - 1) * D < M
  <2>1. PICK z \in Nat : z = (q - 1) * D /\ z + D = u
    BY <1>6
  <2> QED BY <1>4, <2>1
<1>10. q * (D + 1) <= 2 * M /\ q * (D + 1) # 0
  BY <1>4, <1>5, <1>7, <1>8
<1> QED BY <1>2, <1>3, <1>4, <1>5, <1>7, <1>9, <1>10 DEF CountOfLeaves

(* It is zero at the roots of the indices, when they are not more than     *)
(* half of all.                                                            *)
LEMMA ZeroPolyHas ==
    ASSUME NEW k \in Nat, NEW w, NEW fs, HasRoots(fs, w, k), Divides(k), fs.MaxWidth = TwoTo(k),
           NEW M \in Nat \ {0}, 2 * M <= TwoTo(k), NEW idx, Length(idx) = M, NEW r,
           RootsAt(fs, idx, r, M)
    PROVE  Vanishes(ZeroPolyViaMultiplication(fs, idx, TwoTo(k)), TwoTo(k), M, Among(r, 0, M))
<1>1. PICK n \in Nat \ {0} : n = TwoTo(k)
  BY TwoToType
<1>2. PICK D \in Nat \ {0}, P \in Nat \ {0} : D = PerLeaf /\ P = PerLeafPoly /\ P = D + 1
  BY PerLeafFacts
<1>3. ZeroPolyViaMultiplication(fs, idx, n) =
          IF M = 0 THEN [i \in 0 .. n - 1 |-> 0]
          ELSE IF M <= PerLeaf
          THEN IF M + 1 > n THEN <<>> ELSE makeZeroPolyMulLeaf(fs, n, idx, 1)
          ELSE padZeroPoly(n, reduceTree(fs, TreeOut(fs, idx, M, LeafCount(M)),
                                         TreeLeaves(LeafCount(M))))
  BY <1>1, ZeroPolyIs
<1>4. CASE M <= D
  <2>1. M < n /\ ~(M + 1 > n) /\ M # 0
    BY <1>1
  <2>2. ZeroPolyViaMultiplication(fs, idx, n) = makeZeroPolyMulLeaf(fs, n, idx, 1)
    BY <1>2, <1>3, <1>4, <2>1
  <2> QED BY <1>1, <2>1, <2>2, OneLeafIs
<1>5. CASE ~(M <= D)
  <2>1. PICK c : c = LeafCount(M)
    OBVIOUS
  <2>2. CountOfLeaves(M, D, c)
    BY <1>2, <1>5, <2>1, LeafCountIs DEF LeafCount
  <2>3. PICK m \in Nat \ {0} : m = c * P /\ m <= n
    BY <1>1, <1>2, <2>2 DEF CountOfLeaves
  <2>4. PICK lam \in Nat : m <= TwoTo(lam) /\ TwoTo(lam) < 2 * m
    BY PowerAbove
  <2>5. lam <= k /\ TwoTo(lam) <= n /\ TwoTo(lam) \in Nat
    <3>1. TwoTo(lam) \in Nat
      BY TwoToType
    <3>2. k < lam => 2 * n <= TwoTo(lam)
      BY <1>1, TwoToGrows
    <3>3. lam <= k
      BY <2>3, <2>4, <3>1, <3>2
    <3> QED BY <1>1, <3>1, <3>3, TwoToOrder
  <2>6. CanTransform(fs, lam)
    <3>1. ASSUME NEW j \in 0 .. lam
          PROVE  \E y : HasTransforms(fs, y, j)
      <4>1. j \in 0 .. k
        BY <2>5
      <4>2. PICK y : y = ExpModFr(w, TwoTo(k - j))
        OBVIOUS
      <4> QED BY <4>1, <4>2, InplaceTransforms
    <3> QED BY <1>1, <2>5, <3>1 DEF CanTransform
  <2>7. PICK g : GoodTree([out |-> TreeOut(fs, idx, M, c), leaves |-> TreeLeaves(c)],
                          lam, g, D, c, r, M)
    <3>1. c \in Nat \ {0} /\ (c - 1) * PerLeaf < M /\ M <= c * PerLeaf
      BY <1>2, <2>2 DEF CountOfLeaves
    <3>2. c * PerLeafPoly <= TwoTo(lam) /\ TwoTo(lam) < 2 * (c * PerLeafPoly)
      BY <1>2, <2>3, <2>4
    <3>3. \E h : GoodTree([out |-> TreeOut(fs, idx, M, c), leaves |-> TreeLeaves(c)],
                          lam, h, PerLeaf, c, r, M)
      BY <3>1, <3>2, FirstTree
    <3> QED BY <1>2, <3>3
  <2>8. PICK z : z = reduceTree(fs, TreeOut(fs, idx, M, c), TreeLeaves(c))
    OBVIOUS
  <2>9. PICK l \in 1 .. TwoTo(lam) : Vanishes(z, l, M, Among(r, 0, M)) /\ z \in [0 .. l - 1 -> Fr]
    BY <2>6, <2>7, <2>8, ReduceTreeHas
  <2>10. l \in Nat /\ l <= n /\ Length(z) = l
    <3>1. DOMAIN z = 0 .. l - 1 /\ l \in Nat
      BY <2>9
    <3> QED BY <2>5, <3>1, LengthIs
  <2>11. padZeroPoly(n, z) = padPoly(n, z)
    BY <2>9, <2>10 DEF padZeroPoly
  <2>12. Vanishes(padPoly(n, z), n, M, Among(r, 0, M))
    BY <2>9, <2>10, PadVanishes
  <2>13. ZeroPolyViaMultiplication(fs, idx, n) = padZeroPoly(n, z)
    BY <1>2, <1>3, <1>5, <2>1, <2>8
  <2> QED BY <1>1, <2>11, <2>12, <2>13
<1> QED BY <1>4, <1>5

-----------------------------------------------------------------------------
(* Recovery of the values of a polynomial from enough of them.             *)

(* The powers of a root are all different.                                 *)
LEMMA RootPowersDiffer ==
    ASSUME NEW k \in Nat, NEW w, IsRoot(w, k), MinusOne # 1
    PROVE  \A i, j \in 0 .. TwoTo(k) - 1 : ExpModFr(w, i) = ExpModFr(w, j) => i = j
<1>1. PICK n \in Nat : n = TwoTo(k) /\ w \in Fr
  BY TwoToType DEF IsRoot
<1>2. ASSUME NEW i \in 0 .. n - 1, NEW j \in 0 .. n - 1, i < j, ExpModFr(w, i) = ExpModFr(w, j)
      PROVE  FALSE
  <2>1. PICK e \in Nat : e = j - i /\ j = i + e /\ e \in 1 .. n - 1 /\ i \in Nat
    BY <1>2
  <2>2. ExpModFr(w, j) = ExpModFr(w, i) \odot ExpModFr(w, e)
    BY <1>1, <2>1, ExpAdds
  <2>3. ExpModFr(w, i) \in Fr /\ ExpModFr(w, i) # 0 /\ ExpModFr(w, e) \in Fr
    BY <1>1, <2>1, RootNotZero, ExpType
  <2>4. PICK x \in Fr, y \in Fr : x = ExpModFr(w, i) /\ y = ExpModFr(w, e)
    BY <2>3
  <2>5. y \odot x = 1 \odot x /\ x # 0 /\ 1 \in Fr
    <3>1. x \odot y = y \odot x /\ 1 \odot x = x
      BY FrCommutes, FrUnits
    <3> QED BY <1>2, <2>2, <2>3, <2>4, <3>1, ModulusFacts
  <2>6. y = 1
    BY <2>5, FrCancel
  <2>7. ExpModFr(w, e) # 1
    BY <1>1, <2>1, RootNotOne
  <2> QED BY <2>4, <2>6, <2>7
<1>3. TAKE i, j \in 0 .. TwoTo(k) - 1
<1>4. HAVE ExpModFr(w, i) = ExpModFr(w, j)
<1>5. ~(i < j) /\ ~(j < i)
  BY <1>1, <1>2, <1>4
<1> QED BY <1>1, <1>5

(* They are roots themselves.                                              *)
LEMMA RootPowerIsRoot ==
    ASSUME NEW k \in Nat, NEW w, IsRoot(w, k), NEW i \in Nat
    PROVE  ExpModFr(ExpModFr(w, i), TwoTo(k)) = 1
<1>1. PICK n \in Nat : n = TwoTo(k) /\ w \in Fr
  BY TwoToType DEF IsRoot
<1>2. ExpModFr(w, i * n) = ExpModFr(ExpModFr(w, i), n)
  BY <1>1, ExpTimes
<1>3. i * n = n * i + 0
  OBVIOUS
<1>4. ExpModFr(w, n * i + 0) = ExpModFr(w, 0)
  BY <1>1, RootPeriod
<1>5. ExpModFr(w, 0) = 1
  BY <1>1, ExpZero
<1> QED BY <1>1, <1>2, <1>3, <1>4, <1>5

(* The points the shifted polynomials are divided at are no roots.         *)
LEMMA ShiftLeaves ==
    ASSUME NEW k \in Nat, NEW w, IsRoot(w, k), shiftFactor \in Fr \ {0},
           ExpModFr(shiftFactor, TwoTo(k)) # 1, NEW i \in Nat, NEW j \in Nat
    PROVE  InvModFr(shiftFactor) \odot ExpModFr(w, i) # ExpModFr(w, j)
<1>1. SUFFICES ASSUME InvModFr(shiftFactor) \odot ExpModFr(w, i) = ExpModFr(w, j)
               PROVE  FALSE
  OBVIOUS
<1>2. PICK s \in Fr : s = shiftFactor /\ s # 0
  OBVIOUS
<1>3. PICK v \in Fr : v = InvModFr(s) /\ s \odot v = 1
  BY <1>2, FrInverse
<1>4. PICK n \in Nat : n = TwoTo(k) /\ w \in Fr
  BY TwoToType DEF IsRoot
<1>5. PICK x \in Fr, y \in Fr : x = ExpModFr(w, i) /\ y = ExpModFr(w, j)
  BY <1>4, ExpType
<1>6. v \odot x = y
  BY <1>1, <1>2, <1>3, <1>5
<1>7. x = s \odot y
  <2>1. (s \odot v) \odot x = s \odot (v \odot x)
    BY FrAssociates
  <2>2. 1 \odot x = x
    BY FrUnits
  <2> QED BY <1>3, <1>6, <2>1, <2>2
<1>8. ExpModFr(s \odot y, n) = ExpModFr(s, n) \odot ExpModFr(y, n)
  BY ExpProduct
<1>9. ExpModFr(x, n) = 1 /\ ExpModFr(y, n) = 1
  BY <1>4, <1>5, RootPowerIsRoot
<1>10. ExpModFr(s, n) \in Fr /\ ExpModFr(s, n) \odot 1 = ExpModFr(s, n)
  <2>1. ExpModFr(s, n) \in Fr
    BY ExpType
  <2> QED BY <2>1, FrUnits
<1>11. ExpModFr(s, n) = 1
  BY <1>7, <1>8, <1>9, <1>10
<1> QED BY <1>2, <1>4, <1>11

(* The samples are values of c, some missing.                              *)
TakenOf(samples, c, w, k) ==
    /\ DOMAIN samples = 0 .. TwoTo(k) - 1
    /\ \A i \in 0 .. TwoTo(k) - 1 : samples[i] \in {Nil, Transform(c, w, k)[i]}

(* RecoverPolyFromSamples gives all values when no more than half are      *)
(* missing, and panics when none is.                                       *)
THEOREM HalfIsEnough ==
    ASSUME NEW k \in Nat, NEW w, NEW fs, HasRoots(fs, w, k), Divides(k), fs.MaxWidth = TwoTo(k),
           NEW c, IsSlice(c, k), NEW a \in Nat, UpTo(c, TwoTo(k), a),
           shiftFactor \in Fr \ {0}, ExpModFr(shiftFactor, TwoTo(k)) # 1,
           NEW samples, TakenOf(samples, c, w, k),
           NEW M, M = Cardinality(NilsOf(samples)), 2 * M <= TwoTo(k), a + M < TwoTo(k)
    PROVE  RecoverPolyFromSamples(fs, samples)
               = IF M = 0 THEN Failure("panic") ELSE Answer(Transform(c, w, k))
<1>1. PICK n \in Nat \ {0} : n = TwoTo(k)
  BY TwoToType
<1>2. IsRoot(w, k) /\ w \in Fr /\ MinusOne # 1
  BY DEF HasRoots, Powers, IsRoot, Divides
<1>3. PICK nils \in SUBSET (0 .. n - 1) : nils = NilsOf(samples)
  <2>1. \A i \in NilsOf(samples) : i \in 0 .. n - 1
    BY <1>1 DEF NilsOf, TakenOf
  <2> QED BY <2>1
<1>4. PICK idx : idx = missingIndices(samples) /\ IndicesAre(idx, nils, M)
  BY <1>1, <1>3, MissingAre DEF TakenOf
<1>5. M \in Nat /\ Length(idx) = M
  BY <1>4 DEF IndicesAre
<1>6. PICK r : r = [j \in 0 .. M - 1 |-> ExpModFr(w, idx[j])]
  OBVIOUS
<1>7. ASSUME NEW j \in 0 .. M - 1
      PROVE  /\ idx[j] \in nils /\ idx[j] \in Nat /\ idx[j] \in 0 .. n
             /\ r[j] = ExpModFr(w, idx[j])
  <2>1. idx[j] \in nils
    BY <1>4 DEF IndicesAre
  <2>2. idx[j] \in 0 .. n - 1
    BY <2>1
  <2> QED BY <1>6, <2>1, <2>2
<1>8. RootsAt(fs, idx, r, M)
  <2>1. ASSUME NEW j \in 0 .. M - 1
        PROVE  idx[j] \in Nat /\ r[j] = fs.ExpandedRootsOfUnity[idx[j]] /\ r[j] \in Fr
    <3>1. fs.ExpandedRootsOfUnity[idx[j]] = ExpModFr(w, idx[j])
      BY <1>1, <1>7 DEF HasRoots, Powers
    <3>2. ExpModFr(w, idx[j]) \in Fr
      BY <1>2, <1>7, ExpType
    <3> QED BY <1>7, <3>1, <3>2
  <2> QED BY <2>1 DEF RootsAt
<1>9. PICK S : S = Among(r, 0, M)
  OBVIOUS
<1>10. ASSUME NEW x \in S
       PROVE  \E i \in nils : x = ExpModFr(w, i)
  <2>1. PICK j \in 0 .. M - 1 : x = r[j]
    BY <1>9 DEF Among
  <2> QED BY <1>7, <2>1
<1>11. ASSUME NEW i \in nils
       PROVE  ExpModFr(w, i) \in S
  <2>1. PICK j \in 0 .. M - 1 : idx[j] = i
    BY <1>4 DEF IndicesAre
  <2> QED BY <1>7, <1>9, <2>1 DEF Among
<1>12. ASSUME NEW i \in 0 .. n - 1
       PROVE  ExpModFr(w, i) \in S <=> i \in nils
  <2>1. ASSUME NEW j \in nils, ExpModFr(w, i) = ExpModFr(w, j)
        PROVE  i = j
    <3>1. j \in 0 .. n - 1
      OBVIOUS
    <3> QED BY <1>1, <1>2, <2>1, <3>1, RootPowersDiffer
  <2> QED BY <1>10, <1>11, <2>1
<1>13. SamplesOf(samples, c, w, k, S)
  <2>1. ASSUME NEW i \in 0 .. n - 1
        PROVE  samples[i] = IF ExpModFr(w, i) \in S THEN Nil ELSE Transform(c, w, k)[i]
    <3>1. i \in nils <=> samples[i] = Nil
      BY <1>1, <1>3 DEF NilsOf, TakenOf
    <3>2. samples[i] \in {Nil, Transform(c, w, k)[i]}
      BY <1>1 DEF TakenOf
    <3> QED BY <1>12, <3>1, <3>2
  <2> QED BY <1>1, <2>1 DEF SamplesOf, TakenOf
<1>14. ShiftAvoids(w, k, S)
  <2>1. ASSUME NEW i \in 0 .. n - 1, InvModFr(shiftFactor) \odot ExpModFr(w, i) \in S
        PROVE  FALSE
    <3>1. PICK j \in nils : InvModFr(shiftFactor) \odot ExpModFr(w, i) = ExpModFr(w, j)
      BY <1>10, <2>1
    <3>2. i \in Nat /\ j \in Nat
      OBVIOUS
    <3> QED BY <1>2, <3>1, <3>2, ShiftLeaves
  <2> QED BY <1>1, <2>1 DEF ShiftAvoids
<1>15. DOMAIN samples = 0 .. n - 1 /\ Length(samples) = n
  <2>1. DOMAIN samples = 0 .. n - 1
    BY <1>1 DEF TakenOf
  <2> QED BY <2>1, LengthIs
<1>16. CASE M = 0
  <2>1. nils = {}
    <3>1. IsFiniteSet(nils)
      <4>1. IsFiniteSet(0 .. n - 1)
        BY FS_Interval
      <4> QED BY <4>1, FS_Subset
    <3> QED BY <1>3, <1>16, <3>1, FS_EmptySet
  <2>2. 0 \in 0 .. n - 1 /\ samples[0] # Nil
    <3>1. 0 \in 0 .. n - 1
      OBVIOUS
    <3>2. 0 \notin NilsOf(samples)
      BY <1>3, <2>1
    <3> QED BY <1>15, <3>1, <3>2 DEF NilsOf
  <2>3. ZeroPolyViaMultiplication(fs, idx, n) = [i \in 0 .. n - 1 |-> 0]
    BY <1>1, <1>5, <1>16, ZeroPolyIs
  <2>4. RecoverPolyFromSamples(fs, samples) = Failure("panic")
    BY <1>1, <1>4, <1>15, <2>2, <2>3, NothingMissing
  <2> QED BY <1>16, <2>4
<1>17. CASE M # 0
  <2>1. PICK Z : Z = ZeroPolyViaMultiplication(fs, idx, n)
    OBVIOUS
  <2>2. Vanishes(Z, n, M, S)
    <3>1. M \in Nat \ {0}
      BY <1>5, <1>17
    <3> QED BY <1>1, <1>5, <1>8, <1>9, <2>1, <3>1, ZeroPolyHas
  <2>3. RecoverPolyFromSamples(fs, samples) = Answer(Transform(c, w, k))
    BY <1>1, <1>4, <1>5, <1>13, <1>14, <2>1, <2>2, RecoversWith
  <2> QED BY <1>17, <2>3
<1> QED BY <1>16, <1>17

-----------------------------------------------------------------------------
(* What the receiver recovers.                                             *)

(* In the order of the domain as many values are missing.                  *)
LEMMA AsManyMissing ==
    ASSUME NEW k \in Nat, NEW a, DOMAIN a = 0 .. TwoTo(k) - 1
    PROVE  /\ Cardinality(NilsOf(reverseBitOrder(a))) = Cardinality(NilsOf(a))
           /\ IsFiniteSet(NilsOf(a))
<1>1. PICK n \in Nat : n = TwoTo(k)
  BY TwoToType
<1>2. PICK b : /\ b = reverseBitOrder(a) /\ DOMAIN b = 0 .. n - 1
               /\ \A i \in 0 .. n - 1 : b[i] = a[Rev(k, i)]
               /\ \A i \in 0 .. n - 1 : b[Rev(k, i)] = a[i]
  BY <1>1, ReverseIs
<1>3. PICK A, B : A = NilsOf(a) /\ B = NilsOf(b)
  OBVIOUS
<1>4. /\ \A i : i \in A <=> i \in 0 .. n - 1 /\ a[i] = Nil
      /\ \A i : i \in B <=> i \in 0 .. n - 1 /\ b[i] = Nil
  BY <1>1, <1>2, <1>3 DEF NilsOf
<1>5. \A i \in 0 .. n - 1 : Rev(k, i) \in 0 .. n - 1 /\ Rev(k, Rev(k, i)) = i
  BY <1>1, RevTwice
<1>6. PICK f : f = [i \in A |-> Rev(k, i)]
  OBVIOUS
<1>7. f \in [A -> B] /\ DOMAIN f = A
  <2>1. \A i \in A : f[i] \in B
    BY <1>2, <1>4, <1>5, <1>6
  <2> QED BY <1>6, <2>1
<1>8. IsInjective(f)
  <2>1. ASSUME NEW i \in A, NEW j \in A, f[i] = f[j]
        PROVE  i = j
    <3>1. i \in 0 .. n - 1 /\ j \in 0 .. n - 1
      BY <1>4
    <3>2. Rev(k, f[i]) = i /\ Rev(k, f[j]) = j
      BY <1>5, <1>6, <3>1
    <3> QED BY <2>1, <3>2
  <2> QED BY <1>7, <2>1 DEF IsInjective
<1>9. \A t \in B : \E s \in A : f[s] = t
  <2>1. TAKE t \in B
  <2>2. t \in 0 .. n - 1 /\ b[t] = Nil
    BY <1>4
  <2>3. Rev(k, t) \in A
    BY <1>2, <1>4, <1>5, <2>2
  <2>4. f[Rev(k, t)] = t
    BY <1>5, <1>6, <2>2, <2>3
  <2> QED BY <2>3, <2>4
<1>10. ExistsBijection(A, B)
  <2>1. f \in Bijection(A, B)
    BY <1>7, <1>8, <1>9 DEF Bijection, Injection, Surjection
  <2> QED BY <2>1 DEF ExistsBijection
<1>11. IsFiniteSet(A)
  <2>1. A \in SUBSET (0 .. n - 1)
    BY <1>4
  <2>2. IsFiniteSet(0 .. n - 1)
    BY FS_Interval
  <2> QED BY <2>1, <2>2, FS_Subset
<1>12. Cardinality(B) = Cardinality(A)
  BY <1>10, <1>11, FS_Bijection
<1> QED BY <1>2, <1>3, <1>11, <1>12

(* What was recovered is what RecoverPolyFromSamples makes of the values   *)
(* received.                                                               *)
RecoveredKept ==
    phase = "recovered" => recovered = RecoverPolyFromSamples(ks, reverseBitOrder(received))

(* Nothing has been recovered at first, ...                                *)
LEMMA RecoveredInit == Init => RecoveredKept
BY DEF Init, RecoveredKept

(* ... and only Recover recovers; nothing is received after it.            *)
LEMMA RecoveredNext == RecoveredKept /\ [Next]_vars => RecoveredKept'
<1> SUFFICES ASSUME RecoveredKept, [Next]_vars
             PROVE  RecoveredKept'
  OBVIOUS
<1>1. CASE Extend \/ Commit \/ Prove
  <2>1. phase' # "recovered"
    BY <1>1 DEF Extend, Commit, Prove
  <2> QED BY <2>1 DEF RecoveredKept
<1>2. CASE Recover
  <2>1. recovered' = RecoverPolyFromSamples(ks, reverseBitOrder(received)) /\ UNCHANGED <<data, received>>
    BY <1>2 DEF Recover
  <2>2. ks' = ks
    BY <2>1 DEF ks
  <2> QED BY <2>1, <2>2 DEF RecoveredKept
<1>3. ASSUME NEW i \in 0 .. sampleCount - 1, Receive(i)
      PROVE  RecoveredKept'
  <2>1. phase' # "recovered"
    BY <1>3 DEF Receive
  <2> QED BY <2>1 DEF RecoveredKept
<1>4. CASE UNCHANGED vars
  <2>1. UNCHANGED <<phase, data, received, recovered>>
    BY <1>4 DEF vars
  <2>2. ks' = ks
    BY <2>1 DEF ks
  <2> QED BY <2>1, <2>2 DEF RecoveredKept
<1> QED BY <1>1, <1>2, <1>3, <1>4 DEF Next

(* The extended data from any half of it.                                  *)
LEMMA RecoveredIs ==
    SenderInv /\ ReceivedInv /\ RecoveredKept => RecoveredFromHalf
<1> SUFFICES ASSUME SenderInv, ReceivedInv, RecoveredKept, phase = "recovered",
                    Cardinality(Missing) <= Length(data)
             PROVE  recovered = IF Missing = {} THEN Failure("panic") ELSE Answer(extended)
  BY DEF RecoveredFromHalf
<1>1. data \in Data /\ extended = ExtendedOf(data)
  BY DEF SenderInv, DataKept, ExtendedKept
<1>2. PICK l \in Nat : l = Length(data)
  BY <1>1, DataFacts
<1>3. PICK k \in Nat : k = Log(data) + 1 /\ 2 * l = TwoTo(k) /\ l > 0
  BY <1>1, <1>2, DataFacts, DataAssumption
<1>4. PICK w : w = Root(data)
  OBVIOUS
<1>5. HasRoots(ks, w, k) /\ Divides(k) /\ ks.MaxWidth = TwoTo(k)
  BY <1>1, <1>3, <1>4, SettingsFacts DEF ks
<1>6. PICK c : /\ c = PolyOf(data) /\ IsSlice(c, k) /\ extended = Transform(c, w, k)
               /\ \A i \in l .. 2 * l - 1 : c[i] = 0
  BY <1>1, <1>2, <1>3, <1>4, PolyFacts, LowerIs DEF ExtendedOf
<1>7. l - 1 \in Nat /\ UpTo(c, TwoTo(k), l - 1)
  <2>1. l - 1 \in Nat
    BY <1>3
  <2>2. ASSUME NEW i \in 0 .. TwoTo(k) - 1, i > l - 1
        PROVE  c[i] = 0
    <3>1. i \in l .. 2 * l - 1
      BY <1>3, <2>2
    <3> QED BY <1>6, <3>1
  <2> QED BY <2>1, <2>2 DEF UpTo
<1>8. shiftFactor \in Fr \ {0} /\ ExpModFr(shiftFactor, TwoTo(k)) # 1
  <2>1. shiftFactor \in Fr /\ ExpModFr(shiftFactor, 2 * l) # 1
    BY <1>1, <1>2, ShiftAssumption
  <2> QED BY <1>3, <2>1 DEF shiftFactor
<1>9. /\ DOMAIN received = 0 .. TwoTo(k) - 1
      /\ \A p \in 0 .. TwoTo(k) - 1 : received[p] \in {Nil, reverseBitOrder(extended)[p]}
  <2>1. DOMAIN received = 0 .. size - 1 /\ TakenAsSent
    BY DEF ReceivedInv
  <2>2. size = TwoTo(k)
    BY <1>2, <1>3 DEF size
  <2> QED BY <2>1, <2>2 DEF TakenAsSent
<1>10. PICK samples : /\ samples = reverseBitOrder(received) /\ DOMAIN samples = 0 .. TwoTo(k) - 1
                      /\ \A i \in 0 .. TwoTo(k) - 1 : samples[i] = received[Rev(k, i)]
  <2>1. reverseBitOrder(received) = [i \in 0 .. TwoTo(k) - 1 |-> received[Rev(k, i)]]
    BY <1>3, <1>9, ReverseIs
  <2>2. PICK samples : samples = [i \in 0 .. TwoTo(k) - 1 |-> received[Rev(k, i)]]
    OBVIOUS
  <2>3. DOMAIN samples = 0 .. TwoTo(k) - 1
    BY <2>2
  <2> QED BY <2>1, <2>2, <2>3
<1>11. TakenOf(samples, c, w, k)
  <2>1. DOMAIN extended = 0 .. TwoTo(k) - 1
    BY <1>6 DEF Transform
  <2>2. ASSUME NEW i \in 0 .. TwoTo(k) - 1
        PROVE  samples[i] \in {Nil, Transform(c, w, k)[i]}
    <3>1. Rev(k, i) \in 0 .. TwoTo(k) - 1
      BY RevTwice
    <3>2. samples[i] \in {Nil, reverseBitOrder(extended)[Rev(k, i)]}
      BY <1>9, <1>10, <3>1
    <3>3. reverseBitOrder(extended)[Rev(k, i)] = extended[i]
      BY <2>1, ReverseIs
    <3> QED BY <1>6, <3>2, <3>3
  <2> QED BY <1>10, <2>2 DEF TakenOf
<1>12. PICK M \in Nat : /\ M = Cardinality(NilsOf(samples)) /\ M <= l
                        /\ M = 0 <=> Missing = {}
  <2>1. Missing = NilsOf(received)
    BY DEF Missing, NilsOf
  <2>2. Cardinality(NilsOf(samples)) = Cardinality(Missing) /\ IsFiniteSet(Missing)
    BY <1>9, <1>10, <2>1, AsManyMissing
  <2>3. Cardinality(Missing) \in Nat /\ (Cardinality(Missing) = 0 <=> Missing = {})
    BY <2>2, FS_CardinalityType, FS_EmptySet
  <2> QED BY <1>2, <2>2, <2>3
<1>13. 2 * M <= TwoTo(k) /\ (l - 1) + M < TwoTo(k)
  BY <1>3, <1>12
<1>14. RecoverPolyFromSamples(ks, samples) = IF M = 0 THEN Failure("panic") ELSE Answer(Transform(c, w, k))
  <2>1. PICK e \in Nat : e = l - 1 /\ UpTo(c, TwoTo(k), e) /\ e + M < TwoTo(k)
    BY <1>7, <1>13
  <2>2. PICK fs : fs = ks
    OBVIOUS
  <2>3. HasRoots(fs, w, k) /\ Divides(k) /\ fs.MaxWidth = TwoTo(k)
    BY <1>5, <2>2
  <2>4. RecoverPolyFromSamples(fs, samples) = IF M = 0 THEN Failure("panic") ELSE Answer(Transform(c, w, k))
    BY ONLY <1>6, <1>8, <1>11, <1>12, <1>13, <2>1, <2>3, k \in Nat, HalfIsEnough
  <2> QED BY <2>2, <2>4
<1> QED BY <1>6, <1>10, <1>12, <1>14 DEF RecoveredKept

(* Whatever was lost or refused on the way, half of the values is enough:  *)
(* RecoverPolyFromSamples answers with those the sender extended its data  *)
(* to, and panics when none is missing.                                    *)
THEOREM HalfRecovers == Spec => []RecoveredFromHalf
<1>1. Init => SenderInv /\ ReceivedInv /\ RecoveredKept
  BY SenderInit, ReceivedInit, RecoveredInit
<1>2. SenderInv /\ ReceivedInv /\ RecoveredKept /\ [Next]_vars
          => (SenderInv /\ ReceivedInv /\ RecoveredKept)'
  BY SenderNext, ReceivedNext, RecoveredNext
<1>3. Spec => [](SenderInv /\ ReceivedInv /\ RecoveredKept)
  BY <1>1, <1>2, PTL DEF Spec
<1> QED BY <1>3, RecoveredIs, PTL
=============================================================================
