------------------------------- MODULE Field -------------------------------
(***************************************************************************)
(* The scalars and the groups of the polynomial commitments (kzg_bls).     *)
(*                                                                         *)
(* A scalar is an integer modulo the order of the groups.  A point of G1   *)
(* or G2 is its exponent to the generator, so that MulG1 and AddG1 are     *)
(* MulModFr and AddModFr, and the pairing of two points is the product of  *)
(* their exponents.  A slice of n elements is a function on 0 .. n - 1,    *)
(* indexed as in the code.                                                 *)
(***************************************************************************)
EXTENDS Integers, FiniteSets, Sequences

CONSTANTS
    Modulus,        \* order of the groups
    PrimitiveRoot   \* generator the roots of unity are powers of: 7 in globals.go

Fr == 0 .. Modulus - 1

-----------------------------------------------------------------------------
(* Slices.  The choice leaves the function as it is: the comparison makes  *)
(* TLC compute its elements once, not at each application.                 *)

Slice(f) == CHOOSE g \in {f} : g = g

Length(a) == Cardinality(DOMAIN a)

(* a[from : to] *)
SubSlice(a, from, to) == Slice([i \in 0 .. to - from - 1 |-> a[from + i]])

-----------------------------------------------------------------------------
(* bignum_kzg.go: the arithmetic is the library's; Inv of 0 is 0.          *)

AddModFr(a, b) == (a + b) % Modulus
SubModFr(a, b) == (a - b) % Modulus
MulModFr(a, b) == (a * b) % Modulus

InverseOf == Slice([a \in Fr |-> IF a = 0 THEN 0 ELSE CHOOSE b \in Fr : MulModFr(a, b) = 1])
InvModFr(a) == InverseOf[a]
DivModFr(a, b) == MulModFr(a, InvModFr(b))

(* v ** e, by squares *)
ExpModFr(v, e) ==
    LET power[i \in 0 .. e] ==
            IF i = 0 THEN 1
            ELSE IF i % 2 = 0 THEN MulModFr(power[i \div 2], power[i \div 2])
            ELSE MulModFr(power[i - 1], v)
    IN  power[e]

(* a[0] + ... + a[n - 1] *)
SumFr(a, n) ==
    LET sum[i \in 0 .. n] == IF i = 0 THEN 0 ELSE AddModFr(sum[i - 1], a[i - 1])
    IN  sum[n]

(* The order is a prime: all but 0 have an inverse.                        *)
ASSUME ModulusAssumption ==
    /\ Modulus \in Nat \ {0, 1}
    /\ \A a \in 1 .. Modulus - 1 : \E b \in Fr : MulModFr(a, b) = 1
(* The powers of a generator are all but 0; half way they come to - 1.     *)
ASSUME PrimitiveRootAssumption ==
    /\ PrimitiveRoot \in 1 .. Modulus - 1
    /\ ExpModFr(PrimitiveRoot, (Modulus - 1) \div 2) = Modulus - 1

-----------------------------------------------------------------------------
(* 2 ** k *)
TwoTo(k) ==
    LET power[i \in 0 .. k] == IF i = 0 THEN 1 ELSE 2 * power[i - 1]
    IN  power[k]

(* globals.go *)

IsPowerOfTwo(v) == v = 0 \/ \E i \in 0 .. v : v = TwoTo(i)

Scale2RootOfUnity(k) == ExpModFr(PrimitiveRoot, (Modulus - 1) \div TwoTo(k))

EvalPolyAt(coeffs, x) ==
    LET n == Length(coeffs)
        last[i \in 0 .. n] == IF i = n THEN 0
                              ELSE AddModFr(MulModFr(last[i + 1], x), coeffs[i])
    IN  last[0]

(* barycentric formula *)
EvaluatePolyInEvaluationForm(poly, x, rootsOfUnity, scale) ==
    LET width == Length(poly)
        root(i) == rootsOfUnity[i * TwoTo(scale)]
        y == SumFr([i \in DOMAIN poly |->
                        DivModFr(MulModFr(poly[i], root(i)), SubModFr(x, root(i)))], width)
    IN  MulModFr(y, DivModFr(SubModFr(ExpModFr(x, width), 1), width))

-----------------------------------------------------------------------------
(* bls_kzg.go *)

GenG1 == 1
ZeroG1 == 0
MulG1(a, b) == MulModFr(a, b)
AddG1(a, b) == AddModFr(a, b)
SubG1(a, b) == SubModFr(a, b)
GenG2 == 1
MulG2(a, b) == MulModFr(a, b)
SubG2(a, b) == SubModFr(a, b)

LinCombG1(numbers, factors) ==
    SumFr([i \in DOMAIN numbers |-> MulG1(numbers[i], factors[i])], Length(numbers))

(* e(a1, a2) = e(b1, b2) *)
PairingsVerify(a1, a2, b1, b2) == MulModFr(a1, a2) = MulModFr(b1, b2)
=============================================================================
