-------------------------- MODULE DataAvailability --------------------------
(***************************************************************************)
(* A sender extends data to twice its length, commits to the polynomial    *)
(* through it and sends the values in samples, each with its proof; any    *)
(* sample may be lost or altered on the way.  A receiver takes the samples *)
(* whose proof holds and recovers the rest.  This is how the commitments   *)
(* are put together in integration_test.go; all that is computed there is  *)
(* computed by the operators of FFT, KZG and Recovery.                     *)
(***************************************************************************)
EXTENDS KZG, Recovery

CONSTANTS
    Data,           \* slices the sender may have, of lengths that are powers of two
    CosetWidth,     \* CosetWidth[n]: values in a sample, for data of length n
    Secret          \* of the setup

(* of values of Fr; the domain of twice the length is one of roots of unity *)
ASSUME DataAssumption ==
    \A d \in Data :
        /\ Length(d) \in Nat \ {0, 1} /\ IsPowerOfTwo(Length(d))
        /\ d \in [0 .. Length(d) - 1 -> Fr]
        /\ (Modulus - 1) % (2 * Length(d)) = 0
(* NewFK20MultiSettings panics for any other (kzg.go:80)                    *)
ASSUME CosetWidthAssumption ==
    \A d \in Data : \A width \in CosetWidth[Length(d)] :
        width \in 1 .. Length(d) \div 2 /\ IsPowerOfTwo(width)
(* the setup is made of a secret that is no root of unity of the domain *)
ASSUME SecretAssumption ==
    Secret \in Fr /\ \A d \in Data : ExpModFr(Secret, 2 * Length(d)) # 1
(* the points divided at are off the domain (recover_from_samples.go:11) *)
ASSUME ShiftAssumption ==
    shiftFactor \in Fr /\ \A d \in Data : ExpModFr(shiftFactor, 2 * Length(d)) # 1

VARIABLES
    phase,          \* "data", "extended", "committed", "proved", "receiving", "recovered"
    data,           \* evenPoints
    cosetWidth,
    extended,       \* the values at all roots of unity
    poly,           \* extendedAsPoly
    commit,
    proofs,         \* of the samples, in the order of the domain
    singles,        \* of the single values, in reverse bit order
    received,       \* values of the samples taken, in reverse bit order
    recovered,      \* answer of RecoverPolyFromSamples
    legacy          \* answer of ErasureCodeRecover

vars == <<phase, data, cosetWidth, extended, poly, commit, proofs, singles, received,
          recovered, legacy>>

-----------------------------------------------------------------------------
(* Settings and samples *)

Lengths == {Length(d) : d \in Data}

(* the settings for data of length n *)
Settings == [n \in Lengths |->
    LET setup == GenerateTestingSetup(Secret, 2 * n)
    IN  NewKZGSettings(NewFFTSettings(bitIndex(2 * n)), setup, setup)]

SingleSettings == [n \in Lengths |-> NewFK20SingleSettings(Settings[n], 2 * n)]
MultiSettings == [n \in Lengths |-> [width \in CosetWidth[n] |->
    NewFK20MultiSettings(Settings[n], 2 * n, width)]]

ks == Settings[Length(data)]
size == 2 * Length(data)
sampleCount == size \div cosetWidth

(* values of sample i, as the sender cuts them *)
Sub(i) == SubSlice(reverseBitOrder(extended), i * cosetWidth, (i + 1) * cosetWidth)

domainPos(i) == reverseBitsLimited(sampleCount, i)

FaultyVerifies(i, sub) == Length(sub) = cosetWidth     \* fault: proof not looked at

(* the receiver's check of the values it got as sample i *)
Verifies(i, sub) ==
    CheckProofMulti(ks, commit, proofs[domainPos(i)], ks.ExpandedRootsOfUnity[domainPos(i)],
                    reverseBitOrder(sub))

Missing == {p \in DOMAIN received : received[p] = Nil}

-----------------------------------------------------------------------------
Init ==
    /\ phase = "data"
    /\ data \in Data
    /\ cosetWidth \in CosetWidth[Length(data)]
    /\ extended = <<>> /\ poly = <<>> /\ commit = ZeroG1 /\ proofs = <<>> /\ singles = <<>>
    /\ received = Slice([p \in 0 .. size - 1 |-> Nil])
    /\ recovered = Failure("none") /\ legacy = Failure("none")

Extend ==
    /\ phase = "data" /\ phase' = "extended"
    /\ LET odd == DASFFTExtension(ks, data)
       IN  extended' = Slice([p \in 0 .. size - 1 |-> IF p % 2 = 0 THEN data[p \div 2] ELSE odd[p \div 2]])
    /\ UNCHANGED <<data, cosetWidth, poly, commit, proofs, singles, received, recovered, legacy>>

(* the upper half of the coefficients is left out of the commitment *)
Commit ==
    /\ phase = "extended" /\ phase' = "committed"
    /\ LET coeffs == FourierTransform(ks, extended, TRUE)
       IN  /\ poly' = coeffs
           /\ commit' = CommitToPoly(ks, SubSlice(coeffs, 0, Length(data)))
    /\ UNCHANGED <<data, cosetWidth, extended, proofs, singles, received, recovered, legacy>>

Prove ==
    /\ phase = "committed" /\ phase' = "proved"
    /\ proofs' = FK20MultiDAOptimized(MultiSettings[Length(data)][cosetWidth], poly)
    /\ singles' = DAUsingFK20(SingleSettings[Length(data)], SubSlice(poly, 0, Length(data)))
    /\ UNCHANGED <<data, cosetWidth, extended, poly, commit, received, recovered, legacy>>

(* sample i arrives, one of its values perhaps altered *)
Receive(i) ==
    /\ phase \in {"proved", "receiving"} /\ phase' = "receiving"
    /\ \E change \in {0, 1}, j \in {0, cosetWidth - 1} :
          LET sub == [Sub(i) EXCEPT ![j] = AddModFr(@, change)]
          IN  received' = IF Verifies(i, sub)
                          THEN [p \in DOMAIN received |->
                                   IF p \div cosetWidth = i THEN sub[p % cosetWidth] ELSE received[p]]
                          ELSE received
    /\ UNCHANGED <<data, cosetWidth, extended, poly, commit, proofs, singles, recovered, legacy>>

Recover ==
    /\ phase = "receiving" /\ phase' = "recovered"
    /\ LET samples == reverseBitOrder(received)
       IN  /\ recovered' = RecoverPolyFromSamples(ks, samples)
           /\ legacy' = ErasureCodeRecover(ks, samples)
    /\ UNCHANGED <<data, cosetWidth, extended, poly, commit, proofs, singles, received>>

Next ==
    \/ Extend \/ Commit \/ Prove \/ Recover
    \/ \E i \in 0 .. sampleCount - 1 : Receive(i)

Spec == Init /\ [][Next]_vars

-----------------------------------------------------------------------------
(* What the computations promise one another *)

(* The values DASFFTExtension adds at the odd indices make the upper half  *)
(* of the coefficients zero, and the polynomial still runs through the     *)
(* data at the even ones (das_extension.go:68).                            *)
ExtensionHalvesDegree ==
    phase \notin {"data", "extended"} =>
        /\ \A i \in Length(data) .. size - 1 : poly[i] = 0
        /\ \A i \in DOMAIN data : EvalPolyAt(poly, ks.ExpandedRootsOfUnity[2 * i]) = data[i]

(* The commitment to the lower coefficients is the one CommitToEvalPoly    *)
(* computes from all the values, and both are the value of the polynomial  *)
(* at the secret, whichever of the two evaluations is asked.               *)
CommitmentsAgree ==
    phase = "committed" =>
        /\ commit = CommitToEvalPoly(FFTG1(ks, ks.SecretG1, TRUE), extended)
        /\ commit = EvalPolyAt(poly, Secret)
        /\ commit = EvaluatePolyInEvaluationForm(extended, Secret,
                       SubSlice(ks.ExpandedRootsOfUnity, 0, size), 0)

(* The proofs the products with the Toeplitz matrix give all at once are   *)
(* those long division gives one by one, with and without the extension,   *)
(* and CheckProofSingle accepts each for its value.                        *)
SingleProofsAgree ==
    phase = "proved" =>
        LET lower == SubSlice(poly, 0, Length(data))
            proof(p) == singles[reverseBitsLimited(size, p)]
            x(p) == ks.ExpandedRootsOfUnity[p]
            ofLower == FK20Single(SingleSettings[Length(data)], lower)
        IN  \A p \in 0 .. size - 1 :
                /\ proof(p) = ComputeProofSingle(ks, lower, x(p))
                /\ p % 2 = 0 => proof(p) = ofLower[p \div 2]
                /\ CheckProofSingle(ks, commit, proof(p), x(p), extended[p])

(* Every sample is accepted as it is sent: the bit orders of the values,   *)
(* of the proofs and of the points they are for fit together, and          *)
(* DAUsingFK20Multi has the proofs in the order of the samples.            *)
SamplesVerify ==
    phase = "proved" =>
        LET ordered == DAUsingFK20Multi(MultiSettings[Length(data)][cosetWidth],
                                        SubSlice(poly, 0, Length(data)))
        IN  \A i \in 0 .. sampleCount - 1 :
                Verifies(i, Sub(i)) /\ ordered[i] = proofs[domainPos(i)]

(* A receiver never takes an altered sample: CheckProofMulti tells.        *)
TakenAsSent ==
    \A p \in DOMAIN received :
        received[p] # Nil => received[p] = reverseBitOrder(extended)[p]

(* Any half of the values is enough for RecoverPolyFromSamples, also when  *)
(* the zero polynomial is a product of several leaves built over each      *)
(* other; with all of them there it panics (recover_from_samples.go:56).   *)
RecoveredFromHalf ==
    phase = "recovered" /\ Cardinality(Missing) <= Length(data) =>
        recovered = IF Missing = {} THEN Failure("panic") ELSE Answer(extended)

(* So does ErasureCodeRecover within its attempts, unless so few values    *)
(* are missing that the naive zero polynomial has fewer evaluations than   *)
(* there are values: it then indexes beyond them (legacy_recovery.go:188). *)
LegacyAgrees ==
    phase = "recovered" /\ Cardinality(Missing) <= Length(data) =>
        legacy = IF Cardinality(Missing) <= 4 /\ nextPowOf2(Cardinality(Missing) + 1) < size
                 THEN Failure("panic") ELSE Answer(extended)
=============================================================================
