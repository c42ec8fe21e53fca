-------------------------------- MODULE KZG --------------------------------
(***************************************************************************)
(* Polynomial commitments: the setup (setup.go, kzg.go), commitments and   *)
(* proofs at one point (kzg_single_proofs.go, poly.go) and at the points   *)
(* of a coset (kzg_multi_proofs.go), and all proofs of a polynomial at     *)
(* once by the products with a Toeplitz matrix of FK20 (fk20_single.go,    *)
(* fk20_multi.go).  A polynomial is the slice of its coefficients.         *)
(***************************************************************************)
EXTENDS FFT

(* powers of the secret, in G1 and in G2 *)
GenerateTestingSetup(secret, n) == Slice([i \in 0 .. n - 1 |-> MulG1(GenG1, ExpModFr(secret, i))])

NewKZGSettings(fs, secretG1, secretG2) ==
    [MaxWidth |-> fs.MaxWidth,
     ExpandedRootsOfUnity |-> fs.ExpandedRootsOfUnity,
     ReverseRootsOfUnity |-> fs.ReverseRootsOfUnity,
     SecretG1 |-> secretG1, SecretG2 |-> secretG2]

-----------------------------------------------------------------------------
(* poly.go, kzg_single_proofs.go *)

(* long division: quotient of the polynomials *)
polyLongDiv(dividend, divisor) ==
    LET bPos == Length(divisor) - 1
        steps == Length(dividend) - bPos            \* diff + 1 at the start
        \* a and out after k steps; the next one is at diff == steps - 1 - k
        run[k \in 0 .. steps] ==
            IF k = 0 THEN [a |-> dividend, out |-> Slice([i \in 0 .. steps - 1 |-> 0])]
            ELSE LET before == run[k - 1]
                     diff == steps - k
                     quot == DivModFr(before.a[diff + bPos], divisor[bPos])
                 IN  [a |-> Slice([i \in DOMAIN dividend |->
                                IF i - diff \in 0 .. bPos
                                THEN SubModFr(before.a[i], MulModFr(quot, divisor[i - diff]))
                                ELSE before.a[i]]),
                      out |-> [before.out EXCEPT ![diff] = quot]]
    IN  run[steps].out

CommitToEvalPoly(secretG1IFFT, eval) == LinCombG1(secretG1IFFT, eval)

CommitToPoly(ks, coeffs) == LinCombG1(SubSlice(ks.SecretG1, 0, Length(coeffs)), coeffs)

ComputeProofSingle(ks, poly, x) ==
    LET divisor == Slice([i \in 0 .. 1 |-> IF i = 0 THEN SubModFr(0, x) ELSE 1])
    IN  CommitToPoly(ks, polyLongDiv(poly, divisor))

CheckProofSingleG1(ks, commitment, proof, x, yG1) ==
    LET sMinusX == SubG2(ks.SecretG2[1], MulG2(GenG2, x))
    IN  PairingsVerify(SubG1(commitment, yG1), GenG2, proof, sMinusX)

CheckProofSingle(ks, commitment, proof, x, y) ==
    CheckProofSingleG1(ks, commitment, proof, x, MulG1(GenG1, y))

-----------------------------------------------------------------------------
(* kzg_multi_proofs.go: a proof at the n points x * w^i *)

(* xPowN starts at the zero value and is multiplied n times by x *)
ComputeProofMulti(ks, poly, x, n) ==
    LET xPowN[i \in 0 .. n] == IF i = 0 THEN 0 ELSE MulModFr(xPowN[i - 1], x)
        divisor == Slice([i \in 0 .. n |->
            IF i = 0 THEN SubModFr(0, xPowN[n]) ELSE IF i = n THEN 1 ELSE 0])
    IN  CommitToPoly(ks, polyLongDiv(poly, divisor))

CheckProofMulti(ks, commitment, proof, x, ys) ==
    LET n == Length(ys)
        onSubgroup == FourierTransform(ks, ys, TRUE)
        interpolationPoly == Slice([i \in 0 .. n - 1 |-> DivModFr(onSubgroup[i], ExpModFr(x, i))])
        xnMinusYn == SubG2(ks.SecretG2[n], MulG2(GenG2, ExpModFr(x, n)))
    IN  PairingsVerify(SubG1(commitment, CommitToPoly(ks, interpolationPoly)), GenG2,
                       proof, xnMinusYn)

-----------------------------------------------------------------------------
(* fk20_single.go: product of a Toeplitz matrix and a vector of points *)

toeplitzPart1(ks, x) == FFTG1(ks, padPoly(2 * Length(x), x), FALSE)

ToeplitzPart2(ks, toeplitzCoeffs, xExtFFT) ==
    LET toeplitzCoeffsFFT == FourierTransform(ks, toeplitzCoeffs, FALSE)
    IN  Slice([i \in DOMAIN xExtFFT |-> MulG1(xExtFFT[i], toeplitzCoeffsFFT[i])])

ToeplitzPart3(ks, hExtFFT) ==
    SubSlice(FFTG1(ks, hExtFFT, TRUE), 0, Length(hExtFFT) \div 2)

FaultyStrided(polynomial, offset, stride) ==   \* fault: the same last item for every offset
    LET n == Length(polynomial)
        k == n \div stride
    IN  Slice([i \in 0 .. 2 * k - 1 |->
            IF i = 0 THEN polynomial[n - 1]
            ELSE IF i <= k + 1 THEN 0
            ELSE polynomial[2 * stride - offset - 1 + (i - k - 2) * stride]])

(* [last item] + [0] * (k + 1) + [items except first and last], of every   *)
(* stride-th item counted from the end, offset left out                    *)
toeplitzCoeffsStepStrided(polynomial, offset, stride) ==
    LET n == Length(polynomial)
        k == n \div stride
    IN  Slice([i \in 0 .. 2 * k - 1 |->
            IF i = 0 THEN polynomial[n - 1 - offset]
            ELSE IF i <= k + 1 THEN 0
            ELSE polynomial[2 * stride - offset - 1 + (i - k - 2) * stride]])

FaultyStep(polynomial) ==                      \* fault: one zero too few
    LET n == Length(polynomial)
    IN  Slice([i \in 0 .. 2 * n - 1 |->
            IF i = 0 THEN polynomial[n - 1] ELSE IF i <= n THEN 0 ELSE polynomial[i - n]])

toeplitzCoeffsStep(polynomial) ==
    LET n == Length(polynomial)
    IN  Slice([i \in 0 .. 2 * n - 1 |->
            IF i = 0 THEN polynomial[n - 1] ELSE IF i <= n + 1 THEN 0 ELSE polynomial[i - n - 1]])

(* k points of the setup, downwards from start; the last one is zero *)
setupDown(ks, k, start, step) ==
    Slice([i \in 0 .. k - 1 |-> IF i = k - 1 THEN ZeroG1 ELSE ks.SecretG1[start - i * step]])

NewFK20SingleSettings(ks, n2) ==
    LET n == n2 \div 2
    IN  [ks |-> ks, xExtFFT |-> toeplitzPart1(ks, setupDown(ks, n, n - 2, 1))]

FK20Single(fk, polynomial) ==
    LET hExtFFT == ToeplitzPart2(fk.ks, toeplitzCoeffsStep(polynomial), fk.xExtFFT)
    IN  FFTG1(fk.ks, ToeplitzPart3(fk.ks, hExtFFT), FALSE)

(* the upper half of the coefficients is zero *)
FK20SingleDAOptimized(fk, polynomial) ==
    LET n2 == Length(polynomial)
        reducedPoly == SubSlice(polynomial, 0, n2 \div 2)
        hExtFFT == ToeplitzPart2(fk.ks, toeplitzCoeffsStep(reducedPoly), fk.xExtFFT)
    IN  FFTG1(fk.ks, padPoly(n2, ToeplitzPart3(fk.ks, hExtFFT)), FALSE)

DAUsingFK20(fk, polynomial) ==
    reverseBitOrder(FK20SingleDAOptimized(fk, padPoly(2 * Length(polynomial), polynomial)))

-----------------------------------------------------------------------------
(* fk20_multi.go *)

NewFK20MultiSettings(ks, n2, chunkLen) ==
    LET n == n2 \div 2
    IN  [ks |-> ks, chunkLen |-> chunkLen,
         xExtFFTFiles |-> Slice([offset \in 0 .. chunkLen - 1 |->
             toeplitzPart1(ks, setupDown(ks, n \div chunkLen, n - chunkLen - 1 - offset,
                                         chunkLen))])]

FK20MultiDAOptimized(fk, polynomial) ==
    LET n == Length(polynomial) \div 2
        k2 == 2 * (n \div fk.chunkLen)
        reducedPoly == SubSlice(polynomial, 0, n)
        hExtFFTFile == Slice([i \in 0 .. fk.chunkLen - 1 |->
            ToeplitzPart2(fk.ks, toeplitzCoeffsStepStrided(reducedPoly, i, fk.chunkLen),
                          fk.xExtFFTFiles[i])])
        hExtFFT == Slice([j \in 0 .. k2 - 1 |->
            SumFr([i \in 0 .. fk.chunkLen - 1 |-> hExtFFTFile[i][j]], fk.chunkLen)])
    IN  FFTG1(fk.ks, padPoly(k2, ToeplitzPart3(fk.ks, hExtFFT)), FALSE)

DAUsingFK20Multi(fk, polynomial) ==
    reverseBitOrder(FK20MultiDAOptimized(fk, padPoly(2 * Length(polynomial), polynomial)))
=============================================================================
