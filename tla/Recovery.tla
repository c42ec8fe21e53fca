------------------------------ MODULE Recovery ------------------------------
(***************************************************************************)
(* Recovery of the values of a polynomial from a part of them: by division *)
(* by the polynomial that is zero where a value is missing (zero_poly.go,  *)
(* recover_from_samples.go), and the older procedure that does the same on *)
(* multiples of the argument (legacy_recovery.go).                         *)
(*                                                                         *)
(* An index out of range and a call of panic end the procedure with        *)
(* "panic", a returned error with "error".                                 *)
(***************************************************************************)
EXTENDS FFT

CONSTANT PerLeafPoly    \* room of a leaf of the product: 64 in the code

ASSUME PerLeafPolyAssumption == PerLeafPoly \in Nat \ {0, 1} /\ IsPowerOfTwo(PerLeafPoly)

Nil == -1               \* a value that is missing

LesserOf(a, b) == IF a < b THEN a ELSE b

(* indices of the missing values, in increasing order *)
missingIndices(samples) ==
    LET nils == {i \in DOMAIN samples : samples[i] = Nil}
    IN  Slice([k \in 0 .. Cardinality(nils) - 1 |->
            CHOOSE i \in nils : Cardinality({j \in nils : j < i}) = k])

Answer(data) == [result |-> "data", data |-> data]
Failure(how) == [result |-> how, data |-> <<>>]

-----------------------------------------------------------------------------
(* zero_poly.go *)

(* (X - r^indices[0]) * (X - r^indices[1]) * ..., in n coefficients: one   *)
(* factor after the other, in place                                        *)
makeZeroPolyMulLeaf(fs, n, indices, domainStride) ==
    LET l == Length(indices)
        dst[i \in 0 .. l] ==
            IF i = 0 THEN Slice([j \in 0 .. n - 1 |-> IF j = l THEN 1 ELSE 0])
            ELSE LET d == dst[i - 1]
                     negDi == SubModFr(0, fs.ExpandedRootsOfUnity[indices[i - 1] * domainStride])
                     below(j) == IF j = 0 THEN 0 ELSE d[j - 1]
                 IN  Slice([j \in 0 .. n - 1 |->
                        IF j >= i THEN d[j]
                        ELSE AddModFr(IF j = i - 1 THEN negDi ELSE MulModFr(d[j], negDi),
                                      below(j))])
    IN  dst[l]

outDegree(ps) ==
    LET sum[i \in 0 .. Len(ps)] == IF i = 0 THEN 0 ELSE sum[i - 1] + Length(ps[i]) - 1
    IN  sum[Len(ps)]

reduceLeavesPanics(fs, n, ps) == InplaceFFTFails(fs, n) \/ outDegree(ps) + 1 > n

(* the product of the polynomials ps, by convolution over n points *)
reduceLeaves(fs, n, ps) ==
    LET mulEvalPs[i \in 0 .. Len(ps)] ==
            IF i = 0 THEN Slice([j \in 0 .. n - 1 |-> 1])
            ELSE LET before == mulEvalPs[i - 1]
                     pEval == InplaceFFT(fs, padPoly(n, ps[i]), FALSE)
                 IN  Slice([j \in 0 .. n - 1 |-> MulModFr(before[j], pEval[j])])
    IN  InplaceFFT(fs, mulEvalPs[Len(ps)], TRUE)

(* The leaves lie in out, leaf i in the length elements from offset on.    *)
(* Four of them at a time are replaced by their product, which is written  *)
(* over them, until there is one.  <<>> if that panics.                    *)
reduceTree(fs, out, leaves) ==
    LET reducedCount(tree) == (Len(tree.leaves) + 3) \div 4
        groupSize(tree) == 4 * nextPowOf2(tree.leaves[1].length)
        room(tree, i) == LesserOf((i + 1) * groupSize(tree), Length(tree.out)) - i * groupSize(tree)
        group(tree, i) == SubSeq(tree.leaves, 4 * i + 1, LesserOf(4 * i + 4, Len(tree.leaves)))
        of(tree, leaf) == SubSlice(tree.out, leaf.offset, leaf.offset + leaf.length)
        polys(tree, i) == [k \in DOMAIN group(tree, i) |-> of(tree, group(tree, i)[k])]
        alone(tree, i) == Len(group(tree, i)) = 1
        panics(tree) == \E i \in 0 .. reducedCount(tree) - 1 :
            ~alone(tree, i) /\ reduceLeavesPanics(fs, room(tree, i), polys(tree, i))
        reduced(tree) ==
            LET size == groupSize(tree)
                written == Slice([i \in 0 .. reducedCount(tree) - 1 |->
                    IF alone(tree, i) THEN SubSlice(tree.out, i * size, i * size + room(tree, i))
                    ELSE reduceLeaves(fs, room(tree, i), polys(tree, i))])
            IN  [out |-> Slice([p \in DOMAIN tree.out |->
                     LET i == p \div size
                     IN  IF i < reducedCount(tree) THEN written[i][p - i * size] ELSE tree.out[p]]),
                 leaves |-> [i \in 1 .. reducedCount(tree) |->
                     [offset |-> (i - 1) * size,
                      length |-> IF alone(tree, i - 1) THEN room(tree, i - 1)
                                 ELSE outDegree(polys(tree, i - 1)) + 1]]]
        \* after so many rounds; no leaves after a panic
        tree[round \in 0 .. Len(leaves)] ==
            IF round = 0 THEN [out |-> out, leaves |-> leaves]
            ELSE LET before == tree[round - 1]
                 IN  IF Len(before.leaves) <= 1 THEN before
                     ELSE IF panics(before) THEN [out |-> <<>>, leaves |-> <<>>]
                     ELSE reduced(before)
        last == tree[Len(leaves)]
    IN  IF last.leaves = <<>> THEN <<>> ELSE of(last, last.leaves[1])

padZeroPoly(n, zeroPoly) ==
    IF Length(zeroPoly) \in 1 .. n THEN padPoly(n, zeroPoly) ELSE <<>>

(* the polynomial that is zero at the missing indices of length ones, <<>> *)
(* for a panic                                                             *)
ZeroPolyViaMultiplication(fs, indices, length) ==
    LET missing == Length(indices)
        domainStride == fs.MaxWidth \div length
        perLeaf == PerLeafPoly - 1
        leafCount == (missing + perLeaf - 1) \div perLeaf
        leaf(i) == makeZeroPolyMulLeaf(fs, PerLeafPoly,
                       SubSlice(indices, i * perLeaf, LesserOf((i + 1) * perLeaf, missing)),
                       domainStride)
        out == Slice([p \in 0 .. nextPowOf2(leafCount * PerLeafPoly) - 1 |->
                   IF p < leafCount * PerLeafPoly THEN leaf(p \div PerLeafPoly)[p % PerLeafPoly]
                   ELSE 0])
        zeroPoly == reduceTree(fs, out, [i \in 1 .. leafCount |->
                        [offset |-> (i - 1) * PerLeafPoly, length |-> PerLeafPoly]])
    IN  CASE missing = 0 -> Slice([i \in 0 .. length - 1 |-> 0])
          [] missing > 0 /\ missing <= perLeaf ->
                IF missing + 1 > length THEN <<>>
                ELSE makeZeroPolyMulLeaf(fs, length, indices, domainStride)
          [] OTHER -> padZeroPoly(length, zeroPoly)

-----------------------------------------------------------------------------
(* recover_from_samples.go *)

shiftFactor == 5

ShiftPoly(poly) == Slice([i \in DOMAIN poly |->
    MulModFr(poly[i], ExpModFr(InvModFr(shiftFactor), i))])

FaultyUnshiftPoly(poly) == ShiftPoly(poly)     \* fault: shifted once more

UnshiftPoly(poly) == Slice([i \in DOMAIN poly |->
    MulModFr(poly[i], ExpModFr(shiftFactor, i))])

(* the data recovered, unless it differs from a sample that was given *)
Checked(samples, data, otherwise) ==
    IF \E i \in DOMAIN samples : samples[i] \notin {Nil, data[i]} THEN otherwise ELSE Answer(data)

(* the samples by the zero polynomial, divided by it off the domain *)
Reconstructed(fs, samples, zeroPoly, zeroEval) ==
    LET n == Length(samples)
        evaluationsWithZero == Slice([i \in 0 .. n - 1 |->
            IF samples[i] = Nil THEN 0 ELSE MulModFr(samples[i], zeroEval[i])])
        evalShifted(poly) == FourierTransform(fs, ShiftPoly(poly), FALSE)
        evalShiftedPolyWithZero == evalShifted(FourierTransform(fs, evaluationsWithZero, TRUE))
        evalShiftedZeroPoly == evalShifted(zeroPoly)
        evalShiftedReconstructed == Slice([i \in 0 .. n - 1 |->
            DivModFr(evalShiftedPolyWithZero[i], evalShiftedZeroPoly[i])])
        reconstructedPoly == UnshiftPoly(FourierTransform(fs, evalShiftedReconstructed, TRUE))
    IN  FourierTransform(fs, reconstructedPoly, FALSE)

RecoverWithZeroPoly(fs, samples, zeroPoly, zeroEval) ==
    IF \E i \in DOMAIN samples : (samples[i] = Nil) # (zeroEval[i] = 0)
    THEN Failure("panic")
    ELSE Checked(samples, Reconstructed(fs, samples, zeroPoly, zeroEval), Failure("error"))

RecoverPolyFromSamples(fs, samples) ==
    LET zeroPoly == ZeroPolyViaMultiplication(fs, missingIndices(samples), Length(samples))
    IN  IF zeroPoly = <<>> THEN Failure("panic")
        ELSE RecoverWithZeroPoly(fs, samples, zeroPoly, FourierTransform(fs, zeroPoly, FALSE))

-----------------------------------------------------------------------------
(* legacy_recovery.go *)

(* the product of a and b, size times too large *)
mulPolysWithFFT(fs, a, b, rootsStride) ==
    LET size == fs.MaxWidth \div rootsStride
        transform(p) == fft(padPoly(size, p), fs.ExpandedRootsOfUnity, rootsStride)
        x1 == transform(a)
        x2 == transform(b)
    IN  fft(Slice([i \in 0 .. size - 1 |-> MulModFr(x1[i], x2[i])]),
            fs.ReverseRootsOfUnity, rootsStride)

(* inverses of all the values by one inversion *)
multiInv(values) ==
    LET n == Length(values)
        partials[i \in 0 .. n] == IF i = 0 THEN values[0]
                                  ELSE MulModFr(partials[i - 1], values[i - 1])
        inv[i \in 0 .. n] == IF i = n THEN InvModFr(partials[n])
                             ELSE MulModFr(inv[i + 1], values[i])
    IN  Slice([i \in 0 .. n - 1 |-> MulModFr(partials[i], inv[i + 1])])

(* q(X) = poly(k X) *)
pOfKX(poly, k) == Slice([i \in DOMAIN poly |-> MulModFr(poly[i], ExpModFr(k, i))])

(* half of every position that is even (parity 0) or odd (1) *)
inefficientOddEvenDiv2(positions, parity) ==
    LET chosen == {i \in DOMAIN positions : positions[i] % 2 = parity}
    IN  Slice([k \in 0 .. Cardinality(chosen) - 1 |->
            positions[CHOOSE i \in chosen : Cardinality({j \in chosen : j < i}) = k] \div 2])

(* a multiple of (X - r^positions[0]) * (X - r^positions[1]) * ... *)
zPolyOfFew(fs, positions, rootsStride) ==
    LET l == Length(positions)
        \* highest coefficient first, turned around at the end
        root[i \in 0 .. l] ==
            IF i = 0 THEN Slice([j \in 0 .. l |-> IF j = 0 THEN 1 ELSE 0])
            ELSE LET r == root[i - 1]
                     x == fs.ExpandedRootsOfUnity[positions[i - 1] * rootsStride]
                 IN  Slice([j \in 0 .. l |->
                        IF j \in 1 .. i THEN SubModFr(r[j], MulModFr(r[j - 1], x)) ELSE r[j]])
    IN  Slice([j \in 0 .. l |-> root[l][l - j]])

(* The recursion halves the positions by parity: chosen[d][r] are those    *)
(* that are r modulo 2 ** d, halved d times, and zPolyOf[d][r] is what the *)
(* call on them returns.                                                   *)
zPoly(fs, positions, rootsStride) ==
    LET depths == 0 .. bitIndex(fs.MaxWidth)
        chosen[d \in depths] == [r \in 0 .. TwoTo(d) - 1 |->
            IF d = 0 THEN positions
            ELSE LET half == TwoTo(d - 1)
                 IN  inefficientOddEvenDiv2(chosen[d - 1][r % half], r \div half)]
        zPolyOf[d \in depths] == [r \in 0 .. TwoTo(d) - 1 |->
            LET stride == TwoTo(d) * rootsStride
                left == zPolyOf[d + 1][r]
                right == zPolyOf[d + 1][TwoTo(d) + r]
                invRoot == fs.ReverseRootsOfUnity[stride]
                out == mulPolysWithFFT(fs, left, pOfKX(right, invRoot), stride)
                n == Length(out)
            IN  IF Length(chosen[d][r]) <= 4 THEN zPolyOfFew(fs, chosen[d][r], stride)
                ELSE IF \A i \in DOMAIN out : out[i] = 0     \* 1 - X^n
                THEN Slice([i \in 0 .. n |->
                         IF i = 0 THEN 1 ELSE IF i = n THEN Modulus - 1 ELSE 0])
                ELSE out]
    IN  zPolyOf[0][0]

FaultyAttempts == 1                            \* fault: no second attempt

maxRecoverAttempts == 10

(* attempts with k = 2, 3, ... to divide by the zero polynomial at k X *)
RecoverAttempts(fs, vals, z, pTimesZ) ==
    LET transformOfKX(poly, k) == FourierTransform(fs, pOfKX(poly, k), FALSE)
        output(k) ==
            LET pTimesZOfKXVals == transformOfKX(pTimesZ, k)
                invZOfKXVals == multiInv(transformOfKX(z, k))
                pOfKx == FourierTransform(fs, Slice([i \in DOMAIN vals |->
                             MulModFr(pTimesZOfKXVals[i], invZOfKXVals[i])]), TRUE)
            IN  transformOfKX(pOfKx, InvModFr(k))
        attempt[k \in 2 .. maxRecoverAttempts + 2] ==
            IF k - 2 = maxRecoverAttempts THEN Failure("error")
            ELSE Checked(vals, output(k), attempt[k + 1])
    IN  attempt[2]

RecoverWithZPoly(fs, vals, z, zVals) ==
    LET pWithZ == Slice([i \in DOMAIN vals |->
            IF vals[i] = Nil THEN 0 ELSE MulModFr(vals[i], zVals[i])])
    IN  IF Length(zVals) < Length(vals) THEN Failure("panic")
        ELSE RecoverAttempts(fs, vals, z, FourierTransform(fs, pWithZ, TRUE))

ErasureCodeRecover(fs, vals) ==
    LET z == zPoly(fs, missingIndices(vals), fs.MaxWidth \div Length(vals))
    IN  IF FFTFails(fs, Length(z)) THEN Failure("error")
        ELSE RecoverWithZPoly(fs, vals, z, FourierTransform(fs, z, FALSE))
=============================================================================
