-------------------------------- MODULE FFT --------------------------------
(***************************************************************************)
(* Fourier transforms over the roots of unity of the field and over the    *)
(* points of G1 (fft.go, fft_fr.go, fft_g1.go), the extension of data to   *)
(* twice its length (das_extension.go) and the reverse bit order           *)
(* (reverse_bit_order.go).                                                 *)
(***************************************************************************)
EXTENDS Field

(* least power of two not below v *)
nextPowOf2(v) == IF v = 0 THEN 1
                 ELSE TwoTo(CHOOSE i \in 0 .. v :
                                TwoTo(i) >= v /\ \A j \in 0 .. i - 1 : TwoTo(j) < v)

(* index of the first set bit, 0 for 0 (reverse_bit_order.go) *)
bitIndex(v) == IF v = 0 THEN 0
               ELSE CHOOSE i \in 0 .. v : TwoTo(i) <= v /\ v < TwoTo(i + 1)

(* powers of the root, from 1 to the next 1 *)
expandRootOfUnity(rootOfUnity) ==
    LET order == CHOOSE k \in 1 .. Modulus - 1 :
                     /\ ExpModFr(rootOfUnity, k) = 1
                     /\ \A j \in 1 .. k - 1 : ExpModFr(rootOfUnity, j) # 1
    IN  Slice([i \in 0 .. order |-> ExpModFr(rootOfUnity, i)])

NewFFTSettings(maxScale) ==
    LET width == TwoTo(maxScale)
        rootz == expandRootOfUnity(Scale2RootOfUnity(maxScale))
    IN  [MaxWidth |-> width,
         ExpandedRootsOfUnity |-> rootz,
         ReverseRootsOfUnity |-> Slice([i \in 0 .. width |-> rootz[width - i]])]

-----------------------------------------------------------------------------
(* fft_fr.go: l values from vals[offset] on, stride apart *)

simpleFT(vals, offset, stride, roots, rootsStride, l) ==
    Slice([i \in 0 .. l - 1 |-> SumFr(
        [j \in 0 .. l - 1 |->
            MulModFr(vals[offset + j * stride], roots[((i * j) % l) * rootsStride])], l)])

(* transform[k][offset] is what the call on the 2 ** k values from offset  *)
(* on leaves in out: the recursion, from its innermost calls outwards      *)
fft(vals, roots, rootsStride) ==
    LET n == Length(vals)
        transform[k \in 0 .. bitIndex(n)] ==
            LET l == TwoTo(k)
                half == l \div 2
                stride == n \div l
                step == stride * rootsStride
            IN  [offset \in 0 .. stride - 1 |->
                    IF l <= 4 THEN simpleFT(vals, offset, stride, roots, step, l)
                    ELSE LET L == transform[k - 1][offset]
                             R == transform[k - 1][offset + stride]
                             yTimesRoot(i) == MulModFr(R[i], roots[i * step])
                         IN  Slice([i \in 0 .. l - 1 |->
                                 IF i < half THEN AddModFr(L[i], yTimesRoot(i))
                                 ELSE SubModFr(L[i - half], yTimesRoot(i - half))])]
    IN  transform[bitIndex(n)][0]

InplaceFFTFails(fs, n) == n > fs.MaxWidth \/ ~IsPowerOfTwo(n)

InplaceFFT(fs, vals, inv) ==
    LET n == Length(vals)
        rootz == IF inv THEN fs.ReverseRootsOfUnity ELSE fs.ExpandedRootsOfUnity
        out == fft(vals, rootz, fs.MaxWidth \div n)
        scale == IF inv THEN InvModFr(n) ELSE 1
    IN  Slice([i \in 0 .. n - 1 |-> MulModFr(out[i], scale)])

(* out of n elements, the first ones those of poly *)
padPoly(n, poly) == Slice([i \in 0 .. n - 1 |-> IF i < Length(poly) THEN poly[i] ELSE 0])

FFTFails(fs, n) == n > fs.MaxWidth \/ InplaceFFTFails(fs, nextPowOf2(n))

FourierTransform(fs, vals, inv) ==
    InplaceFFT(fs, padPoly(nextPowOf2(Length(vals)), vals), inv)

-----------------------------------------------------------------------------
(* fft_g1.go: the same butterflies over points *)

fftG1(vals, roots, rootsStride) == fft(vals, roots, rootsStride)

FFTG1Fails(fs, n) == n > fs.MaxWidth \/ ~IsPowerOfTwo(n)

FaultyFFTG1(fs, vals, inv) ==              \* fault: inverse not divided by n
    fftG1(vals, IF inv THEN fs.ReverseRootsOfUnity ELSE fs.ExpandedRootsOfUnity,
          fs.MaxWidth \div Length(vals))

FFTG1(fs, vals, inv) ==
    LET n == Length(vals)
        stride == fs.MaxWidth \div n
        out == fftG1(vals, fs.ReverseRootsOfUnity, stride)
    IN  IF inv THEN Slice([i \in 0 .. n - 1 |-> MulG1(out[i], InvModFr(n))])
        ELSE fftG1(vals, fs.ExpandedRootsOfUnity, stride)

-----------------------------------------------------------------------------
(* das_extension.go *)

(* extension[k][ab] is what the call on the 2 ** k values ab leaves there *)
dASFFTExtension(fs, vals) ==
    LET n == Length(vals)
        extension[k \in 1 .. bitIndex(n)] == [ab \in [0 .. TwoTo(k) - 1 -> Fr] |->
            LET half == TwoTo(k) \div 2
                domainStride == n \div TwoTo(k)
                root(i) == fs.ExpandedRootsOfUnity[(1 + 2 * i) * domainStride]
                inverseRoot(i) == fs.ReverseRootsOfUnity[2 * i * domainStride]
                sum == Slice([i \in 0 .. half - 1 |-> AddModFr(ab[i], ab[half + i])])
                difference == Slice([i \in 0 .. half - 1 |-> SubModFr(ab[i], ab[half + i])])
                L == IF half = 1 THEN sum ELSE extension[k - 1][sum]
                R == IF half = 1 THEN difference
                     ELSE extension[k - 1][Slice([i \in 0 .. half - 1 |->
                              MulModFr(difference[i], inverseRoot(i))])]
                yTimesRoot(i) == MulModFr(R[i], root(i))
            IN  Slice([i \in 0 .. 2 * half - 1 |->
                    IF i < half THEN AddModFr(L[i], yTimesRoot(i))
                    ELSE SubModFr(L[i - half], yTimesRoot(i - half))])]
    IN  extension[bitIndex(n)][vals]

FaultyExtension(fs, vals) == dASFFTExtension(fs, vals)  \* fault: not divided by the length

(* the values at the odd indices, from those at the even ones *)
DASFFTExtension(fs, vals) ==
    LET out == dASFFTExtension(fs, vals)
    IN  Slice([i \in DOMAIN vals |-> MulModFr(out[i], InvModFr(Length(vals)))])

-----------------------------------------------------------------------------
(* reverse_bit_order.go *)

(* the low bits of value, as many as length has, in reverse order *)
reverseBitsLimited(length, value) ==
    LET bits == bitIndex(length)
        reversed[b \in 0 .. bits] ==
            IF b = 0 THEN 0 ELSE 2 * reversed[b - 1] + ((value \div TwoTo(b - 1)) % 2)
    IN  reversed[bits]

(* swaps each pair once: for a power of two the reversal is an involution *)
reverseBitOrder(values) ==
    Slice([i \in DOMAIN values |-> values[reverseBitsLimited(Length(values), i)]])
=============================================================================
