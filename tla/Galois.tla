------------------------------- MODULE Galois -------------------------------
(***************************************************************************)
(* The arithmetic of go/galois in the prime field of order q, as functions *)
(* of their arguments: a slice of n big.Ints is a function on 0..n-1.      *)
(* Random draws are arguments too, so that every draw can be tried.        *)
(***************************************************************************)
EXTENDS Integers, FiniteSets, FiniteSetsExt, Functions

CONSTANT q      \* Field.Order(), a prime

ASSUME FieldAssumption ==
    q \in Nat /\ q > 1 /\ \A d \in 2..q-1 : q % d # 0

\* What an operation that fails returns in place of a slice, or of a root.
FieldError == [i \in {} |-> 0]
NoRoot == -1

Len0(xs) == Cardinality(DOMAIN xs)

\* Exp(), for a y that is not negative.
Exp(x, y) ==
    LET e[i \in 0..y] == IF i = 0 THEN 1 % q ELSE (e[i-1] * x) % q IN e[y]

Mul(x, y) == (x * y) % q

MultInverse(x) == CHOOSE i \in 1..q-1 : Mul(x, i) = 1

\* Random(): every element of the field, zero included.
Random == 0..q-1

\* The roots that RootOfUnity() may return.
RootOfUnity(n, primitive) ==
    IF n % 2 = 1 THEN {NoRoot}
    ELSE IF (q - 1) % n # 0 THEN {1}
    ELSE {root \in {Exp(x, (q - 1) \div n) : x \in Random} :
              ~primitive \/ Exp(root, n \div 2) # 1}

\* Divided by two again and again, n comes to 1: no odd number but 1 divides it.
IsPowerOf2(n) == n > 0 /\ \A d \in 2..n : n % d = 0 => d % 2 = 0

\* The least power of 2 that is no less than Len0(a) + Len0(b) - 1.
convolutionSize(a, b) ==
    LET n == Len0(a) + Len0(b) - 1
    IN Min({p \in n..2*n : IsPowerOf2(p)})

ConvolutionRoot(a, b) == RootOfUnity(convolutionSize(a, b), TRUE)

\* A new value: callers pass slices that share no backing array with others.
zeroPad(xs, n) == [i \in 0..n-1 |-> IF i \in DOMAIN xs THEN xs[i] ELSE 0]

twiddleFactors(n, root) ==
    IF ~IsPowerOf2(n) \/ root = 1 \/ Exp(root, n) # 1
    THEN FieldError
    ELSE [i \in 0..n-1 |-> Exp(root, i)]

\* The index of the root of position k; % is never negative here.
Twiddle(k, stride, n, inverse) == (IF inverse THEN k * stride ELSE -(k * stride)) % n

\* A call of cooleyTukey() on every slice of elements that are stride apart,
\* given the transforms of its even and its odd elements.
Butterfly(roots, inverse, n, stride, freq) ==
    LET halfLen == n \div (2 * stride)
        e(first, k) == freq[first][k]
        o(first, k) == freq[first + stride][k] * roots[Twiddle(k, stride, n, inverse)]
    IN [first \in 0..stride-1 |-> [k \in 0..2*halfLen-1 |->
          IF k < halfLen THEN e(first, k) + o(first, k)
          ELSE e(first, k - halfLen) - o(first, k - halfLen)]]

\* The transform of xs, not yet reduced modulo q: freq[stride][first] is that of
\* the slice of every stride-th element from the first on.
cooleyTukey(xs, roots, inverse) ==
    LET n == Len0(xs)
        freq[stride \in {s \in 1..n : n % s = 0}] ==
            IF stride = n THEN [first \in 0..n-1 |-> [k \in {0} |-> xs[first]]]
            ELSE Butterfly(roots, inverse, n, stride, freq[2*stride])
    IN freq[1][0]

fft(xs, root, inverse) ==
    LET roots == twiddleFactors(Len0(xs), root)
        freq == cooleyTukey(xs, roots, inverse)
    IN IF roots = FieldError THEN FieldError ELSE [k \in DOMAIN xs |-> freq[k] % q]

FFT(xs, root) == fft(xs, root, FALSE)

FFTInverse(xs, root) ==
    LET t == fft(xs, root, TRUE)
    IN IF t = FieldError THEN FieldError
       ELSE [i \in DOMAIN xs |-> Mul(t[i], MultInverse(Len0(xs)))]

Convolve(a, b, root) ==
    LET n == convolutionSize(a, b)
        aFreq == FFT(zeroPad(a, n), root)
        bFreq == FFT(zeroPad(b, n), root)
        product == FFTInverse([i \in 0..n-1 |-> aFreq[i] * bFreq[i]], root)
    IN IF FieldError \in {aFreq, bFreq} THEN FieldError
       ELSE [i \in 0..(Len0(a) + Len0(b) - 2) |-> product[i]]

-----------------------------------------------------------------------------

\* The definition of the convolution of a and b, for reference.
Convolution(a, b) ==
    [k \in 0..(Len0(a) + Len0(b) - 2) |->
        SumFunction([i \in DOMAIN a |-> IF k - i \in DOMAIN b THEN a[i] * b[k-i] ELSE 0]) % q]

(***************************************************************************)
(* The comment on Convolve(): with a root from ConvolutionRoot() it        *)
(* returns the convolution of a and b.  It fails only when the field has   *)
(* no root of that order, or when Random() drew zero.                      *)
(***************************************************************************)
ConvolvesRight(a, b, root) ==
    LET n == convolutionSize(a, b) IN
    \/ root = NoRoot /\ n = 1
    \/ /\ root # NoRoot
       /\ IF root = 0 \/ (q - 1) % n # 0
          THEN Convolve(a, b, root) = FieldError
          ELSE /\ Cardinality({Exp(root, i) : i \in 0..n-1}) = n
               /\ Convolve(a, b, root) = Convolution(a, b)
=============================================================================
