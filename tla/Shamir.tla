------------------------------- MODULE Shamir -------------------------------
(***************************************************************************)
(* Social recovery of an account's seed (morm_l1/shamir.py): each byte is  *)
(* the value at 0 of a random polynomial over a field of 2^Width elements, *)
(* and a share has the values at its index.  Any Threshold shares of a     *)
(* split recover the seed.  The code's field has Width 8 and the           *)
(* polynomial 0x11B; what is said here holds of smaller ones too.          *)
(***************************************************************************)
EXTENDS Integers, Sequences, FiniteSets, SequencesExt, Bitwise

CONSTANTS
    Width,          \* bits of a byte
    Irreducible,    \* the field's polynomial, as a number
    SeedLengths,    \* how many bytes a seed may have
    MaxRandom       \* bound on the random coefficients of a split

Byte == 0..2^Width - 1
Order == 2^Width - 1    \* of the multiplicative group

ASSUME ShamirAssumption ==
    /\ Width \in Nat \ {0} /\ Irreducible \in 2^Width..2^(Width + 1) - 1
    /\ SeedLengths \subseteq Nat \ {0} /\ MaxRandom \in Nat

VARIABLES
    split,      \* the arguments of split and the shares it returned
    combined    \* the shares given to combine, and what it answered

shamir == <<split, combined>>

NoSplit == [shares |-> <<>>]
NotYet == [shares |-> <<>>, answer |-> "none"]

-----------------------------------------------------------------------------
(* The field                                                                *)

xor == [p \in Byte \X Byte |-> p[1] ^^ p[2]]

\* _EXP: the powers of the generator 3, each from the one before
Exp ==
    LET Tripled(x) == LET y == x ^^ (2 * x) IN IF y > Order THEN y ^^ Irreducible ELSE y
        power[i \in 0..Order - 1] == IF i = 0 THEN 1 ELSE Tripled(power[i - 1])
    IN  power

Log == [v \in Byte \ {0} |-> CHOOSE i \in 0..Order - 1 : Exp[i] = v]

Gmul(a, b) == IF 0 \in {a, b} THEN 0 ELSE Exp[(Log[a] + Log[b]) % Order]
Gdiv(a, b) == IF a = 0 THEN 0 ELSE Exp[(Log[a] - Log[b]) % Order]

\* _eval_poly: Horner's method, the constant is the first coefficient
EvalPoly(coeffs, x) == FoldRight(LAMBDA c, y : xor[<<Gmul(y, x), c>>], coeffs, 0)

-----------------------------------------------------------------------------
(* split                                                                    *)

Polynomials(byte, threshold) == {<<byte>> \o c : c \in [1..threshold - 1 -> Byte]}

\* Deviation: the indices begin at 0, where the value is the secret
IndexFromZero(i) == i - 1

\* x-coord byte first
Index(i) == i

\* One polynomial for each byte
Split(seed, threshold, n) ==
    /\ split = NoSplit
    /\ 1 <= threshold /\ threshold <= n /\ n <= Order
    /\ Len(seed) * (threshold - 1) <= MaxRandom
    /\ \E polys \in {p \in [DOMAIN seed -> UNION {Polynomials(b, threshold) : b \in Byte}] :
                        \A k \in DOMAIN seed : p[k][1] = seed[k]} :
         split' = [seed |-> seed, threshold |-> threshold,
                   shares |-> [i \in 1..n |->
                     [x |-> Index(i),
                      ys |-> [k \in DOMAIN seed |-> EvalPoly(polys[k], Index(i))]]]]
    /\ UNCHANGED combined

-----------------------------------------------------------------------------
(* combine                                                                  *)

\* Lagrange interpolation at 0, one byte
Interpolate(shares, k) ==
    LET Others(i) == {j \in DOMAIN shares : j # i}
        Product(S, F(_)) == FoldSet(LAMBDA j, p : Gmul(p, F(j)), 1, S)
        num(i) == LET X(j) == shares[j].x IN Product(Others(i), X)
        den(i) == LET D(j) == xor[<<shares[i].x, shares[j].x>>] IN Product(Others(i), D)
        term == [i \in DOMAIN shares |-> Gmul(shares[i].ys[k], Gdiv(num(i), den(i)))]
    IN  FoldLeft(LAMBDA y, t : xor[<<y, t>>], 0, term)

\* A share given twice is refused.  The threshold is not known here: too few
\* shares get an answer too.
Combine(shares) ==
    /\ split # NoSplit /\ combined = NotYet /\ shares # <<>>
    /\ combined' =
         [shares |-> shares,
          answer |-> IF \E i, j \in DOMAIN shares : i # j /\ shares[i].x = shares[j].x
                     THEN "duplicate"
                     ELSE [k \in DOMAIN shares[1].ys |-> Interpolate(shares, k)]]
    /\ UNCHANGED split

ShamirInit == split = NoSplit /\ combined = NotYet
ShamirNext ==
    \/ \E len \in SeedLengths : \E seed \in [1..len -> Byte] :
         \E n \in 1..Order : \E t \in 1..n : Split(seed, t, n)
    \/ \E S \in SUBSET ToSet(split.shares) : \E again \in BOOLEAN :
         LET given == SetToSeq(S)
         IN  S # {} /\ Combine(IF again THEN Append(given, given[1]) ELSE given)

ShamirSpec == ShamirInit /\ [][ShamirNext]_shamir

-----------------------------------------------------------------------------
\* "any T (threshold) shares can reconstruct it, fewer than T leak nothing about
\* the secret" (shamir.py:5-6): as many as the threshold give the seed back,
\* however many were dealt; with fewer, each byte may still be any.
SharesRecover ==
    LET given == combined.shares
        distinct == Cardinality({s.x : s \in ToSet(given)})
    IN  combined # NotYet =>
          IF distinct < Len(given) THEN combined.answer = "duplicate"
          ELSE IF distinct >= split.threshold THEN combined.answer = split.seed
          ELSE \A k \in DOMAIN split.seed, b \in Byte :
                 \E p \in Polynomials(b, split.threshold) :
                     \A s \in ToSet(given) : EvalPoly(p, s.x) = s.ys[k]

=============================================================================
