---------------------------- MODULE SecretSharing ----------------------------
(***************************************************************************)
(* Shares of a document key: Feldman's verifiable sharing (splitSecretVSS, *)
(* verifyShare, reconstructSecret), the refresh that adds polynomials with *)
(* constant term zero (proactiveSecretSharing.ts), and the older shares    *)
(* over GF(2^8).  The arithmetic is the code's with a small safe prime:    *)
(* shares are computed modulo VssQ, commitments modulo VssP = 2 VssQ + 1.  *)
(* The second half of proactiveSecretSharing.ts is the same protocol       *)
(* without commitments over another prime and takes the same steps.        *)
(***************************************************************************)
EXTENDS Galois256, Integers, FiniteSets

CONSTANTS
    VssQ, VssP, VssG,   \* prime, safe prime, generator of the subgroup of order VssQ
    Holders,            \* number of shares
    ShareThreshold,     \* shares that reconstruct
    LegacyBytes,        \* sample bytes of the older format
    MaxEpochs           \* bound on refreshes

ASSUME SharingConstants ==
    /\ VssP = 2 * VssQ + 1 /\ VssG \in 2..(VssP - 1)
    /\ ShareThreshold \in 1..Holders /\ Holders < VssQ
    /\ LegacyBytes \subseteq 0..255 /\ MaxEpochs \in Nat

Scalars  == 0..(VssQ - 1)
Elements == 1..(VssP - 1)
Terms    == 1..ShareThreshold       \* term m of a polynomial is its coefficient m - 1
Points   == 1..Holders

VARIABLES
    secret,      \* the key
    poly,        \* the current polynomial, which nobody holds after the split
    held,        \* [Points -> Scalars]: the shares
    commitments, \* [Terms -> Elements]: the public commitments
    zeros,       \* zero polynomials of the running refresh, by guardian in order
    epochs,      \* refreshes done
    legacy       \* coefficients of an older sharing of one byte

sharingVars == <<secret, poly, held, commitments, zeros, epochs, legacy>>

Times(m, s) == FoldLeft(LAMBDA a, b : (a * b) % m, 1, s)
Plus(m, s)  == FoldLeft(LAMBDA a, b : (a + b) % m, 0, s)
modPow(b, e, m) == Times(m, [i \in 1..e |-> b])
modInverse(a, m) == modPow(a, m - 2, m)

\* f(x) mod VssQ, and g^coefficient mod VssP for each coefficient.
Evaluate(f, x) == Plus(VssQ, [m \in Terms |-> (f[m] * modPow(x, m - 1, VssQ)) % VssQ])
Commit(f) == [m \in Terms |-> modPow(VssG, f[m], VssP)]

\* verifyShare and verifyZeroShareContribution: g^y against the product of C_m^(x^m).
Verifies(x, y, C) ==
    modPow(VssG, y, VssP) =
        Times(VssP, [m \in Terms |-> modPow(C[m], modPow(x, m - 1, VssQ), VssP)])

\* Mutant: the difference of the points is taken the other way round.
Gap_Swapped(a, b) == (b - a + VssQ) % VssQ
\* modSub
Gap(a, b) == (a - b + VssQ) % VssQ

\* reconstructSecret: Lagrange at zero over the points of the given shares.
Weight(i, S) == Times(VssQ, [k \in 1..Len(S) |->
    IF S[k] = i THEN 1 ELSE (S[k] * modInverse(Gap(S[k], i), VssQ)) % VssQ])
Reconstruct(S) == Plus(VssQ, [k \in 1..Len(S) |-> (held[S[k]] * Weight(S[k], S)) % VssQ])

\* reconstructByte over GF(2^8): the factors are xj / (xj xor xi).
LegacyShare(x) == gfSum([m \in Terms |->
    gfMul(legacy[m], FoldLeft(gfMul, 1, [i \in 1..(m - 1) |-> x]))])
LegacyWeight(i, S) == FoldLeft(gfMul, 1, [k \in 1..Len(S) |->
    IF S[k] = i THEN 1 ELSE gfMul(S[k], gfDiv(1, gfAdd(S[k], i)))])
ReconstructByte(S) == gfSum([k \in 1..Len(S) |-> gfMul(LegacyShare(S[k]), LegacyWeight(S[k], S))])

Polynomials(c) == {f \in [Terms -> Scalars] : f[1] = c}

\* splitSecretVSS: the secret is the constant term, the other coefficients are random.
SharingInit ==
    /\ secret \in Scalars
    /\ poly \in Polynomials(secret)
    /\ held = [x \in Points |-> Evaluate(poly, x)]
    /\ commitments = Commit(poly)
    /\ zeros = <<>> /\ epochs = 0
    /\ legacy \in [Terms -> LegacyBytes]

\* generateZeroPolynomialVSS
ZeroPolynomials == Polynomials(0)

\* Guardians draw their polynomials one after the other, each after a delay.
GenerateZero(f) ==
    /\ epochs < MaxEpochs /\ Len(zeros) < Holders
    /\ f \in ZeroPolynomials
    /\ zeros' = Append(zeros, f)
    /\ UNCHANGED <<secret, poly, held, commitments, epochs, legacy>>

ZerosVerify == \A i \in Points, x \in Points :
    Verifies(x, Evaluate(zeros[i], x), Commit(zeros[i]))
NewHeld == [x \in Points |-> Plus(VssQ, <<held[x]>> \o [i \in Points |-> Evaluate(zeros[i], x)])]
NewCommitments == [m \in Terms |-> Times(VssP, <<commitments[m]>> \o [i \in Points |-> Commit(zeros[i])[m]])]

(* updateShareVSS and updateCommitmentsVSS once every contribution was     *)
(* verified; a changed constant commitment or a share that does not        *)
(* verify makes the refresh throw and leaves everything as it was.         *)
ApplyRefresh ==
    /\ Len(zeros) = Holders
    /\ zeros' = <<>> /\ epochs' = epochs + 1
    /\ IF /\ ZerosVerify
          /\ NewCommitments[1] = commitments[1]
          /\ \A x \in Points : Verifies(x, NewHeld[x], NewCommitments)
       THEN /\ held' = NewHeld /\ commitments' = NewCommitments
            /\ poly' = [m \in Terms |-> Plus(VssQ, <<poly[m]>> \o [i \in Points |-> zeros[i][m]])]
       ELSE UNCHANGED <<held, commitments, poly>>
    /\ UNCHANGED <<secret, legacy>>

SharingNext ==
    \/ \E f \in [Terms -> Scalars] : GenerateZero(f)
    \/ ApplyRefresh

---------------------------------------------------------------------------

\* Types. Shares, commitments and the secret under refresh lie in the field of
\* secrets.service.ts.
SharingTypeOK ==
    /\ secret \in Scalars /\ poly \in [Terms -> Scalars] /\ held \in [Points -> Scalars]
    /\ commitments \in [Terms -> Elements] /\ epochs \in 0..MaxEpochs
    /\ zeros \in Seq([Terms -> Scalars]) /\ legacy \in [Terms -> 0..255]

Selections == {S \in [Terms -> Points] : \A i, j \in Terms : i # j => S[i] # S[j]}

(* Any ShareThreshold shares, in any order, give the key back, before and  *)
(* after refreshes, and so do the older shares over GF(2^8).               *)
ThresholdRecovers ==
    \A S \in Selections : Reconstruct(S) = secret /\ ReconstructByte(S) = legacy[1]

(* A value verifies for a point exactly when it is that point's share, so  *)
(* a damaged share, or one kept from before a refresh that changed it, is  *)
(* told from a current one.                                                *)
VerifiedIsCurrent ==
    \A x \in Points, y \in Scalars : Verifies(x, y, commitments) <=> y = held[x]
=============================================================================
