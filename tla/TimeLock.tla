------------------------------ MODULE TimeLock ------------------------------
(***************************************************************************)
(* Documents locked by a delay (vdf.ts): the key is a hash of              *)
(* y = x^(2^T) mod N, which takes T squarings to compute, and the lockbox  *)
(* carries a Wesolowski proof of y.  Pietrzak proofs, the search for the   *)
(* primes of N and the verifier contract are modelled with the same        *)
(* arithmetic on small numbers.  keccak256 is a value drawn once for the   *)
(* true statement and once for all others.                                 *)
(***************************************************************************)
EXTENDS Naturals, Sequences, SequencesExt

CONSTANTS
    PrimeStarts,    \* where the search for the primes of N begins
    LockSeeds,      \* digests that x is derived from
    MaxDelay,       \* largest T
    DefaultBits,    \* DEFAULT_CHALLENGE_BITS
    OtherBits       \* another length a caller may seal with

ASSUME LockConstants ==
    /\ PrimeStarts \subseteq Nat \ {0, 1} /\ LockSeeds \subseteq Nat
    /\ MaxDelay \in Nat \ {0} /\ OtherBits \in 1..DefaultBits

VARIABLES
    lock,       \* VdfParams: [N, x, T]
    digests,    \* keccak256 of the true statement and of the others
    lockbox,    \* the sealed document, in a singleton set
    sealKey,    \* output whose hash encrypted the document
    damaged,    \* the lockbox was altered where it is stored
    outcome     \* of decryptTimelock

lockVars == <<lock, digests, lockbox, sealKey, damaged, outcome>>

OneTo(n) == [i \in 1..n |-> i]

\* Square and multiply, from the lowest bit of e.
PowMod(b, e, m) ==
    LET Step(s, i) == IF s.e = 0 THEN s
                      ELSE [r |-> IF s.e % 2 = 1 THEN (s.r * s.b) % m ELSE s.r,
                            b |-> (s.b * s.b) % m, e |-> s.e \div 2]
    IN  IF m = 1 THEN 0 ELSE FoldLeft(Step, [r |-> 1, b |-> b % m, e |-> e], OneTo(e)).r

\* Miller-Rabin with the code's bases; n - 1 = d * 2^s.
Bases == <<2, 3, 5, 7, 11, 13, 17, 19, 23>>
isProbablePrime(n) ==
    LET s == CHOOSE k \in 0..n : (n - 1) % 2^k = 0 /\ ((n - 1) \div 2^k) % 2 = 1
        d == (n - 1) \div 2^s
        Passes(a) == \/ a % n = 0 \/ PowMod(a, d, n) \in {1, n - 1}
                     \/ \E r \in 1..(s - 1) : PowMod(a, d * 2^r, n) = n - 1
    IN  \/ n \in {2, 3}
        \/ n > 3 /\ n % 2 = 1 /\ \A i \in DOMAIN Bases : Passes(Bases[i])

\* findPrimeNear: odd numbers from start | 1 upwards.
findPrimeNear(start) ==
    LET from == IF start % 2 = 1 THEN start ELSE start + 1 IN
    CHOOSE n \in from..(2 * from) : n % 2 = 1 /\ isProbablePrime(n)
        /\ \A m \in from..(n - 1) : m % 2 = 1 => ~isProbablePrime(m)

RsaModuli == {findPrimeNear(p[1]) * findPrimeNear(p[2]) :
                p \in {q \in PrimeStarts \X PrimeStarts : findPrimeNear(q[1]) < findPrimeNear(q[2])}}

\* deriveChallengeElement
ChallengeElement(h, N) == IF h % N <= 1 THEN 2 ELSE h % N

\* evaluateVdf: T squarings
evaluateVdf(x, T, N) == FoldLeft(LAMBDA y, i : (y * y) % N, x % N, OneTo(T))

\* fiatShamirChallenge: the digest cut to the challenge's bits, at least 3 and odd.
Digest(y) == digests[y = evaluateVdf(lock.x, lock.T, lock.N)]
fiatShamirChallenge(y, bits) ==
    LET m == Digest(y) % 2^bits
        l == IF m < 3 THEN 3 ELSE m
    IN  IF l % 2 = 0 THEN l + 1 ELSE l

\* proveWesolowski: pi = x^floor(2^T / l), bit by bit from the top, with r = 2^T mod l.
proveWesolowski(bits) ==
    LET y == evaluateVdf(lock.x, lock.T, lock.N)
        l == fiatShamirChallenge(y, bits)
        Step(s, i) ==
            LET square == (s.pi * s.pi) % lock.N IN
            [pi |-> IF 2 * s.rem >= l THEN (square * lock.x) % lock.N ELSE square,
             rem |-> (2 * s.rem) % l]
        end == FoldLeft(Step, [pi |-> 1, rem |-> 1], OneTo(lock.T))
    IN  [y |-> y, pi |-> end.pi, l |-> l, r |-> end.rem]

\* verifyWesolowski, with the default length of the challenge.
verifyWesolowski(p) ==
    /\ p.l = fiatShamirChallenge(p.y, DefaultBits)
    /\ p.r = PowMod(2, lock.T, p.l)
    /\ (PowMod(p.pi, p.l, lock.N) * PowMod(lock.x, p.r, lock.N)) % lock.N = p.y % lock.N

\* VDFVerifier.verifyWesolowski, which also wants every number below N and not 0.
ChainVerifies(p) ==
    /\ lock.N >= 3 /\ lock.T > 0 /\ p.l >= 3 /\ p.l % 2 = 1
    /\ {lock.x, p.y, p.pi} \subseteq 1..(lock.N - 1)
    /\ verifyWesolowski([p EXCEPT !.r = PowMod(2, lock.T, p.l)])

\* pietrzakChallenge: never 0
PietrzakChallenge(h) == IF h = 0 THEN 1 ELSE h

\* One halving round of provePietrzak, verifyPietrzak and verifyPietrzakRound.
Halve(s, mu, h) ==
    LET r == PietrzakChallenge(h) IN
    [x |-> (PowMod(s.x, r, lock.N) * mu) % lock.N,
     y |-> (PowMod(mu, r, lock.N) * s.y) % lock.N, T |-> s.T \div 2]

Rounds(T) == CHOOSE k \in 0..T : 2^k = T

\* provePietrzak: the midpoint of every round.
provePietrzak(h) ==
    LET Round(s, i) ==
            LET mu == evaluateVdf(s.at.x, s.at.T \div 2, lock.N) IN
            [mus |-> Append(s.mus, mu), at |-> Halve(s.at, mu, h)]
        start == [x |-> lock.x, y |-> evaluateVdf(lock.x, lock.T, lock.N), T |-> lock.T]
    IN  FoldLeft(Round, [mus |-> <<>>, at |-> start], OneTo(Rounds(lock.T))).mus

\* verifyPietrzak, for an output y.
verifyPietrzak(y, mus, h) ==
    LET end == FoldLeft(LAMBDA s, mu : Halve(s, mu, h), [x |-> lock.x, y |-> y, T |-> lock.T], mus) IN
    /\ Len(mus) = Rounds(lock.T) /\ \A i \in DOMAIN mus : mus[i] \in 1..(lock.N - 1)
    /\ end.T = 1 /\ (end.x * end.x) % lock.N = end.y

LockInit ==
    /\ \E N \in RsaModuli, h \in LockSeeds, T \in 1..MaxDelay :
          lock = [N |-> N, x |-> ChallengeElement(h, N), T |-> T]
    /\ digests \in [BOOLEAN -> 0..(2^DefaultBits - 1)]
    /\ lockbox = {} /\ sealKey = 0 /\ damaged = FALSE /\ outcome = "none"

\* encryptTimelock; the length of the challenge is the caller's.
encryptTimelock(bits) ==
    /\ lockbox = {}
    /\ LET p == proveWesolowski(bits) IN
       lockbox' = {[y |-> p.y, pi |-> p.pi, l |-> p.l, bits |-> bits]} /\ sealKey' = p.y
    /\ UNCHANGED <<lock, digests, damaged, outcome>>

\* The lockbox is altered where it is stored.
Damage(field) ==
    /\ lockbox # {} /\ ~damaged /\ outcome = "none"
    /\ lockbox' = {[p EXCEPT ![field] = @ + 1] : p \in lockbox} /\ damaged' = TRUE
    /\ UNCHANGED <<lock, digests, sealKey, outcome>>

(* decryptTimelock: the output is computed again, then the proof is        *)
(* verified, then the hash of y decrypts or the authentication tag fails.  *)
decryptTimelock ==
    /\ lockbox # {} /\ outcome = "none"
    /\ \E p \in lockbox :
         outcome' = CASE evaluateVdf(lock.x, lock.T, lock.N) # p.y -> "mismatch"
                      [] ~verifyWesolowski([y |-> p.y, pi |-> p.pi, l |-> p.l,
                                            r |-> PowMod(2, lock.T, p.l)]) -> "invalid"
                      [] p.y # sealKey -> "tag"
                      [] OTHER -> "opened"
    /\ UNCHANGED <<lock, digests, lockbox, sealKey, damaged>>

LockNext ==
    \/ \E bits \in {DefaultBits, OtherBits} : encryptTimelock(bits)
    \/ \E field \in {"y", "pi", "l"} : Damage(field)
    \/ decryptTimelock

---------------------------------------------------------------------------

\* Type invariant of the time lock.
LockTypeOK ==
    /\ lock.x \in 1..(lock.N - 1) /\ lock.T \in 1..MaxDelay /\ sealKey \in 0..lock.N
    /\ outcome \in {"none", "mismatch", "invalid", "tag", "opened"} /\ damaged \in BOOLEAN

(* A document sealed with the default challenge opens again, one with      *)
(* another length only if its challenge happens to agree, and a lockbox    *)
(* altered in its output or its challenge never opens (decryptTimelock).   *)
LocksOpen ==
    \A p \in lockbox :
        /\ outcome # "none" /\ ~damaged /\ p.bits = DefaultBits => outcome = "opened"
        /\ outcome = "opened" => p.y = sealKey /\ p.l = fiatShamirChallenge(p.y, DefaultBits)

(* The prover's proofs are accepted by verifyWesolowski, by the contract   *)
(* and by verifyPietrzak, the fast exponentiation agrees with repeated     *)
(* squaring, and the numbers the search finds are prime.                   *)
LockProofsHold ==
    lockbox = {} =>
        /\ verifyWesolowski(proveWesolowski(DefaultBits)) /\ ChainVerifies(proveWesolowski(DefaultBits))
        /\ lock.T \in {2, 4} =>
               verifyPietrzak(evaluateVdf(lock.x, lock.T, lock.N), provePietrzak(digests[TRUE]), digests[TRUE])
        /\ evaluateVdf(lock.x, lock.T, lock.N) = PowMod(lock.x, 2^lock.T, lock.N)
        /\ \A s \in PrimeStarts : \A d \in 2..(findPrimeNear(s) - 1) : findPrimeNear(s) % d # 0
=============================================================================
