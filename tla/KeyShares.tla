------------------------------ MODULE KeyShares ------------------------------
(***************************************************************************)
(* A user obtains its private key and the public key of the system from    *)
(* the KGCs (getSk of user.go): it asks one after the other, round after   *)
(* round, for a share of both, refuses a share that does not verify, and   *)
(* interpolates once it has Threshold of them.  What the keys are for,     *)
(* Encrypt and Decrypt, Signature and SignatureVerify, follows.            *)
(*                                                                         *)
(* A point of G1, G2 or Gt is its exponent to the generator, a scalar is   *)
(* an integer modulo the order P of the groups, and H2 is one to one.  The *)
(* KGCs are not in the repository: a KGC holds the value at its number of  *)
(* one polynomial, and a share comes late, garbled or never.               *)
(***************************************************************************)
EXTENDS Integers, Sequences, FiniteSets

CONSTANTS
    P,              \* order of the groups
    Threshold,
    KGC,            \* number of KGCs: they are numbered 1 .. KGC
    Steady,         \* KGCs that keep answering
    User,
    Qid             \* Qid[u]: H12 of u's identity

Scalar == 0 .. P - 1

ASSUME GroupAssumption ==
    /\ P \in Nat \ {0, 1}
    /\ \A a \in 1 .. P - 1 : \E b \in Scalar : (a * b) % P = 1
ASSUME KGCAssumption ==
    /\ Threshold \in Nat \ {0} /\ KGC \in Threshold .. P - 1
    /\ Steady \subseteq 1 .. KGC
ASSUME UserAssumption == Qid \in [User -> 1 .. P - 1]

VARIABLES
    Coeff,      \* the polynomial of the KGCs; Coeff[1] is the master secret
    at,         \* at[u]: the KGC the inner loop of getSk is at
    vis,        \* vis[u]: KGCs whose share u has taken
    shares,     \* shares[u]: skShares and ppubShares
    sk, PPub,   \* keys of u
    state       \* "asks", "has shares", "has key" or "panics"

vars == <<Coeff, at, vis, shares, sk, PPub, state>>

-----------------------------------------------------------------------------
(* thss.go *)

(* Sum and power of x after each coefficient; xi is the power. *)
PolySums(coeff, x) ==
    LET poly[i \in 0 .. Len(coeff)] ==
          IF i = 0 THEN [sum |-> 0, xi |-> 1]
          ELSE [sum |-> (poly[i - 1].sum + poly[i - 1].xi * coeff[i]) % P,
                xi  |-> (poly[i - 1].xi * x) % P]
    IN  poly

PolyEval(coeff, x) == PolySums(coeff, x)[Len(coeff)].sum

Inv(a) == CHOOSE b \in Scalar : (a * b) % P = 1

(* The product of x - j over the indices j but idx, after each of them:    *)
(* upper for x = target and lower for x = idx.                             *)
Differences(x, idx, idxList) ==
    LET prod[i \in 0 .. Len(idxList)] ==
          IF i = 0 THEN 1
          ELSE IF idxList[i] = idx THEN prod[i - 1]
          ELSE (prod[i - 1] * (x - idxList[i])) % P
    IN  prod

LagrangeCoeff(idx, target, idxList) ==
    LET upper == Differences(target, idx, idxList)[Len(idxList)]
        lower == Differences(idx, idx, idxList)[Len(idxList)]
    IN  (upper * Inv(lower)) % P

Indices(points) == [i \in 1 .. Len(points) |-> points[i].Index]

(* BlsG1LagrangeScalar and BlsG2LagrangeScalar do the same in exponents. *)
LagrangeSums(points, target) ==
    LET secret[i \in 0 .. Len(points)] ==
          IF i = 0 THEN 0
          ELSE (secret[i - 1] + points[i].Value *
                  LagrangeCoeff(points[i].Index, target, Indices(points))) % P
    IN  secret

LagrangeScalar(points, target) == LagrangeSums(points, target)[Len(points)]

-----------------------------------------------------------------------------
(* getSk *)

Pair(a, b) == (a * b) % P

FaultyVerified(u, i, ppubShare, skShare) ==      \* fault: e(PPub, Qid) is not asked
    ppubShare = PolyEval(Coeff, i)

(* CheckProofSingleG1, and e(ppubShare, Qid) = e(G1, skShare) *)
Verified(u, i, ppubShare, skShare) ==
    /\ ppubShare = PolyEval(Coeff, i)
    /\ Pair(ppubShare, Qid[u]) = skShare

FaultyVisited(u, i) == vis[u]                   \* fault: as in getPPub

Visited(u, i) == vis[u] \cup {i}

FaultyFollowing(i) == IF i = KGC THEN i ELSE i + 1      \* fault: one round only

Following(i) == (i % KGC) + 1

Points(u, k) ==
    [i \in 1 .. Len(shares[u]) |-> [Index |-> shares[u][i].Index, Value |-> shares[u][i][k]]]

(* On to the next KGC; after the last one the outer loop tests the count. *)
Continue(u, taken) ==
    IF at[u] = KGC /\ Len(taken) >= Threshold
    THEN state' = [state EXCEPT ![u] = "has shares"] /\ UNCHANGED at
    ELSE at' = [at EXCEPT ![u] = Following(@)] /\ UNCHANGED state

Break(u, taken) ==
    IF Len(taken) >= Threshold
    THEN state' = [state EXCEPT ![u] = "has shares"] /\ UNCHANGED at
    ELSE Continue(u, taken)

Skip(u) ==
    /\ state[u] = "asks"
    /\ at[u] \in vis[u]
    /\ Continue(u, shares[u])
    /\ UNCHANGED <<Coeff, vis, shares, sk, PPub>>

(* No answer in time, or one that cannot be read. *)
Fail(u) ==
    /\ state[u] = "asks"
    /\ at[u] \notin vis[u]
    /\ Continue(u, shares[u])
    /\ UNCHANGED <<Coeff, vis, shares, sk, PPub>>

Receive(u, ppubShare, skShare) ==
    /\ state[u] = "asks"
    /\ at[u] \notin vis[u]
    /\ LET taken == Append(shares[u], [Index |-> at[u], ppub |-> ppubShare, sk |-> skShare])
       IN  IF ~ Verified(u, at[u], ppubShare, skShare)
           THEN Continue(u, shares[u]) /\ UNCHANGED <<vis, shares>>
           ELSE IF Len(shares[u]) = Threshold     \* skShares has Threshold places
           THEN /\ state' = [state EXCEPT ![u] = "panics"]
                /\ UNCHANGED <<at, vis, shares>>
           ELSE /\ vis' = [vis EXCEPT ![u] = Visited(u, at[u])]
                /\ shares' = [shares EXCEPT ![u] = taken]
                /\ Break(u, taken) \/ Continue(u, taken)    \* Body.Close may fail
    /\ UNCHANGED <<Coeff, sk, PPub>>

Interpolate(u) ==
    /\ state[u] = "has shares"
    /\ state' = [state EXCEPT ![u] = "has key"]
    /\ sk' = [sk EXCEPT ![u] = LagrangeScalar(Points(u, "sk"), Threshold)]
    /\ PPub' = [PPub EXCEPT ![u] = LagrangeScalar(Points(u, "ppub"), Threshold)]
    /\ UNCHANGED <<Coeff, at, vis, shares>>

Init ==
    /\ Coeff \in [1 .. Threshold -> Scalar]
    /\ at = [u \in User |-> 1]
    /\ vis = [u \in User |-> {}]
    /\ shares = [u \in User |-> <<>>]
    /\ sk = [u \in User |-> 0] /\ PPub = [u \in User |-> 0]
    /\ state = [u \in User |-> "asks"]

GoodAnswer(u) ==
    LET v == PolyEval(Coeff, at[u]) IN Receive(u, v, Pair(v, Qid[u]))

(* A garbled answer has one of the two values wrong, or both. *)
Next ==
    \E u \in User :
        \/ Skip(u) \/ Fail(u) \/ Interpolate(u)
        \/ \E d, e \in {0, 1} :
              LET v == (PolyEval(Coeff, at[u]) + d) % P
              IN  Receive(u, v, (Pair(v, Qid[u]) + e) % P)

(* getSk goes round for ever; a steady KGC answers it in time again and    *)
(* again.                                                                  *)
Fairness ==
    \A u \in User :
        /\ WF_vars(Skip(u) \/ Fail(u) \/ Interpolate(u))
        /\ SF_vars(at[u] \in Steady /\ GoodAnswer(u))

Spec == Init /\ [][Next]_vars /\ Fairness

-----------------------------------------------------------------------------
(* What the keys are for; r is random. *)

Encrypt(u, receiver, M, r) ==
    [U |-> r, V |-> <<M, (Pair(PPub[u], Qid[receiver]) * r) % P>>]

(* XorBytes takes the mask off only if it is the same. *)
Decrypt(u, c) == IF c.V[2] = Pair(c.U, sk[u]) THEN c.V[1] ELSE "noise"

FaultySignature(u, M, r) ==                 \* fault: rP for rPPub
    [U |-> r, V |-> <<M, (sk[u] * r) % P>>]

Signature(u, M, r) ==
    [U |-> (r * PPub[u]) % P, V |-> <<M, (sk[u] * r) % P>>]

SignatureVerify(sender, sig, M) ==
    sig.V = <<M, Pair(sig.U, Qid[sender])>>

-----------------------------------------------------------------------------
HasKey == {u \in User : state[u] = "has key"}

TypeOK ==
    /\ Coeff \in [1 .. Threshold -> Scalar]
    /\ at \in [User -> 1 .. KGC]
    /\ vis \in [User -> SUBSET (1 .. KGC)]
    /\ shares \in [User -> Seq([Index : 1 .. KGC, ppub : Scalar, sk : Scalar])]
    /\ sk \in [User -> Scalar] /\ PPub \in [User -> Scalar]
    /\ state \in [User -> {"asks", "has shares", "has key", "panics"}]

(* Whichever KGCs answered a user and in whatever order, it has the key of  *)
(* the one polynomial at Threshold: two users agree on PPub.                *)
SameKeyForAll ==
    \A u \in HasKey :
        /\ PPub[u] = PolyEval(Coeff, Threshold)
        /\ sk[u] = (PolyEval(Coeff, Threshold) * Qid[u]) % P

(* What one user encrypts for another can be read by it, although the two   *)
(* interpolated from different shares, some of which were garbled at first. *)
EncryptedIsReadable ==
    \A u, v \in HasKey, r \in Scalar : Decrypt(v, Encrypt(u, v, "M", r)) = "M"

(* A signature verifies against its maker. *)
SignedIsVerified ==
    \A u \in HasKey, r \in Scalar : SignatureVerify(u, Signature(u, "M", r), "M")

(* With Threshold steady KGCs getSk does not go round for ever: the key is  *)
(* obtained, but for a process that panics (see NoPanic).                   *)
GetSkEnds ==
    Cardinality(Steady) >= Threshold =>
        \A u \in User : <>(state[u] \in {"has key", "panics"})

(* thss.go:76 and 115: "solve for the main secret by interpolation".        *)
MasterKeyRecovered == \A u \in HasKey : PPub[u] = Coeff[1]

(* getSk writes within skShares, also when a Body cannot be closed: the     *)
(* continue of line 229 skips the test of the count.                        *)
NoPanic == \A u \in User : state[u] # "panics"
=============================================================================
