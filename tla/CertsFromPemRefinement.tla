----------------------- MODULE CertsFromPemRefinement -----------------------
(***************************************************************************)
(* The batch readers implement the single-pass sequence contract: every    *)
(* step of CertsFromPem is, under the refinement mapping of module         *)
(* CertsFromPem, a step of CertsFromPemAbstract or a stutter.  This is the *)
(* safety half of AbsSpec, proved for every set of DER strings and every   *)
(* bound on the text; the fairness half stays with TLC.                    *)
(***************************************************************************)
EXTENDS CertsFromPemProofs, FiniteSetTheorems

(* Blob i yields a certificate. *)
IsOk(i) == BlockOutcome(i).kind = "ret"

(* The certificate-yielding blobs among the first n. *)
OkBefore(n) == {i \in 1..n : IsOk(i)}

(* The blobs whose certificates the sequence must produce (the positions   *)
(* Filter keeps in ExpectedCerts), and the rank of each among them.        *)
OkSet == OkBefore(FirstTerminal - 1)

(* The rank of i in a set of positions: how many of them are <= i.  Filter *)
(* puts the position of rank k at index k.                                 *)
RankIn(S, i) == Cardinality({m \in S : m <= i})

(* While the generator is suspended, the framer has passed no blob that    *)
(* ends the sequence, and the consumer holds exactly the certificates of   *)
(* the blobs passed, which are the first ones the contract promises.       *)
Track ==
  gen = "suspended" =>
    /\ \A k \in 1..(pos - 1) : ~Terminal(k)
    /\ Len(out) = Cardinality(OkBefore(pos - 1))
    /\ \A k \in 1..Len(out) : out[k] = ExpectedCerts[k]

RInv == TypeOK /\ Track

(* The blob of rank k among OkSet, and the certificates in rank order: the *)
(* closed form of ExpectedCerts the proofs work with.                      *)
OkOfRank(k) == CHOOSE i \in OkSet : RankIn(OkSet, i) = k

RankedCerts == [k \in 1..Cardinality(OkSet) |-> BlockOutcome(OkOfRank(k)).val]


-----------------------------------------------------------------------------
(* Ranks in a finite set of positions. *)

LEMMA RankType ==
  ASSUME NEW S \in SUBSET Nat, IsFiniteSet(S), NEW i \in S
  PROVE  /\ IsFiniteSet({m \in S : m <= i})
         /\ RankIn(S, i) \in 1..Cardinality(S)
<1> DEFINE B == {m \in S : m <= i}
<1>1. IsFiniteSet(B) /\ Cardinality(B) <= Cardinality(S)
  BY FS_Subset
<1>2. Cardinality(B) \in Nat /\ Cardinality(S) \in Nat
  BY <1>1, FS_CardinalityType
<1>3. Cardinality(B) # 0
  <2>1. i \in B
    OBVIOUS
  <2>2. QED
    BY <1>1, <2>1, FS_EmptySet
<1>4. QED
  BY <1>1, <1>2, <1>3 DEF RankIn

(* A later position has a higher rank. *)
LEMMA RankStrict ==
  ASSUME NEW S \in SUBSET Nat, IsFiniteSet(S), NEW i \in S, NEW j \in S,
         i < j
  PROVE  RankIn(S, i) < RankIn(S, j)
<1> DEFINE Bi == {m \in S : m <= i}
           Bj == {m \in S : m <= j}
<1>1. IsFiniteSet(Bj) /\ Cardinality(Bj) \in Nat
  BY FS_Subset, FS_CardinalityType
<1>2. IsFiniteSet(Bj \ {j}) /\ Cardinality(Bj \ {j}) = Cardinality(Bj) - 1
  <2>1. j \in Bj
    OBVIOUS
  <2>2. QED
    BY <1>1, <2>1, FS_RemoveElement
<1>3. Bi \subseteq Bj \ {j}
  <2>1. SUFFICES ASSUME NEW m \in Bi PROVE m \in Bj /\ m # j
    BY DEF Bi, Bj
  <2>2. m \in Nat /\ i \in Nat /\ j \in Nat /\ m <= i
    BY DEF Bi
  <2>3. QED
    BY <2>2 DEF Bj
<1>4. Cardinality(Bi) <= Cardinality(Bj \ {j})
  BY <1>2, <1>3, FS_Subset
<1>5. RankIn(S, i) = Cardinality(Bi) /\ RankIn(S, j) = Cardinality(Bj)
  BY DEF RankIn
<1>6. Cardinality(Bi) \in Nat
  BY <1>2, <1>3, FS_Subset, FS_CardinalityType
<1>7. QED
  BY <1>1, <1>2, <1>4, <1>5, <1>6

(* Every rank 1..Cardinality(S) is taken: the ranks are injective into    *)
(* 1..Cardinality(S), hence onto it.                                      *)
LEMMA RankOnto ==
  ASSUME NEW S \in SUBSET Nat, IsFiniteSet(S),
         NEW k \in 1..Cardinality(S)
  PROVE  \E i \in S : RankIn(S, i) = k
<1> DEFINE F == [i \in S |-> RankIn(S, i)]
           T == 1..Cardinality(S)
<1>1. Cardinality(S) \in Nat
  BY FS_CardinalityType
<1>2. F \in [S -> T]
  BY RankType
<1>3. F \in Injection(S, T)
  <2>1. ASSUME NEW a \in S, NEW b \in S, F[a] = F[b] PROVE a = b
    <3>0. F[a] = RankIn(S, a) /\ F[b] = RankIn(S, b)
      OBVIOUS
    <3>a. RankIn(S, a) \in Nat /\ RankIn(S, b) \in Nat
      <4>1. RankIn(S, a) \in 1..Cardinality(S) /\ RankIn(S, b) \in 1..Cardinality(S)
        BY RankType
      <4>2. QED
        BY <4>1, <1>1
    <3>1. CASE a < b
      <4>1. RankIn(S, a) < RankIn(S, b)
        BY <3>1, RankStrict
      <4>2. QED
        BY <2>1, <3>0, <3>a, <4>1
    <3>2. CASE b < a
      <4>1. RankIn(S, b) < RankIn(S, a)
        BY <3>2, RankStrict
      <4>2. QED
        BY <2>1, <3>0, <3>a, <4>1
    <3>3. QED
      BY <3>1, <3>2
  <2>2. QED
    BY <1>2, <2>1 DEF Injection, IsInjective
<1>4. IsFiniteSet(T) /\ Cardinality(T) = Cardinality(S)
  BY <1>1, FS_Interval
<1>5. F \in Surjection(S, T)
  BY <1>3, <1>4, FS_Injection
<1>6. QED
  BY <1>5 DEF Surjection

(* Two positions of the same rank are the same. *)
LEMMA RankUnique ==
  ASSUME NEW S \in SUBSET Nat, IsFiniteSet(S), NEW x \in S, NEW i \in S,
         RankIn(S, x) = RankIn(S, i)
  PROVE  x = i
<1>1. RankIn(S, x) \in Nat /\ RankIn(S, i) \in Nat
  <2>1. RankIn(S, x) \in 1..Cardinality(S) /\ RankIn(S, i) \in 1..Cardinality(S)
    BY RankType
  <2>2. QED
    BY <2>1, FS_CardinalityType
<1>2. ~(x < i)
  <2>1. SUFFICES ASSUME x < i PROVE FALSE
    OBVIOUS
  <2>2. RankIn(S, x) < RankIn(S, i)
    BY <2>1, RankStrict
  <2>3. QED
    BY <1>1, <2>2
<1>3. ~(i < x)
  <2>1. SUFFICES ASSUME i < x PROVE FALSE
    OBVIOUS
  <2>2. RankIn(S, i) < RankIn(S, x)
    BY <2>1, RankStrict
  <2>3. QED
    BY <1>1, <2>2
<1>4. QED
  BY <1>2, <1>3

(* The position of rank k is unique, so CHOOSE finds it. *)
LEMMA RankChoose ==
  ASSUME NEW S \in SUBSET Nat, IsFiniteSet(S), NEW i \in S
  PROVE  (CHOOSE x \in S : RankIn(S, x) = RankIn(S, i)) = i
<1>1. \A x \in S : RankIn(S, x) = RankIn(S, i) => x = i
  BY RankUnique
<1>2. QED
  BY <1>1

-----------------------------------------------------------------------------
(* What the mapping reads off the input does not change while the input    *)
(* (the text and the two flags) does not: every step of Next keeps it.     *)

LEMMA SameOutcomes ==
  ASSUME UNCHANGED << text, skip, strict >>
  PROVE  /\ \A i : BlockOutcome(i)' = BlockOutcome(i)
         /\ \A i : Terminal(i)' = Terminal(i)
         /\ \A i : IsOk(i)' = IsOk(i)
         /\ \A n : OkBefore(n)' = OkBefore(n)
<1>1. \A i : BlockOutcome(i)' = BlockOutcome(i)
  BY DEF BlockOutcome, from_der
<1>2. \A i : Terminal(i)' = Terminal(i)
  BY <1>1 DEF Terminal
<1>3. \A i : IsOk(i)' = IsOk(i)
  BY <1>1 DEF IsOk
<1>4. QED
  BY <1>1, <1>2, <1>3 DEF OkBefore

LEMMA SameInput ==
  ASSUME UNCHANGED << text, skip, strict >>
  PROVE  /\ FirstTerminal' = FirstTerminal
         /\ ExpectedCerts' = ExpectedCerts
         /\ ExpectedFailure' = ExpectedFailure
<1>1. \A i : BlockOutcome(i)' = BlockOutcome(i) /\ Terminal(i)' = Terminal(i)
  BY SameOutcomes
<1>2. FirstTerminal' = FirstTerminal
  BY DEF FirstTerminal, Terminal, BlockOutcome, from_der
<1>3. ExpectedCerts' = ExpectedCerts
  BY <1>2 DEF ExpectedCerts, C!Filter, BlockOutcome, from_der
<1>4. ExpectedFailure' = ExpectedFailure
  BY <1>1, <1>2, Zenon DEF ExpectedFailure, NoBlockFound
<1>5. QED
  BY <1>2, <1>3, <1>4

-----------------------------------------------------------------------------
(* The first blob that ends the sequence, and the blobs that stop the body. *)

LEMMA FirstTerminalProps ==
  ASSUME TypeOK
  PROVE  /\ FirstTerminal \in 1..(Len(text) + 1)
         /\ \A k \in 1..(FirstTerminal - 1) : ~Terminal(k)
         /\ FirstTerminal <= Len(text) => Terminal(FirstTerminal)
<1>1. Len(text) \in Nat
  BY TextIsSeq DEF TypeOK
<1>2. CASE \E i \in 1..Len(text) : Terminal(i)
  <2> DEFINE S == {i \in 1..Len(text) : Terminal(i)}
  <2>1. S \in SUBSET Nat /\ S # {}
    BY <1>1, <1>2
  <2>2. PICK m \in S : \A k \in S : ~(k < m)
    BY <2>1, FirstStop
  <2>3. m \in 1..Len(text) /\ Terminal(m) /\ \A k \in 1..(m - 1) : ~Terminal(k)
    BY <1>1, <2>2
  <2>4. QED
    BY <1>1, <1>2, <2>3 DEF FirstTerminal
<1>3. CASE ~\E i \in 1..Len(text) : Terminal(i)
  BY <1>1, <1>3 DEF FirstTerminal
<1>4. QED
  BY <1>2, <1>3

LEMMA FirstTerminalIs ==
  ASSUME TypeOK, NEW j \in 1..Len(text), Terminal(j),
         \A k \in 1..(j - 1) : ~Terminal(k)
  PROVE  FirstTerminal = j
<1>1. Len(text) \in Nat
  BY TextIsSeq DEF TypeOK
<1>2. ~(FirstTerminal < j)
  BY <1>1, FirstTerminalProps
<1>3. ~(j < FirstTerminal)
  BY <1>1, FirstTerminalProps
<1>4. QED
  BY <1>1, <1>2, <1>3, FirstTerminalProps

(* A blob that ends the sequence stops the body (non-skip mode). *)
LEMMA TerminalStops ==
  ASSUME NEW i, Terminal(i)
  PROVE  Stops(i)
<1>1. ~skip /\ BlockOutcome(i).kind = "exc"
  BY DEF Terminal
<1>2. QED
  BY <1>1 DEF Stops, FramerStops, BodyStops

(* A blob that yields a certificate was framed, and stops the body. *)
LEMMA OkStops ==
  ASSUME NEW i, IsOk(i)
  PROVE  Stops(i) /\ text[i] # BadPem
<1>1. text[i] # BadPem
  BY DEF IsOk, BlockOutcome, C!Raise
<1>2. QED
  BY <1>1 DEF IsOk, Stops, BodyStops

LEMMA OkBeforeFinite ==
  ASSUME NEW n \in Nat
  PROVE  /\ OkBefore(n) \in SUBSET Nat
         /\ IsFiniteSet(OkBefore(n))
         /\ Cardinality(OkBefore(n)) \in Nat
<1>1. IsFiniteSet(1..n)
  BY FS_Interval
<1>2. OkBefore(n) \subseteq 1..n
  BY DEF OkBefore
<1>3. QED
  BY <1>1, <1>2, FS_Subset, FS_CardinalityType

(* Below the first terminal blob, OkSet and the ok blobs coincide. *)
LEMMA OkSetPrefix ==
  ASSUME TypeOK, NEW n \in 0..(FirstTerminal - 1)
  PROVE  {m \in OkSet : m <= n} = OkBefore(n)
<1>1. FirstTerminal \in Nat
  BY FirstTerminalProps, TextIsSeq DEF TypeOK
<1>2. QED
  BY <1>1 DEF OkSet, OkBefore

LEMMA OkSetFinite ==
  ASSUME TypeOK
  PROVE  /\ OkSet \in SUBSET (1..Len(text))
         /\ OkSet \in SUBSET Nat
         /\ IsFiniteSet(OkSet)
         /\ Cardinality(OkSet) \in Nat
<1>1. FirstTerminal - 1 \in Nat /\ FirstTerminal - 1 <= Len(text)
  BY FirstTerminalProps, TextIsSeq DEF TypeOK
<1>2. QED
  BY <1>1, OkBeforeFinite DEF OkSet, OkBefore

(* ExpectedCerts, the Filter of the outcomes before the first terminal      *)
(* blob, lists the certificates of OkSet in rank order.                    *)
LEMMA OkOfRankProps ==
  ASSUME TypeOK, NEW k \in 1..Cardinality(OkSet)
  PROVE  OkOfRank(k) \in OkSet /\ RankIn(OkSet, OkOfRank(k)) = k
<1>1. OkSet \in SUBSET Nat /\ IsFiniteSet(OkSet)
  BY OkSetFinite
<1>2. \E i \in OkSet : RankIn(OkSet, i) = k
  BY <1>1, RankOnto
<1>3. QED
  BY <1>2 DEF OkOfRank

LEMMA ExpectedCertsRanked ==
  ASSUME TypeOK
  PROVE  ExpectedCerts = RankedCerts
<1> DEFINE n == FirstTerminal - 1
           f == [i \in 1..n |-> BlockOutcome(i)]
           M == {i \in 1..Len(f) : f[i].kind = "ret"}
           Kth(k) == CHOOSE i \in M : C!Cardinality({j \in M : j <= i}) = k
           oks == [k \in 1..C!Cardinality(M) |-> f[Kth(k)]]
<1>1. oks = C!Filter(f, LAMBDA o : o.kind = "ret")
  BY DEF C!Filter
<1>2. ExpectedCerts = [k \in 1..Len(oks) |-> oks[k].val]
  BY <1>1, Zenon DEF ExpectedCerts
<1> HIDE DEF oks
<1>3. n \in Nat
  BY FirstTerminalProps, TextIsSeq DEF TypeOK
<1>4. M = OkSet
  BY <1>3 DEF OkSet, OkBefore, IsOk
<1>5. Cardinality(OkSet) \in Nat /\ OkSet \in SUBSET Nat /\ IsFiniteSet(OkSet)
  BY OkSetFinite
<1>0. \A S : C!Cardinality(S) = Cardinality(S)
  BY DEF C!Cardinality, Cardinality
<1>6. Len(oks) = Cardinality(OkSet)
  <2>1. C!Cardinality(M) = Cardinality(OkSet)
    BY <1>0, <1>4
  <2> HIDE DEF M, Kth
  <2>2. QED
    BY <1>5, <2>1 DEF oks
<1>7. ASSUME NEW k \in 1..Cardinality(OkSet)
      PROVE  oks[k].val = BlockOutcome(OkOfRank(k)).val
  <2>1. \E i \in M : C!Cardinality({j \in M : j <= i}) = k
    <3>1. PICK i \in OkSet : RankIn(OkSet, i) = k
      BY <1>5, RankOnto
    <3>2. QED
      BY <1>0, <1>4, <3>1 DEF RankIn
  <2>2. Kth(k) \in M /\ C!Cardinality({j \in M : j <= Kth(k)}) = k
    BY <2>1
  <2>3. Kth(k) \in OkSet /\ RankIn(OkSet, Kth(k)) = k
    BY <1>0, <1>4, <2>2 DEF RankIn
  <2>4. OkOfRank(k) \in OkSet /\ RankIn(OkSet, OkOfRank(k)) = k
    BY OkOfRankProps
  <2>5. Kth(k) = OkOfRank(k)
    BY <1>5, <2>3, <2>4, RankUnique
  <2>6. OkOfRank(k) \in 1..n
    BY <2>4 DEF OkSet, OkBefore
  <2>7. k \in 1..C!Cardinality(M)
    BY <1>0, <1>4
  <2> HIDE DEF M, Kth
  <2>8. QED
    BY <2>5, <2>6, <2>7 DEF oks
<1>8. QED
  BY <1>2, <1>6, <1>7 DEF RankedCerts

(* The closed form is a sequence of certificates, one per blob of OkSet,   *)
(* the blob of rank k at index k.                                          *)
LEMMA RankedCertsProps ==
  ASSUME TypeOK
  PROVE  /\ RankedCerts \in Seq(Certs)
         /\ Len(RankedCerts) = Cardinality(OkSet)
         /\ \A j \in OkSet : RankIn(OkSet, j) \in 1..Cardinality(OkSet)
                            /\ RankedCerts[RankIn(OkSet, j)] = BlockOutcome(j).val
<1>1. OkSet \in SUBSET (1..Len(text)) /\ OkSet \in SUBSET Nat
      /\ IsFiniteSet(OkSet) /\ Cardinality(OkSet) \in Nat
  BY OkSetFinite
<1>2. ASSUME NEW k \in 1..Cardinality(OkSet)
      PROVE  BlockOutcome(OkOfRank(k)).val \in Certs
  <2>1. OkOfRank(k) \in OkSet
    BY OkOfRankProps
  <2>2. OkOfRank(k) \in 1..Len(text) /\ IsOk(OkOfRank(k))
    BY <1>1, <2>1 DEF OkSet, OkBefore
  <2>3. BlockOutcome(OkOfRank(k)) \in BodyOutcomes
    BY <2>2, BlockOutcomeType
  <2>4. QED
    BY <2>2, <2>3, BodyOutcomeForms DEF IsOk
<1>3. ASSUME NEW j \in OkSet
      PROVE  /\ RankIn(OkSet, j) \in 1..Cardinality(OkSet)
             /\ RankedCerts[RankIn(OkSet, j)] = BlockOutcome(j).val
  <2>1. RankIn(OkSet, j) \in 1..Cardinality(OkSet)
    BY <1>1, RankType
  <2>2. OkOfRank(RankIn(OkSet, j)) = j
    BY <1>1, RankChoose DEF OkOfRank
  <2>3. QED
    BY <2>1, <2>2 DEF RankedCerts
<1>4. QED
  BY <1>1, <1>2, <1>3 DEF RankedCerts

(* The error the sequence ends with is one the input determines, or None. *)
LEMMA ExpectedFailureType ==
  ASSUME TypeOK
  PROVE  /\ ExpectedFailure \in {"PemError", "ASN1Error", None}
         /\ FirstTerminal <= Len(text) =>
              BlockOutcome(FirstTerminal) = C!Raise(ExpectedFailure)
<1>1. Len(text) \in Nat
  BY TextIsSeq DEF TypeOK
<1>2. CASE FirstTerminal <= Len(text)
  <2>1. FirstTerminal \in 1..Len(text) /\ Terminal(FirstTerminal)
    BY <1>1, <1>2, FirstTerminalProps
  <2>2. BlockOutcome(FirstTerminal) \in BodyOutcomes
    BY <2>1, BlockOutcomeType
  <2>3. BlockOutcome(FirstTerminal).kind = "exc"
    BY <2>1 DEF Terminal
  <2>4. QED
    BY <1>2, <2>2, <2>3 DEF ExpectedFailure, BodyOutcomes, C!Ok, C!Raise
<1>3. CASE ~(FirstTerminal <= Len(text))
  BY <1>3 DEF ExpectedFailure
<1>4. QED
  BY <1>2, <1>3

-----------------------------------------------------------------------------
(* The steps.  A next() that stops the body at blob j on a suspended       *)
(* generator: the blobs pos..j-1 it passes neither yield nor end the       *)
(* sequence.                                                               *)

StopHyps(j) ==
  /\ RInv /\ gen = "suspended"
  /\ j \in pos..Len(text) /\ Stops(j) /\ \A k \in pos..(j - 1) : ~Stops(k)
  /\ StopAt(j) /\ UNCHANGED << entry, text, skip, strict >>

LEMMA StopFacts ==
  ASSUME NEW j, StopHyps(j)
  PROVE  /\ Len(text) \in Nat /\ pos \in Nat /\ pos >= 1 /\ j \in 1..Len(text)
         /\ \A k \in 1..(j - 1) : ~Terminal(k)
         /\ OkBefore(j - 1) = OkBefore(pos - 1)
         /\ Len(out) = Cardinality(OkBefore(pos - 1))
         /\ out \in Seq(Certs)
         /\ BlockOutcome(j) \in BodyOutcomes
<1>1. TypeOK /\ Track
  BY DEF StopHyps, RInv
<1>2. Len(text) \in Nat /\ pos \in Nat /\ pos >= 1 /\ j \in 1..Len(text)
      /\ pos <= j
  BY <1>1, TextIsSeq DEF StopHyps, TypeOK
<1>3. /\ \A k \in 1..(pos - 1) : ~Terminal(k)
      /\ Len(out) = Cardinality(OkBefore(pos - 1))
  BY <1>1 DEF StopHyps, Track
<1>4. \A k \in pos..(j - 1) : ~Terminal(k) /\ ~IsOk(k)
  BY TerminalStops, OkStops DEF StopHyps
<1>5. \A k \in 1..(j - 1) : ~Terminal(k)
  BY <1>2, <1>3, <1>4
<1>6. OkBefore(j - 1) = OkBefore(pos - 1)
  BY <1>2, <1>4 DEF OkBefore
<1>7. QED
  BY <1>1, <1>2, <1>3, <1>5, <1>6, BlockOutcomeType DEF TypeOK

(* The yield: blob j is the next one of OkSet, its certificate the next    *)
(* item of the sequence.                                                   *)
LEMMA StopAtOk ==
  ASSUME NEW j, StopHyps(j), IsOk(j)
  PROVE  Abs!Produce /\ Track'
<1>1. /\ Len(text) \in Nat /\ pos \in Nat /\ pos >= 1 /\ j \in 1..Len(text)
      /\ \A k \in 1..(j - 1) : ~Terminal(k)
      /\ OkBefore(j - 1) = OkBefore(pos - 1)
      /\ Len(out) = Cardinality(OkBefore(pos - 1))
      /\ out \in Seq(Certs)
  BY StopFacts
<1>2. TypeOK /\ \A k \in 1..Len(out) : out[k] = ExpectedCerts[k]
  BY DEF StopHyps, RInv, Track
<1>3. \A k \in 1..j : ~Terminal(k)
  BY <1>1 DEF IsOk, Terminal
<1>4. j <= FirstTerminal - 1
  BY <1>1, <1>2, <1>3, FirstTerminalProps
<1>5. OkBefore(j) = OkBefore(j - 1) \cup {j} /\ j \notin OkBefore(j - 1)
  BY <1>1 DEF OkBefore
<1>6. Cardinality(OkBefore(j)) = Len(out) + 1
  <2>1. IsFiniteSet(OkBefore(j - 1))
    BY <1>1, OkBeforeFinite
  <2>2. Cardinality(OkBefore(j - 1) \cup {j}) = Cardinality(OkBefore(j - 1)) + 1
    BY <1>5, <2>1, FS_AddElement
  <2>3. QED
    BY <1>1, <1>5, <2>2
<1>7. j \in OkSet /\ RankIn(OkSet, j) = Len(out) + 1
  <2>1. j \in OkSet
    BY <1>1, <1>4 DEF OkSet, OkBefore
  <2>2. {m \in OkSet : m <= j} = OkBefore(j)
    BY <1>1, <1>2, <1>4, OkSetPrefix
  <2>3. QED
    BY <1>6, <2>1, <2>2 DEF RankIn
<1>8. /\ Len(out) < Len(ExpectedCerts)
      /\ ExpectedCerts[Len(out) + 1] = BlockOutcome(j).val
      /\ ExpectedCerts \in Seq(Certs)
  <2>1. ExpectedCerts = RankedCerts
    BY <1>2, ExpectedCertsRanked
  <2>2. QED
    BY <1>2, <1>7, <2>1, RankedCertsProps
<1>9. BlockOutcome(j) = Abs!Ok(BlockOutcome(j).val)
  <2>1. BlockOutcome(j) \in BodyOutcomes
    BY StopFacts
  <2>2. QED
    BY <2>1 DEF IsOk, BodyOutcomes, C!Ok, C!Raise, Abs!Ok
<1>10. /\ last' = BlockOutcome(j) /\ pos' = j + 1 /\ gen' = "suspended"
       /\ out' = Append(out, BlockOutcome(j).val)
  BY DEF StopHyps, StopAt, IsOk
<1>11. /\ ExpectedCerts' = ExpectedCerts /\ ExpectedFailure' = ExpectedFailure
       /\ \A i : Terminal(i)' = Terminal(i)
       /\ \A i : IsOk(i)' = IsOk(i)
  BY SameInput, SameOutcomes DEF StopHyps
<1>12. Abs!Produce
  BY <1>8, <1>9, <1>10, <1>11 DEF Abs!Produce, StopHyps
<1>13. Track'
  <2>1. \A k \in 1..(pos' - 1) : ~Terminal(k)'
    BY <1>1, <1>3, <1>10, <1>11
  <2>2. (Len(out) = Cardinality(OkBefore(pos - 1)))'
    <3>1. OkBefore(pos - 1)' = OkBefore(j)
      BY <1>1, <1>10, <1>11 DEF OkBefore
    <3>2. QED
      BY <1>1, <1>6, <1>10, <3>1
  <2>3. \A k \in 1..Len(out') : out'[k] = ExpectedCerts'[k]
    BY <1>1, <1>2, <1>8, <1>10, <1>11
  <2>4. QED
    BY <2>1, <2>2, <2>3 DEF Track
<1>14. QED
  BY <1>12, <1>13

(* The raise: blob j is the first blob that ends the sequence, every item *)
(* has been produced, and the error is the one the input fixes.           *)
LEMMA StopAtExc ==
  ASSUME NEW j, StopHyps(j), ~IsOk(j)
  PROVE  Abs!Finish /\ gen' = "finished"
<1>1. /\ Len(text) \in Nat /\ pos \in Nat /\ pos >= 1 /\ j \in 1..Len(text)
      /\ \A k \in 1..(j - 1) : ~Terminal(k)
      /\ OkBefore(j - 1) = OkBefore(pos - 1)
      /\ Len(out) = Cardinality(OkBefore(pos - 1))
      /\ BlockOutcome(j) \in BodyOutcomes
  BY StopFacts
<1>2. TypeOK
  BY DEF StopHyps, RInv
<1>3. BlockOutcome(j).kind = "exc"
  BY <1>1 DEF IsOk, BodyOutcomes, C!Ok, C!Raise
<1>4. Terminal(j)
  <2>1. ~skip
    BY <1>3 DEF StopHyps, Stops, FramerStops, BodyStops
  <2>2. QED
    BY <1>3, <2>1 DEF Terminal
<1>5. FirstTerminal = j
  BY <1>1, <1>2, <1>4, FirstTerminalIs
<1>6. Len(ExpectedCerts) = Len(out)
  <2>1. OkSet = OkBefore(pos - 1)
    BY <1>1, <1>5 DEF OkSet
  <2>2. QED
    BY <1>1, <1>2, <2>1, ExpectedCertsRanked, RankedCertsProps
<1>7. /\ BlockOutcome(j) = C!Raise(ExpectedFailure)
      /\ ExpectedFailure # None
  <2>1. BlockOutcome(j) = C!Raise(ExpectedFailure)
    BY <1>1, <1>2, <1>5, ExpectedFailureType
  <2>2. BlockOutcome(j).val \in {"PemError", "ASN1Error"}
    BY <1>1, <1>3 DEF BodyOutcomes, C!Ok, C!Raise
  <2>3. QED
    BY <2>1, <2>2, CertsFromPemAssumption DEF C!Raise
<1>8. last' = BlockOutcome(j) /\ gen' = "finished" /\ out' = out
  BY <1>3 DEF StopHyps, StopAt
<1>9. ExpectedCerts' = ExpectedCerts /\ ExpectedFailure' = ExpectedFailure
  BY SameInput DEF StopHyps
<1>10. QED
  BY <1>6, <1>7, <1>8, <1>9
  DEF Abs!Finish, Abs!Raise, Abs!End, C!Raise, StopHyps

(* The loop runs off the end of the text: nothing ended the sequence, all *)
(* of it has been produced, and the reader returns (or, on a text with no *)
(* block in non-skip mode, the framer raises PemError).                   *)
LEMMA NoStopFinish ==
  ASSUME RInv, gen = "suspended", \A i \in pos..Len(text) : ~Stops(i),
         last' = IF ~skip /\ NoBlockFound THEN C!Raise("PemError")
                 ELSE StopIteration,
         gen' = "finished", out' = out,
         UNCHANGED << entry, text, skip, strict >>
  PROVE  Abs!Finish
<1>1. TypeOK /\ Track
  BY DEF RInv
<1>2. Len(text) \in Nat /\ pos \in 1..(Len(text) + 1)
  BY <1>1, TextIsSeq DEF TypeOK
<1>3. /\ \A k \in 1..(pos - 1) : ~Terminal(k)
      /\ Len(out) = Cardinality(OkBefore(pos - 1))
  BY <1>1 DEF Track
<1>4. \A k \in pos..Len(text) : ~Terminal(k) /\ ~IsOk(k)
  BY TerminalStops, OkStops
<1>5. FirstTerminal = Len(text) + 1
  BY <1>1, <1>2, <1>3, <1>4, FirstTerminalProps
<1>6. Len(ExpectedCerts) = Len(out)
  <2>1. OkSet = OkBefore(pos - 1)
    BY <1>2, <1>4, <1>5 DEF OkSet, OkBefore
  <2>2. QED
    BY <1>1, <1>3, <2>1, ExpectedCertsRanked, RankedCertsProps
<1>7. ExpectedFailure = IF ~skip /\ NoBlockFound THEN "PemError" ELSE None
  BY <1>2, <1>5 DEF ExpectedFailure
<1>8. ExpectedCerts' = ExpectedCerts /\ ExpectedFailure' = ExpectedFailure
  BY SameInput
<1>9. "PemError" # None
  BY CertsFromPemAssumption
<1>10. QED
  BY <1>6, <1>7, <1>8, <1>9
  DEF Abs!Finish, Abs!Raise, Abs!End, C!Raise, StopIteration

-----------------------------------------------------------------------------
(* The refinement.                                                         *)

LEMMA ResumeStep ==
  ASSUME RInv, Resume
  PROVE  RInv' /\ Abs!Next
<1>1. TypeOK'
  BY ResumeType DEF RInv
<1>2. CASE \E i \in pos..Len(text) : Stops(i)
  <2> DEFINE j == CHOOSE i \in pos..Len(text) :
                    Stops(i) /\ \A k \in pos..(i - 1) : ~Stops(k)
  <2>1. j \in pos..Len(text) /\ Stops(j) /\ \A k \in pos..(j - 1) : ~Stops(k)
    BY <1>2, FirstStopChosen DEF RInv
  <2>2. StopHyps(j)
    BY <1>2, <2>1 DEF Resume, StopHyps
  <2> HIDE DEF j
  <2>3. CASE IsOk(j)
    BY <1>1, <2>2, <2>3, StopAtOk DEF RInv, Abs!Next
  <2>4. CASE ~IsOk(j)
    <3>1. Abs!Finish /\ gen' = "finished"
      BY <2>2, <2>4, StopAtExc
    <3>2. QED
      BY <1>1, <3>1 DEF RInv, Track, Abs!Next
  <2>5. QED
    BY <2>3, <2>4
<1>3. CASE ~\E i \in pos..Len(text) : Stops(i)
  <2>1. /\ gen = "suspended"
        /\ last' = IF ~skip /\ NoBlockFound THEN C!Raise("PemError")
                   ELSE StopIteration
        /\ gen' = "finished" /\ out' = out
        /\ UNCHANGED << entry, text, skip, strict >>
    BY <1>3 DEF Resume
  <2>2. Abs!Finish
    BY <1>3, <2>1, NoStopFinish
  <2>3. QED
    BY <1>1, <2>1, <2>2 DEF RInv, Track, Abs!Next
<1>4. QED
  BY <1>2, <1>3

LEMMA RInit == Init => RInv /\ Abs!Init
<1> SUFFICES ASSUME Init PROVE RInv /\ Abs!Init
  OBVIOUS
<1>1. TypeOK
  BY InitType
<1>2. Track
  <2>1. OkBefore(0) = {}
    BY DEF OkBefore
  <2>2. Cardinality(OkBefore(0)) = 0
    BY <2>1, FS_EmptySet
  <2>3. QED
    BY <2>2 DEF Init, Track
<1>3. ExpectedCerts \in Seq(Certs)
  BY <1>1, ExpectedCertsRanked, RankedCertsProps
<1>4. ExpectedFailure \in {"PemError", "ASN1Error"} \cup {None}
  BY <1>1, ExpectedFailureType
<1>5. QED
  BY <1>1, <1>2, <1>3, <1>4 DEF Init, RInv, Abs!Init

LEMMA RStep == RInv /\ [Next]_vars => RInv' /\ [Abs!Next]_Abs!vars
<1> SUFFICES ASSUME RInv, [Next]_vars PROVE RInv' /\ [Abs!Next]_Abs!vars
  OBVIOUS
<1>1. TypeOK'
  BY TypeStep DEF RInv
<1>2. CASE certs_from_pem
  BY <1>2, ResumeStep DEF certs_from_pem
<1>3. CASE certs_from_pem_file /\ Resume
  BY <1>3, ResumeStep
<1>4. CASE certs_from_pem_file /\ ~Resume
  <2>1. /\ gen = "suspended" /\ last' = C!Raise("IOError") /\ gen' = "finished"
        /\ UNCHANGED << entry, text, skip, strict, pos, out >>
    BY <1>4 DEF certs_from_pem_file
  <2>2. ExpectedCerts' = ExpectedCerts /\ ExpectedFailure' = ExpectedFailure
    BY <2>1, SameInput
  <2>3. Abs!EnvFailure("IOError")
    BY <2>1, <2>2 DEF Abs!EnvFailure, Abs!Raise, C!Raise
  <2>4. QED
    BY <1>1, <2>1, <2>3 DEF RInv, Track, Abs!Next
<1>5. CASE Exhausted
  <2>1. /\ gen = "finished" /\ last' = StopIteration
        /\ UNCHANGED << entry, text, skip, strict, pos, gen, out >>
    BY <1>5 DEF Exhausted
  <2>2. ExpectedCerts' = ExpectedCerts /\ ExpectedFailure' = ExpectedFailure
    BY <2>1, SameInput
  <2>3. Abs!AfterEnd
    BY <2>1, <2>2 DEF Abs!AfterEnd, Abs!End, Abs!Raise, StopIteration, C!Raise
  <2>4. QED
    BY <1>1, <2>1, <2>3 DEF RInv, Track, Abs!Next
<1>6. CASE UNCHANGED vars
  <2>1. UNCHANGED << entry, text, skip, strict, pos, gen, out, last >>
    BY <1>6 DEF vars
  <2>2. /\ ExpectedCerts' = ExpectedCerts /\ ExpectedFailure' = ExpectedFailure
        /\ \A i : Terminal(i)' = Terminal(i)
        /\ \A i : IsOk(i)' = IsOk(i)
    BY <2>1, SameInput, SameOutcomes
  <2>3. OkBefore(pos - 1)' = OkBefore(pos - 1)
    BY <2>1, <2>2 DEF OkBefore
  <2>4. Track'
    BY <2>1, <2>2, <2>3 DEF RInv, Track
  <2>5. QED
    BY <1>1, <2>1, <2>2, <2>4 DEF RInv, Abs!vars
<1>7. QED
  BY <1>2, <1>3, <1>4, <1>5, <1>6 DEF Next

(* For every set of DER strings and every bound on the text, the batch     *)
(* readers certs_from_pem and certs_from_pem_file implement the contract  *)
(* of spec 4.4 (the safety part of AbsSpec): each next() yields the next  *)
(* certificate of the blocks that decode, or ends the sequence once with  *)
(* the error the text fixes (or StopIteration), or with IOError from the  *)
(* file, and after the end says only StopIteration.                       *)
THEOREM Refinement == Spec => Abs!Spec
<1>1. Init => RInv /\ Abs!Init
  BY RInit
<1>2. RInv /\ [Next]_vars => RInv' /\ [Abs!Next]_Abs!vars
  BY RStep
<1>3. QED
  BY <1>1, <1>2, PTL DEF Spec, Abs!Spec

=============================================================================
