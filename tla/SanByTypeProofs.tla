-------------------------- MODULE SanByTypeProofs --------------------------
(***************************************************************************)
(* subject_dns_names and subject_ip_addresses (cert.py:251-269) filter     *)
(* each SAN extension by name type and concatenate the results; the        *)
(* property SanByTypeConsistent says this is the same list as filtering    *)
(* subject_alternative_names() (cert.py:216-249), the concatenation of all *)
(* SAN extensions.  Both Filter and Flatten list the members of a finite   *)
(* set of positions in order, so the proof is about ranks: the rank of a   *)
(* member in a finite totally ordered set, and maps that preserve it.      *)
(***************************************************************************)
EXTENDS CertificateProofs

-----------------------------------------------------------------------------
(* Ranks in a finite set under a total order given as a set of pairs.      *)

TotalOrderOn(A, R) ==
  /\ \A x \in A : <<x, x>> \in R
  /\ \A x, y \in A : <<x, y>> \in R /\ <<y, x>> \in R => x = y
  /\ \A x, y, z \in A : <<x, y>> \in R /\ <<y, z>> \in R => <<x, z>> \in R
  /\ \A x, y \in A : <<x, y>> \in R \/ <<y, x>> \in R

BelowBy(A, R, a) == {x \in A : <<x, a>> \in R}

RankBy(A, R, a) == Cardinality(BelowBy(A, R, a))

NthBy(A, R, k) == CHOOSE a \in A : RankBy(A, R, a) = k

LEMMA RankByType ==
  ASSUME NEW A, IsFiniteSet(A), NEW R, TotalOrderOn(A, R), NEW a \in A
  PROVE  /\ IsFiniteSet(BelowBy(A, R, a))
         /\ RankBy(A, R, a) \in 1..Cardinality(A)
<1>1. BelowBy(A, R, a) \subseteq A
  BY DEF BelowBy
<1>2. IsFiniteSet(BelowBy(A, R, a))
      /\ Cardinality(BelowBy(A, R, a)) <= Cardinality(A)
  BY <1>1, FS_Subset
<1>3. Cardinality(BelowBy(A, R, a)) \in Nat /\ Cardinality(A) \in Nat
  BY <1>2, FS_CardinalityType
<1>4. Cardinality(BelowBy(A, R, a)) # 0
  <2>1. a \in BelowBy(A, R, a)
    BY DEF TotalOrderOn, BelowBy
  <2>2. QED
    BY <1>2, <2>1, FS_EmptySet
<1>5. QED
  BY <1>2, <1>3, <1>4 DEF RankBy

LEMMA RankByStrict ==
  ASSUME NEW A, IsFiniteSet(A), NEW R, TotalOrderOn(A, R),
         NEW x \in A, NEW y \in A, <<x, y>> \in R, x # y
  PROVE  RankBy(A, R, x) < RankBy(A, R, y)
<1> DEFINE Bx == BelowBy(A, R, x)
           By == BelowBy(A, R, y)
<1>1. IsFiniteSet(By) /\ Cardinality(By) \in Nat
  BY RankByType, FS_CardinalityType
<1>2. y \in By
  BY DEF TotalOrderOn, BelowBy
<1>3. IsFiniteSet(By \ {y}) /\ Cardinality(By \ {y}) = Cardinality(By) - 1
  BY <1>1, <1>2, FS_RemoveElement
<1>4. Bx \subseteq By \ {y}
  <2>1. SUFFICES ASSUME NEW z \in Bx PROVE z \in By /\ z # y
    BY DEF Bx, By
  <2>2. z \in A /\ <<z, x>> \in R
    BY DEF Bx, BelowBy
  <2>3. <<z, y>> \in R
    BY <2>2 DEF TotalOrderOn
  <2>4. z # y
    BY <2>2 DEF TotalOrderOn
  <2>5. QED
    BY <2>2, <2>3, <2>4 DEF By, BelowBy
<1>5. Cardinality(Bx) <= Cardinality(By \ {y}) /\ Cardinality(Bx) \in Nat
  BY <1>3, <1>4, FS_Subset, FS_CardinalityType
<1>6. QED
  BY <1>1, <1>3, <1>5 DEF RankBy

(* The rank is monotone both ways, so it is injective. *)
LEMMA RankByMono ==
  ASSUME NEW A, IsFiniteSet(A), NEW R, TotalOrderOn(A, R),
         NEW x \in A, NEW y \in A
  PROVE  /\ <<x, y>> \in R <=> RankBy(A, R, x) <= RankBy(A, R, y)
         /\ RankBy(A, R, x) = RankBy(A, R, y) => x = y
<1>1. RankBy(A, R, x) \in Nat /\ RankBy(A, R, y) \in Nat
  BY RankByType
<1>2. CASE x = y
  BY <1>1, <1>2 DEF TotalOrderOn
<1>3. CASE x # y /\ <<x, y>> \in R
  <2>1. RankBy(A, R, x) < RankBy(A, R, y)
    BY <1>3, RankByStrict
  <2>2. QED
    BY <1>1, <1>3, <2>1
<1>4. CASE x # y /\ <<x, y>> \notin R
  <2>1. <<y, x>> \in R
    BY <1>4 DEF TotalOrderOn
  <2>2. RankBy(A, R, y) < RankBy(A, R, x)
    BY <1>4, <2>1, RankByStrict
  <2>3. QED
    BY <1>1, <1>4, <2>2
<1>5. QED
  BY <1>2, <1>3, <1>4

(* Every rank 1..Cardinality(A) is taken, and NthBy finds its member. *)
LEMMA NthByProps ==
  ASSUME NEW A, IsFiniteSet(A), NEW R, TotalOrderOn(A, R),
         NEW k \in 1..Cardinality(A)
  PROVE  NthBy(A, R, k) \in A /\ RankBy(A, R, NthBy(A, R, k)) = k
<1> DEFINE F == [a \in A |-> RankBy(A, R, a)]
           T == 1..Cardinality(A)
<1>1. Cardinality(A) \in Nat
  BY FS_CardinalityType
<1>2. F \in [A -> T]
  BY RankByType
<1>3. F \in Injection(A, T)
  <2>1. \A x, y \in A : F[x] = F[y] => x = y
    BY RankByMono
  <2>2. QED
    BY <1>2, <2>1 DEF Injection, IsInjective
<1>4. IsFiniteSet(T) /\ Cardinality(T) = Cardinality(A)
  BY <1>1, FS_Interval
<1>5. F \in Surjection(A, T)
  BY <1>3, <1>4, FS_Injection
<1>6. \E a \in A : RankBy(A, R, a) = k
  BY <1>5 DEF Surjection
<1>7. QED
  BY <1>6 DEF NthBy

LEMMA NthByRank ==
  ASSUME NEW A, IsFiniteSet(A), NEW R, TotalOrderOn(A, R), NEW a \in A
  PROVE  NthBy(A, R, RankBy(A, R, a)) = a
<1>1. RankBy(A, R, a) \in 1..Cardinality(A)
  BY RankByType
<1>2. NthBy(A, R, RankBy(A, R, a)) \in A
      /\ RankBy(A, R, NthBy(A, R, RankBy(A, R, a))) = RankBy(A, R, a)
  BY <1>1, NthByProps
<1>3. QED
  BY <1>2, RankByMono

(* A map onto B that preserves the order both ways preserves ranks, so it *)
(* maps the member of rank k of A to the member of rank k of B.           *)
LEMMA RankByIso ==
  ASSUME NEW A, IsFiniteSet(A), NEW R, TotalOrderOn(A, R),
         NEW B, NEW S, TotalOrderOn(B, S),
         NEW h \in [A -> B], \A b \in B : \E a \in A : h[a] = b,
         \A x, y \in A : <<x, y>> \in R <=> <<h[x], h[y]>> \in S
  PROVE  /\ IsFiniteSet(B) /\ Cardinality(B) = Cardinality(A)
         /\ \A a \in A : RankBy(B, S, h[a]) = RankBy(A, R, a)
         /\ \A k \in 1..Cardinality(A) : h[NthBy(A, R, k)] = NthBy(B, S, k)
<1>1. \A x, y \in A : h[x] = h[y] => x = y
  BY DEF TotalOrderOn
<1>2. IsFiniteSet(B) /\ Cardinality(B) = Cardinality(A)
  <2>1. h \in Surjection(A, B)
    BY DEF Surjection
  <2>2. IsFiniteSet(B) /\ (Cardinality(B) = Cardinality(A) <=> h \in Injection(A, B))
    BY <2>1, FS_Surjection
  <2>3. h \in Injection(A, B)
    BY <1>1 DEF Injection, IsInjective
  <2>4. QED
    BY <2>2, <2>3
<1>3. ASSUME NEW a \in A PROVE RankBy(B, S, h[a]) = RankBy(A, R, a)
  <2> DEFINE X == BelowBy(A, R, a)
             Y == BelowBy(B, S, h[a])
             g == [x \in X |-> h[x]]
  <2>1. IsFiniteSet(Y)
    <3>1. Y \subseteq B
      BY DEF Y, BelowBy
    <3>2. QED
      BY <1>2, <3>1, FS_Subset
  <2>2. g \in Injection(X, Y)
    BY <1>1 DEF g, X, Y, BelowBy, Injection, IsInjective
  <2>3. g \in Surjection(X, Y)
    <3>1. SUFFICES ASSUME NEW b \in Y PROVE \E x \in X : g[x] = b
      BY <2>2 DEF Surjection, Injection
    <3>2. PICK x \in A : h[x] = b
      BY DEF Y, BelowBy
    <3>3. <<x, a>> \in R
      BY <3>2 DEF Y, BelowBy
    <3>4. QED
      BY <3>2, <3>3 DEF X, BelowBy, g
  <2>4. Cardinality(X) = Cardinality(Y)
    BY <2>1, <2>2, <2>3, FS_Injection
  <2>5. QED
    BY <2>4 DEF RankBy
<1>4. ASSUME NEW k \in 1..Cardinality(A) PROVE h[NthBy(A, R, k)] = NthBy(B, S, k)
  <2>1. NthBy(A, R, k) \in A /\ RankBy(A, R, NthBy(A, R, k)) = k
    BY NthByProps
  <2>2. RankBy(B, S, h[NthBy(A, R, k)]) = k
    BY <1>3, <2>1
  <2>3. k \in 1..Cardinality(B)
    BY <1>2
  <2>4. NthBy(B, S, k) \in B /\ RankBy(B, S, NthBy(B, S, k)) = k
    BY <1>2, <2>3, NthByProps
  <2>5. h[NthBy(A, R, k)] \in B
    BY <2>1
  <2>6. RankBy(B, S, h[NthBy(A, R, k)]) = RankBy(B, S, NthBy(B, S, k))
        => h[NthBy(A, R, k)] = NthBy(B, S, k)
    BY <1>2, <2>4, <2>5, RankByMono
  <2>7. QED
    BY <2>2, <2>4, <2>6
<1>5. QED
  BY <1>2, <1>3, <1>4

-----------------------------------------------------------------------------
(* Filter and Flatten list their positions in rank order: the natural     *)
(* order for the positions Filter keeps, the order LexLe for the positions *)
(* <<i, j>> of a list of lists.                                            *)

NatLe(S) == {p \in S \X S : p[1] <= p[2]}

LexRel(P) == {p \in P \X P : LexLe(p[1], p[2])}

(* The positions of the names of type t in a list of GeneralNames. *)
TagPositions(s, t) == {i \in 1..Len(s) : s[i].tag = t}

LEMMA NatLeTotal ==
  ASSUME NEW S \in SUBSET Nat
  PROVE  TotalOrderOn(S, NatLe(S))
  BY DEF TotalOrderOn, NatLe

LEMMA LexTotal ==
  ASSUME NEW P \in SUBSET (Nat \X Nat)
  PROVE  TotalOrderOn(P, LexRel(P))
  BY DEF TotalOrderOn, LexRel, LexLe

(* The CHOOSE of Filter picks the position of rank k. *)
LEMMA FilterTag ==
  ASSUME NEW U, NEW s \in Seq(U), NEW t
  PROVE  /\ TagPositions(s, t) \in SUBSET (1..Len(s))
         /\ TagPositions(s, t) \in SUBSET Nat /\ IsFiniteSet(TagPositions(s, t))
         /\ Cardinality(TagPositions(s, t)) \in Nat
         /\ TotalOrderOn(TagPositions(s, t), NatLe(TagPositions(s, t)))
         /\ \A k \in 1..Cardinality(TagPositions(s, t)) :
              (CHOOSE i \in TagPositions(s, t) :
                 Cardinality({j \in TagPositions(s, t) : j <= i}) = k)
              = NthBy(TagPositions(s, t), NatLe(TagPositions(s, t)), k)
<1> DEFINE M == TagPositions(s, t)
           Kth(k) == CHOOSE i \in M : Cardinality({j \in M : j <= i}) = k
<1>2. M \in SUBSET Nat /\ IsFiniteSet(M) /\ M \in SUBSET (1..Len(s))
  <2>1. M \subseteq 1..Len(s) /\ IsFiniteSet(1..Len(s))
    BY FS_Interval DEF TagPositions
  <2>2. QED
    BY <2>1, FS_Subset
<1>3. TotalOrderOn(M, NatLe(M))
  BY <1>2, NatLeTotal
<1>4. \A i \in M : {j \in M : j <= i} = BelowBy(M, NatLe(M), i)
  BY DEF BelowBy, NatLe
<1>5. ASSUME NEW k \in 1..Cardinality(M) PROVE Kth(k) = NthBy(M, NatLe(M), k)
  <2>1. NthBy(M, NatLe(M), k) \in M /\ RankBy(M, NatLe(M), NthBy(M, NatLe(M), k)) = k
    BY <1>2, <1>3, NthByProps
  <2>2. \E i \in M : Cardinality({j \in M : j <= i}) = k
    BY <1>4, <2>1 DEF RankBy
  <2>3. Kth(k) \in M /\ Cardinality({j \in M : j <= Kth(k)}) = k
    BY <2>2
  <2>4. RankBy(M, NatLe(M), Kth(k)) = k
    BY <1>4, <2>3 DEF RankBy
  <2>5. QED
    BY <1>2, <1>3, <2>1, <2>3, <2>4, RankByMono
<1>6. QED
  BY <1>2, <1>3, <1>5, FS_CardinalityType

LEMMA FlatPositionsProps ==
  ASSUME NEW U, NEW ss \in Seq(Seq(U))
  PROVE  /\ \A p : p \in FlatPositions(ss) <=>
                  \E i \in 1..Len(ss) : \E j \in 1..Len(ss[i]) : p = <<i, j>>
         /\ FlatPositions(ss) \in SUBSET (Nat \X Nat)
         /\ IsFiniteSet(FlatPositions(ss))
<1> DEFINE n == Len(ss)
           Blk(i) == {i} \X (1..Len(ss[i]))
           T == {Blk(i) : i \in 1..n}
<1>1. \A p : p \in FlatPositions(ss) <=>
              \E i \in 1..n : \E j \in 1..Len(ss[i]) : p = <<i, j>>
  BY DEF FlatPositions
<1>2. FlatPositions(ss) \in SUBSET (Nat \X Nat)
  BY <1>1
<1>3. IsFiniteSet(T)
  <2> DEFINE f == [i \in 1..n |-> Blk(i)]
  <2>1. f \in Surjection(1..n, T)
    BY DEF Surjection
  <2>2. IsFiniteSet(1..n)
    BY FS_Interval
  <2>3. QED
    BY <2>1, <2>2, FS_Surjection
<1>4. \A B \in T : IsFiniteSet(B)
  <2>1. SUFFICES ASSUME NEW i \in 1..n PROVE IsFiniteSet(Blk(i))
    OBVIOUS
  <2>1a. Len(ss[i]) \in Nat
    BY DEF n
  <2>1b. IsFiniteSet({i})
    BY FS_Singleton
  <2>1c. IsFiniteSet(1..Len(ss[i]))
    BY <2>1a, FS_Interval
  <2>2. IsFiniteSet({i}) /\ IsFiniteSet(1..Len(ss[i]))
    BY <2>1b, <2>1c
  <2>3. QED
    BY <2>2, FS_Product
<1>5. FlatPositions(ss) = UNION T
  BY DEF FlatPositions
<1>6. QED
  BY <1>1, <1>2, <1>3, <1>4, <1>5, FS_UNION

LEMMA FlattenRank ==
  ASSUME NEW U, NEW ss \in Seq(Seq(U))
  PROVE  LET P == FlatPositions(ss)
         IN  Flatten(ss) =
               [k \in 1..Cardinality(P) |->
                  ss[NthBy(P, LexRel(P), k)[1]][NthBy(P, LexRel(P), k)[2]]]
<1> DEFINE P == FlatPositions(ss)
           Kth(k) == CHOOSE p \in P : Cardinality({q \in P : LexLe(q, p)}) = k
<1>1. Flatten(ss) = [k \in 1..Cardinality(P) |-> ss[Kth(k)[1]][Kth(k)[2]]]
  BY DEF Flatten
<1>2. P \in SUBSET (Nat \X Nat) /\ IsFiniteSet(P)
  BY FlatPositionsProps
<1>3. TotalOrderOn(P, LexRel(P))
  BY <1>2, LexTotal
<1>4. \A p \in P : {q \in P : LexLe(q, p)} = BelowBy(P, LexRel(P), p)
  BY DEF BelowBy, LexRel
<1>5. ASSUME NEW k \in 1..Cardinality(P) PROVE Kth(k) = NthBy(P, LexRel(P), k)
  <2>1. NthBy(P, LexRel(P), k) \in P /\ RankBy(P, LexRel(P), NthBy(P, LexRel(P), k)) = k
    BY <1>2, <1>3, NthByProps
  <2>2. \E p \in P : Cardinality({q \in P : LexLe(q, p)}) = k
    BY <1>4, <2>1 DEF RankBy
  <2>3. Kth(k) \in P /\ Cardinality({q \in P : LexLe(q, Kth(k))}) = k
    BY <2>2
  <2>4. RankBy(P, LexRel(P), Kth(k)) = k
    BY <1>4, <2>3 DEF RankBy
  <2>5. QED
    BY <1>2, <1>3, <2>1, <2>3, <2>4, RankByMono
<1>6. QED
  BY <1>1, <1>5

-----------------------------------------------------------------------------
(* [c.component_value() for c in san if c.component_key() == san_type]:   *)
(* the values of the names of type t in a list of GeneralNames.            *)
ValuesOfType(s, t) ==
  LET m == Filter(s, LAMBDA c : c.tag = t)
  IN  [j \in 1..Len(m) |-> m[j].value]

(* The positions <<i, j>> of names of type t in a list of lists, and the   *)
(* list of their values in the order LexLe: what both sides compute.       *)
MatchPositions(ss, t) == {p \in FlatPositions(ss) : ss[p[1]][p[2]].tag = t}

MatchValues(ss, t) ==
  LET MP == MatchPositions(ss, t)
      q(k) == NthBy(MP, LexRel(MP), k)
  IN  [k \in 1..Cardinality(MP) |-> ss[q(k)[1]][q(k)[2]].value]

LEMMA ValuesOfTypeForm ==
  ASSUME NEW U, NEW s \in Seq(U), NEW t
  PROVE  /\ ValuesOfType(s, t) =
              [k \in 1..Cardinality(TagPositions(s, t)) |->
                 s[NthBy(TagPositions(s, t), NatLe(TagPositions(s, t)), k)].value]
         /\ ValuesOfType(s, t) \in Seq({u.value : u \in U})
<1> DEFINE M == TagPositions(s, t)
<1>1. Cardinality(M) \in Nat /\ M \in SUBSET (1..Len(s))
  BY FilterTag
<1>2. ValuesOfType(s, t) =
        [j \in 1..Cardinality(M) |->
           s[CHOOSE i \in M : Cardinality({j2 \in M : j2 <= i}) = j].value]
  BY <1>1 DEF ValuesOfType, Filter, TagPositions
<1>3. \A k \in 1..Cardinality(M) :
        (CHOOSE i \in M : Cardinality({j2 \in M : j2 <= i}) = k)
        = NthBy(M, NatLe(M), k)
  BY FilterTag
<1>4. \A k \in 1..Cardinality(M) : NthBy(M, NatLe(M), k) \in 1..Len(s)
  BY <1>1, FilterTag, NthByProps
<1>5. ValuesOfType(s, t) =
        [k \in 1..Cardinality(M) |-> s[NthBy(M, NatLe(M), k)].value]
  BY <1>2, <1>3
<1>6. [k \in 1..Cardinality(M) |-> s[NthBy(M, NatLe(M), k)].value]
        \in Seq({u.value : u \in U})
  BY <1>1, <1>4
<1>7. QED
  BY <1>5, <1>6

LEMMA MatchPositionsProps ==
  ASSUME NEW U, NEW ss \in Seq(Seq(U)), NEW t
  PROVE  LET MP == MatchPositions(ss, t)
         IN  /\ MP \in SUBSET (Nat \X Nat) /\ IsFiniteSet(MP)
             /\ TotalOrderOn(MP, LexRel(MP))
<1>1. FlatPositions(ss) \in SUBSET (Nat \X Nat) /\ IsFiniteSet(FlatPositions(ss))
  BY FlatPositionsProps
<1>2. MatchPositions(ss, t) \subseteq FlatPositions(ss)
  BY DEF MatchPositions
<1>3. QED
  BY <1>1, <1>2, FS_Subset, LexTotal

(* The filter of the concatenation: the values of names of type t in       *)
(* Flatten(ss) are those at the matching positions, in the order LexLe.     *)
LEMMA FlattenSide ==
  ASSUME NEW U, NEW ss \in Seq(Seq(U)), NEW t
  PROVE  ValuesOfType(Flatten(ss), t) = MatchValues(ss, t)
<1> DEFINE P == FlatPositions(ss)
           phi(k) == NthBy(P, LexRel(P), k)
           F == Flatten(ss)
           M == TagPositions(F, t)
           MP == MatchPositions(ss, t)
           h == [k \in M |-> phi(k)]
<1>1. /\ P \in SUBSET (Nat \X Nat) /\ IsFiniteSet(P)
      /\ TotalOrderOn(P, LexRel(P)) /\ Cardinality(P) \in Nat
  BY FlatPositionsProps, LexTotal, FS_CardinalityType
<1>2. F = [k \in 1..Cardinality(P) |-> ss[phi(k)[1]][phi(k)[2]]]
  BY FlattenRank
<1>3. \A k \in 1..Cardinality(P) : phi(k) \in P /\ RankBy(P, LexRel(P), phi(k)) = k
  BY <1>1, NthByProps
<1>4. \A p \in P : /\ RankBy(P, LexRel(P), p) \in 1..Cardinality(P)
                   /\ phi(RankBy(P, LexRel(P), p)) = p
  BY <1>1, RankByType, NthByRank
<1>5. \A p \in P : p[1] \in 1..Len(ss) /\ p[2] \in 1..Len(ss[p[1]])
                   /\ ss[p[1]][p[2]] \in U
  <2> SUFFICES ASSUME NEW p \in P
               PROVE  p[1] \in 1..Len(ss) /\ p[2] \in 1..Len(ss[p[1]])
                      /\ ss[p[1]][p[2]] \in U
    OBVIOUS
  <2>1. PICK i \in 1..Len(ss) : \E j \in 1..Len(ss[i]) : p = <<i, j>>
    BY FlatPositionsProps
  <2>2. PICK j \in 1..Len(ss[i]) : p = <<i, j>>
    BY <2>1
  <2>3. ss[i] \in Seq(U)
    OBVIOUS
  <2>4. QED
    BY <2>2, <2>3
<1>6. F \in Seq(U) /\ Len(F) = Cardinality(P)
  <2>1. \A k \in 1..Cardinality(P) : ss[phi(k)[1]][phi(k)[2]] \in U
    BY <1>3, <1>5
  <2>2. QED
    BY <1>1, <1>2, <2>1
<1>7. /\ M \in SUBSET (1..Cardinality(P)) /\ IsFiniteSet(M)
      /\ TotalOrderOn(M, NatLe(M))
  BY <1>6, FilterTag
<1>8. \A k : k \in M <=> k \in 1..Cardinality(P) /\ F[k].tag = t
  BY <1>6 DEF TagPositions
<1>9. \A k \in 1..Cardinality(P) : F[k] = ss[phi(k)[1]][phi(k)[2]]
  BY <1>2
<1>10. h \in [M -> MP]
  <2> SUFFICES ASSUME NEW k \in M PROVE phi(k) \in MP
    OBVIOUS
  <2>1. k \in 1..Cardinality(P) /\ F[k].tag = t
    BY <1>8
  <2>2. QED
    BY <2>1, <1>3, <1>9 DEF MatchPositions
<1>11. \A b \in MP : \E a \in M : h[a] = b
  <2> SUFFICES ASSUME NEW b \in MP PROVE \E a \in M : h[a] = b
    OBVIOUS
  <2>1. b \in P /\ ss[b[1]][b[2]].tag = t
    BY DEF MatchPositions
  <2> DEFINE a == RankBy(P, LexRel(P), b)
  <2>2. a \in 1..Cardinality(P) /\ phi(a) = b
    BY <2>1, <1>4
  <2>3. a \in M
    BY <2>1, <2>2, <1>8, <1>9
  <2>4. QED
    BY <2>2, <2>3
<1>12. \A x, y \in M : <<x, y>> \in NatLe(M) <=> <<h[x], h[y]>> \in LexRel(MP)
  <2> SUFFICES ASSUME NEW x \in M, NEW y \in M
               PROVE  <<x, y>> \in NatLe(M) <=> <<h[x], h[y]>> \in LexRel(MP)
    OBVIOUS
  <2>1. x \in 1..Cardinality(P) /\ y \in 1..Cardinality(P)
    BY <1>7
  <2>2. h[x] = phi(x) /\ h[y] = phi(y) /\ phi(x) \in MP /\ phi(y) \in MP
    BY <1>10
  <2>3. phi(x) \in P /\ phi(y) \in P
      /\ RankBy(P, LexRel(P), phi(x)) = x /\ RankBy(P, LexRel(P), phi(y)) = y
    BY <2>1, <1>3
  <2>4. <<phi(x), phi(y)>> \in LexRel(P) <=> x <= y
    BY <2>3, <1>1, RankByMono
  <2>5. <<h[x], h[y]>> \in LexRel(MP) <=> <<phi(x), phi(y)>> \in LexRel(P)
    BY <2>2, <2>3 DEF LexRel
  <2>6. <<x, y>> \in NatLe(M) <=> x <= y
    BY DEF NatLe
  <2>7. QED
    BY <2>4, <2>5, <2>6
<1>13. TotalOrderOn(MP, LexRel(MP))
  BY MatchPositionsProps
<1>14. /\ Cardinality(MP) = Cardinality(M)
       /\ \A k \in 1..Cardinality(M) : h[NthBy(M, NatLe(M), k)] = NthBy(MP, LexRel(MP), k)
  <2>1. ASSUME NEW g \in [M -> MP], \A b \in MP : \E a \in M : g[a] = b,
               \A x, y \in M : <<x, y>> \in NatLe(M) <=> <<g[x], g[y]>> \in LexRel(MP)
        PROVE  /\ IsFiniteSet(MP) /\ Cardinality(MP) = Cardinality(M)
               /\ \A a \in M : RankBy(MP, LexRel(MP), g[a]) = RankBy(M, NatLe(M), a)
               /\ \A k \in 1..Cardinality(M) :
                    g[NthBy(M, NatLe(M), k)] = NthBy(MP, LexRel(MP), k)
    BY <2>1, <1>7, <1>13, RankByIso
  <2>2. QED
    BY <2>1, <1>10, <1>11, <1>12
<1>15. ValuesOfType(F, t) = [k \in 1..Cardinality(M) |-> F[NthBy(M, NatLe(M), k)].value]
  <2>1. /\ ValuesOfType(F, t) =
             [k \in 1..Cardinality(TagPositions(F, t)) |->
                F[NthBy(TagPositions(F, t), NatLe(TagPositions(F, t)), k)].value]
        /\ ValuesOfType(F, t) \in Seq({u.value : u \in U})
    BY <1>6, ValuesOfTypeForm
  <2>2. QED
    BY <2>1
<1>16. \A k \in 1..Cardinality(M) :
         F[NthBy(M, NatLe(M), k)] = ss[NthBy(MP, LexRel(MP), k)[1]][NthBy(MP, LexRel(MP), k)[2]]
  <2> SUFFICES ASSUME NEW k \in 1..Cardinality(M)
               PROVE  F[NthBy(M, NatLe(M), k)] =
                        ss[NthBy(MP, LexRel(MP), k)[1]][NthBy(MP, LexRel(MP), k)[2]]
    OBVIOUS
  <2>1. NthBy(M, NatLe(M), k) \in M
    BY <1>7, NthByProps
  <2>2. h[NthBy(M, NatLe(M), k)] = phi(NthBy(M, NatLe(M), k))
    BY <2>1
  <2>3. QED
    BY <2>1, <2>2, <1>7, <1>9, <1>14
<1>17. QED
  BY <1>14, <1>15, <1>16 DEF MatchValues

(* The k-th position of a name of type t in one list, and the rank of one. *)
NthTag(s, t, k) == NthBy(TagPositions(s, t), NatLe(TagPositions(s, t)), k)

RankTag(s, t, n) == RankBy(TagPositions(s, t), NatLe(TagPositions(s, t)), n)

(* The filter of one list, pointwise: entry j of ValuesOfType(s, t) is the  *)
(* value at the j-th matching position, and j |-> NthTag(s, t, j) is an     *)
(* order-preserving bijection onto the matching positions.                  *)
LEMMA InnerRank ==
  ASSUME NEW U, NEW s \in Seq(U), NEW t
  PROVE  /\ ValuesOfType(s, t) \in Seq({u.value : u \in U})
         /\ Len(ValuesOfType(s, t)) = Cardinality(TagPositions(s, t))
         /\ \A j \in 1..Cardinality(TagPositions(s, t)) :
              /\ ValuesOfType(s, t)[j] = s[NthTag(s, t, j)].value
              /\ NthTag(s, t, j) \in 1..Len(s)
              /\ s[NthTag(s, t, j)].tag = t
         /\ \A n \in 1..Len(s) : s[n].tag = t =>
              /\ RankTag(s, t, n) \in 1..Cardinality(TagPositions(s, t))
              /\ NthTag(s, t, RankTag(s, t, n)) = n
         /\ \A j, j2 \in 1..Cardinality(TagPositions(s, t)) :
              j <= j2 <=> NthTag(s, t, j) <= NthTag(s, t, j2)
<1> DEFINE M == TagPositions(s, t)
<1>1. /\ M \in SUBSET (1..Len(s)) /\ M \in SUBSET Nat /\ IsFiniteSet(M)
      /\ Cardinality(M) \in Nat /\ TotalOrderOn(M, NatLe(M))
  BY FilterTag
<1>2. /\ ValuesOfType(s, t) =
           [k \in 1..Cardinality(TagPositions(s, t)) |->
              s[NthBy(TagPositions(s, t), NatLe(TagPositions(s, t)), k)].value]
      /\ ValuesOfType(s, t) \in Seq({u.value : u \in U})
  BY ValuesOfTypeForm
<1>3. \A j \in 1..Cardinality(M) : NthTag(s, t, j) \in M /\ RankTag(s, t, NthTag(s, t, j)) = j
  BY <1>1, NthByProps DEF NthTag, RankTag
<1>4. \A n \in M : RankTag(s, t, n) \in 1..Cardinality(M) /\ NthTag(s, t, RankTag(s, t, n)) = n
  BY <1>1, RankByType, NthByRank DEF NthTag, RankTag
<1>5. \A n : n \in M <=> n \in 1..Len(s) /\ s[n].tag = t
  BY DEF TagPositions
<1>6. ASSUME NEW j \in 1..Cardinality(M), NEW j2 \in 1..Cardinality(M)
      PROVE  j <= j2 <=> NthTag(s, t, j) <= NthTag(s, t, j2)
  <2>1. NthTag(s, t, j) \in M /\ NthTag(s, t, j2) \in M
        /\ RankTag(s, t, NthTag(s, t, j)) = j /\ RankTag(s, t, NthTag(s, t, j2)) = j2
    BY <1>3
  <2>2. <<NthTag(s, t, j), NthTag(s, t, j2)>> \in NatLe(M) <=> j <= j2
    BY <2>1, <1>1, RankByMono DEF RankTag
  <2>3. QED
    BY <2>1, <2>2 DEF NatLe
<1>7. QED
  BY <1>1, <1>2, <1>3, <1>4, <1>5, <1>6 DEF NthTag

(* The concatenation of the filters: the values of names of type t, list   *)
(* by list, are again those at the matching positions in the order LexLe.   *)
LEMMA FlattenParts ==
  ASSUME NEW U, NEW ss \in Seq(Seq(U)), NEW t
  PROVE  Flatten([i \in 1..Len(ss) |-> ValuesOfType(ss[i], t)]) = MatchValues(ss, t)
<1> DEFINE G == [i \in 1..Len(ss) |-> ValuesOfType(ss[i], t)]
           V == {u.value : u \in U}
           PG == FlatPositions(G)
           psi(k) == NthBy(PG, LexRel(PG), k)
           MP == MatchPositions(ss, t)
           g == [p \in PG |-> <<p[1], NthTag(ss[p[1]], t, p[2])>>]
           Ci(i) == Cardinality(TagPositions(ss[i], t))
<1>1. ASSUME NEW i \in 1..Len(ss)
      PROVE  /\ ValuesOfType(ss[i], t) \in Seq({u.value : u \in U})
             /\ Len(ValuesOfType(ss[i], t)) = Cardinality(TagPositions(ss[i], t))
             /\ \A j \in 1..Cardinality(TagPositions(ss[i], t)) :
                  /\ ValuesOfType(ss[i], t)[j] = ss[i][NthTag(ss[i], t, j)].value
                  /\ NthTag(ss[i], t, j) \in 1..Len(ss[i])
                  /\ ss[i][NthTag(ss[i], t, j)].tag = t
             /\ \A n \in 1..Len(ss[i]) : ss[i][n].tag = t =>
                  /\ RankTag(ss[i], t, n) \in 1..Cardinality(TagPositions(ss[i], t))
                  /\ NthTag(ss[i], t, RankTag(ss[i], t, n)) = n
             /\ \A j, j2 \in 1..Cardinality(TagPositions(ss[i], t)) :
                  j <= j2 <=> NthTag(ss[i], t, j) <= NthTag(ss[i], t, j2)
  <2>1. ss[i] \in Seq(U)
    OBVIOUS
  <2>2. QED
    BY <2>1, InnerRank
<1>2. G \in Seq(Seq(V)) /\ Len(G) = Len(ss)
      /\ \A i \in 1..Len(ss) : G[i] = ValuesOfType(ss[i], t)
  BY <1>1
<1> HIDE DEF G
<1>3. /\ \A p : p \in PG <=> \E i \in 1..Len(G) : \E j \in 1..Len(G[i]) : p = <<i, j>>
      /\ PG \in SUBSET (Nat \X Nat) /\ IsFiniteSet(PG)
  BY <1>2, FlatPositionsProps
<1>4. TotalOrderOn(PG, LexRel(PG)) /\ Cardinality(PG) \in Nat
  BY <1>3, LexTotal, FS_CardinalityType
<1>5. Flatten(G) = [k \in 1..Cardinality(PG) |-> G[psi(k)[1]][psi(k)[2]]]
  BY <1>2, FlattenRank
<1>6. /\ \A p : p \in FlatPositions(ss) <=>
              \E i \in 1..Len(ss) : \E j \in 1..Len(ss[i]) : p = <<i, j>>
      /\ \A p : p \in MP <=> p \in FlatPositions(ss) /\ ss[p[1]][p[2]].tag = t
      /\ TotalOrderOn(MP, LexRel(MP))
  BY FlatPositionsProps, MatchPositionsProps DEF MatchPositions
<1>7. ASSUME NEW p \in PG
      PROVE  /\ p[1] \in 1..Len(ss) /\ p[2] \in 1..Ci(p[1])
             /\ p = <<p[1], p[2]>> /\ g[p] \in MP
  <2>1. PICK i \in 1..Len(ss) : \E j \in 1..Len(G[i]) : p = <<i, j>>
    BY <1>2, <1>3
  <2>2. PICK j \in 1..Ci(i) : p = <<i, j>>
    BY <2>1, <1>1, <1>2
  <2>3. NthTag(ss[i], t, j) \in 1..Len(ss[i]) /\ ss[i][NthTag(ss[i], t, j)].tag = t
    BY <1>1
  <2>4. g[p] = <<i, NthTag(ss[i], t, j)>>
    BY <2>2
  <2>5. QED
    BY <2>2, <2>3, <2>4, <1>6
<1>8. g \in [PG -> MP]
  BY <1>7
<1>9. \A b \in MP : \E a \in PG : g[a] = b
  <2> SUFFICES ASSUME NEW b \in MP PROVE \E a \in PG : g[a] = b
    OBVIOUS
  <2>1. PICK i \in 1..Len(ss) : \E n \in 1..Len(ss[i]) : b = <<i, n>>
    BY <1>6
  <2>2. PICK n \in 1..Len(ss[i]) : b = <<i, n>>
    BY <2>1
  <2>3. ss[i][n].tag = t
    BY <2>2, <1>6
  <2> DEFINE j == RankTag(ss[i], t, n)
  <2>4. j \in 1..Ci(i) /\ NthTag(ss[i], t, j) = n
    BY <2>3, <1>1
  <2>5. <<i, j>> \in PG
    BY <2>4, <1>1, <1>2, <1>3
  <2>6. g[<<i, j>>] = b
    BY <2>2, <2>4, <2>5
  <2>7. QED
    BY <2>5, <2>6
<1>10. \A x, y \in PG : <<x, y>> \in LexRel(PG) <=> <<g[x], g[y]>> \in LexRel(MP)
  <2> SUFFICES ASSUME NEW x \in PG, NEW y \in PG
               PROVE  <<x, y>> \in LexRel(PG) <=> <<g[x], g[y]>> \in LexRel(MP)
    OBVIOUS
  <2>1. /\ x[1] \in 1..Len(ss) /\ x[2] \in 1..Ci(x[1]) /\ g[x] \in MP
        /\ y[1] \in 1..Len(ss) /\ y[2] \in 1..Ci(y[1]) /\ g[y] \in MP
    BY <1>7
  <2>2. g[x] = <<x[1], NthTag(ss[x[1]], t, x[2])>> /\ g[y] = <<y[1], NthTag(ss[y[1]], t, y[2])>>
    OBVIOUS
  <2>3. x[1] = y[1] => (x[2] <= y[2] <=> NthTag(ss[x[1]], t, x[2]) <= NthTag(ss[y[1]], t, y[2]))
    BY <2>1, <1>1
  <2>4. QED
    BY <2>1, <2>2, <2>3 DEF LexRel, LexLe
<1>11. /\ Cardinality(MP) = Cardinality(PG)
       /\ \A k \in 1..Cardinality(PG) : g[psi(k)] = NthBy(MP, LexRel(MP), k)
  <2>1. ASSUME NEW f \in [PG -> MP], \A b \in MP : \E a \in PG : f[a] = b,
               \A x, y \in PG : <<x, y>> \in LexRel(PG) <=> <<f[x], f[y]>> \in LexRel(MP)
        PROVE  /\ IsFiniteSet(MP) /\ Cardinality(MP) = Cardinality(PG)
               /\ \A a \in PG : RankBy(MP, LexRel(MP), f[a]) = RankBy(PG, LexRel(PG), a)
               /\ \A k \in 1..Cardinality(PG) :
                    f[NthBy(PG, LexRel(PG), k)] = NthBy(MP, LexRel(MP), k)
    <3>1. IsFiniteSet(PG) /\ TotalOrderOn(PG, LexRel(PG)) /\ TotalOrderOn(MP, LexRel(MP))
      BY <1>3, <1>4, <1>6
    <3>2. QED
      BY <2>1, <3>1, RankByIso
  <2>2. QED
    BY <2>1, <1>8, <1>9, <1>10
<1>12. ASSUME NEW k \in 1..Cardinality(PG)
       PROVE  G[psi(k)[1]][psi(k)[2]] =
                ss[NthBy(MP, LexRel(MP), k)[1]][NthBy(MP, LexRel(MP), k)[2]].value
  <2>1. psi(k) \in PG
    BY <1>3, <1>4, NthByProps
  <2>2. /\ psi(k)[1] \in 1..Len(ss) /\ psi(k)[2] \in 1..Ci(psi(k)[1])
        /\ g[psi(k)] = <<psi(k)[1], NthTag(ss[psi(k)[1]], t, psi(k)[2])>>
    BY <2>1, <1>7
  <2>3. G[psi(k)[1]][psi(k)[2]] = ss[psi(k)[1]][NthTag(ss[psi(k)[1]], t, psi(k)[2])].value
    BY <2>2, <1>1, <1>2
  <2>4. NthBy(MP, LexRel(MP), k) = <<psi(k)[1], NthTag(ss[psi(k)[1]], t, psi(k)[2])>>
    BY <2>2, <1>11
  <2>5. QED
    BY <2>3, <2>4
<1>13. Flatten(G) = MatchValues(ss, t)
  BY <1>5, <1>11, <1>12 DEF MatchValues
<1>14. QED
  BY <1>13, Zenon DEF G

(* The CHOOSE of Filter, over any finite set of positions, picks a member. *)
LEMMA ChooseRankIn ==
  ASSUME NEW Q \in SUBSET Nat, IsFiniteSet(Q), NEW k \in 1..Cardinality(Q)
  PROVE  (CHOOSE i \in Q : Cardinality({j \in Q : j <= i}) = k) \in Q
<1>1. TotalOrderOn(Q, NatLe(Q))
  BY NatLeTotal
<1>2. NthBy(Q, NatLe(Q), k) \in Q /\ RankBy(Q, NatLe(Q), NthBy(Q, NatLe(Q), k)) = k
  BY <1>1, NthByProps
<1>3. {j \in Q : j <= NthBy(Q, NatLe(Q), k)} = BelowBy(Q, NatLe(Q), NthBy(Q, NatLe(Q), k))
  BY <1>2 DEF BelowBy, NatLe
<1>4. \E i \in Q : Cardinality({j \in Q : j <= i}) = k
  BY <1>2, <1>3 DEF RankBy
<1>5. QED
  BY <1>4

(* A returned list of decoded SAN extension values is a list of lists of   *)
(* GeneralNames: only SAN extensions are kept, and None makes it raise.    *)
LEMMA SanValuesType ==
  ASSUME NEW n \in Nat, NEW exts \in [1..n -> Extensions],
         get_decoded_extension_values(exts, ID_CE_SUBJECT_ALT_NAME).kind = "ret"
  PROVE  get_decoded_extension_values(exts, ID_CE_SUBJECT_ALT_NAME).val
           \in Seq(Seq(GeneralNames))
<1> DEFINE Q == Positions(exts, ID_CE_SUBJECT_ALT_NAME)
           Kth(k) == CHOOSE i \in Q : Cardinality({j \in Q : j <= i}) = k
           dv == [i \in 1..Cardinality(Q) |-> exts[Kth(i)].decoded]
<1>1. Q \in SUBSET (1..n) /\ IsFiniteSet(Q) /\ Cardinality(Q) \in Nat
  <2>1. Q \subseteq 1..n /\ Len(exts) = n
    BY DEF Positions
  <2>2. IsFiniteSet(1..n)
    BY FS_Interval
  <2>3. IsFiniteSet(Q)
    BY <2>1, <2>2, FS_Subset
  <2>4. QED
    BY <2>1, <2>3, FS_CardinalityType
<1> DEFINE ev == Filter(exts, LAMBDA e : e.extnID = ID_CE_SUBJECT_ALT_NAME)
           ev_dv == [i \in 1..Len(ev) |-> ev[i].decoded]
<1>2. get_decoded_extension_values(exts, ID_CE_SUBJECT_ALT_NAME) =
        IF Len(ev) = 0 THEN Ok(<< >>)
        ELSE IF ListContains(ev_dv, None) THEN Raise("CorruptExtension")
        ELSE Ok(ev_dv)
  BY Zenon DEF get_decoded_extension_values
<1>3. ev = [k \in 1..Cardinality(Q) |-> exts[Kth(k)]]
  BY <1>1 DEF Filter, Positions
<1> HIDE DEF ev
<1>4. Len(ev) = Cardinality(Q) /\ ev_dv = dv
  BY <1>1, <1>3
<1> HIDE DEF ev_dv
<1>5. get_decoded_extension_values(exts, ID_CE_SUBJECT_ALT_NAME) =
        IF Cardinality(Q) = 0 THEN Ok(<< >>)
        ELSE IF ListContains(dv, None) THEN Raise("CorruptExtension")
        ELSE Ok(dv)
  BY <1>2, <1>4
<1>6. ASSUME NEW i \in 1..Cardinality(Q)
      PROVE  dv[i] \in BSeq(GeneralNames) \cup {None}
  <2>1. Kth(i) \in Q
    <3>1. Q \in SUBSET Nat /\ IsFiniteSet(Q)
      BY <1>1
    <3>2. (CHOOSE x \in Q : Cardinality({j \in Q : j <= x}) = i) \in Q
      BY <3>1, ChooseRankIn
    <3>3. QED
      BY <3>2 DEF Kth
  <2>2. exts[Kth(i)] \in Extensions /\ exts[Kth(i)].extnID = ID_CE_SUBJECT_ALT_NAME
    BY <1>1, <2>1 DEF Positions
  <2>3. \A e \in Extensions : e.extnID = ID_CE_SUBJECT_ALT_NAME =>
          e.decoded \in BSeq(GeneralNames) \cup {None}
    <3>1. DecodedValues(ID_CE_SUBJECT_ALT_NAME) = BSeq(GeneralNames)
      BY DEF DecodedValues, ID_CE_SUBJECT_ALT_NAME, ID_CE_BASIC_CONSTRAINTS,
             ID_CE_KEY_USAGE, ID_CE_EXT_KEY_USAGE, ID_CE_SUBJECT_KEY_IDENTIFIER,
             ID_CE_AUTHORITY_KEY_IDENTIFIER, ID_CE_CERTIFICATE_POLICIES,
             ID_CE_CRL_DISTRIBUTION_POINTS, ID_PE_AUTHORITY_INFO_ACCESS
    <3>2. \A e \in Extensions : e.decoded \in DecodedValues(e.extnID) \cup {None}
      BY DEF Extensions
    <3>3. QED
      BY <3>1, <3>2
  <2>4. QED
    BY <2>2, <2>3
<1>7. BSeq(GeneralNames) \subseteq Seq(GeneralNames)
  BY BoundsAssumption DEF BSeq
<1>8. CASE Cardinality(Q) = 0
  BY <1>5, <1>8 DEF Ok
<1>9. CASE Cardinality(Q) # 0
  <2>1. get_decoded_extension_values(exts, ID_CE_SUBJECT_ALT_NAME) = Ok(dv)
        /\ ~ListContains(dv, None)
    BY <1>5, <1>9 DEF Ok, Raise
  <2>2. ASSUME NEW i \in 1..Cardinality(Q) PROVE dv[i] \in Seq(GeneralNames)
    <3>1. Len(dv) = Cardinality(Q)
      BY <1>1
    <3>2. dv[i] # None
      BY <3>1, <2>1 DEF ListContains
    <3>3. QED
      BY <3>2, <1>6, <1>7
  <2>3. dv \in Seq(Seq(GeneralNames))
    <3>1. dv \in [1..Cardinality(Q) -> Seq(GeneralNames)]
      BY <2>2
    <3> HIDE DEF dv
    <3>2. QED
      BY <1>1, <3>1
  <2>4. QED
    BY <2>1, <2>3 DEF Ok
<1>10. QED
  BY <1>8, <1>9

(* What get_subject_alt_names_by_type returns on any certificate: what     *)
(* subject_alternative_names() raises, or the values of the names of the   *)
(* type in the list it returns.                                            *)
LEMMA SanByTypeAnswer ==
  ASSUME NEW n \in Nat, NEW exts \in [1..n -> Extensions], NEW t
  PROVE  get_subject_alt_names_by_type(exts, t) =
           IF subject_alternative_names(exts).kind = "exc"
           THEN subject_alternative_names(exts)
           ELSE Ok(ValuesOfType(subject_alternative_names(exts).val, t))
<1> DEFINE rv == get_decoded_extension_values(exts, ID_CE_SUBJECT_ALT_NAME)
<1>1. get_subject_alt_names_by_type(exts, t) =
        IF rv.kind = "exc" THEN rv
        ELSE Ok(Flatten([i \in 1..Len(rv.val) |-> ValuesOfType(rv.val[i], t)]))
  BY Zenon DEF get_subject_alt_names_by_type, Then, ValuesOfType
<1>2. subject_alternative_names(exts) =
        IF rv.kind = "exc" THEN rv ELSE Ok(Flatten(rv.val))
  BY DEF subject_alternative_names, Then
<1> HIDE DEF rv
<1>3. CASE rv.kind = "exc"
  BY <1>1, <1>2, <1>3
<1>4. CASE rv.kind # "exc"
  <2>1. rv.kind = "ret"
    BY <1>4, ValuesOutcome DEF IsOutcome, rv
  <2>2. rv.val \in Seq(Seq(GeneralNames))
    BY <2>1, SanValuesType DEF rv
  <2>3. ValuesOfType(Flatten(rv.val), t) = MatchValues(rv.val, t)
    BY <2>2, FlattenSide
  <2>4. Flatten([i \in 1..Len(rv.val) |-> ValuesOfType(rv.val[i], t)])
          = MatchValues(rv.val, t)
    BY <2>2, FlattenParts
  <2>5. subject_alternative_names(exts) = Ok(Flatten(rv.val))
        /\ Ok(Flatten(rv.val)).kind = "ret" /\ Ok(Flatten(rv.val)).val = Flatten(rv.val)
    BY <1>2, <1>4 DEF Ok
  <2>6. QED
    BY <1>1, <1>4, <2>3, <2>4, <2>5
<1>5. QED
  BY <1>3, <1>4

-----------------------------------------------------------------------------
(***************************************************************************)
(* The invariant.                                                          *)
(***************************************************************************)

(* The SAN type a by-type accessor asks for. *)
SanTypeOf(call) == IF call = "subject_dns_names" THEN DNS_NAME ELSE IP_ADDRESS_NAME

(* A recorded subject_dns_names / subject_ip_addresses call answered what  *)
(* get_subject_alt_names_by_type computes on the held certificate.         *)
SanFaithful ==
  last # None /\ last.call \in {"subject_dns_names", "subject_ip_addresses"} =>
    /\ cert # None
    /\ last.res = get_subject_alt_names_by_type(cert.exts, SanTypeOf(last.call))

(* The inductive invariant behind SanByTypeConsistent. *)
SInv == TypeOK /\ SanFaithful

LEMMA SanStep == SInv /\ [Next]_vars => SInv'
<1> SUFFICES ASSUME SInv, [Next]_vars PROVE SInv'
  OBVIOUS
<1>1. TypeOK'
  BY TypeStep DEF SInv
<1>2. ASSUME NEW s \in BOOLEAN,
             FromPem(s) \/ FromPemFile(s) \/ FromDerFile(s)
      PROVE  SanFaithful'
  <2>1. ASSUME NEW call \in {"from_pem", "from_pem_file", "from_der_file"},
               NEW e, EarlyError(call, s, e)
        PROVE  SanFaithful'
    BY <2>1 DEF EarlyError, Record, SanFaithful
  <2>2. ASSUME NEW der, Certificate(der, s)
        PROVE  SanFaithful'
    BY <2>2 DEF Certificate, Record, SanFaithful
  <2>3. QED
    BY <1>2, <2>1, <2>2 DEF FromPem, FromPemFile, FromDerFile
<1>3. ASSUME Discard PROVE SanFaithful'
  BY <1>3 DEF Discard, SanFaithful
<1>4. ASSUME Accessor PROVE SanFaithful'
  <2>1. cert' = cert /\ cert # None
    BY <1>4, AccessorStep
  <2>2. last'.call \in {"subject_dns_names", "subject_ip_addresses"} =>
          last'.res = get_subject_alt_names_by_type(cert.exts, SanTypeOf(last'.call))
    <3>0. \A nm, a, r : Call(nm, a, r) => last'.call = nm /\ last'.res = r
      BY DEF Call, Record
    <3>1. ASSUME last'.call = "subject_dns_names"
          PROVE  last'.res = subject_dns_names(cert.exts)
      BY <1>4, <3>1, <3>0 DEF Accessor
    <3>2. ASSUME last'.call = "subject_ip_addresses"
          PROVE  last'.res = subject_ip_addresses(cert.exts)
      BY <1>4, <3>2, <3>0 DEF Accessor
    <3>3. QED
      BY <3>1, <3>2 DEF subject_dns_names, subject_ip_addresses, SanTypeOf
  <2>3. QED
    BY <2>1, <2>2 DEF SanFaithful
<1>5. ASSUME UNCHANGED vars PROVE SanFaithful'
  <2>1. cert' = cert /\ last' = last
    BY <1>5 DEF vars
  <2>2. QED
    BY <2>1 DEF SInv, SanFaithful
<1>6. QED
  BY <1>1, <1>2, <1>3, <1>4, <1>5 DEF Next, SInv

LEMMA SInvImplies == SInv => SanByTypeConsistent
<1> SUFFICES ASSUME SInv, last # None,
                    last.call \in {"subject_dns_names", "subject_ip_addresses"}
             PROVE  SanByTypeConsistent
  BY DEF SanByTypeConsistent
<1> DEFINE sans == subject_alternative_names(cert.exts)
           t == SanTypeOf(last.call)
<1>1. cert # None /\ last.res = get_subject_alt_names_by_type(cert.exts, t)
  BY DEF SInv, SanFaithful
<1>2. PICK n \in 0..MaxExts : cert.exts \in [1..n -> Extensions]
  BY <1>1 DEF SInv, TypeOK, ExtensionSeqs
<1>3. n \in Nat
  BY BoundsAssumption
<1>4. last.res = IF sans.kind = "exc" THEN sans ELSE Ok(ValuesOfType(sans.val, t))
  BY <1>1, <1>2, <1>3, SanByTypeAnswer
<1>5. QED
  BY <1>4, Zenon DEF SanByTypeConsistent, ValuesOfType, SanTypeOf

(* For every value of the constants: subject_dns_names() and               *)
(* subject_ip_addresses(), which filter each SAN extension and concatenate *)
(* (cert.py:251-269), answer exactly the names of that type in             *)
(* subject_alternative_names(), the concatenation of all SAN extensions    *)
(* (cert.py:216-249), in the same order and with duplicates, or raise what *)
(* it raises.                                                              *)
THEOREM SanByTypeConsistentHolds == Spec => []SanByTypeConsistent
<1>1. Init => SInv
  BY DEF Init, SInv, TypeOK, SanFaithful
<1>2. QED
  BY <1>1, SanStep, SInvImplies, PTL DEF Spec

=============================================================================
