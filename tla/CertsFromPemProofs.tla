------------------------- MODULE CertsFromPemProofs -------------------------
(***************************************************************************)
(* Proofs about the batch readers (module CertsFromPem), for every set of  *)
(* DER strings and every bound on the text: the generator's position never *)
(* leaves the text, it yields at most one certificate per blob it has      *)
(* passed, and next() only ever yields a certificate, StopIteration or one *)
(* of the documented errors.                                               *)
(***************************************************************************)
EXTENDS CertsFromPem, WellFoundedInduction, TLAPS

USE CertsFromPemAssumption

(* What a single loop body can give back: a certificate, or an error.      *)
BodyOutcomes ==
  {C!Ok(c) : c \in Certs} \cup {C!Raise(e) : e \in {"PemError", "ASN1Error"}}

LEMMA TextIsSeq ==
  ASSUME NEW t \in Texts
  PROVE  t \in Seq(Blobs) /\ Len(t) \in Nat
<1>1. PICK n \in 0..MaxBlocks : t \in [1..n -> Blobs]
  BY DEF Texts
<1>2. QED
  BY <1>1

LEMMA FromDerOutcome ==
  ASSUME NEW der \in Ders, NEW s \in BOOLEAN
  PROVE  from_der(der, s) \in BodyOutcomes
<1>1. C!Ok([exts |-> der, strict |-> s]) \in BodyOutcomes
  BY DEF BodyOutcomes, Certs
<1>2. C!Raise("ASN1Error") \in BodyOutcomes
  BY DEF BodyOutcomes
<1>3. QED
  BY <1>1, <1>2 DEF from_der

LEMMA BlockOutcomeType ==
  ASSUME TypeOK, NEW i \in 1..Len(text)
  PROVE  BlockOutcome(i) \in BodyOutcomes
<1>1. text[i] \in Blobs
  BY TextIsSeq DEF TypeOK
<1>2. CASE text[i] = BadPem
  BY <1>2 DEF BlockOutcome, BodyOutcomes
<1>3. CASE text[i] # BadPem
  <2>1. text[i] \in Ders
    BY <1>1, <1>3 DEF Blobs
  <2>2. QED
    BY <1>3, <2>1, FromDerOutcome DEF TypeOK, BlockOutcome
<1>4. QED
  BY <1>2, <1>3

(* The forms of a body outcome, as the step proofs use them. *)
LEMMA BodyOutcomeForms ==
  ASSUME NEW r \in BodyOutcomes
  PROVE  /\ r \in Outcomes
         /\ r.kind \in {"ret", "exc"}
         /\ r.kind = "ret" => r.val \in Certs
  BY DEF BodyOutcomes, Outcomes, C!Ok, C!Raise

(* The body stops at a first blob: the CHOOSE of Resume picks a position   *)
(* that exists.  A non-empty set of naturals has a least element.          *)
LEMMA FirstStop ==
  ASSUME NEW S \in SUBSET Nat, S # {}
  PROVE  \E m \in S : \A k \in S : ~(k < m)
<1>1. IsWellFoundedOn(OpToRel(<, Nat), Nat)
  BY NatLessThanWellFounded
<1>2. PICK m \in S : \A k \in S : ~(<<k, m>> \in OpToRel(<, Nat))
  BY <1>1, WFMin
<1>3. QED
  BY <1>2 DEF OpToRel

LEMMA FirstStopChosen ==
  ASSUME TypeOK, \E i \in pos..Len(text) : Stops(i)
  PROVE  LET j == CHOOSE i \in pos..Len(text) :
                    Stops(i) /\ \A k \in pos..(i - 1) : ~Stops(k)
         IN  j \in pos..Len(text) /\ Stops(j) /\ \A k \in pos..(j - 1) : ~Stops(k)
<1> DEFINE S == {i \in pos..Len(text) : Stops(i)}
<1>1. Len(text) \in Nat /\ pos \in Nat
  BY TextIsSeq DEF TypeOK
<1>2. S \in SUBSET Nat /\ S # {}
  BY <1>1
<1>3. PICK m \in S : \A k \in S : ~(k < m)
  BY <1>2, FirstStop
<1>4. m \in pos..Len(text) /\ Stops(m) /\ \A k \in pos..(m - 1) : ~Stops(k)
  BY <1>1, <1>3
<1>5. QED
  BY <1>4

-----------------------------------------------------------------------------
LEMMA InitType == Init => TypeOK
<1> SUFFICES ASSUME Init PROVE TypeOK
  OBVIOUS
<1>1. text \in Seq(Blobs) /\ Len(text) \in Nat
  BY TextIsSeq DEF Init
<1>2. None \in Outcomes
  BY DEF Outcomes
<1>3. QED
  BY <1>1, <1>2 DEF Init, TypeOK

(* The body stops at blob j, a blob the framer has not yet passed. *)
LEMMA StopAtType ==
  ASSUME TypeOK, NEW j \in pos..Len(text), StopAt(j),
         UNCHANGED << entry, text, skip, strict >>
  PROVE  TypeOK'
<1> DEFINE r == BlockOutcome(j)
<1>1. Len(text) \in Nat /\ pos \in Nat /\ pos >= 1
  BY TextIsSeq DEF TypeOK
<1>2. r \in BodyOutcomes
  BY <1>1, BlockOutcomeType
<1>3. r \in Outcomes /\ r.kind \in {"ret", "exc"} /\ (r.kind = "ret" => r.val \in Certs)
  BY <1>2, BodyOutcomeForms
<1>4. CASE r.kind = "ret"
  <2>1. out' = Append(out, r.val) /\ pos' = j + 1 /\ last' = r
         /\ gen' = "suspended"
    BY <1>4 DEF StopAt
  <2>2. QED
    BY <1>1, <1>3, <1>4, <2>1 DEF TypeOK
<1>5. CASE r.kind = "exc"
  <2>1. out' = out /\ pos' = j + 1 /\ last' = r /\ gen' = "finished"
    BY <1>5 DEF StopAt
  <2>2. QED
    BY <1>1, <1>3, <2>1 DEF TypeOK
<1>6. QED
  BY <1>3, <1>4, <1>5

LEMMA ResumeType ==
  ASSUME TypeOK, Resume
  PROVE  TypeOK'
<1>1. Len(text) \in Nat /\ pos \in Nat
  BY TextIsSeq DEF TypeOK
<1>2. CASE \E i \in pos..Len(text) : Stops(i)
  <2> DEFINE j == CHOOSE i \in pos..Len(text) :
                    Stops(i) /\ \A k \in pos..(i - 1) : ~Stops(k)
  <2>1. j \in pos..Len(text)
    BY <1>2, FirstStopChosen
  <2>2. StopAt(j) /\ UNCHANGED << entry, text, skip, strict >>
    BY <1>2 DEF Resume
  <2>3. QED
    BY <2>1, <2>2, StopAtType
<1>3. CASE ~\E i \in pos..Len(text) : Stops(i)
  <2>1. /\ last' \in {C!Raise("PemError"), StopIteration}
        /\ pos' = Len(text) + 1 /\ gen' = "finished" /\ out' = out
        /\ UNCHANGED << entry, text, skip, strict >>
    BY <1>3 DEF Resume
  <2>2. {C!Raise("PemError"), StopIteration} \subseteq Outcomes
    BY DEF Outcomes
  <2>3. QED
    BY <1>1, <2>1, <2>2 DEF TypeOK
<1>4. QED
  BY <1>2, <1>3

LEMMA TypeStep == TypeOK /\ [Next]_vars => TypeOK'
<1> SUFFICES ASSUME TypeOK, [Next]_vars PROVE TypeOK'
  OBVIOUS
<1>1. StopIteration \in Outcomes /\ C!Raise("IOError") \in Outcomes
  BY DEF Outcomes
<1>2. CASE certs_from_pem
  BY <1>2, ResumeType DEF certs_from_pem
<1>3. CASE certs_from_pem_file
  <2>1. CASE Resume
    BY <2>1, ResumeType
  <2>2. CASE ~Resume
    BY <1>1, <1>3, <2>2 DEF certs_from_pem_file, TypeOK
  <2>3. QED
    BY <2>1, <2>2
<1>4. CASE Exhausted
  BY <1>1, <1>4 DEF Exhausted, TypeOK
<1>5. CASE UNCHANGED vars
  BY <1>5 DEF vars, TypeOK
<1>6. QED
  BY <1>2, <1>3, <1>4, <1>5 DEF Next

(* For every set of DER strings and every bound on the text, the reader's  *)
(* position stays within the text, it has yielded fewer certificates than  *)
(* the blobs it has passed, and each next() yields a certificate, raises   *)
(* StopIteration, or raises PemError, ASN1Error or IOError, the errors the *)
(* docstrings of certs_from_pem and certs_from_pem_file list.              *)
THEOREM TypeCorrect == Spec => []TypeOK
<1>1. Init => TypeOK
  BY InitType
<1>2. TypeOK /\ [Next]_vars => TypeOK'
  BY TypeStep
<1>3. QED
  BY <1>1, <1>2, PTL DEF Spec

=============================================================================
