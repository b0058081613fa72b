------------------------- MODULE CertificateProofs -------------------------
(***************************************************************************)
(* Proofs about the Certificate module, for every value of its constants:  *)
(* type correctness, and the strict-mode guarantee of Certificate.__init__ *)
(* that no accessor of a strictly decoded certificate ever raises          *)
(* "Multiple extension values".                                            *)
(***************************************************************************)
EXTENDS Certificate, FiniteSetTheorems, TLAPS

(* A call outcome: a returned value, or one of the known exceptions. *)
IsOutcome(r) ==
  /\ r.kind \in {"ret", "exc"}
  /\ r.kind = "exc" => r.val \in Exceptions

LEMMA OkIsOutcome == \A v : IsOutcome(Ok(v))
  BY DEF IsOutcome, Ok

LEMMA ValuesOutcome ==
  ASSUME NEW exts, NEW id
  PROVE  IsOutcome(get_decoded_extension_values(exts, id))
  BY OkIsOutcome DEF get_decoded_extension_values, IsOutcome, Raise,
                     Exceptions, CertificateErrors

LEMMA ValueOutcome ==
  ASSUME NEW exts, NEW id
  PROVE  IsOutcome(get_decoded_extension_value(exts, id))
  BY ValuesOutcome, OkIsOutcome
     DEF get_decoded_extension_value, IsOutcome, Raise, Exceptions,
         CertificateErrors

(* Every accessor, on any extension sequence, has an outcome. *)
LEMMA AccessorOutcomes ==
  ASSUME NEW exts
  PROVE  /\ IsOutcome(subject_alternative_names(exts))
         /\ IsOutcome(subject_dns_names(exts))
         /\ IsOutcome(subject_ip_addresses(exts))
         /\ IsOutcome(basic_constraint_ca(exts))
         /\ IsOutcome(basic_constraint_path_length(exts))
         /\ \A b : IsOutcome(key_usage(exts, b))
         /\ IsOutcome(key_usages(exts))
         /\ \A p : IsOutcome(extended_key_usage(exts, p))
         /\ IsOutcome(extended_key_usages(exts))
         /\ IsOutcome(subject_key_identifier(exts))
         /\ \A t : IsOutcome(authority_key_identifier(exts, t))
         /\ IsOutcome(policies(exts))
         /\ \A p : IsOutcome(policy(exts, p))
         /\ \A p : IsOutcome(has_policy(exts, p))
         /\ IsOutcome(crl_distribution_points(exts))
         /\ IsOutcome(ca_issuers(exts))
         /\ IsOutcome(ocsp_responders(exts))
<1> USE OkIsOutcome
<1>1. \A id, f : IsOutcome(FieldOrNone(exts, id, f))
  BY ValueOutcome DEF FieldOrNone, Then
<1>2. \A id : IsOutcome(ListOrEmpty(exts, id))
  BY ValueOutcome DEF ListOrEmpty, Then
<1>3. \A m : IsOutcome(AccessLocationsOf(exts, m))
  BY ValueOutcome DEF AccessLocationsOf, Then
<1>4. \A t : IsOutcome(get_subject_alt_names_by_type(exts, t))
  BY ValuesOutcome DEF get_subject_alt_names_by_type, Then
<1>5. \A p : IsOutcome(policy(exts, p))
  BY <1>2 DEF policy, policies, IsOutcome, Raise, Exceptions,
              CertificateErrors
<1>6. \A p : IsOutcome(has_policy(exts, p))
  BY <1>5 DEF has_policy, Then
<1>7. IsOutcome(subject_alternative_names(exts))
  BY ValuesOutcome DEF subject_alternative_names, Then
<1>8. /\ \A b : IsOutcome(key_usage(exts, b))
      /\ IsOutcome(key_usages(exts))
      /\ \A p : IsOutcome(extended_key_usage(exts, p))
  BY ValueOutcome DEF key_usage, key_usages, extended_key_usage, Then
<1>9. QED
  BY <1>1, <1>2, <1>3, <1>4, <1>5, <1>6, <1>7, <1>8, ValueOutcome
     DEF subject_dns_names, subject_ip_addresses, basic_constraint_ca,
         basic_constraint_path_length, extended_key_usages,
         subject_key_identifier, authority_key_identifier, policies,
         crl_distribution_points, ca_issuers, ocsp_responders

(* An accessor step records one outcome and leaves the certificate alone. *)
LEMMA AccessorStep ==
  ASSUME Accessor
  PROVE  /\ cert' = cert
         /\ cert # None
         /\ \E n, a, r : /\ IsOutcome(r)
                         /\ last' = [call |-> n, arg |-> a, res |-> r]
  BY AccessorOutcomes DEF Accessor, Call, Record

(* Every step preserves the type invariant. *)
LEMMA TypeStep == TypeOK /\ [Next]_vars => TypeOK'
<1> SUFFICES ASSUME TypeOK, [Next]_vars PROVE TypeOK'
  OBVIOUS
<1>1. ASSUME NEW s \in BOOLEAN,
             FromPem(s) \/ FromPemFile(s) \/ FromDerFile(s)
      PROVE  TypeOK'
  <2>1. ASSUME NEW call, NEW e \in Exceptions, EarlyError(call, s, e)
        PROVE  TypeOK'
    BY <2>1 DEF EarlyError, Record, TypeOK, Raise
  <2>2. ASSUME NEW der \in DerInputs, Certificate(der, s) PROVE TypeOK'
    <3>1. der # MalformedDer => der \in ExtensionSeqs
      BY DEF DerInputs
    <3>2. QED
      BY <2>2, <3>1 DEF Certificate, DecodeFails, Record, TypeOK, Raise, Ok,
                        Exceptions
  <2>3. QED
    BY <1>1, <2>1, <2>2 DEF FromPem, FromPemFile, FromDerFile, Exceptions
<1>2. CASE Discard
  BY <1>2 DEF Discard, TypeOK
<1>3. CASE Accessor
  BY <1>3, AccessorStep DEF TypeOK, IsOutcome
<1>4. CASE UNCHANGED vars
  BY <1>4 DEF vars, TypeOK
<1>5. QED
  BY <1>1, <1>2, <1>3, <1>4 DEF Next

(* The type invariant holds in every reachable state. *)
THEOREM TypeCorrect == Spec => []TypeOK
<1>1. Init => TypeOK
  BY DEF Init, TypeOK
<1>2. QED
  BY <1>1, TypeStep, PTL DEF Spec

(***************************************************************************)
(* The strict-mode guarantee.                                              *)
(***************************************************************************)

(* A strictly built certificate passed the Counter check of __init__. *)
StrictNoDuplicates ==
  cert # None /\ cert.strict => ~has_multiple_extension_values(cert.exts)

(* The inductive invariant: StrictNoAmbiguity alone is not inductive,      *)
(* because the next accessor call may look at any extnID; it needs the     *)
(* fact that the held certificate has no repeated extnID.                  *)
IInv == TypeOK /\ StrictNoDuplicates /\ StrictNoAmbiguity

NotMultiple(r) == r # Raise("MultipleExtensionValues")

(* The positions holding a given extnID. *)
Positions(exts, id) == {i \in 1..Len(exts) : exts[i].extnID = id}

(* Filtering a sequence by extnID yields one entry per matching position. *)
LEMMA FilterLen ==
  ASSUME NEW n \in Nat, NEW exts \in [1..n -> Extensions], NEW id
  PROVE  /\ Cardinality(Positions(exts, id)) \in Nat
         /\ Len(Filter(exts, LAMBDA e : e.extnID = id))
              = Cardinality(Positions(exts, id))
<1>1. Len(exts) = n
  OBVIOUS
<1>2. IsFiniteSet(Positions(exts, id))
  BY <1>1, FS_Interval, FS_Subset DEF Positions
<1>3. Cardinality(Positions(exts, id)) \in Nat
  BY <1>2, FS_CardinalityType
<1>4. QED
  BY <1>3 DEF Filter, Positions

(* Without repeated extnIDs, at most one extension matches any extnID. *)
LEMMA AtMostOneMatch ==
  ASSUME NEW n \in Nat, NEW exts \in [1..n -> Extensions], NEW id,
         ~has_multiple_extension_values(exts)
  PROVE  Cardinality(Positions(exts, id)) <= 1
<1>1. Len(exts) = n
  OBVIOUS
<1>2. Cardinality(Positions(exts, id)) \in Nat
  BY FilterLen
<1>3. SUFFICES ASSUME Cardinality(Positions(exts, id)) > 1 PROVE FALSE
  BY <1>2
<1>4. Positions(exts, id) # {}
  BY <1>3, FS_EmptySet
<1>5. PICK i \in Positions(exts, id) : TRUE
  BY <1>4
<1>6. ExtnIDCount(exts, ExtnIDs(exts)[i]) = Cardinality(Positions(exts, id))
  <2>1. i \in 1..Len(exts) /\ exts[i].extnID = id
    BY <1>5 DEF Positions
  <2>2. {j \in 1..Len(exts) : ExtnIDs(exts)[j] = ExtnIDs(exts)[i]}
          = Positions(exts, id)
    BY <2>1 DEF ExtnIDs, Positions
  <2>3. QED
    BY <2>2 DEF ExtnIDCount
<1>7. QED
  BY <1>1, <1>3, <1>5, <1>6 DEF has_multiple_extension_values, Positions

LEMMA ValuesNotMultiple ==
  ASSUME NEW exts, NEW id
  PROVE  NotMultiple(get_decoded_extension_values(exts, id))
  BY DEF get_decoded_extension_values, NotMultiple, Ok, Raise

(* The heart of the guarantee: _get_decoded_extension_value on a           *)
(* certificate without repeated extnIDs never raises "Multiple extension   *)
(* values".                                                                *)
LEMMA ValueNotMultiple ==
  ASSUME NEW n \in Nat, NEW exts \in [1..n -> Extensions], NEW id,
         ~has_multiple_extension_values(exts)
  PROVE  NotMultiple(get_decoded_extension_value(exts, id))
<1> DEFINE ev == Filter(exts, LAMBDA e : e.extnID = id)
           dv == [i \in 1..Len(ev) |-> ev[i].decoded]
           rv == get_decoded_extension_values(exts, id)
<1>1. Len(ev) \in Nat /\ Len(ev) <= 1
  <2>1. /\ Cardinality(Positions(exts, id)) \in Nat
        /\ Len(ev) = Cardinality(Positions(exts, id))
    BY FilterLen
  <2>2. Cardinality(Positions(exts, id)) <= 1
    BY AtMostOneMatch
  <2>3. QED
    BY <2>1, <2>2
<1>2. rv.kind = "ret" => Len(rv.val) <= 1
  <2>1. Len(dv) = Len(ev)
    BY <1>1
  <2>2. rv.kind = "ret" => rv.val = << >> \/ rv.val = dv
    BY DEF get_decoded_extension_values, Ok, Raise
  <2>3. QED
    BY <1>1, <2>1, <2>2
<1>3. rv.kind = "exc" => NotMultiple(rv)
  BY ValuesNotMultiple
<1>4. rv.kind \in {"ret", "exc"}
  BY ValuesOutcome DEF IsOutcome
<1>5. CASE rv.kind = "exc"
  <2>1. get_decoded_extension_value(exts, id) = rv
    BY <1>5 DEF get_decoded_extension_value, rv
  <2>2. QED
    BY <1>3, <1>5, <2>1
<1>6. CASE rv.kind = "ret"
  <2>1. get_decoded_extension_value(exts, id)
          \in {Ok(None), Ok(rv.val[1])}
    BY <1>2, <1>6 DEF get_decoded_extension_value, rv
  <2>2. QED
    BY <2>1 DEF NotMultiple, Ok, Raise
<1>7. QED
  BY <1>4, <1>5, <1>6

(* Every accessor of a certificate without repeated extnIDs returns, or    *)
(* raises something other than "Multiple extension values".               *)
LEMMA AccessorsNotMultiple ==
  ASSUME NEW n \in Nat, NEW exts \in [1..n -> Extensions],
         ~has_multiple_extension_values(exts)
  PROVE  /\ NotMultiple(subject_alternative_names(exts))
         /\ NotMultiple(subject_dns_names(exts))
         /\ NotMultiple(subject_ip_addresses(exts))
         /\ NotMultiple(basic_constraint_ca(exts))
         /\ NotMultiple(basic_constraint_path_length(exts))
         /\ \A b : NotMultiple(key_usage(exts, b))
         /\ NotMultiple(key_usages(exts))
         /\ \A p : NotMultiple(extended_key_usage(exts, p))
         /\ NotMultiple(extended_key_usages(exts))
         /\ NotMultiple(subject_key_identifier(exts))
         /\ \A t : NotMultiple(authority_key_identifier(exts, t))
         /\ NotMultiple(policies(exts))
         /\ \A p : NotMultiple(policy(exts, p))
         /\ \A p : NotMultiple(has_policy(exts, p))
         /\ NotMultiple(crl_distribution_points(exts))
         /\ NotMultiple(ca_issuers(exts))
         /\ NotMultiple(ocsp_responders(exts))
<1>0. \A v : NotMultiple(Ok(v))
  BY DEF NotMultiple, Ok, Raise
<1> USE <1>0
<1>1. \A id : NotMultiple(get_decoded_extension_value(exts, id))
  BY ValueNotMultiple
<1>2. \A id, f : NotMultiple(FieldOrNone(exts, id, f))
  BY <1>1 DEF FieldOrNone, Then
<1>3. \A id : NotMultiple(ListOrEmpty(exts, id))
  BY <1>1 DEF ListOrEmpty, Then
<1>4. \A m : NotMultiple(AccessLocationsOf(exts, m))
  BY <1>1 DEF AccessLocationsOf, Then
<1>5. \A t : NotMultiple(get_subject_alt_names_by_type(exts, t))
  BY ValuesNotMultiple DEF get_subject_alt_names_by_type, Then
<1>6. \A q : NotMultiple(policy(exts, q))
  BY <1>3 DEF policy, policies, NotMultiple, Raise
<1>7. \A q : NotMultiple(has_policy(exts, q))
  BY <1>6 DEF has_policy, Then
<1>8. NotMultiple(subject_alternative_names(exts))
  BY ValuesNotMultiple DEF subject_alternative_names, Then
<1>9. /\ \A b : NotMultiple(key_usage(exts, b))
      /\ NotMultiple(key_usages(exts))
      /\ \A p : NotMultiple(extended_key_usage(exts, p))
  BY <1>1 DEF key_usage, key_usages, extended_key_usage, Then
<1>10. QED
  BY <1>1, <1>2, <1>3, <1>4, <1>5, <1>6, <1>7, <1>8, <1>9
     DEF subject_dns_names, subject_ip_addresses, basic_constraint_ca,
         basic_constraint_path_length, extended_key_usages,
         subject_key_identifier, authority_key_identifier, policies,
         crl_distribution_points, ca_issuers, ocsp_responders

(* An accessor step on such a certificate records no ambiguity error. *)
LEMMA AccessorStepNotMultiple ==
  ASSUME Accessor, NEW n \in Nat, cert.exts \in [1..n -> Extensions],
         ~has_multiple_extension_values(cert.exts)
  PROVE  NotMultiple(last'.res)
  BY AccessorsNotMultiple DEF Accessor, Call, Record

LEMMA StrictStep == IInv /\ [Next]_vars => IInv'
<1> SUFFICES ASSUME IInv, [Next]_vars PROVE IInv'
  OBVIOUS
<1>1. TypeOK'
  BY TypeStep DEF IInv
<1>2. ASSUME NEW s \in BOOLEAN,
             FromPem(s) \/ FromPemFile(s) \/ FromDerFile(s)
      PROVE  StrictNoDuplicates' /\ StrictNoAmbiguity'
  <2>1. ASSUME NEW call, NEW e, EarlyError(call, s, e)
        PROVE  StrictNoDuplicates' /\ StrictNoAmbiguity'
    BY <2>1 DEF EarlyError, StrictNoDuplicates, StrictNoAmbiguity
  <2>2. ASSUME NEW der, Certificate(der, s)
        PROVE  StrictNoDuplicates' /\ StrictNoAmbiguity'
    BY <2>2 DEF Certificate, Record, StrictNoDuplicates, StrictNoAmbiguity,
                Ok, Raise
  <2>3. QED
    BY <1>2, <2>1, <2>2 DEF FromPem, FromPemFile, FromDerFile
<1>3. ASSUME Discard PROVE StrictNoDuplicates' /\ StrictNoAmbiguity'
  BY <1>3 DEF Discard, StrictNoDuplicates, StrictNoAmbiguity
<1>4. ASSUME Accessor PROVE StrictNoDuplicates' /\ StrictNoAmbiguity'
  <2>1. cert' = cert /\ cert # None
    BY <1>4, AccessorStep
  <2>2. StrictNoDuplicates'
    BY <2>1 DEF IInv, StrictNoDuplicates
  <2>3. ASSUME cert.strict PROVE NotMultiple(last'.res)
    <3>1. PICK n \in 0..MaxExts : cert.exts \in [1..n -> Extensions]
      BY <2>1 DEF IInv, TypeOK, ExtensionSeqs
    <3>2. n \in Nat
      BY BoundsAssumption
    <3>3. ~has_multiple_extension_values(cert.exts)
      BY <2>1, <2>3 DEF IInv, StrictNoDuplicates
    <3>4. QED
      BY <1>4, <3>1, <3>2, <3>3, AccessorStepNotMultiple
  <2>4. QED
    BY <2>1, <2>2, <2>3 DEF StrictNoAmbiguity, NotMultiple
<1>5. ASSUME UNCHANGED vars PROVE StrictNoDuplicates' /\ StrictNoAmbiguity'
  BY <1>5 DEF vars, IInv, StrictNoDuplicates, StrictNoAmbiguity
<1>6. QED
  BY <1>1, <1>2, <1>3, <1>4, <1>5 DEF Next, IInv

(* The strict-mode guarantee holds in every reachable state, for every    *)
(* value of the constants: an accessor of a certificate built with        *)
(* strict_der=True never raises "Multiple extension values".              *)
THEOREM StrictNoAmbiguityHolds == Spec => []StrictNoAmbiguity
<1>1. Init => IInv
  BY DEF Init, IInv, TypeOK, StrictNoDuplicates, StrictNoAmbiguity
<1>2. IInv => StrictNoAmbiguity
  BY DEF IInv
<1>3. QED
  BY <1>1, <1>2, StrictStep, PTL DEF Spec


(***************************************************************************)
(* key_usage is three-valued.                                              *)
(***************************************************************************)

(* A recorded key_usage call answered what key_usage computes on the held  *)
(* certificate for the bit it was asked about.                             *)
KeyUsageFaithful ==
  last # None /\ last.call = "key_usage" =>
    /\ cert # None
    /\ last.res = key_usage(cert.exts, last.arg)

(* The inductive invariant: KeyUsageThreeState speaks of the last call,    *)
(* and is kept because the recorded answer is the accessor's own.          *)
KUInv == TypeOK /\ KeyUsageFaithful

(* Positions holds an extnID exactly when the extnID list contains it. *)
LEMMA PositionsContain ==
  ASSUME NEW n \in Nat, NEW exts \in [1..n -> Extensions], NEW id
  PROVE  ListContains(ExtnIDs(exts), id) <=> Positions(exts, id) # {}
<1>1. Len(exts) = n /\ Len(ExtnIDs(exts)) = n
  BY DEF ExtnIDs
<1>2. QED
  BY <1>1 DEF ListContains, ExtnIDs, Positions

(* What key_usage and key_usages return, for any certificate: None exactly *)
(* without a KeyUsage extension, and TRUE exactly for a listed bit.        *)
LEMMA KeyUsageAnswer ==
  ASSUME NEW n \in Nat, NEW exts \in [1..n -> Extensions], NEW b,
         key_usage(exts, b).kind = "ret"
  PROVE  /\ key_usage(exts, b).val = None
              <=> ~ListContains(ExtnIDs(exts), ID_CE_KEY_USAGE)
         /\ key_usage(exts, b).val = TRUE <=> b \in key_usages(exts).val
<1> DEFINE ev == Filter(exts, LAMBDA e : e.extnID = ID_CE_KEY_USAGE)
           dv == [i \in 1..Len(ev) |-> ev[i].decoded]
           rv == get_decoded_extension_values(exts, ID_CE_KEY_USAGE)
           r == get_decoded_extension_value(exts, ID_CE_KEY_USAGE)
           P == Positions(exts, ID_CE_KEY_USAGE)
<1>1. /\ Cardinality(P) \in Nat
      /\ Len(ev) = Cardinality(P)
  BY FilterLen
<1>2. IsFiniteSet(P)
  BY FS_Interval, FS_Subset DEF Positions
<1>3. Len(ev) = 0 <=> P = {}
  BY <1>1, <1>2, FS_EmptySet
<1>4. /\ key_usage(exts, b) =
           IF r.kind = "exc" THEN r
           ELSE Ok(IF r.val = None THEN None ELSE b \in r.val)
      /\ key_usages(exts) =
           IF r.kind = "exc" THEN r
           ELSE Ok(IF r.val = None THEN {} ELSE r.val)
  BY Zenon DEF key_usage, key_usages, Then
<1>5. r = IF rv.kind = "exc" THEN rv
          ELSE IF Len(rv.val) = 0 THEN Ok(None)
          ELSE IF Len(rv.val) > 1 THEN Raise("MultipleExtensionValues")
          ELSE Ok(rv.val[1])
  BY Zenon DEF get_decoded_extension_value
<1>6. rv = IF Len(ev) = 0 THEN Ok(<< >>)
           ELSE IF ListContains(dv, None) THEN Raise("CorruptExtension")
           ELSE Ok(dv)
  BY Zenon DEF get_decoded_extension_values
<1> HIDE DEF ev, dv, rv, r
<1>7. r.kind = "ret"
  <2>1. r.kind \in {"ret", "exc"} /\ rv.kind \in {"ret", "exc"}
    BY ValueOutcome, ValuesOutcome DEF IsOutcome, r, rv
  <2>2. QED
    BY <1>4, <2>1, Zenon DEF Ok
<1>8. CASE Len(ev) = 0
  <2>1. r = Ok(None)
    BY <1>5, <1>6, <1>8 DEF Ok, Raise
  <2>2. P = {}
    BY <1>3, <1>8
  <2>3. ~ListContains(ExtnIDs(exts), ID_CE_KEY_USAGE)
    BY <2>2, PositionsContain
  <2>4. key_usage(exts, b) = Ok(None) /\ key_usages(exts) = Ok({})
    BY <1>4, <2>1 DEF Ok
  <2>5. QED
    <3>1. None # TRUE
      BY NoneAssumption
    <3>2. key_usage(exts, b).val = None /\ key_usages(exts).val = {}
      BY <2>4 DEF Ok
    <3>3. QED
      BY <2>3, <3>1, <3>2
<1>9. CASE Len(ev) # 0
  <2>1. Len(ev) \in Nat /\ Len(dv) = Len(ev)
    BY <1>1 DEF dv
  <2>2. rv.kind = "ret"
    <3>1. rv.kind \in {"ret", "exc"}
      BY ValuesOutcome DEF IsOutcome, rv
    <3>2. QED
      BY <1>5, <1>7, <3>1, Zenon DEF Ok, Raise
  <2>3. ~ListContains(dv, None) /\ rv = Ok(dv)
    BY <1>6, <1>9, <2>2 DEF Ok, Raise
  <2>4. Len(dv) = 1 /\ r = Ok(dv[1])
    BY <1>5, <1>7, <1>9, <2>1, <2>3 DEF Ok, Raise
  <2>5. dv[1] # None
    BY <2>3, <2>4 DEF ListContains
  <2>6. ListContains(ExtnIDs(exts), ID_CE_KEY_USAGE)
    BY <1>3, <1>9, PositionsContain
  <2>7. /\ key_usage(exts, b) = Ok(b \in dv[1])
        /\ key_usages(exts) = Ok(dv[1])
    BY <1>4, <2>4, <2>5 DEF Ok
  <2>8. (b \in dv[1]) \in BOOLEAN /\ None \notin BOOLEAN
    BY NoneAssumption
  <2>9. QED
    <3>1. key_usage(exts, b).val = (b \in dv[1]) /\ key_usages(exts).val = dv[1]
      BY <2>7 DEF Ok
    <3>2. QED
      BY <2>6, <2>8, <3>1
<1>10. QED
  BY <1>8, <1>9

LEMMA KUStep == KUInv /\ [Next]_vars => KUInv'
<1> SUFFICES ASSUME KUInv, [Next]_vars PROVE KUInv'
  OBVIOUS
<1>1. TypeOK'
  BY TypeStep DEF KUInv
<1>2. ASSUME NEW s \in BOOLEAN,
             FromPem(s) \/ FromPemFile(s) \/ FromDerFile(s)
      PROVE  KeyUsageFaithful'
  <2>1. ASSUME NEW call \in {"from_pem", "from_pem_file", "from_der_file"},
               NEW e, EarlyError(call, s, e)
        PROVE  KeyUsageFaithful'
    BY <2>1 DEF EarlyError, Record, KeyUsageFaithful
  <2>2. ASSUME NEW der, Certificate(der, s)
        PROVE  KeyUsageFaithful'
    BY <2>2 DEF Certificate, Record, KeyUsageFaithful
  <2>3. QED
    BY <1>2, <2>1, <2>2 DEF FromPem, FromPemFile, FromDerFile
<1>3. ASSUME Discard PROVE KeyUsageFaithful'
  BY <1>3 DEF Discard, KeyUsageFaithful
<1>4. ASSUME Accessor PROVE KeyUsageFaithful'
  <2>1. cert' = cert /\ cert # None
    BY <1>4, AccessorStep
  <2>2. last'.call = "key_usage" => last'.res = key_usage(cert.exts, last'.arg)
    BY <1>4 DEF Accessor, Call, Record
  <2>3. QED
    BY <2>1, <2>2 DEF KeyUsageFaithful
<1>5. ASSUME UNCHANGED vars PROVE KeyUsageFaithful'
  <2>1. cert' = cert /\ last' = last
    BY <1>5 DEF vars
  <2>2. QED
    BY <2>1 DEF KUInv, KeyUsageFaithful
<1>6. QED
  BY <1>1, <1>2, <1>3, <1>4, <1>5 DEF Next, KUInv

LEMMA KUInvImplies == KUInv => KeyUsageThreeState
<1> SUFFICES ASSUME KUInv, last # None, last.call = "key_usage",
                    last.res.kind = "ret"
             PROVE  /\ last.res.val = None
                          <=> ~ListContains(ExtnIDs(cert.exts), ID_CE_KEY_USAGE)
                    /\ last.res.val = TRUE <=> last.arg \in key_usages(cert.exts).val
  BY DEF KeyUsageThreeState
<1>1. cert # None /\ last.res = key_usage(cert.exts, last.arg)
  BY DEF KUInv, KeyUsageFaithful
<1>2. PICK n \in 0..MaxExts : cert.exts \in [1..n -> Extensions]
  BY <1>1 DEF KUInv, TypeOK, ExtensionSeqs
<1>3. n \in Nat
  BY BoundsAssumption
<1>4. key_usage(cert.exts, last.arg).kind = "ret"
  BY <1>1
<1>5. /\ key_usage(cert.exts, last.arg).val = None
          <=> ~ListContains(ExtnIDs(cert.exts), ID_CE_KEY_USAGE)
      /\ key_usage(cert.exts, last.arg).val = TRUE
          <=> last.arg \in key_usages(cert.exts).val
  BY <1>2, <1>3, <1>4, KeyUsageAnswer
<1>6. QED
  BY <1>1, <1>5

(* For every value of the constants, key_usage(bit) answers None exactly   *)
(* when the certificate has no KeyUsage extension (an extension with no   *)
(* bit set is present, not absent), and TRUE exactly when key_usages()     *)
(* lists the bit: the "ku is None" test of cert.py:458 keeps the three     *)
(* answers apart.                                                          *)
THEOREM KeyUsageThreeStateHolds == Spec => []KeyUsageThreeState
<1>1. Init => KUInv
  BY DEF Init, KUInv, TypeOK, KeyUsageFaithful
<1>2. QED
  BY <1>1, KUStep, KUInvImplies, PTL DEF Spec

=============================================================================
