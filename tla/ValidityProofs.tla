-------------------------- MODULE ValidityProofs ---------------------------
(***************************************************************************)
(* Proofs about the temporal accessors (module Validity), for every        *)
(* MaxTime: type correctness, the consistency of the three validity entry  *)
(* points at one clock reading, and that expiry is never undone by a later *)
(* reading of a clock that does not go back.                               *)
(***************************************************************************)
EXTENDS Validity, TLAPS

USE ValidityAssumption

(* The calls that read the wall clock themselves. *)
ClockCalls == {"is_temporally_valid_now", "is_expired", "is_not_yet_valid"}

(* A recorded clock call took a reading no later than now, and its result  *)
(* is what the accessor computes at that reading.                          *)
Faithful ==
  last # None /\ last.call \in ClockCalls =>
    /\ last.at \in Times
    /\ last.at <= now
    /\ last.call = "is_expired" => last.res = is_expired(last.at)
    /\ last.call = "is_temporally_valid_now" =>
         last.res = is_temporally_valid_now(last.at)

(* Once is_expired() has returned True, notAfter decodes and lies before   *)
(* the clock, and before the reading of the last clock call.               *)
ExpiryMemory ==
  expiredSeen =>
    /\ notAfter \in Times
    /\ now > notAfter
    /\ last # None /\ last.call \in ClockCalls => last.at > notAfter

IInv == TypeOK /\ Faithful /\ ExpiryMemory

-----------------------------------------------------------------------------
(* Outcomes of the accessors. *)

LEMMA OutcomeForms ==
  ASSUME NEW S
  PROVE  /\ \A v \in S : Ok(v) \in Outcomes(S)
         /\ Raise("CorruptTime") \in Outcomes(S)
  BY DEF Outcomes

LEMMA TimeValueOutcome ==
  ASSUME NEW f \in TimeFields
  PROVE  TimeValue(f) \in Outcomes(Times)
  BY OutcomeForms DEF TimeValue, TimeFields

LEMMA PredicateOutcomes ==
  ASSUME notBefore \in TimeFields, notAfter \in TimeFields, NEW t \in Times
  PROVE  /\ is_temporally_valid_at(t) \in Outcomes(BOOLEAN)
         /\ is_expired(t) \in Outcomes(BOOLEAN)
         /\ is_not_yet_valid(t) \in Outcomes(BOOLEAN)
<1>1. /\ notBefore = CorruptTime => not_before = Raise("CorruptTime")
      /\ notAfter = CorruptTime => not_after = Raise("CorruptTime")
      /\ notBefore # CorruptTime => not_before = Ok(notBefore) /\ notBefore \in Nat
      /\ notAfter # CorruptTime => not_after = Ok(notAfter) /\ notAfter \in Nat
  BY DEF not_before, not_after, TimeValue, TimeFields, Times
<1>2. \A v \in BOOLEAN : Ok(v) \in Outcomes(BOOLEAN)
  BY OutcomeForms
<1>3. Raise("CorruptTime") \in Outcomes(BOOLEAN)
  BY OutcomeForms
<1>4. t \in Nat
  BY DEF Times
<1>5. is_expired(t) \in Outcomes(BOOLEAN)
  <2>1. CASE notAfter = CorruptTime
    BY <1>1, <1>3, <2>1 DEF is_expired, Raise
  <2>2. CASE notAfter # CorruptTime
    <3>1. is_expired(t) = Ok(t > notAfter)
      BY <1>1, <2>2 DEF is_expired, Ok
    <3>2. (t > notAfter) \in BOOLEAN
      OBVIOUS
    <3>3. QED
      BY <3>1, <3>2, <1>2, Zenon
  <2>3. QED
    BY <2>1, <2>2
<1>6. is_not_yet_valid(t) \in Outcomes(BOOLEAN)
  <2>1. CASE notBefore = CorruptTime
    BY <1>1, <1>3, <2>1 DEF is_not_yet_valid, Raise
  <2>2. CASE notBefore # CorruptTime
    <3>1. is_not_yet_valid(t) = Ok(t < notBefore)
      BY <1>1, <2>2 DEF is_not_yet_valid, Ok
    <3>2. (t < notBefore) \in BOOLEAN
      OBVIOUS
    <3>3. QED
      BY <3>1, <3>2, <1>2, Zenon
  <2>3. QED
    BY <2>1, <2>2
<1>7. is_temporally_valid_at(t) \in Outcomes(BOOLEAN)
  <2>1. CASE notBefore = CorruptTime
    BY <1>1, <1>3, <2>1 DEF is_temporally_valid_at, Raise
  <2>2. CASE notBefore # CorruptTime /\ ~(notBefore <= t)
    <3>1. is_temporally_valid_at(t) = Ok(FALSE)
      BY <1>1, <2>2 DEF is_temporally_valid_at, Ok
    <3>2. (FALSE) \in BOOLEAN
      OBVIOUS
    <3>3. QED
      BY <3>1, <3>2, <1>2, Zenon
  <2>3. CASE notBefore # CorruptTime /\ notBefore <= t /\ notAfter = CorruptTime
    BY <1>1, <1>3, <2>3 DEF is_temporally_valid_at, Ok, Raise
  <2>4. CASE notBefore # CorruptTime /\ notBefore <= t /\ notAfter # CorruptTime
    <3>1. is_temporally_valid_at(t) = Ok(t <= notAfter)
      BY <1>1, <2>4 DEF is_temporally_valid_at, Ok
    <3>2. (t <= notAfter) \in BOOLEAN
      OBVIOUS
    <3>3. QED
      BY <3>1, <3>2, <1>2, Zenon
  <2>5. QED
    BY <2>1, <2>2, <2>3, <2>4
<1>8. QED
  BY <1>5, <1>6, <1>7

LEMMA TypeStep == TypeOK /\ [Next]_vars => TypeOK'
<1> SUFFICES ASSUME TypeOK, [Next]_vars PROVE TypeOK'
  OBVIOUS
<1>1. CASE Tick
  BY <1>1 DEF Tick, TypeOK, Times
<1>2. CASE Call("not_before", None, not_before)
  BY <1>2, TimeValueOutcome DEF Call, TypeOK, not_before
<1>3. CASE Call("not_after", None, not_after)
  BY <1>3, TimeValueOutcome DEF Call, TypeOK, not_after
<1>4. CASE \E t \in Times : Call("is_temporally_valid_at", t, is_temporally_valid_at(t))
  BY <1>4, PredicateOutcomes DEF Call, TypeOK
<1>5. CASE Call("is_temporally_valid_now", now, is_temporally_valid_now(now))
  BY <1>5, PredicateOutcomes DEF Call, TypeOK, is_temporally_valid_now
<1>6. CASE Call("is_expired", now, is_expired(now))
  BY <1>6, PredicateOutcomes DEF Call, TypeOK
<1>7. CASE Call("is_not_yet_valid", now, is_not_yet_valid(now))
  BY <1>7, PredicateOutcomes DEF Call, TypeOK
<1>8. CASE UNCHANGED vars
  BY <1>8 DEF vars, TypeOK
<1>9. QED
  BY <1>1, <1>2, <1>3, <1>4, <1>5, <1>6, <1>7, <1>8 DEF Next

(* The accessors return the type the callers rely on. *)
THEOREM TypeCorrect == Spec => []TypeOK
<1>1. Init => TypeOK
  BY DEF Init, TypeOK
<1>2. QED
  BY <1>1, TypeStep, PTL DEF Spec

-----------------------------------------------------------------------------
(* The three entry points agree at any reading t, for any validity fields. *)
LEMMA PartitionAt ==
  ASSUME notBefore \in TimeFields, notAfter \in TimeFields, NEW t \in Times,
         is_temporally_valid_at(t).kind = "ret",
         is_expired(t).kind = "ret",
         is_not_yet_valid(t).kind = "ret"
  PROVE  is_temporally_valid_at(t).val = (~is_expired(t).val /\ ~is_not_yet_valid(t).val)
<1>1. notBefore # CorruptTime /\ notAfter # CorruptTime
  BY DEF is_expired, is_not_yet_valid, not_before, not_after, TimeValue, Raise
<1>2. /\ not_before = Ok(notBefore) /\ notBefore \in Nat
      /\ not_after = Ok(notAfter) /\ notAfter \in Nat
  BY <1>1 DEF not_before, not_after, TimeValue, TimeFields, Times
<1>3. t \in Nat
  BY DEF Times
<1>4. is_expired(t).val = (t > notAfter)
  BY <1>2 DEF is_expired, Ok
<1>5. is_not_yet_valid(t).val = (t < notBefore)
  BY <1>2 DEF is_not_yet_valid, Ok
<1>6. is_temporally_valid_at(t).val = (notBefore <= t /\ t <= notAfter)
  <2>1. CASE notBefore <= t
    BY <1>2, <2>1 DEF is_temporally_valid_at, Ok
  <2>2. CASE ~(notBefore <= t)
    BY <1>2, <2>2 DEF is_temporally_valid_at, Ok
  <2>3. QED
    BY <2>1, <2>2
<1>7. (notBefore <= t /\ t <= notAfter) <=> (~(t > notAfter) /\ ~(t < notBefore))
  BY <1>2, <1>3
<1>8. QED
  BY <1>4, <1>5, <1>6, <1>7, Zenon

(* ValidityPartition holds in every reachable state: the inclusive bounds  *)
(* of is_temporally_valid_at and the strict ones of is_expired and         *)
(* is_not_yet_valid describe the same period, for every MaxTime.           *)
THEOREM PartitionHolds == Spec => []ValidityPartition
<1>1. TypeOK => ValidityPartition
  <2> SUFFICES ASSUME TypeOK, last # None, last.at \in Times,
                      {is_temporally_valid_at(last.at).kind,
                       is_expired(last.at).kind,
                       is_not_yet_valid(last.at).kind} = {"ret"}
               PROVE  is_temporally_valid_at(last.at).val =
                        (~is_expired(last.at).val /\ ~is_not_yet_valid(last.at).val)
    BY DEF ValidityPartition
  <2>1. /\ is_temporally_valid_at(last.at).kind = "ret"
        /\ is_expired(last.at).kind = "ret"
        /\ is_not_yet_valid(last.at).kind = "ret"
    OBVIOUS
  <2>2. QED
    BY <2>1, PartitionAt DEF TypeOK
<1>2. QED
  BY <1>1, TypeCorrect, PTL

-----------------------------------------------------------------------------
(* Expiry is remembered: the inductive invariant IInv. *)

LEMMA ExpiredTrue ==
  ASSUME NEW t, is_expired(t) = Ok(TRUE)
  PROVE  notAfter # CorruptTime /\ not_after = Ok(notAfter) /\ t > notAfter
<1>1. notAfter # CorruptTime
  BY DEF is_expired, not_after, TimeValue, Ok, Raise
<1>2. not_after = Ok(notAfter)
  BY <1>1 DEF not_after, TimeValue
<1>3. QED
  BY <1>1, <1>2 DEF is_expired, Ok

(* The accessors read only the validity fields. *)
LEMMA AccessorsUnchanged ==
  ASSUME notBefore' = notBefore, notAfter' = notAfter, NEW t
  PROVE  /\ is_expired(t)' = is_expired(t)
         /\ is_temporally_valid_now(t)' = is_temporally_valid_now(t)
  BY DEF is_expired, is_temporally_valid_now, is_temporally_valid_at,
         not_before, not_after, TimeValue

LEMMA InitIInv == Init => IInv
  BY DEF Init, IInv, TypeOK, Faithful, ExpiryMemory

LEMMA IInvStep == IInv /\ [Next]_vars => IInv'
<1> SUFFICES ASSUME IInv, [Next]_vars PROVE IInv'
  OBVIOUS
<1>1. TypeOK'
  BY TypeStep DEF IInv
<1>2. CASE Tick
  <2>1. now' \in Nat /\ now' > now /\ now \in Nat
    BY <1>2 DEF Tick, IInv, TypeOK, Times
  <2>2. Faithful'
    <3> SUFFICES ASSUME last' # None, last'.call \in ClockCalls
                 PROVE  Faithful!2'
      BY DEF Faithful
    <3>1. UNCHANGED << notBefore, notAfter, last >>
      BY <1>2 DEF Tick
    <3>2. QED
      BY <2>1, <3>1, AccessorsUnchanged DEF IInv, Faithful, Times
  <2>3. ExpiryMemory'
    BY <1>2, <2>1 DEF Tick, IInv, ExpiryMemory, Times
  <2>4. QED
    BY <1>1, <2>2, <2>3 DEF IInv
<1>3. ASSUME NEW name, NEW at, NEW res, Call(name, at, res),
             name \notin ClockCalls
      PROVE  IInv'
  BY <1>1, <1>3 DEF Call, IInv, Faithful, ExpiryMemory, ClockCalls,
                    not_before, not_after
<1>4. ASSUME NEW name \in ClockCalls, NEW res, Call(name, now, res),
             name = "is_expired" => res = is_expired(now),
             name = "is_temporally_valid_now" => res = is_temporally_valid_now(now)
      PROVE  IInv'
  <2>1. Faithful'
    <3>1. /\ last' = [call |-> name, at |-> now, res |-> res]
          /\ UNCHANGED << notBefore, notAfter, now >>
      BY <1>4 DEF Call
    <3>2. now \in Times
      BY DEF IInv, TypeOK
    <3>3. /\ is_expired(now)' = is_expired(now)
          /\ is_temporally_valid_now(now)' = is_temporally_valid_now(now)
      BY <3>1, AccessorsUnchanged
    <3>4. QED
      BY <1>4, <3>1, <3>2, <3>3 DEF Faithful, Times
  <2>2. CASE name = "is_expired" /\ res = Ok(TRUE)
    <3>1. notAfter # CorruptTime /\ now > notAfter
      BY <1>4, <2>2, ExpiredTrue
    <3>2. notAfter \in Times
      BY <3>1 DEF IInv, TypeOK, TimeFields
    <3>3. QED
      BY <1>1, <2>1, <3>1, <3>2, <1>4 DEF Call, IInv, ExpiryMemory
  <2>3. CASE ~(name = "is_expired" /\ res = Ok(TRUE))
    BY <1>1, <2>1, <2>3, <1>4 DEF Call, IInv, ExpiryMemory
  <2>4. QED
    BY <2>2, <2>3
<1>5. CASE UNCHANGED vars
  BY <1>1, <1>5, AccessorsUnchanged DEF vars, IInv, Faithful, ExpiryMemory
<1>6. QED
  <2>1. CASE Call("not_before", None, not_before)
    BY <2>1, <1>3 DEF ClockCalls
  <2>2. CASE Call("not_after", None, not_after)
    BY <2>2, <1>3 DEF ClockCalls
  <2>3. CASE \E t \in Times : Call("is_temporally_valid_at", t, is_temporally_valid_at(t))
    BY <2>3, <1>3 DEF ClockCalls
  <2>4. CASE Call("is_temporally_valid_now", now, is_temporally_valid_now(now))
    BY <2>4, <1>4 DEF ClockCalls
  <2>5. CASE Call("is_expired", now, is_expired(now))
    BY <2>5, <1>4 DEF ClockCalls
  <2>6. CASE Call("is_not_yet_valid", now, is_not_yet_valid(now))
    BY <2>6, <1>4 DEF ClockCalls
  <2>7. QED
    BY <1>2, <1>5, <2>1, <2>2, <2>3, <2>4, <2>5, <2>6 DEF Next

(* The valid-now answer at a reading past a decoded notAfter is never True. *)
LEMMA ValidAfterExpiry ==
  ASSUME NEW t \in Nat, notAfter \in Nat, notBefore \in TimeFields, t > notAfter
  PROVE  is_temporally_valid_at(t) # Ok(TRUE)
<1>1. not_after = Ok(notAfter)
  BY DEF not_after, TimeValue, Ok
<1>2. Ok(FALSE) # Ok(TRUE)
  BY DEF Ok
<1>3. CASE notBefore = CorruptTime
  BY <1>3 DEF is_temporally_valid_at, not_before, TimeValue, Ok, Raise
<1>4. CASE notBefore # CorruptTime
  <2>1. not_before = Ok(notBefore) /\ notBefore \in Nat
    BY <1>4 DEF not_before, TimeValue, TimeFields, Times
  <2>2. CASE ~(notBefore <= t)
    <3>1. is_temporally_valid_at(t) = Ok(FALSE)
      BY <2>1, <2>2 DEF is_temporally_valid_at, Ok
    <3>2. QED
      BY <3>1, <1>2
  <2>3. CASE notBefore <= t
    <3>1. is_temporally_valid_at(t) = Ok(t <= notAfter)
      BY <1>1, <2>1, <2>3 DEF is_temporally_valid_at, Ok
    <3>2. (t <= notAfter) = FALSE
      OBVIOUS
    <3>3. Ok(t <= notAfter) = Ok(FALSE)
      BY <3>2, Zenon
    <3>4. QED
      BY <3>1, <3>3, <1>2
  <2>4. QED
    BY <2>2, <2>3
<1>5. QED
  BY <1>3, <1>4

(* ExpiredStaysExpired holds for every MaxTime, on a clock that only moves *)
(* forward: a later is_expired() answers True again and a later             *)
(* is_temporally_valid_now() does not answer True.                         *)
THEOREM ExpiredStaysExpiredHolds == Spec => []ExpiredStaysExpired
<1>1. IInv => ExpiredStaysExpired
  <2> SUFFICES ASSUME IInv, expiredSeen, last # None
               PROVE  /\ last.call = "is_expired" => last.res = Ok(TRUE)
                      /\ last.call = "is_temporally_valid_now" => last.res # Ok(TRUE)
    BY DEF ExpiredStaysExpired
  <2>1. notAfter \in Times
    BY DEF IInv, ExpiryMemory
  <2>2. ASSUME last.call = "is_expired" PROVE last.res = Ok(TRUE)
    <3>1. last.at \in Times /\ last.at > notAfter /\ last.res = is_expired(last.at)
      BY <2>2 DEF IInv, Faithful, ExpiryMemory, ClockCalls
    <3>2. not_after = Ok(notAfter)
      BY <2>1 DEF not_after, TimeValue, Times
    <3>3. QED
      BY <3>1, <3>2, <2>1 DEF is_expired, Ok, Times
  <2>3. ASSUME last.call = "is_temporally_valid_now" PROVE last.res # Ok(TRUE)
    <3>1. last.at \in Times /\ last.at > notAfter
          /\ last.res = is_temporally_valid_at(last.at)
      BY <2>3 DEF IInv, Faithful, ExpiryMemory, ClockCalls, is_temporally_valid_now
    <3>2. last.at \in Nat /\ notAfter \in Nat /\ notBefore \in TimeFields
      BY <3>1, <2>1 DEF Times, IInv, TypeOK
    <3>3. QED
      BY <3>1, <3>2, ValidAfterExpiry
  <2>4. QED
    BY <2>2, <2>3
<1>2. QED
  BY <1>1, InitIInv, IInvStep, PTL DEF Spec

=============================================================================
