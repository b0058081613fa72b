------------------------------ MODULE Validity ------------------------------
(***************************************************************************)
(* The temporal accessors of Certificate (src/python/ct/crypto/cert.py,    *)
(* lines 346-417): not_before / not_after, is_temporally_valid_at and the  *)
(* three entry points that read the wall clock themselves                  *)
(* (is_temporally_valid_now, is_expired, is_not_yet_valid).                *)
(*                                                                         *)
(* Time is a second count (time.struct_time values compare in the same     *)
(* order as the seconds they stand for).  A certificate's validity field   *)
(* either decodes to a time or is corrupt, in which case the ASN.1 layer   *)
(* raises from component_value().gmtime().  The certificate is immutable;  *)
(* the clock is a variable that the environment advances between calls.    *)
(***************************************************************************)
EXTENDS Naturals

CONSTANTS
  None,          \* Python's None: the clock reading of a call that has none
  CorruptTime,   \* a validity field the ASN.1 layer cannot decode
  MaxTime        \* the last second the clock reaches

ASSUME ValidityAssumption ==
  /\ MaxTime \in Nat
  /\ CorruptTime \notin Nat
  /\ None \notin Nat

Times == 0..MaxTime
TimeFields == Times \cup {CorruptTime}

Ok(v) == [kind |-> "ret", val |-> v]
Raise(e) == [kind |-> "exc", val |-> e]

VARIABLES
  notBefore,    \* tbsCertificate.validity.notBefore, as decoded
  notAfter,     \* tbsCertificate.validity.notAfter, as decoded
  now,          \* what time.gmtime() returns at this moment
  last,         \* the last call: [call, at, res]; at is the clock reading used
  expiredSeen   \* history: some is_expired() call has returned True

vars == << notBefore, notAfter, now, last, expiredSeen >>

(* Mutant: a corrupt field read as None instead of raising. *)
TimeValue_none(f) == IF f = CorruptTime THEN Ok(None) ELSE Ok(f)

(* component_value().gmtime() of a validity field. *)
TimeValue(f) == IF f = CorruptTime THEN Raise("CorruptTime") ELSE Ok(f)

not_before == TimeValue(notBefore)
not_after == TimeValue(notAfter)

(* Mutant: the upper bound "harmonised" to be inclusive, now >= notAfter. *)
is_expired_inclusive(t) ==
  IF not_after.kind = "exc" THEN not_after ELSE Ok(t >= not_after.val)

(* is_expired, given the clock reading t it took: t > not_after(). *)
is_expired(t) ==
  IF not_after.kind = "exc" THEN not_after ELSE Ok(t > not_after.val)

(* is_not_yet_valid, given its clock reading t: t < not_before(). *)
is_not_yet_valid(t) ==
  IF not_before.kind = "exc" THEN not_before ELSE Ok(t < not_before.val)

(* The chained comparison not_before() <= t <= not_after(): Python         *)
(* evaluates not_after() only when the first comparison holds.             *)
is_temporally_valid_at(t) ==
  IF not_before.kind = "exc" THEN not_before
  ELSE IF ~(not_before.val <= t) THEN Ok(FALSE)
  ELSE IF not_after.kind = "exc" THEN not_after
  ELSE Ok(t <= not_after.val)

(* Mutant: the chained comparison cut to its lower bound, not_before() <= now. *)
is_temporally_valid_now_lower_only(t) ==
  IF not_before.kind = "exc" THEN not_before ELSE Ok(not_before.val <= t)

(* is_temporally_valid_now: one clock reading, then is_temporally_valid_at. *)
is_temporally_valid_now(t) == is_temporally_valid_at(t)

Init ==
  /\ notBefore \in TimeFields
  /\ notAfter \in TimeFields
  /\ now \in Times
  /\ last = None
  /\ expiredSeen = FALSE

(* The wall clock moves on between two calls (by one or more seconds). *)
Tick ==
  /\ \E t \in (now + 1)..MaxTime : now' = t
  /\ UNCHANGED << notBefore, notAfter, last, expiredSeen >>

(* A call with clock reading at (None when it reads no clock). *)
Call(name, at, res) ==
  /\ last' = [call |-> name, at |-> at, res |-> res]
  /\ expiredSeen' = (expiredSeen \/ (name = "is_expired" /\ res = Ok(TRUE)))
  /\ UNCHANGED << notBefore, notAfter, now >>

Next ==
  \/ Tick
  \/ Call("not_before", None, not_before)
  \/ Call("not_after", None, not_after)
  \/ \E t \in Times : Call("is_temporally_valid_at", t, is_temporally_valid_at(t))
  \/ Call("is_temporally_valid_now", now, is_temporally_valid_now(now))
  \/ Call("is_expired", now, is_expired(now))
  \/ Call("is_not_yet_valid", now, is_not_yet_valid(now))

Spec == Init /\ [][Next]_vars

(***************************************************************************)
(* Properties.                                                             *)
(***************************************************************************)
Outcomes(S) == {Ok(v) : v \in S} \cup {Raise("CorruptTime")}

(* The two field accessors return a time and the four predicates a         *)
(* Boolean, or they raise CorruptTime.                                     *)
TypeOK ==
  /\ notBefore \in TimeFields /\ notAfter \in TimeFields /\ now \in Times
  /\ expiredSeen \in BOOLEAN
  /\ \/ last = None
     \/ last.call \in {"not_before", "not_after"} /\ last.res \in Outcomes(Times)
     \/ /\ last.call \in {"is_temporally_valid_at", "is_temporally_valid_now",
                          "is_expired", "is_not_yet_valid"}
        /\ last.res \in Outcomes(BOOLEAN)

(* The three validity entry points partition time consistently although    *)
(* they use different inequalities (<= in is_temporally_valid_at, strict   *)
(* > and < in is_expired / is_not_yet_valid): at the clock reading of any  *)
(* of them, whenever all three return, the certificate is valid exactly    *)
(* when it is neither expired nor not yet valid.  In particular at         *)
(* now = notAfter it is valid and not expired (spec, open question).       *)
ValidityPartition ==
  last # None /\ last.at \in Times =>
    LET v == is_temporally_valid_at(last.at)
        e == is_expired(last.at)
        n == is_not_yet_valid(last.at)
    IN  {v.kind, e.kind, n.kind} = {"ret"} =>
          v.val = (~e.val /\ ~n.val)

(* Under a clock that never goes back, once is_expired() has returned      *)
(* True every later is_expired() returns True and no later                 *)
(* is_temporally_valid_now() returns True: each call reads the clock anew  *)
(* (cert.py:379, :390), and expiry must not be undone by a later reading.  *)
ExpiredStaysExpired ==
  expiredSeen /\ last # None =>
    /\ last.call = "is_expired" => last.res = Ok(TRUE)
    /\ last.call = "is_temporally_valid_now" => last.res # Ok(TRUE)

=============================================================================
