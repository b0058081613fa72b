------------------------ MODULE CertsFromPemAbstract ------------------------
(***************************************************************************)
(* What a batch reader promises (spec section 4.4, and the docstrings of   *)
(* certs_from_pem / certs_from_pem_file): a lazy, finite, single-pass,     *)
(* non-restartable sequence.  The reader's input fixes, before the first   *)
(* pull, the certificates it will produce (items) and how it ends: cleanly *)
(* (failure = None) or with an error.  Each pull produces the next item;   *)
(* after the last one the sequence ends, and every later pull only says    *)
(* StopIteration.  An error of the environment (reading the file) may end  *)
(* it early.                                                               *)
(***************************************************************************)
EXTENDS Naturals, Sequences

CONSTANTS
  None,       \* no failure: the sequence ends with StopIteration
  Elements,   \* the values the sequence may produce
  Errors,     \* errors the input determines
  EnvErrors   \* errors of the environment, possible at any pull

VARIABLES
  items,      \* the values the sequence produces, in order
  failure,    \* the error that ends it, or None
  out,        \* the values produced so far
  done,       \* the sequence has ended
  last        \* the outcome of the last pull, or None before the first

vars == << items, failure, out, done, last >>

Ok(v) == [kind |-> "ret", val |-> v]
Raise(e) == [kind |-> "exc", val |-> e]
End == Raise("StopIteration")

Init ==
  /\ items \in Seq(Elements)
  /\ failure \in Errors \cup {None}
  /\ out = << >>
  /\ done = FALSE
  /\ last = None

(* A pull produces the next value. *)
Produce ==
  /\ ~done
  /\ Len(out) < Len(items)
  /\ out' = Append(out, items[Len(out) + 1])
  /\ last' = Ok(items[Len(out) + 1])
  /\ UNCHANGED << items, failure, done >>

(* A pull after the last value ends the sequence, with its failure if any. *)
Finish ==
  /\ ~done
  /\ Len(out) = Len(items)
  /\ done' = TRUE
  /\ last' = IF failure = None THEN End ELSE Raise(failure)
  /\ UNCHANGED << items, failure, out >>

(* The environment fails a pull; the sequence ends early. *)
EnvFailure(e) ==
  /\ ~done
  /\ done' = TRUE
  /\ last' = Raise(e)
  /\ UNCHANGED << items, failure, out >>

(* A pull on an ended sequence. *)
AfterEnd ==
  /\ done
  /\ last' = End
  /\ UNCHANGED << items, failure, out, done >>

Next == Produce \/ Finish \/ (\E e \in EnvErrors : EnvFailure(e)) \/ AfterEnd

Spec == Init /\ [][Next]_vars

(* A consumer that keeps pulling reaches the end. *)
FairSpec == Spec /\ WF_vars(Produce \/ Finish)

=============================================================================
