---------------------------- MODULE CertsFromPem ----------------------------
(***************************************************************************)
(* The batch readers certs_from_pem and certs_from_pem_file               *)
(* (src/python/ct/crypto/cert.py, lines 642-695): Python generators that   *)
(* drive the PEM framer over a text and build one Certificate per block    *)
(* with Certificate.from_der, skipping or propagating ASN1Error according  *)
(* to skip_invalid_blobs.                                                  *)
(*                                                                         *)
(* The consumer calls next() on the generator; one call resumes the body   *)
(* up to its next yield, raise or return, so a call is one atomic step     *)
(* (there is no other thread).  The text is a sequence of blobs: a block   *)
(* the framer rejects (BadPem) or the DER bytes of a block, which          *)
(* from_der decodes with the operators of module Certificate.              *)
(***************************************************************************)
EXTENDS Naturals, Sequences, FiniteSets

CONSTANTS
  None,          \* Python's None
  MalformedDer,  \* DER bytes the ASN.1 decoder rejects
  BadPem,        \* a blob the PEM framer rejects
  Ders,          \* the DER strings a block may carry
  MaxBlocks      \* the longest text, in blobs

ASSUME CertsFromPemAssumption ==
  /\ MaxBlocks \in Nat
  /\ BadPem \notin Ders
  /\ None \notin {"PemError", "ASN1Error"}

C == INSTANCE Certificate WITH
  OtherExtIds <- {}, NameValues <- {}, KeyUsageBits <- {}, KeyPurposes <- {},
  PolicyIds <- {}, AccessLocations <- {}, KeyIds <- {},
  MaxList <- 0, MaxExts <- 0, cert <- None, last <- None

Blobs == Ders \cup {BadPem}
Texts == UNION {[1..n -> Blobs] : n \in 0..MaxBlocks}
Certs == [exts : Ders, strict : BOOLEAN]
Entries == {"certs_from_pem", "certs_from_pem_file"}
(* next() signals the end of the sequence by raising StopIteration. *)
StopIteration == C!Raise("StopIteration")

(* Certificate.from_der(der_cert, strict_der=strict_der): the decoder      *)
(* check, then the strict-mode repeated-extnID check of __init__.          *)
from_der(der, strict_der) ==
  IF C!DecodeFails(der, strict_der) THEN C!Raise("ASN1Error")
  ELSE IF strict_der /\ C!has_multiple_extension_values(der)
       THEN C!Raise("ASN1Error")
  ELSE C!Ok([exts |-> der, strict |-> strict_der])

VARIABLES
  entry,   \* which reader the consumer called
  text,    \* the blobs of the PEM text (or file), in order
  skip,    \* skip_invalid_blobs
  strict,  \* strict_der
  pos,     \* the next blob the framer looks at
  gen,     \* "suspended" (created or at a yield) or "finished"
  out,     \* the certificates yielded so far (what the consumer collected)
  last     \* the outcome of the last next(): C!Ok(cert) or C!Raise(e),
           \* or None before the first call

vars == << entry, text, skip, strict, pos, gen, out, last >>

(* The loop body's verdict on blob i: a framing error that stops the      *)
(* framer, a certificate to yield, or a decoder error.                     *)
BlockOutcome(i) ==
  IF text[i] = BadPem THEN C!Raise("PemError") ELSE from_der(text[i], strict)

(* pem_blocks stops on a blob it cannot frame unless it skips invalid     *)
(* blobs (cert.py:647-650).                                                *)
FramerStops(i) == text[i] = BadPem /\ ~skip

(* Mutant: the except clause swallows ASN1Error in non-skip mode too. *)
BodyStops_swallow(i) == text[i] # BadPem /\ BlockOutcome(i).kind = "ret"

(* The loop body stops on a framed block: it yields the certificate, or    *)
(* from_der raised ASN1Error and "if not skip_invalid_blobs: raise".        *)
BodyStops(i) == text[i] # BadPem /\ (BlockOutcome(i).kind = "ret" \/ ~skip)

Stops(i) == FramerStops(i) \/ BodyStops(i)

(* pem_blocks in non-skip mode: StopIteration before any block was found   *)
(* is a PemError (cert.py:647-650).                                        *)
NoBlockFound == \A i \in 1..Len(text) : text[i] = BadPem

Init ==
  /\ entry \in Entries
  /\ text \in Texts
  /\ skip \in BOOLEAN
  /\ strict \in BOOLEAN
  /\ pos = 1
  /\ gen = "suspended"
  /\ out = << >>
  /\ last = None

(* Mutant: after a yield the framer is left on the block it returned. *)
StopAt_no_advance(j) ==
  LET r == BlockOutcome(j)
  IN  /\ last' = r
      /\ pos' = j
      /\ gen' = IF r.kind = "ret" THEN "suspended" ELSE "finished"
      /\ out' = IF r.kind = "ret" THEN Append(out, r.val) ELSE out

(* The body reaches blob j, which stops it: "yield" suspends the generator *)
(* with the certificate, an exception finishes it.                        *)
StopAt(j) ==
  LET r == BlockOutcome(j)
  IN  /\ last' = r
      /\ pos' = j + 1
      /\ gen' = IF r.kind = "ret" THEN "suspended" ELSE "finished"
      /\ out' = IF r.kind = "ret" THEN Append(out, r.val) ELSE out

(* One next() on a suspended generator: the for loop runs over blobs that  *)
(* are skipped (bad PEM or an ASN1Error in skip mode) up to the first one  *)
(* that stops it; past the last blob the loop ends and the generator       *)
(* returns (or the framer raises PemError on a text with no block).        *)
Resume ==
  /\ gen = "suspended"
  /\ IF \E i \in pos..Len(text) : Stops(i)
     THEN StopAt(CHOOSE i \in pos..Len(text) :
                   Stops(i) /\ \A k \in pos..(i - 1) : ~Stops(k))
     ELSE /\ last' = IF ~skip /\ NoBlockFound THEN C!Raise("PemError")
                     ELSE StopIteration
          /\ pos' = Len(text) + 1
          /\ gen' = "finished"
          /\ UNCHANGED out
  /\ UNCHANGED << entry, text, skip, strict >>

(* next() on a finished generator raises StopIteration. *)
Exhausted ==
  /\ gen = "finished"
  /\ last' = StopIteration
  /\ UNCHANGED << entry, text, skip, strict, pos, gen, out >>

certs_from_pem == entry = "certs_from_pem" /\ Resume

(* The file reader reads through pem_blocks_from_file; a read of the file  *)
(* may fail with IOError on any next(), which finishes the generator.      *)
certs_from_pem_file ==
  /\ entry = "certs_from_pem_file"
  /\ \/ Resume
     \/ /\ gen = "suspended"
        /\ last' = C!Raise("IOError")
        /\ gen' = "finished"
        /\ UNCHANGED << entry, text, skip, strict, pos, out >>

Next == certs_from_pem \/ certs_from_pem_file \/ Exhausted

Spec == Init /\ [][Next]_vars

(* The consumer iterates to the end (a for loop or list(...)): as long as  *)
(* it holds a suspended generator it calls next() again.                   *)
FairSpec == Spec /\ WF_vars(certs_from_pem \/ certs_from_pem_file)

(***************************************************************************)
(* Properties.                                                             *)
(***************************************************************************)
Outcomes ==
  {None, StopIteration} \cup {C!Ok(c) : c \in Certs}
    \cup {C!Raise(e) : e \in {"PemError", "ASN1Error", "IOError"}}

(* The framer never moves past the end, at most one certificate is yielded *)
(* per blob, and next() yields a certificate, StopIteration, or raises one *)
(* of the errors the docstrings list (PemError, ASN1Error, IOError).       *)
TypeOK ==
  /\ entry \in Entries /\ text \in Texts
  /\ skip \in BOOLEAN /\ strict \in BOOLEAN
  /\ pos \in 1..(Len(text) + 1)
  /\ gen \in {"suspended", "finished"}
  /\ out \in Seq(Certs) /\ Len(out) < pos
  /\ last \in Outcomes

(* Spec 4.4: framing-level errors from the PEM collaborator "propagate    *)
(* unchanged" and "are not suppressed by skipInvalid", so next() never     *)
(* yields a certificate from past a blob the framer rejected.  The         *)
(* docstring of certs_from_pem (cert.py:647-650) says the opposite for     *)
(* skip_invalid_blobs=True: invalid blobs are skipped.                     *)
FramingErrorsPropagate ==
  last # None /\ last.kind = "ret" => \A i \in 1..(pos - 1) : text[i] # BadPem

(***************************************************************************)
(* Refinement: the reader implements CertsFromPemAbstract.  The mapping    *)
(* reads off the whole text what the sequence must produce: the            *)
(* certificates of the blocks that decode, up to the first blob that ends  *)
(* it in non-skip mode, and the error it ends with.                        *)
(***************************************************************************)
Terminal(i) == ~skip /\ BlockOutcome(i).kind = "exc"

FirstTerminal ==
  IF \E i \in 1..Len(text) : Terminal(i)
  THEN CHOOSE i \in 1..Len(text) : Terminal(i) /\ \A k \in 1..(i - 1) : ~Terminal(k)
  ELSE Len(text) + 1

ExpectedCerts ==
  LET oks == C!Filter([i \in 1..(FirstTerminal - 1) |-> BlockOutcome(i)],
                      LAMBDA o : o.kind = "ret")
  IN  [k \in 1..Len(oks) |-> oks[k].val]

ExpectedFailure ==
  IF FirstTerminal <= Len(text) THEN BlockOutcome(FirstTerminal).val
  ELSE IF ~skip /\ NoBlockFound THEN "PemError"
  ELSE None

Abs == INSTANCE CertsFromPemAbstract WITH
  Elements <- Certs, Errors <- {"PemError", "ASN1Error"}, EnvErrors <- {"IOError"},
  items <- ExpectedCerts, failure <- ExpectedFailure,
  out <- out, done <- (gen = "finished"), last <- last

(* certs_from_pem and certs_from_pem_file keep the contract of spec 4.4:   *)
(* they yield, in order, exactly the certificates of the blocks that       *)
(* decode (skip mode drops every other block, non-skip mode stops at the   *)
(* first bad one with its PemError or ASN1Error); once they raise or       *)
(* return they produce nothing more; and a consumer that keeps calling     *)
(* next() reaches the end.                                                 *)
AbsSpec == Abs!FairSpec

=============================================================================
