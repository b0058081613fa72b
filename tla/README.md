# TLA+ verification of `ct/crypto/cert.py`

This directory models the X.509 certificate API of `src/python/ct/crypto/cert.py`
(694 lines, one class `Certificate` and two generator functions) in TLA+,
checks it with TLC on small instances, and proves its central guarantees with
TLAPS for every value of the constants.

## 1. Inventory

### Components

| Component | Code | State it keeps | Operations |
|---|---|---|---|
| Extension table | `_has_multiple_extension_values`, `_get_decoded_extension_values`, `_get_decoded_extension_value` (cert.py:77-124) | none of its own: it is a view of `tbsCertificate.extensions`, a sequence of (extnID, decoded value or None) | count extnIDs; resolve all matches; resolve a single match |
| Certificate construction | `__init__`, `from_der`, `from_pem`, `from_pem_file`, `from_der_file` (cert.py:25-180) | the decoded ASN.1 structure and the `strict_der` flag it was decoded with; immutable afterwards | decode, then in strict mode reject repeated extnIDs |
| Extension accessors | cert.py:216-639 | none (pure) | SAN and its DNS/IP filters, basic constraints, key usage (bit and list), EKU (purpose and list), SKI, AKI, policies / policy / has_policy, CRL distribution points, CA issuers and OCSP responders |
| Temporal accessors | cert.py:346-417 | reads the wall clock (`time.gmtime()`) on every `*_now`/`is_expired`/`is_not_yet_valid` call | not_before, not_after, is_temporally_valid_at/now, is_expired, is_not_yet_valid |
| Encoding and identity | cert.py:182-190, 419-430 | none (re-encodes on every call; the cache the comment at cert.py:47-50 mentions does not exist) | to_der, to_pem, is_identical_to, fingerprint |
| Identity fields | cert.py:192-214, 291-313 | none | version, subject_common_names, print_subject_name, print_issuer_name, serial_number |
| Batch reader | `certs_from_pem`, `certs_from_pem_file` (cert.py:642-695) | the generator's position in the PEM block stream, and whether it has finished | pull the next certificate, skipping or raising on bad blocks |
| External collaborators (not in `src/`) | `ct.crypto.asn1.x509` decoder, `ct.crypto.pem` framer, OID registry | — | decode/encode, PEM framing, constants |

### How they interact

The data flows one way: bytes go to the decoder (external), then the `Certificate` object, which holds the extension
table, and then the accessors. Accessors call the two resolution helpers. The helpers
raise `CertificateError` for corrupt payloads (`decoded_value is None`) and for
ambiguous single-valued lookups. The batch reader drives the PEM framer and calls
`Certificate.from_der` per block. It swallows or propagates `ASN1Error` according
to `skip_invalid_blobs`. There is no concurrency inside the library. What is hard is
the order of checks and the multi-call protocols:

* **Strict vs lenient.** A strict decode must reject, at construction, everything that
  would make a later accessor raise (the comment at cert.py:39-43). Lenient mode
  defers ambiguity to each accessor call.
* **Order of checks.** Corruption is tested before multiplicity (cert.py:121 before :98).
  Absent, present-but-empty and present extensions must stay distinguishable
  (None / False / True).
* **Multi-extension aggregation.** Repeated SAN extensions are tolerated and flattened in order.
* **Clock reads.** Each temporal `*_now` call reads the wall clock separately, and the
  inequality strictness differs between entry points.
* **Generator protocol.** It is single-pass, and it stops for good after a propagated error.

### What makes each component correct

* Extension table and accessors: a strictly built certificate never raises "Multiple
  extension values" (spec §7; proved). The by-type SAN filters agree with the
  flattened SAN list. Each accessor is None, False or True exactly as in spec §4.3.
  Errors propagate unchanged.
* Construction: strict mode rejects repeated extnIDs and undecodable recognised extensions.
  Lenient mode accepts both.
* Temporal: `is_temporally_valid_at(t)` ⇔ ¬expired ∧ ¬not-yet-valid at the same t.
  Once expired, a certificate stays expired under a monotonic clock.
* Encoding: `is_identical_to` is an equivalence, and it is exactly equality of re-encodings.
* Batch reader: it yields, in order, exactly the blocks that decode. In
  non-skip mode it stops for good at the first bad block. With skip it never raises
  ASN1Error. It terminates if the consumer keeps pulling.

The hazards are listed, each at its line, in `PROJECT.json` under `hazards`.

## 2. Modules

| Module | Models | Theorems |
|---|---|---|
| `Certificate` (+ `MCCertificate`) | extension table, every constructor, every extension accessor | `CertificateProofs`, `SanByTypeProofs` |
| `Validity` | the temporal accessors over a clock variable | `ValidityProofs` |
| `CertsFromPem` (+ `MCCertsFromPem`) | the two generators, composing `from_der` from `Certificate` | `CertsFromPemProofs`, `CertsFromPemRefinement` |
| `CertsFromPemAbstract` | the single-pass sequence contract of spec §4.4, refined by `CertsFromPem` | — |

`CertsFromPem` instantiates `Certificate` (`C == INSTANCE Certificate WITH ...`) and
takes its `DecodeFails`, `has_multiple_extension_values`, `Ok` and `Raise`, so a
block in the reader is decoded by the same operators that build a certificate.
No module that is proved about reaches a `RECURSIVE` operator. The list filter is
written over the set of matching positions (`Filter`), so that its length is provably
the number of matches. The concatenation `sum(lists, [])` is written the same way
(`Flatten`). Its entries sit at the positions `<<i, j>>` (entry `j` of list `i`,
`FlatPositions`). Element `k` of the result is the entry whose position has rank `k` in
the order `LexLe`: by list, then within the list. TLC checked that this definition
equals the obvious recursive one on every list of up to three lists of up to three
elements. The rank form lets the provers reason about the result without induction.

## 3. Module `Certificate`

**State.** `cert` is the object a caller holds: `None`, or `[exts, strict]`, where
`exts` is the decoded extension sequence. `last` is the last call made
on it, `[call, arg, res]`, where `res` is `Ok(v)` (returned) or `Raise(e)` (raised).
A certificate is immutable, so the only transitions are these:

| Action | Code |
|---|---|
| `Certificate(der, strict_der)` | `__init__` / `from_der`: decoder failure raises ASN1Error; in strict mode a repeated extnID raises ASN1Error; otherwise the object exists |
| `FromPem(strict_der)` | `from_pem`: PemError from framing (`EarlyError`), or `from_der` of the framed block |
| `FromPemFile(strict_der)` | `from_pem_file`: IOError or PemError from `pem.from_pem_file`, or `from_der` |
| `FromDerFile(strict_der)` | `from_der_file`: IOError from `open`/`read`, or `from_der` |
| `Accessor` (one disjunct per method, arguments from small sets) | each extension accessor, its result computed by an operator translated from the method |
| `Discard` | the caller drops the reference |

**Abstraction.** Payloads are model values. A GeneralName is (tag ∈ {dNSName, iPAddress},
value). Policies are their OIDs, with qualifiers omitted. AIA entries are (method, location).
KeyUsage is the set of asserted bits. The decoder is modelled from the spec as
`DecodeFails`: malformed DER fails in both modes, and strict mode also rejects a
recognised extension whose payload does not decode (the comment at cert.py:40-41). Each Python
`if ...: return` chain is an `IF ... ELSE IF` chain, in the code's order. A `CASE`
would pick any true arm, not the first.

**Runs.**

* `certificate_accessors` (`MCCertificate.cfg`, pass, about 98k states, about 2 minutes):
  every certificate of up to 2 extensions, with lists of up to 2 entries, 2 name values,
  2 key-usage bits and 2 policy OIDs, decoded strictly and leniently, and every accessor call on
  each. Two extensions are enough for every pair case: a repeated extnID, a repeated SAN, a
  corrupt entry next to a good one, and a repeated policy OID inside one list. Symmetry
  over the name, bit and policy model values is sound, because the model only compares them
  for equality. It checks these properties:
  * `TypeOK`.
  * `StrictNoAmbiguity`: a strict certificate never raises Multiple extension values.
  * `SanByTypeConsistent`: the per-extension filter agrees with flatten-then-filter, in
    order and with duplicates.
  * `KeyUsageThreeState`: None exactly when the extension is absent, and True exactly
    when `key_usages()` lists the bit. The first half is what tests the code: the
    `ku is None` check of cert.py:458 keeps an extension with no bit set apart from a
    missing one. The second half holds by construction, since both accessors reduce to
    whether the bit is in the decoded set.
* `strict_never_raises` (`MCCertificateStrictRaises.cfg`, violation). The comment in
  `__init__` says a strict certificate never raises CertificateError later. TLC finds a
  strict certificate whose CertificatePolicies list names one OID twice, and `policy()`
  raises on it (cert.py:583). That is the finding in `PROJECT.json`. The spec's own claim
  is weaker (only MultipleExtensionValues), and it holds.

Each property of the passing run has a mutant that TLC catches (`PROJECT.json`,
`mutants`):
* The construction ignores decoder errors (caught by `TypeOK`).
* The Counter test is off by one (`StrictNoAmbiguity`).
* The by-type SAN lookup resolves SAN as single-valued (`SanByTypeConsistent`).
* `key_usage` tests `not ku` instead of `ku is None` (`KeyUsageThreeState`).

## 4. Proofs (`CertificateProofs`)

* `TypeCorrect: Spec => []TypeOK`. Lemmas show that every accessor's result is an
  outcome (`AccessorOutcomes`), and that each step preserves the type (`TypeStep`).
* `StrictNoAmbiguityHolds: Spec => []StrictNoAmbiguity`, for all values of the constants.
  `StrictNoAmbiguity` is not inductive, because the next call may look up any extnID.
  The inductive invariant is `IInv == TypeOK /\ StrictNoDuplicates /\ StrictNoAmbiguity`,
  where `StrictNoDuplicates` says the held strict certificate passed the Counter check.
  TLC checked `IInv` as an invariant before the proof. The argument runs as follows:
  * `FilterLen`: the filtered list has one entry per matching position.
  * `AtMostOneMatch`: without a repeated extnID, at most one position matches. The Counter
    count at a matching position is the same set's cardinality.
  * `ValueNotMultiple`: so `_get_decoded_extension_value` never reaches its
    `len > 1` branch.
  * `AccessorsNotMultiple` lifts this through every accessor, and `StrictStep` proves the
    step case per action.

The proofs rest on the assumptions `NoneAssumption` (None is not a Boolean or a
natural) and `BoundsAssumption` (the bounds are naturals).

* `KeyUsageThreeStateHolds: Spec => []KeyUsageThreeState`. `KeyUsageThreeState`
  speaks about the last `key_usage` call only when the held certificate answers it, so it
  is not inductive as it stands. The inductive invariant is
  `KUInv == TypeOK /\ KeyUsageFaithful`: the recorded result of the last `key_usage`
  call is what `key_usage` returns on the held certificate. The argument:
  * `PositionsContain`: the list-membership test of `_get_decoded_extension_values`
    agrees with the set of matching positions;
  * `KeyUsageAnswer`: when `key_usage` returns, it returns None exactly when no
    extension has the KU extnID, and True exactly when the asked bit is asserted. The
    proof splits on whether the decoded-value list is empty;
  * `KUStep` shows that every action keeps `KeyUsageFaithful`. Only a `key_usage` call
    changes what it speaks of, and a constructor resets `last`.

* `SanByTypeConsistentHolds: Spec => []SanByTypeConsistent` (module
  `SanByTypeProofs`). The inductive invariant is `SInv == TypeOK /\ SanFaithful`: the
  recorded answer of the last `subject_dns_names` or `subject_ip_addresses` call is
  what `_get_subject_alt_names_by_type` computes on the held certificate. TLC checked
  `SInv` on the instance of the `certificate_accessors` run before it was proved. The argument:
  * Ranks. `RankBy(A, R, a)` is the number of members of `A` at or below `a` under a
    total order `R`, and `NthBy(A, R, k)` is the member of rank `k`. Lemmas
    `RankByType`, `RankByMono`, `NthByProps` and `NthByRank` show that these are
    inverse bijections between `A` and `1..Cardinality(A)` that preserve the order.
    `RankByIso` shows that an order-preserving map of `A` onto `B` sends the `k`-th
    member of `A` to the `k`-th member of `B`.
  * `FilterTag` and `FlattenRank` restate `Filter` and `Flatten` with `NthBy`.
  * Both sides list the values at `MatchPositions(ss, t)`, the positions `<<i, j>>`
    holding a name of type `t`, in the order `LexLe` (`MatchValues`).
    `FlattenSide` shows this for filter-after-flatten. The map sends rank `k` in the
    flat list to its position. `FlattenParts` shows it for flatten-after-filter. The
    map sends `<<i, j>>` to `<<i, j`-th match in list `i>>`, which is order-preserving
    because `NthBy` is monotone (`InnerRank`).
  * `SanValuesType` shows that a returned list of decoded SAN values is a list of lists
    of GeneralNames: only SAN extensions are kept, and a None raises.
    `SanByTypeAnswer` then computes the by-type answer from
    `subject_alternative_names()`, in both the raising and the returning case.
  * `SanStep` proves the step case per action, and `SInvImplies` proves the property.

## 5. Module `Validity` (temporal accessors)

**State.** `notBefore` and `notAfter` are the decoded validity fields, each a second
in `0..MaxTime` or `CorruptTime` (the ASN.1 layer raises from
`component_value().gmtime()`). `now` is what `time.gmtime()` would return. `last` is the
last call, `[call, at, res]`, where `at` is the clock reading the call used.
`expiredSeen` is a history variable: some `is_expired()` has returned True.
`struct_time` values compare like the seconds they stand for, so time is a natural.

| Action | Code |
|---|---|
| `Tick` | the wall clock moves forward between calls (by one or more seconds) |
| `Call("not_before"/"not_after", ...)` | cert.py:346-368 |
| `Call("is_temporally_valid_at", t, ...)`, any `t` | cert.py:405-417: the chained comparison, which evaluates `not_after()` only when `not_before() <= t` |
| `Call("is_temporally_valid_now"/"is_expired"/"is_not_yet_valid", now, ...)` | cert.py:370-403: each reads the clock itself |

**Run `validity`** (`MCValidity.cfg`, pass, 1,730 states, about a second). `MaxTime = 3`
gives four instants, enough for a period that is empty, a point, inverted
(`notBefore > notAfter`) or proper, with the clock before, at, inside and after it, and
for either field to be corrupt. Properties:
* `TypeOK`.
* `ValidityPartition`: at the reading of any call, if all three predicates return, then
  valid ⇔ ¬expired ∧ ¬not-yet-valid. This is the spec's open question about the strict
  and inclusive bounds: it checks that the two conventions never disagree, at
  `now = notAfter` included. Mutant: `is_expired` made inclusive (`>=`).
* `ExpiredStaysExpired`: after `is_expired()` returned True, every later `is_expired()`
  returns True and no later `is_temporally_valid_now()` returns True. Mutant:
  `is_temporally_valid_now` cut to its lower bound.

The clock only moves forward in this model. `time.gmtime()` can step back after a
clock adjustment, and then expiry is undone; the hazard for cert.py:390 says so.
With a corrupt `notAfter`, `is_temporally_valid_at` returns False before `notBefore`
instead of raising. This is modelled, but no property is stated about it, because no
source says which answer is right.

**Proofs (`ValidityProofs`).** These hold for every `MaxTime`, from `ValidityAssumption`
(`CorruptTime` and `None` are not naturals):
* `TypeCorrect`: `Spec => []TypeOK`.
* `PartitionHolds`: `Spec => []ValidityPartition`. It follows from the lemma `PartitionAt`
  (the partition holds at every `t`) together with `TypeOK`.
* `ExpiredStaysExpiredHolds`: `Spec => []ExpiredStaysExpired`. The property is not
  inductive: it speaks of a past call and of the next one. The inductive invariant is
  `IInv == TypeOK /\ Faithful /\ ExpiryMemory`, and TLC checked it first:
  * `Faithful`: the last clock call used a reading `<= now`, and its result is the
    accessor at that reading.
  * `ExpiryMemory`: once expired, `notAfter` decodes and lies before `now` and before the
    last call's reading.
  Because `Tick` only increases `now`, every later reading is past `notAfter`. The lemma
  `ValidAfterExpiry` then shows that `is_temporally_valid_at` is not True there.

## 6. Module `CertsFromPem` (batch readers) and its refinement

**State.** `entry` is which reader was called. `text` is the input as a sequence of
blobs: `BadPem` (a blob the framer rejects) or the DER bytes of a block (a member of
`Ders`). `skip` and `strict` are `skip_invalid_blobs` and `strict_der`. `pos` is the
next blob the framer looks at. `gen` is the generator's state, `"suspended"` or
`"finished"`. `out` is what the consumer has collected, and `last` is the outcome of the
last `next()`.

There is no other thread, so one `next()` runs the generator body from one yield to the
next and is one step:
* `Resume` runs the for loop over the blobs that are skipped, up to the first blob that
  stops it (`Stops`). That blob either yields its certificate or raises PemError or
  ASN1Error (`StopAt`). Past the last blob the generator returns (StopIteration). In
  non-skip mode, a text with no block gives PemError from the framer (`NoBlockFound`,
  per the docstring at cert.py:647-650).
* `certs_from_pem_file` may instead raise IOError at any `next()`. The file is read
  lazily through `pem_blocks_from_file`.
* `Exhausted`: `next()` on a finished generator raises StopIteration.

The framer (`pem.pem_blocks`) is outside `src/`, so its behaviour is modelled from the
docstring (`FramerStops`, `NoBlockFound`).

**Refinement.** `CertsFromPemAbstract` is the contract of spec §4.4, a lazy, finite,
single-pass, non-restartable sequence:
* its input fixes the items and the failure, if any;
* `Produce` yields the next item;
* `Finish` ends the sequence, with the failure or with StopIteration;
* `EnvFailure` ends it early with IOError;
* `AfterEnd` answers StopIteration.
The refinement mapping reads off the text what the reader must produce:
* `ExpectedCerts`: the certificates of the blocks that decode, up to the first blob that
  ends the sequence in non-skip mode;
* `ExpectedFailure`: the error it ends with;
* `done`: `gen = "finished"`.
`AbsSpec == Abs!FairSpec` is checked as a temporal property.

**Fairness.** `FairSpec` has weak fairness on the consumer's `next()` (`certs_from_pem \/
certs_from_pem_file`). This models a consumer that iterates to exhaustion (a `for`
loop, `list(...)`), which is how the generators are meant to be used. Under it,
`AbsSpec`'s own fairness (the sequence reaches its end) is a liveness property that TLC
checks.

**Run `certs_from_pem_refinement`** (`MCCertsFromPem.cfg`, pass, about 35k states, under
1 minute). It covers every text of up to 4 blobs over four kinds of block:
* a certificate with no extensions;
* one with a repeated key-usage extension (rejected only in strict mode);
* one whose extension payload is corrupt (rejected only in strict mode);
* malformed DER.
The framer also sees `BadPem`, both entries are covered, and both modes of each flag.
Four blobs are enough for a good block before and after a bad one, in either mode.
Properties:
* `TypeOK`. Mutant: after a yield the framer stays on the same block.
* `AbsSpec`. Mutant: the except clause swallows ASN1Error in non-skip mode as well.

**Run `framing_errors_propagate`** (`MCCertsFromPemFraming.cfg`, violation). Spec §4.4
says that framing errors are "not suppressed by skipInvalid". But the reader passes
`skip_invalid_blobs` on to the framer, which then skips the blobs it cannot frame.
TLC finds the text `<<BadPem, good>>` with skip set, which yields the good certificate.
That is the second finding in `PROJECT.json`. It rests on the framer's documented
behaviour, since the framer is outside `src/`.

**Proofs (`CertsFromPemProofs`).** `TypeCorrect: Spec => []TypeOK` holds for every set of
DER strings and every `MaxBlocks`. It shows that `pos` stays in `1..Len(text)+1`, that
fewer certificates have been yielded than blobs passed, and that every outcome is a
certificate, StopIteration or a documented error. The one non-local fact it needs is that
the `CHOOSE` of `Resume` picks an existing first stopping blob. The lemma `FirstStop`
derives this from the well-foundedness of `<` on the naturals (`WFMin`,
`NatLessThanWellFounded` of the library).

**Refinement proof (`CertsFromPemRefinement`).** `Refinement: Spec => Abs!Spec` holds for
every set of DER strings and every `MaxBlocks`. It is the safety part of `AbsSpec`: every
step of the reader is, under the mapping, a `Produce`, `Finish`, `EnvFailure` or
`AfterEnd` step, or a stutter. It needs the inductive invariant
`RInv == TypeOK /\ Track`, which TLC checked as an invariant before the proof. `Track`
says that while the generator is suspended:
* no blob the framer has passed ends the sequence;
* the consumer holds one certificate per passed blob that decodes;
* those certificates are the first items of `ExpectedCerts`.

Without `Track`, a yield could not be shown to produce the *next* item. The argument:
* The rank lemmas (`RankType`, `RankStrict`, `RankUnique`, `RankOnto`) are about the rank
  of a position in a finite set of naturals. They give a closed form of `Filter`:
  `ExpectedCertsRanked` says `ExpectedCerts` lists the certificates of `OkSet` (the blobs
  that decode before the first terminal one) in rank order.
* `FirstTerminalProps` and `FirstTerminalIs` characterise the first blob that ends the
  sequence. `TerminalStops` and `OkStops` show that such a blob, and every blob that
  decodes, stops the loop, so the blobs `Resume` passes over neither yield nor end it.
* `SameInput` shows that the mapped `items` and `failure` do not change, because no step
  changes the text or the flags.
* The step cases:
  * `StopAtOk`: a yield is `Produce`. The blob's rank in `OkSet` is one more than what
    the consumer holds.
  * `StopAtExc`: a raise is `Finish`. The blob is the first terminal one, and
    `ExpectedFailure` is its error.
  * `NoStopFinish`: running off the end is `Finish`.
  * An IOError is `EnvFailure`, and `Exhausted` is `AfterEnd`.

The proof also uses the assumption `None \notin {"PemError", "ASN1Error"}`, so that a
raise is never read as a clean end.

## 7. What is proved and what is only model-checked

TLAPS proves these theorems for all values of the constants:
* `TypeOK` of all three components.
* The strict-mode guarantee (`StrictNoAmbiguity`).
* The three-state answer of `key_usage` (`KeyUsageThreeState`).
* The agreement of the by-type SAN accessors with filtering `subject_alternative_names()`
  (`SanByTypeConsistent`).
* The refinement of the sequence contract by the batch readers, safety part
  (`Spec => Abs!Spec`).
* The validity partition.
* Stable expiry.

Only model-checked:
* The liveness part of `AbsSpec` (the consumer reaches the end of the sequence). It
  needs fairness and `ENABLED`, which stay with TLC.

## 8. Not modelled, and why

* Encoding and identity (`to_der`, `to_pem`, `is_identical_to`, `fingerprint`,
  cert.py:182-190, 419-430). Each is one call into the external encoder, `pem.to_pem`
  or `hashlib`. `is_identical_to` is equality of two such calls. Once the encoder is
  abstracted, the properties (an equivalence, exactly equal re-encodings) hold by
  definition, so a model would check nothing about this code. The hazard at
  cert.py:429 records the consequence that matters (BER inputs are identified by their
  re-encoding).
* The identity field accessors and the text formatting (`version`,
  `subject_common_names`, `serial_number`, `__str__`, `print_*`). They are one-line
  projections of decoder output.
* The ASN.1 grammar, the PEM framing and the OID registry are outside `src/`. Only
  their contract is modelled, from the spec and the docstrings.
