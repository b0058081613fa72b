---------------------------- MODULE Certificate ----------------------------
(***************************************************************************)
(* The Certificate class of src/python/ct/crypto/cert.py: construction     *)
(* from DER in strict or lenient mode, the extension table it keeps (the   *)
(* decoded tbsCertificate.extensions sequence), the two resolution helpers *)
(* _get_decoded_extension_values / _get_decoded_extension_value, and the   *)
(* extension accessors built on them.                                      *)
(*                                                                         *)
(* A certificate object is immutable, so the state is the object a caller  *)
(* holds (None before construction and after it is dropped) and the last   *)
(* call made on it with its outcome: a returned value or a raised          *)
(* exception.  Payloads are abstracted to small sets of opaque values.     *)
(***************************************************************************)
EXTENDS Naturals, Sequences, FiniteSets

CONSTANTS
  None,               \* Python's None; also "no object held"
  MalformedDer,       \* a byte string the ASN.1 decoder rejects
  OtherExtIds,        \* extension OIDs the ASN.1 layer does not recognise
  NameValues,         \* values carried by a GeneralName
  KeyUsageBits,       \* named bits of the KeyUsage BIT STRING
  KeyPurposes,        \* OIDs that may appear in ExtendedKeyUsage
  PolicyIds,          \* certificate policy OIDs
  AccessLocations,    \* GeneralNames used as AIA access locations
  KeyIds,             \* key identifier / serial number values
  MaxList,            \* longest list inside one extension payload
  MaxExts             \* longest extension sequence in a certificate

ASSUME NoneAssumption == None \notin BOOLEAN \cup Nat
ASSUME BoundsAssumption == MaxList \in Nat /\ MaxExts \in Nat

(***************************************************************************)
(* Names of the OID registry and of x509_name / x509_extension that the    *)
(* code compares against.                                                  *)
(***************************************************************************)
ID_CE_SUBJECT_ALT_NAME == "subjectAltName"
ID_CE_BASIC_CONSTRAINTS == "basicConstraints"
ID_CE_KEY_USAGE == "keyUsage"
ID_CE_EXT_KEY_USAGE == "extKeyUsage"
ID_CE_SUBJECT_KEY_IDENTIFIER == "subjectKeyIdentifier"
ID_CE_AUTHORITY_KEY_IDENTIFIER == "authorityKeyIdentifier"
ID_CE_CERTIFICATE_POLICIES == "certificatePolicies"
ID_CE_CRL_DISTRIBUTION_POINTS == "cRLDistributionPoints"
ID_PE_AUTHORITY_INFO_ACCESS == "authorityInfoAccess"
RecognizedExtIds ==
  { ID_CE_SUBJECT_ALT_NAME, ID_CE_BASIC_CONSTRAINTS, ID_CE_KEY_USAGE,
    ID_CE_EXT_KEY_USAGE, ID_CE_SUBJECT_KEY_IDENTIFIER,
    ID_CE_AUTHORITY_KEY_IDENTIFIER, ID_CE_CERTIFICATE_POLICIES,
    ID_CE_CRL_DISTRIBUTION_POINTS, ID_PE_AUTHORITY_INFO_ACCESS }
ExtIds == RecognizedExtIds \cup OtherExtIds

DNS_NAME == "dNSName"
IP_ADDRESS_NAME == "iPAddress"
ID_AD_CA_ISSUERS == "caIssuers"
ID_AD_OCSP == "ocsp"
AkiComponents == {"keyIdentifier", "authorityCertIssuer",
                  "authorityCertSerialNumber"}

(***************************************************************************)
(* Decoded payloads, by extension type.                                    *)
(***************************************************************************)
BSeq(S) == UNION {[1..n -> S] : n \in 0..MaxList}
GeneralNames == [tag : {DNS_NAME, IP_ADDRESS_NAME}, value : NameValues]
AccessDescriptions == [method : {ID_AD_CA_ISSUERS, ID_AD_OCSP},
                       location : AccessLocations]
DecodedValues(id) ==
  CASE id = ID_CE_SUBJECT_ALT_NAME         -> BSeq(GeneralNames)
    [] id = ID_CE_BASIC_CONSTRAINTS        ->
         [cA : BOOLEAN, pathLenConstraint : {None, 0}]
    [] id = ID_CE_KEY_USAGE                -> SUBSET KeyUsageBits
    [] id = ID_CE_EXT_KEY_USAGE            -> BSeq(KeyPurposes)
    [] id = ID_CE_SUBJECT_KEY_IDENTIFIER   -> KeyIds
    [] id = ID_CE_AUTHORITY_KEY_IDENTIFIER -> [AkiComponents -> KeyIds \cup {None}]
    [] id = ID_CE_CERTIFICATE_POLICIES     -> BSeq(PolicyIds)
    [] id = ID_CE_CRL_DISTRIBUTION_POINTS  -> BSeq(AccessLocations)
    [] id = ID_PE_AUTHORITY_INFO_ACCESS    -> BSeq(AccessDescriptions)
    [] OTHER                               -> {}

(* An extension: its extnID and extnValue.decoded_value (None when the     *)
(* payload is unrecognised or corrupt).                                    *)
Extensions ==
  UNION { [extnID : {id}, decoded : DecodedValues(id) \cup {None}] : id \in ExtIds }
ExtensionSeqs == UNION {[1..n -> Extensions] : n \in 0..MaxExts}

(***************************************************************************)
(* Outcomes of a Python call: a returned value or a raised exception.      *)
(***************************************************************************)
Ok(v) == [kind |-> "ret", val |-> v]
Raise(e) == [kind |-> "exc", val |-> e]
CertificateErrors == {"CorruptExtension", "MultipleExtensionValues",
                      "DuplicatePolicy"}
Exceptions == CertificateErrors \cup {"ASN1Error", "PemError", "IOError"}

(* The order-preserving list comprehension [x for x in s if Test(x)].      *)
(* Written over the set of matching positions, so that its length is the   *)
(* number of matches by definition.                                        *)
Filter(s, Test(_)) ==
  LET M == {i \in 1..Len(s) : Test(s[i])}
      Kth(k) == CHOOSE i \in M : Cardinality({j \in M : j <= i}) = k
  IN  [k \in 1..Cardinality(M) |-> s[Kth(k)]]

(* The positions <<i, j>> of the entries of a list of lists, and their     *)
(* order in the concatenation: by list, then within the list.              *)
FlatPositions(ss) == UNION {{i} \X (1..Len(ss[i])) : i \in 1..Len(ss)}

LexLe(p, q) == p[1] < q[1] \/ (p[1] = q[1] /\ p[2] <= q[2])

(* sum(lists, []): the concatenation of a list of lists.  The entry of    *)
(* rank k among the positions, in that order, is element k of the result. *)
Flatten(ss) ==
  LET P == FlatPositions(ss)
      Kth(k) == CHOOSE p \in P : Cardinality({q \in P : LexLe(q, p)}) = k
  IN  [k \in 1..Cardinality(P) |-> ss[Kth(k)[1]][Kth(k)[2]]]

ListContains(s, x) == \E i \in 1..Len(s) : s[i] = x

(***************************************************************************)
(* Extension table: construction check and the two resolution helpers.    *)
(***************************************************************************)
ExtnIDs(exts) == [i \in 1..Len(exts) |-> exts[i].extnID]

(* collections.Counter(extnIDs)[id] *)
ExtnIDCount(exts, id) == Cardinality({i \in 1..Len(exts) : ExtnIDs(exts)[i] = id})

(* Mutant: an off-by-one in the Counter test (c > 2 for c > 1). *)
has_multiple_extension_values_off_by_one(exts) ==
  \E i \in 1..Len(exts) : ExtnIDCount(exts, ExtnIDs(exts)[i]) > 2

(* _has_multiple_extension_values: some extnID occurs more than once. *)
has_multiple_extension_values(exts) ==
  \E i \in 1..Len(exts) : ExtnIDCount(exts, ExtnIDs(exts)[i]) > 1

(* _get_decoded_extension_values: every decoded value with this extnID,    *)
(* in certificate order; raises if any of them is None.                    *)
get_decoded_extension_values(exts, extn_id) ==
  LET extn_values == Filter(exts, LAMBDA e : e.extnID = extn_id)
      decoded_values == [i \in 1..Len(extn_values) |-> extn_values[i].decoded]
  IN  IF Len(extn_values) = 0 THEN Ok(<< >>)
      ELSE IF ListContains(decoded_values, None) THEN Raise("CorruptExtension")
      ELSE Ok(decoded_values)

(* _get_decoded_extension_value: the single decoded value, None if absent, *)
(* raising on corruption first and on multiplicity second.                 *)
get_decoded_extension_value(exts, extn_id) ==
  LET r == get_decoded_extension_values(exts, extn_id)
  IN  IF r.kind = "exc" THEN r
      ELSE IF Len(r.val) = 0 THEN Ok(None)
      ELSE IF Len(r.val) > 1 THEN Raise("MultipleExtensionValues")
      ELSE Ok(r.val[1])

(* Apply f to a returned value; an exception propagates unchanged. *)
Then(r, f(_)) == IF r.kind = "exc" THEN r ELSE Ok(f(r.val))

(***************************************************************************)
(* Extension accessors.                                                    *)
(***************************************************************************)
subject_alternative_names(exts) ==
  Then(get_decoded_extension_values(exts, ID_CE_SUBJECT_ALT_NAME), Flatten)

(* Mutant: the by-type lookup resolves SAN as a single-valued extension. *)
get_subject_alt_names_by_type_single(exts, san_type) ==
  Then(get_decoded_extension_value(exts, ID_CE_SUBJECT_ALT_NAME),
       LAMBDA san :
         IF san = None THEN << >>
         ELSE LET m == Filter(san, LAMBDA c : c.tag = san_type)
              IN  [j \in 1..Len(m) |-> m[j].value])

(* The values of the names of type san_type, SAN extension by extension. *)
get_subject_alt_names_by_type(exts, san_type) ==
  Then(get_decoded_extension_values(exts, ID_CE_SUBJECT_ALT_NAME),
       LAMBDA sans :
         Flatten([i \in 1..Len(sans) |->
                   LET m == Filter(sans[i], LAMBDA c : c.tag = san_type)
                   IN  [j \in 1..Len(m) |-> m[j].value]]))

subject_dns_names(exts) == get_subject_alt_names_by_type(exts, DNS_NAME)
subject_ip_addresses(exts) == get_subject_alt_names_by_type(exts, IP_ADDRESS_NAME)

(* Shared shape of "bc = ...; if bc is None: return None; return bc[k]". *)
FieldOrNone(exts, id, field) ==
  Then(get_decoded_extension_value(exts, id),
       LAMBDA v : IF v = None THEN None ELSE v[field])

basic_constraint_ca(exts) ==
  FieldOrNone(exts, ID_CE_BASIC_CONSTRAINTS, "cA")
basic_constraint_path_length(exts) ==
  FieldOrNone(exts, ID_CE_BASIC_CONSTRAINTS, "pathLenConstraint")

(* Mutant: "if not ku" for "if ku is None", so an empty bit set reads as *)
(* an absent extension.                                                   *)
key_usage_falsy(exts, ku_bit) ==
  Then(get_decoded_extension_value(exts, ID_CE_KEY_USAGE),
       LAMBDA ku : IF ku = None \/ ku = {} THEN None ELSE ku_bit \in ku)

key_usage(exts, ku_bit) ==
  Then(get_decoded_extension_value(exts, ID_CE_KEY_USAGE),
       LAMBDA ku : IF ku = None THEN None ELSE ku_bit \in ku)

key_usages(exts) ==
  Then(get_decoded_extension_value(exts, ID_CE_KEY_USAGE),
       LAMBDA ku : IF ku = None THEN {} ELSE ku)

extended_key_usage(exts, purpose) ==
  Then(get_decoded_extension_value(exts, ID_CE_EXT_KEY_USAGE),
       LAMBDA eku : IF eku = None THEN None ELSE ListContains(eku, purpose))

(* "value or []": None and an empty list both give []. *)
ListOrEmpty(exts, id) ==
  Then(get_decoded_extension_value(exts, id),
       LAMBDA v : IF v = None THEN << >> ELSE v)

extended_key_usages(exts) == ListOrEmpty(exts, ID_CE_EXT_KEY_USAGE)

subject_key_identifier(exts) ==
  get_decoded_extension_value(exts, ID_CE_SUBJECT_KEY_IDENTIFIER)

authority_key_identifier(exts, identifier_type) ==
  FieldOrNone(exts, ID_CE_AUTHORITY_KEY_IDENTIFIER, identifier_type)

policies(exts) == ListOrEmpty(exts, ID_CE_CERTIFICATE_POLICIES)

policy(exts, policy_oid) ==
  LET ps == policies(exts)
      matching == Filter(ps.val, LAMBDA p : p = policy_oid)
  IN  IF ps.kind = "exc" THEN ps
      ELSE IF Len(ps.val) = 0 THEN Ok(None)
      ELSE IF Len(matching) = 0 THEN Ok(None)
      ELSE IF Len(matching) > 1 THEN Raise("DuplicatePolicy")
      ELSE Ok(matching[1])

has_policy(exts, policy_oid) ==
  Then(policy(exts, policy_oid), LAMBDA p : p # None)

crl_distribution_points(exts) == ListOrEmpty(exts, ID_CE_CRL_DISTRIBUTION_POINTS)

(* The access locations of the AIA entries whose method is access_method. *)
AccessLocationsOf(exts, access_method) ==
  Then(get_decoded_extension_value(exts, ID_PE_AUTHORITY_INFO_ACCESS),
       LAMBDA aia :
         IF aia = None THEN << >>
         ELSE LET m == Filter(aia, LAMBDA a : a.method = access_method)
              IN  [j \in 1..Len(m) |-> m[j].location])

ca_issuers(exts) == AccessLocationsOf(exts, ID_AD_CA_ISSUERS)
ocsp_responders(exts) == AccessLocationsOf(exts, ID_AD_OCSP)

(***************************************************************************)
(* The ASN.1 decoder (ct.crypto.asn1.x509, outside src/).  Malformed DER   *)
(* fails in both modes; a strict decode also rejects a recognised          *)
(* extension whose payload does not decode.                                *)
(***************************************************************************)
DerInputs == ExtensionSeqs \cup {MalformedDer}
DecodeFails(der, strict_der) ==
  IF der = MalformedDer THEN TRUE
  ELSE strict_der /\ \E i \in 1..Len(der) : /\ der[i].extnID \in RecognizedExtIds
                                           /\ der[i].decoded = None

(***************************************************************************)
(* The state machine.                                                      *)
(***************************************************************************)
VARIABLES
  cert,   \* the Certificate object held by the caller, or None
  last    \* the last call on it: [call, arg, res], or None

vars == << cert, last >>

Record(call, arg, res) == last' = [call |-> call, arg |-> arg, res |-> res]

Init ==
  /\ cert = None
  /\ last = None

(* Mutant: the object is built even when the decoder raised. *)
Certificate_ignoring_decode_error(der, strict_der) ==
  /\ cert = None
  /\ \/ /\ strict_der /\ has_multiple_extension_values(der)
        /\ Record("Certificate", strict_der, Raise("ASN1Error"))
        /\ UNCHANGED cert
     \/ /\ ~(strict_der /\ has_multiple_extension_values(der))
        /\ cert' = [exts |-> der, strict |-> strict_der]
        /\ Record("Certificate", strict_der, Ok(None))

(* Certificate.__init__ (and from_der, its alias). *)
Certificate(der, strict_der) ==
  /\ cert = None
  /\ \/ /\ DecodeFails(der, strict_der)
        /\ Record("Certificate", strict_der, Raise("ASN1Error"))
        /\ UNCHANGED cert
     \/ /\ ~DecodeFails(der, strict_der)
        /\ strict_der /\ has_multiple_extension_values(der)
        /\ Record("Certificate", strict_der, Raise("ASN1Error"))
        /\ UNCHANGED cert
     \/ /\ ~DecodeFails(der, strict_der)
        /\ ~(strict_der /\ has_multiple_extension_values(der))
        /\ cert' = [exts |-> der, strict |-> strict_der]
        /\ Record("Certificate", strict_der, Ok(None))

(* An entry point fails before it reaches from_der (framing or I/O). *)
EarlyError(call, strict_der, e) ==
  /\ cert = None
  /\ Record(call, strict_der, Raise(e))
  /\ UNCHANGED cert

(* from_pem: PEM framing first (pem.from_pem, outside src/), which may     *)
(* raise PemError or give the DER bytes of the block; then from_der.       *)
FromPem(strict_der) ==
  \/ EarlyError("from_pem", strict_der, "PemError")
  \/ \E der \in DerInputs : Certificate(der, strict_der)

(* from_pem_file: pem.from_pem_file reads the file (IOError) and frames it *)
(* (PemError), then from_der.                                              *)
FromPemFile(strict_der) ==
  \/ \E e \in {"IOError", "PemError"} : EarlyError("from_pem_file", strict_der, e)
  \/ \E der \in DerInputs : Certificate(der, strict_der)

(* from_der_file: open and read the file (IOError), then from_der. *)
FromDerFile(strict_der) ==
  \/ EarlyError("from_der_file", strict_der, "IOError")
  \/ \E der \in DerInputs : Certificate(der, strict_der)

(* The caller drops its reference. *)
Discard ==
  /\ cert # None
  /\ cert' = None
  /\ last' = None

(* A call of an accessor: the certificate is left as it is. *)
Call(name, arg, res) ==
  /\ cert # None
  /\ Record(name, arg, res)
  /\ UNCHANGED cert

Accessor ==
  LET x == cert.exts IN
  \/ Call("subject_alternative_names", None, subject_alternative_names(x))
  \/ Call("subject_dns_names", None, subject_dns_names(x))
  \/ Call("subject_ip_addresses", None, subject_ip_addresses(x))
  \/ Call("basic_constraint_ca", None, basic_constraint_ca(x))
  \/ Call("basic_constraint_path_length", None, basic_constraint_path_length(x))
  \/ \E b \in KeyUsageBits : Call("key_usage", b, key_usage(x, b))
  \/ Call("key_usages", None, key_usages(x))
  \/ \E p \in KeyPurposes : Call("extended_key_usage", p, extended_key_usage(x, p))
  \/ Call("extended_key_usages", None, extended_key_usages(x))
  \/ Call("subject_key_identifier", None, subject_key_identifier(x))
  \/ \E t \in AkiComponents :
       Call("authority_key_identifier", t, authority_key_identifier(x, t))
  \/ Call("policies", None, policies(x))
  \/ \E p \in PolicyIds : Call("policy", p, policy(x, p))
  \/ \E p \in PolicyIds : Call("has_policy", p, has_policy(x, p))
  \/ Call("crl_distribution_points", None, crl_distribution_points(x))
  \/ Call("ca_issuers", None, ca_issuers(x))
  \/ Call("ocsp_responders", None, ocsp_responders(x))

Next ==
  \/ \E strict_der \in BOOLEAN :
       FromPem(strict_der) \/ FromPemFile(strict_der) \/ FromDerFile(strict_der)
  \/ Discard
  \/ Accessor

Spec == Init /\ [][Next]_vars

(***************************************************************************)
(* Properties.                                                             *)
(***************************************************************************)

(* The held object is a certificate built from a decoder output, and every *)
(* recorded call returned a value or raised one of the known exceptions.   *)
TypeOK ==
  /\ cert \in {None} \cup [exts : ExtensionSeqs, strict : BOOLEAN]
  /\ \/ last = None
     \/ /\ last.res.kind \in {"ret", "exc"}
        /\ last.res.kind = "exc" => last.res.val \in Exceptions

(* The design rule stated in Certificate.__init__ and in the spec's error  *)
(* model: once a certificate has been built in strict mode, no accessor    *)
(* ever raises "Multiple extension values"; the duplicate-extnID check at  *)
(* construction must cover every lookup that _get_decoded_extension_value  *)
(* makes later.                                                            *)
StrictNoAmbiguity ==
  cert # None /\ cert.strict /\ last # None =>
    last.res # Raise("MultipleExtensionValues")

(* The comment in Certificate.__init__ says more: a certificate decoded in *)
(* strict mode should never raise CertificateErrors later on.             *)
StrictNeverRaises ==
  cert # None /\ cert.strict /\ last # None => last.res.kind = "ret"

(* subject_dns_names / subject_ip_addresses filter each SAN extension and  *)
(* concatenate; they must answer exactly the names of that type in         *)
(* subject_alternative_names() (all SAN extensions flattened), in the same *)
(* order and with duplicates, or raise what it raises.                     *)
SanByTypeConsistent ==
  last # None /\ last.call \in {"subject_dns_names", "subject_ip_addresses"} =>
    LET sans == subject_alternative_names(cert.exts)
        t == IF last.call = "subject_dns_names" THEN DNS_NAME ELSE IP_ADDRESS_NAME
        m == Filter(sans.val, LAMBDA c : c.tag = t)
    IN  last.res = IF sans.kind = "exc" THEN sans
                   ELSE Ok([j \in 1..Len(m) |-> m[j].value])

(* key_usage(bit) is three-valued: None exactly when the certificate has   *)
(* no KeyUsage extension, TRUE exactly when key_usages() lists the bit,    *)
(* FALSE otherwise (an extension with no bit set is present, not absent).  *)
KeyUsageThreeState ==
  last # None /\ last.call = "key_usage" /\ last.res.kind = "ret" =>
    /\ last.res.val = None <=> ~ListContains(ExtnIDs(cert.exts), ID_CE_KEY_USAGE)
    /\ last.res.val = TRUE <=> last.arg \in key_usages(cert.exts).val

=============================================================================
