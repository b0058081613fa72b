--------------------------- MODULE MCCertsFromPem ---------------------------
(* The batch reader over texts of up to four blobs, each bad PEM or one   *)
(* of four DER strings that separate the decoder's verdicts: a valid       *)
(* certificate, one whose extnID repeats (rejected only in strict mode),   *)
(* one with an undecodable recognised extension (idem), and malformed DER. *)
EXTENDS CertsFromPem

KU == [extnID |-> "keyUsage", decoded |-> {}]
KUCorrupt == [extnID |-> "keyUsage", decoded |-> None]
MCDers == {<< >>, << KU, KU >>, << KUCorrupt >>, MalformedDer}
=============================================================================
