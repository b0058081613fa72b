\* certs_from_pem / certs_from_pem_file over every text of up to four blobs,
\* in both skip modes and both DER modes, against the abstract contract.
CONSTANTS
  None = None
  MalformedDer = MalformedDer
  BadPem = BadPem
  Ders <- MCDers
  MaxBlocks = 4
SPECIFICATION FairSpec
INVARIANT TypeOK
PROPERTY AbsSpec
