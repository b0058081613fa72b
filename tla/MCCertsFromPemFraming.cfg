\* Spec 4.4 says skipInvalid does not suppress framing errors; the reader
\* passes skip_invalid_blobs to the framer, which then skips bad blobs.
CONSTANTS
  None = None
  MalformedDer = MalformedDer
  BadPem = BadPem
  Ders <- MCDers
  MaxBlocks = 4
SPECIFICATION Spec
INVARIANT FramingErrorsPropagate
