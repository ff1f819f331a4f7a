SPECIFICATION Spec
CONSTANTS
  c1 = c1
  c2 = c2
  Caches = {c1, c2}
  Specs <- MCSpecs
  Bases <- MCBases
  Requests <- MCRequests
  MaxCopies = 1
INVARIANT StoredSpecIsDownloaded
