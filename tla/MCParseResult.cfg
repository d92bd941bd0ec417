\* resolve_evidence against spec 4.3, on every bounded reply.
SPECIFICATION Spec
INVARIANTS
  ResolveAgreesWithSpec
