\* Spec 4.3: the stored message is the raw bytes of the oracle's text.
SPECIFICATION Spec
INVARIANT MessageIsRawBytes
