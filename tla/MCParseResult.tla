--------------------------- MODULE MCParseResult ---------------------------
(* Every oracle reply of a bounded shape, checked against the reference   *)
(* definitions of ParseResult.  The reply is fixed in the initial state.  *)
EXTENDS ParseResult

\* 'i' (U+0069), 'é' (U+00E9) and 'ũ' (U+0169, whose low byte is 0x69).
Chars == {105, 233, 361}
Keys == {"message", "status"}
MaxStringLen == 2
MaxMembers == 2

Strings == {[kind |-> "string", chars |-> s] : s \in SeqOf(Chars, MaxStringLen)}
Scalars == Strings \cup {[kind |-> "number"]}
Objects == {[kind |-> "object", members |-> m] : m \in SeqOf(Keys \X Scalars, MaxMembers)}
Bodies == Objects \cup Scalars \cup {[kind |-> "notutf8"], [kind |-> "malformed"]}

Replies ==
  [outcome : {"IoError", "DeadlineReached", "HttpError"}, code : {200}, body : {[kind |-> "malformed"]}]
  \cup [outcome : {"Response"}, code : {200, 503}, body : Bodies]

VARIABLE reply

Init == reply \in Replies
Next == UNCHANGED reply
Spec == Init /\ [][Next]_reply

(* resolve_evidence, over the request outcome, the status, the UTF-8     *)
(* check and parse_result, succeeds on exactly the replies spec 4.3 calls  *)
(* successes, and an ASCII message comes back as its own bytes.            *)
ResolveAgreesWithSpec ==
  LET res == ResolveEvidence(reply)
  IN SingleMessageField(reply.body) =>
       /\ res.ok <=> SpecSuccess(reply)
       /\ (res.ok /\ \A i \in DOMAIN SpecMessage(reply) : SpecMessage(reply)[i] < 128)
            => res.message = SpecMessage(reply)

(* Spec 4.3: the message's character sequence is kept as its raw bytes,   *)
(* so the signed payload holds the UTF-8 text the oracle sent.             *)
MessageIsRawBytes ==
  LET res == ResolveEvidence(reply)
  IN SingleMessageField(reply.body) /\ res.ok => res.message = Utf8Encode(SpecMessage(reply))
=============================================================================
