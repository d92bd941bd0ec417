---------------------------- MODULE ParseResult ----------------------------
(***************************************************************************)
(* How resolve_evidence turns the oracle's reply into the message that the *)
(* offchain worker signs: the request outcome, the status code, the UTF-8  *)
(* check of the body, and parse_result over the body lite_json parsed.    *)
(*                                                                         *)
(* A reply is a record: `outcome` is what send/try_wait produced           *)
(* ("IoError", "DeadlineReached", "HttpError" or "Response"), `code` the   *)
(* status, `body` either [kind |-> "notutf8"] (from_utf8 fails),           *)
(* [kind |-> "malformed"] (parse_json fails) or a JSON value: a string     *)
(* [kind |-> "string", chars |-> <<code points>>], a number                *)
(* [kind |-> "number"], or an object [kind |-> "object", members |->       *)
(* <<<<key, value>>, ...>>] with its members in document order.            *)
(***************************************************************************)
EXTENDS Naturals, Sequences, FiniteSetsExt, SequencesExt

None == <<>>
Some(m) == <<m>>

Err(e) == [ok |-> FALSE, error |-> e]
Ok(m) == [ok |-> TRUE, message |-> m]

(* `*c as u8`: casting a char to u8 keeps the low eight bits of its code   *)
(* point.                                                                  *)
CharAsU8(c) == c % 256

(* obj.into_iter().find(|(k, _)| k == key): the first member with the key. *)
RECURSIVE FindMember(_, _)
FindMember(members, key) ==
  IF members = <<>> THEN None
  ELSE IF Head(members)[1] = key THEN Some(Head(members))
  ELSE FindMember(Tail(members), key)

(* parse_result: the body must parse to an object whose first "message"    *)
(* member holds a string; its chars become bytes one by one.               *)
ParseResult(text) ==
  IF text.kind # "object" THEN None
  ELSE LET m == FindMember(text.members, "message")
       IN IF m = None \/ m[1][2].kind # "string" THEN None
          ELSE Some([i \in DOMAIN m[1][2].chars |-> CharAsU8(m[1][2].chars[i])])

\* Mutant: the status code left unchecked.
ResolveEvidenceAnyStatus(r) ==
  IF r.outcome # "Response" THEN Err(r.outcome)
  ELSE IF \/ r.body.kind = "notutf8"
          \/ ParseResult(r.body) = None
       THEN Err("Unknown")
       ELSE Ok(ParseResult(r.body)[1])

(* resolve_evidence after the request was sent: a failed send, a missed    *)
(* deadline or a transport error is returned as is; a status other than    *)
(* 200, a body that is not UTF-8 or that parse_result rejects is Unknown.  *)
ResolveEvidence(r) ==
  IF r.outcome # "Response" THEN Err(r.outcome)
  ELSE IF \/ r.code # 200
          \/ r.body.kind = "notutf8"
          \/ ParseResult(r.body) = None
       THEN Err("Unknown")
       ELSE Ok(ParseResult(r.body)[1])

-----------------------------------------------------------------------------
(* Reference definitions, written from spec 4.3 rather than from the code. *)

\* The indices of the body's top-level members named "message".
MessageMembers(b) ==
  IF b.kind = "object" THEN {i \in DOMAIN b.members : b.members[i][1] = "message"} ELSE {}

\* The body names "message" at most once: the field is single, as 4.3 has it.
SingleMessageField(b) == Cardinality(MessageMembers(b)) <= 1

\* A success of 4.3 step 3: a response in time, status 200, a UTF-8 body
\* that is a JSON object with a top-level string field "message".
SpecSuccess(r) ==
  /\ r.outcome = "Response"
  /\ r.code = 200
  /\ \E i \in MessageMembers(r.body) : r.body.members[i][2].kind = "string"

\* The character sequence of that field.
SpecMessage(r) ==
  LET i == CHOOSE i \in MessageMembers(r.body) : r.body.members[i][2].kind = "string"
  IN r.body.members[i][2].chars

\* The UTF-8 encoding of a code point of the Basic Multilingual Plane.
Utf8(c) ==
  IF c < 128 THEN <<c>>
  ELSE IF c < 2048 THEN <<192 + (c \div 64), 128 + (c % 64)>>
  ELSE <<224 + (c \div 4096), 128 + ((c \div 64) % 64), 128 + (c % 64)>>

Utf8Encode(chars) == FlattenSeq([i \in DOMAIN chars |-> Utf8(chars[i])])

=============================================================================
