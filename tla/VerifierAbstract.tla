-------------------------- MODULE VerifierAbstract --------------------------
(***************************************************************************)
(* What the verifier pallet promises about ledger state, with the offchain *)
(* workers, the oracle and the transaction pool hidden: the chain advances,*)
(* an account's request is scheduled VerifyDelay blocks after the block    *)
(* that executes it, root adds verifier keys, and a verdict for a          *)
(* scheduled entry, under a registered key, is recorded for the submitter  *)
(* while the executing block lies within the entry's lifetime.  Nothing    *)
(* here limits how often an entry is answered.                             *)
(***************************************************************************)
EXTENDS Naturals, Sequences

CONSTANTS Accounts, RootKeys, InitRegistry, VerifyDelay, EvidenceLifetime

VARIABLES
  now,       \* the last block of the chain
  entries,   \* the scheduled <<block, account>> entries
  registry,  \* the set of verifier keys
  accepted   \* accepted[a]: the verdicts recorded for a, as <<block, key>>

avars == <<now, entries, registry, accepted>>

Tick ==
  /\ now' = now + 1
  /\ UNCHANGED <<entries, registry, accepted>>

Request(a) ==
  /\ entries' = entries \cup {<<now + 1 + VerifyDelay, a>>}
  /\ UNCHANGED <<now, registry, accepted>>

Register(k) ==
  /\ registry' = registry \cup {k}
  /\ UNCHANGED <<now, entries, accepted>>

\* The block now+1 records a verdict for <<b, a>> under key k.
Accept(b, a, k) ==
  /\ <<b, a>> \in entries
  /\ k \in registry
  /\ b <= now + 1
  /\ now + 1 <= b + EvidenceLifetime
  /\ accepted' = [accepted EXCEPT ![a] = Append(@, <<b, k>>)]
  /\ UNCHANGED <<now, entries, registry>>

Init ==
  /\ now = 0
  /\ entries = {}
  /\ registry = InitRegistry
  /\ accepted = [a \in Accounts |-> <<>>]

Next ==
  \/ Tick
  \/ \E a \in Accounts : Request(a)
  \/ \E k \in RootKeys : Register(k)
  \/ \E e \in entries, k \in registry : Accept(e[1], e[2], k)

Spec == Init /\ [][Next]_avars

=============================================================================
