------------------------------ MODULE Verifier ------------------------------
(***************************************************************************)
(* The deferred-verification pipeline of pallets/verifier/src/lib.rs.      *)
(*                                                                         *)
(* On chain: the WaitingQueue, PublicKeys and VerificationResults storage  *)
(* items, the calls request_verification, register_new_pubkey and          *)
(* submit_result_unsigned_with_signed_payload, and ValidateUnsigned.       *)
(* Off chain: the offchain worker each validator runs after importing a    *)
(* block, which resolves the evidence scheduled at that block against the  *)
(* oracle and sends a signed unsigned transaction.  Between the two sits   *)
(* the transaction pool, which admits a result transaction only if         *)
(* validate_unsigned accepts it and no transaction with the same           *)
(* `provides` tag (the account) is already waiting.                        *)
(*                                                                         *)
(* Data is abstracted: evidence and the oracle's message are left out (no  *)
(* property tells them apart); a signature is a flag saying whether the    *)
(* holder of `public` produced it.                                         *)
(***************************************************************************)
EXTENDS Naturals, FiniteSets, SequencesExt, ParseResult

CONSTANTS
  Accounts,         \* accounts that call request_verification
  Validators,       \* nodes on which sp_io::offchain::is_validator() holds
  NoKey,            \* the keystore of a validator holds no "teee" key
  LocalKey,         \* LocalKey[v]: the key Signer::any_account() finds on v
  RootKeys,         \* keys root may pass to register_new_pubkey
  AttackerKeys,     \* keys of a peer that gossips forged result transactions
  InitKeys,         \* PublicKeys in the initial state
  VerifyDelay,      \* T::VerifyDelay
  EvidenceLifetime, \* T::EvidenceLifetime
  OracleReplies,    \* replies the oracle may give (see ParseResult)
  MaxHeight,        \* bound: the last block the model produces
  MaxKeys,          \* bound: the length of PublicKeys
  MaxRequests,      \* bound: the number of WaitingQueue entries
  MaxReorgs         \* bound: re-runs of a worker after re-orgs (0: none)

Keys == (RootKeys \cup AttackerKeys \cup {LocalKey[v] : v \in Validators}) \ {NoKey}

ASSUME /\ VerifyDelay \in Nat /\ EvidenceLifetime \in Nat
       /\ MaxHeight \in Nat \ {0}
       /\ NoKey \notin RootKeys \cup AttackerKeys
       /\ RootKeys \cap AttackerKeys = {}
       /\ InitKeys \in Seq(RootKeys)
       /\ MaxReorgs \in Nat

\* Block numbers a WaitingQueue entry can be scheduled at.
Heights == 1..(MaxHeight + VerifyDelay)

\* A result transaction: RegisterPayload plus whether its signature was made
\* by the holder of payload.public.
Tx == [block : Heights, who : Accounts, public : Keys, sig : BOOLEAN]

\* An element of VerificationResults; `at`, the block that accepted it, is a
\* history field that the storage does not keep.
Report == [block : Heights, who : Accounts, public : Keys, at : 1..MaxHeight]

VARIABLES
  height,   \* number of the best block; extrinsics execute in block height+1
  queue,    \* keys <<block_number, who>> of the WaitingQueue double map
  keys,     \* PublicKeys, a list of public keys
  results,  \* VerificationResults: account -> list of accepted payloads
  pool,     \* result transactions in the transaction pool
  included, \* the pool transactions the author put in block height+1
  last,     \* last[v]: the last block whose offchain worker started on v
  jobs,     \* jobs[v]: queue entries v's offchain workers have yet to resolve
  reorgs    \* the number of worker re-runs so far (bounded by MaxReorgs)

vars == <<height, queue, keys, results, pool, included, last, jobs, reorgs>>

-----------------------------------------------------------------------------
(* Mutants: plausible slips in the code, each checked to be caught.        *)

\* The schedule computed from the block after the executing one.
RequestVerificationLate(a) ==
  /\ height < MaxHeight
  /\ queue' = queue \cup {<<height + 2 + VerifyDelay, a>>}
  /\ Cardinality(queue') <= MaxRequests
  /\ UNCHANGED <<height, keys, results, pool, included, last, jobs, reorgs>>

\* register_new_pubkey storing only the new key (put instead of push).
RegisterNewPubkeyOverwrite(k) ==
  /\ height < MaxHeight
  /\ Len(keys) < MaxKeys
  /\ keys' = <<k>>
  /\ UNCHANGED <<height, queue, results, pool, included, last, jobs, reorgs>>

\* The worker run for the block being built rather than the imported one.
OffchainWorkerEarly(v, b) ==
  /\ last[v] < b
  /\ b <= height + 1
  /\ last' = [last EXCEPT ![v] = b]
  /\ jobs' = [jobs EXCEPT ![v] = @ \cup {e \in queue : e[1] = b}]
  /\ UNCHANGED <<height, queue, keys, results, pool, included, reorgs>>

\* The InvalidPublic check left out.
SubmitResultUnsignedWithSignedPayloadAnyKey(tx) ==
  \/ /\ tx.sig
     /\ results' = [results EXCEPT ![tx.who] = Append(@,
                     [block |-> tx.block, who |-> tx.who,
                      public |-> tx.public, at |-> height + 1])]
  \/ /\ ~tx.sig
     /\ UNCHANGED results

-----------------------------------------------------------------------------
(* validate_transaction_parameters: the queue entry exists (else Stale),   *)
(* it is not from the future (else Future), and the block executing the    *)
(* transaction is within EvidenceLifetime of it (else OutdatedRequest).    *)
ValidateTransactionParameters(b, who, current) ==
  /\ <<b, who>> \in queue
  /\ b <= current
  /\ current <= b + EvidenceLifetime

(* validate_unsigned for submit_result_unsigned_with_signed_payload; it is *)
(* also what pre_dispatch runs when a block includes the transaction.      *)
ValidateUnsigned(tx, current) ==
  /\ tx.sig
  /\ ValidateTransactionParameters(tx.block, tx.who, current)

(* Pool import of a result transaction: validate_transaction runs in the   *)
(* block after the best one; the transaction provides the tag `who` at     *)
(* UnsignedPriority, so it is rejected while another one with that tag     *)
(* waits (equal priority never replaces).                                  *)
PoolImport(tx) ==
  IF ValidateUnsigned(tx, height + 1) /\ \A t \in pool : t.who # tx.who
  THEN pool' = pool \cup {tx}
  ELSE UNCHANGED pool

-----------------------------------------------------------------------------
(* request_verification, executed in block height+1.                       *)
RequestVerification(a) ==
  /\ height < MaxHeight
  /\ queue' = queue \cup {<<height + 1 + VerifyDelay, a>>}
  /\ Cardinality(queue') <= MaxRequests
  /\ UNCHANGED <<height, keys, results, pool, included, last, jobs, reorgs>>

(* register_new_pubkey by root: appends, duplicates included.              *)
RegisterNewPubkey(k) ==
  /\ height < MaxHeight
  /\ Len(keys) < MaxKeys
  /\ keys' = Append(keys, k)
  /\ UNCHANGED <<height, queue, results, pool, included, last, jobs, reorgs>>

(* The dispatch of submit_result_unsigned_with_signed_payload: the public  *)
(* key must be in PublicKeys (else InvalidPublic) and the signature valid  *)
(* (else InvalidSignature); the payload is pushed to the submitter's       *)
(* results.  The WaitingQueue entry is left in place.                      *)
SubmitResultUnsignedWithSignedPayload(tx) ==
  \/ /\ Contains(keys, tx.public)
     /\ tx.sig
     /\ results' = [results EXCEPT ![tx.who] = Append(@,
                     [block |-> tx.block, who |-> tx.who,
                      public |-> tx.public, at |-> height + 1])]
  \/ /\ ~Contains(keys, tx.public) \/ ~tx.sig
     /\ UNCHANGED results

\* A block that includes a pooled transaction without pre_dispatch's
\* re-validation, trusting the check made when the pool admitted it.
ApplyResultNoRecheck(tx) ==
  /\ height < MaxHeight
  /\ tx \in pool \ included
  /\ included' = included \cup {tx}
  /\ SubmitResultUnsignedWithSignedPayload(tx)
  /\ UNCHANGED <<height, queue, keys, pool, last, jobs, reorgs>>

(* The block author puts a pool transaction into block height+1:          *)
(* pre_dispatch (frame_support's default, which runs validate_unsigned)    *)
(* must pass in that block, however long ago the pool admitted it; the     *)
(* call is then dispatched, failing or not.  The transaction stays in the  *)
(* pool until the block is imported.                                       *)
ApplyResult(tx) ==
  /\ height < MaxHeight
  /\ tx \in pool \ included
  /\ ValidateUnsigned(tx, height + 1)
  /\ included' = included \cup {tx}
  /\ SubmitResultUnsignedWithSignedPayload(tx)
  /\ UNCHANGED <<height, queue, keys, pool, last, jobs, reorgs>>

(* Block height+1 is sealed and imported with whatever the author put in   *)
(* it, possibly nothing; the pool prunes the included transactions on      *)
(* import and keeps the rest.                                              *)
ProduceBlock ==
  /\ height < MaxHeight
  /\ height' = height + 1
  /\ pool' = pool \ included
  /\ included' = {}
  /\ UNCHANGED <<queue, keys, results, last, jobs, reorgs>>

(* The pool's revalidation, which runs some time after a block import,     *)
(* calls validate_unsigned again and drops a transaction it now rejects    *)
(* (OutdatedRequest once its entry's lifetime is over).  Until then the    *)
(* stale transaction keeps the `provides` tag of its account.              *)
DropInvalid(tx) ==
  /\ tx \in pool \ included
  /\ ~ValidateUnsigned(tx, height + 1)
  /\ pool' = pool \ {tx}
  /\ UNCHANGED <<height, queue, keys, results, included, last, jobs, reorgs>>

(* offchain_worker(b) on validator v: it runs for an imported block b      *)
(* later than the last it ran for (blocks may be skipped) and takes every  *)
(* WaitingQueue entry scheduled exactly at b (iter_prefix_values).         *)
OffchainWorker(v, b) ==
  /\ last[v] < b
  /\ b <= height
  /\ last' = [last EXCEPT ![v] = b]
  /\ jobs' = [jobs EXCEPT ![v] = @ \cup {e \in queue : e[1] = b}]
  /\ UNCHANGED <<height, queue, keys, results, pool, included, reorgs>>

(* offchain_worker(b) on v again for the block it last ran for: after a    *)
(* re-org the new best block has the same number, and the worker takes the *)
(* entries scheduled at it once more.                                      *)
OffchainWorkerRerun(v) ==
  /\ reorgs < MaxReorgs
  /\ 0 < last[v]
  /\ last[v] <= height
  /\ jobs' = [jobs EXCEPT ![v] = @ \cup {e \in queue : e[1] = last[v]}]
  /\ reorgs' = reorgs + 1
  /\ UNCHANGED <<height, queue, keys, results, pool, included, last>>

(* resolve_evidence returns an error for the oracle's reply (I/O error,    *)
(* deadline, status, UTF-8 or parse_result): the `?` in                    *)
(* resolve_evidence_and_send_unsigned_for_any_account returns it, the      *)
(* worker logs it, and the entry is not tried again.                       *)
ResolveEvidenceFailed(v, j) ==
  /\ j \in jobs[v]
  /\ \E r \in OracleReplies : ~ResolveEvidence(r).ok
  /\ jobs' = [jobs EXCEPT ![v] = @ \ {j}]
  /\ UNCHANGED <<height, queue, keys, results, pool, included, last, reorgs>>

(* resolve_evidence returns a message: the payload for <<b, who>> is       *)
(* signed with the key any_account() finds and sent to the pool; with no   *)
(* local key nothing is sent ("No local accounts available").              *)
ResolveEvidenceAndSend(v, j) ==
  /\ j \in jobs[v]
  /\ \E r \in OracleReplies : ResolveEvidence(r).ok
  /\ jobs' = [jobs EXCEPT ![v] = @ \ {j}]
  /\ \/ /\ LocalKey[v] = NoKey
        /\ UNCHANGED pool
     \/ /\ LocalKey[v] # NoKey
        /\ PoolImport([block |-> j[1], who |-> j[2],
                       public |-> LocalKey[v], sig |-> TRUE])
  /\ UNCHANGED <<height, queue, keys, results, included, last, reorgs>>

(* A peer gossips a result transaction it made up: signed with its own key *)
(* the signature is valid, claimed under another key it is not.            *)
Forge(b, a, k) ==
  /\ PoolImport([block |-> b, who |-> a, public |-> k, sig |-> k \in AttackerKeys])
  /\ UNCHANGED <<height, queue, keys, results, included, last, jobs, reorgs>>

-----------------------------------------------------------------------------
Init ==
  /\ height = 0
  /\ queue = {}
  /\ keys = InitKeys
  /\ results = [a \in Accounts |-> <<>>]
  /\ pool = {}
  /\ included = {}
  /\ last = [v \in Validators |-> 0]
  /\ jobs = [v \in Validators |-> {}]
  /\ reorgs = 0

(* The model stops producing blocks at MaxHeight; the chain does not.      *)
ChainBound ==
  /\ height = MaxHeight
  /\ UNCHANGED vars

Next ==
  \/ \E a \in Accounts : RequestVerification(a)
  \/ \E k \in RootKeys : RegisterNewPubkey(k)
  \/ \E tx \in pool : ApplyResult(tx)
  \/ \E tx \in pool : DropInvalid(tx)
  \/ ProduceBlock
  \/ \E v \in Validators, b \in 1..MaxHeight : OffchainWorker(v, b)
  \/ \E v \in Validators : OffchainWorkerRerun(v)
  \/ \E v \in Validators, j \in Heights \X Accounts :
        ResolveEvidenceFailed(v, j) \/ ResolveEvidenceAndSend(v, j)
  \/ \E b \in Heights, a \in Accounts, k \in Keys : Forge(b, a, k)
  \/ ChainBound

(* Blocks keep coming; a pool transaction that stays valid is put in a    *)
(* block eventually, and revalidation eventually drops one that is not;    *)
(* every validator's offchain worker keeps running and finishes its jobs;  *)
(* the oracle answers a request it is asked again and again.  Users, root  *)
(* and the forging peer are under no obligation.                           *)
Fairness ==
  /\ WF_vars(ProduceBlock)
  /\ \A tx \in Tx : WF_vars(ApplyResult(tx)) /\ WF_vars(DropInvalid(tx))
  /\ \A v \in Validators :
       /\ WF_vars(\E b \in 1..MaxHeight : OffchainWorker(v, b))
       /\ \A j \in Heights \X Accounts :
            /\ WF_vars(ResolveEvidenceFailed(v, j) \/ ResolveEvidenceAndSend(v, j))
            /\ SF_vars(ResolveEvidenceAndSend(v, j))

Spec == Init /\ [][Next]_vars

FairSpec == Spec /\ Fairness

-----------------------------------------------------------------------------
TypeOK ==
  /\ height \in 0..MaxHeight
  /\ queue \subseteq Heights \X Accounts
  /\ keys \in BoundedSeq(RootKeys, MaxKeys)
  /\ results \in [Accounts -> Seq(Report)]
  /\ pool \subseteq Tx
  /\ included \subseteq pool
  /\ last \in [Validators -> 0..MaxHeight]
  /\ jobs \in [Validators -> SUBSET (Heights \X Accounts)]
  /\ reorgs \in 0..MaxReorgs

\* The results accepted so far for the entry <<b, a>>.
AcceptedFor(b, a) == {i \in DOMAIN results[a] : results[a][i].block = b}

(* Every accepted result was signed under a key root registered in         *)
(* PublicKeys, however the offchain workers, the pool and forging peers    *)
(* interleave (submit_result_unsigned_with_signed_payload's InvalidPublic  *)
(* check is the only registry check on the path).                          *)
AcceptedOnlyFromRegisteredKeys ==
  \A a \in Accounts : \A r \in ToSet(results[a]) : Contains(keys, r.public)

(* Every accepted result answers an existing WaitingQueue entry and was    *)
(* accepted in a block between the entry's block and EvidenceLifetime     *)
(* blocks later, even when the offchain worker answers late, a re-run      *)
(* re-sends it, or it waits in the pool for blocks after the pool admitted *)
(* it: only pre_dispatch's re-run of validate_unsigned in the including    *)
(* block stands between an admitted transaction and a late acceptance.     *)
AcceptedWithinLifetime ==
  \A a \in Accounts : \A r \in ToSet(results[a]) :
    /\ <<r.block, a>> \in queue
    /\ r.block <= r.at
    /\ r.at <= r.block + EvidenceLifetime

(* No result is accepted in the block its entry is scheduled at, although  *)
(* validate_transaction_parameters' window starts there: the entry at b is *)
(* read only by offchain_worker(b), which runs once block b is imported,   *)
(* so its answer is validated for block b+1 at the earliest.  The window   *)
(* is EvidenceLifetime blocks, not EvidenceLifetime+1, and with            *)
(* EvidenceLifetime = 0 no entry can be answered.                          *)
AcceptedAfterScheduledBlock ==
  \A a \in Accounts : \A r \in ToSet(results[a]) : r.block < r.at

(* Spec 8: a result is accepted at most once per <<scheduledHeight,        *)
(* submitter>>, however many validators raced to submit one.               *)
AtMostOnce ==
  \A a \in Accounts, b \in Heights : Cardinality(AcceptedFor(b, a)) <= 1

Abstract == INSTANCE VerifierAbstract
              WITH now <- height,
                   entries <- queue,
                   registry <- ToSet(keys),
                   InitRegistry <- ToSet(InitKeys),
                   accepted <- [a \in Accounts |->
                                 [i \in DOMAIN results[a] |->
                                    <<results[a][i].block, results[a][i].public>>]]
AbstractSpec == Abstract!Spec

=============================================================================
