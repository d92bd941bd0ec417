# TLA+ models of the verifier pallet

This directory models the deferred-verification pipeline of
`src/pallets/verifier/src/lib.rs`, a Substrate pallet. An account asks for
its evidence to be verified. Each validator's offchain worker asks an
external oracle about it and sends the result back as a signed, fee-less
unsigned transaction. The pallet then decides whether to accept that
result into ledger state.

## 1. Inventory

### Components and their state

| Component | Code | State |
|---|---|---|
| Evidence queue | `request_verification` (lib.rs 197-206), storage `WaitingQueue` (158) | double map `(block_number, who) -> (who, evidence)` |
| Public key registry | `register_new_pubkey` (229-243), storage `PublicKeys` (160) | list of public keys, append-only, duplicates allowed |
| Verification worker | `offchain_worker` (255-279), `resolve_evidence_and_send_unsigned_for_any_account` (289-310), `resolve_evidence` (313-371), `parse_result` (376-394) | none on chain; per node: which blocks it has run for and the HTTP requests in flight |
| Admission controller | `validate_unsigned` (463-479), `validate_transaction_parameters` (396-438), `submit_result_unsigned_with_signed_payload` (209-227) | storage `VerificationResults` (159): account -> list of accepted `RegisterPayload` |
| Transaction pool, block author (Substrate, not in this repository) | used through `ValidTransaction` (412-437) | waiting transactions, keyed by their `provides` tag |
| `OvlVerifier` runtime interface | `api.rs` | none. It loads a library and returns `true`; nothing calls it |
| Chain spec / genesis | `node/src/chain_spec.rs` | configuration only. No verifier genesis, so `PublicKeys` starts empty |

### How they interact

1. A signed `request_verification` executes in block `n`. It writes
   `WaitingQueue[n + VerifyDelay][who]`.
2. After importing block `b`, every validator runs `offchain_worker(b)`.
   It reads the entries with prefix `b`. For each one it POSTs the evidence
   to the oracle (30 s deadline), parses `{"message": ...}`, signs a
   `RegisterPayload {b, message, who, public}` with any local `teee` key and
   sends it as an unsigned transaction. Any error is logged and the entry is
   dropped by that worker.
3. The pool runs `validate_unsigned` in the context of the block after the
   best one. The checks are: signature (`BadProof`), entry exists (`Stale`),
   `b <= current` (`Future`) and `current <= b + EvidenceLifetime`
   (`OutdatedRequest`). The transaction `provides` the tag `who` at
   `UnsignedPriority`, so a second one for the same account is refused while
   the first waits.
4. The block author includes the transaction. `pre_dispatch` re-runs
   `validate_unsigned`. The dispatch then checks `public ∈ PublicKeys`
   (`InvalidPublic`) and the signature (`InvalidSignature`), and pushes the
   payload to `VerificationResults[who]`. The queue entry is never removed.
5. Root appends keys with `register_new_pubkey`.

### What is hard here

- Concurrency: every validator's worker answers every entry independently.
  Workers on one node run per imported block and may overlap. A worker may
  skip blocks or, after a re-org, run twice (comment at 251-253). HTTP
  calls take up to 30 s, so answers arrive blocks later.
- Failure: oracle errors, a missing local key, and pool rejection all lose
  the attempt, and nothing retries it.
- Ordering: the checks run twice, at pool admission and at inclusion. The
  registry is checked only at inclusion.
- Adversaries: anyone can gossip a self-signed result. It passes the pool
  and takes the account's only pool slot.

### Properties that make each component correct

- Queue: a request made in block `n` is scheduled at `n + VerifyDelay`.
- Registry: the registry only grows, and results are accepted only under
  registered keys.
- Admission: a result is accepted only for an existing entry, within its
  lifetime, under a registered key, and at most once per entry (spec §8).
- Pool plus admission: a result that waited in the pool is accepted only
  if it is still within its lifetime in the block that includes it.
- Worker plus admission: every entry is eventually answered while it is
  live (spec §4.3: retried until expiry).
- Parsing: the message is the oracle's `message` string as raw bytes
  (spec §4.3).

The hazards, each at its line, are listed in `PROJECT.json`.

## 2. Modules

- `Verifier.tla` is the detailed model of the pipeline, with pool and
  workers. Variables: `height` (best block; extrinsics execute in block
  `height+1`), `queue` (the keys of `WaitingQueue`), `keys` (`PublicKeys`),
  `results` (`VerificationResults`, each element with a history field `at`
  for the block that accepted it), `pool`, `included` (the pool
  transactions in the block being built), `last[v]` and `jobs[v]` (each
  validator's worker). Actions, one per code path:
  - `RequestVerification` is `request_verification`.
  - `RegisterNewPubkey` is `register_new_pubkey`.
  - `OffchainWorker(v, b)` is `offchain_worker(b)`: it takes every entry
    with prefix `b`, for any `b` after the last block it ran for.
  - `OffchainWorkerRerun(v)` is `offchain_worker` running again for the
    block number it last ran for, after a re-org (comment at 251-253). It
    is bounded by `MaxReorgs` through the counter `reorgs`.
  - `ResolveEvidenceFailed` / `ResolveEvidenceAndSend` are the two outcomes
    of `resolve_evidence_and_send_unsigned_for_any_account` for one entry.
    Each is chosen by a reply `r` in the constant `OracleReplies` for which
    `ResolveEvidence(r)` (from `ParseResult`) is an error or a message. The
    second covers the missing key and `PoolImport`.
  - `ApplyResult` is the author putting a pool transaction into block
    `height+1`: `pre_dispatch` (frame_support's default, which calls
    `validate_unsigned`, 463-479) must pass in that block, and then
    `submit_result_unsigned_with_signed_payload` runs. The transaction stays
    in the pool until the block is imported.
  - `ProduceBlock` seals and imports the block with whatever was included,
    possibly nothing, and prunes the included transactions from the pool.
    Other transactions stay, so a transaction can wait several blocks.
  - `DropInvalid` is the pool's revalidation (announced at 426-428). It
    drops a transaction that `validate_unsigned` now rejects. Until it runs,
    the stale transaction holds its account's `provides` tag.
  - `Forge` is a peer gossiping a made-up result.

  Evidence and messages are abstracted away. A signature is a flag: valid
  exactly when the key's holder made it.
- `VerifierAbstract.tla` is what the pallet promises about ledger state,
  with workers, oracle and pool hidden: ticks, requests, registrations, and
  acceptance of a verdict for a live entry under a registered key. Its
  registry is a set, and a verdict is the pair `<<block, key>>`. `Verifier`
  instantiates it `WITH` a refinement mapping (`AbstractSpec`):
  - `now <- height` and `entries <- queue`;
  - `registry <- ToSet(keys)`, so duplicates and order in `PublicKeys` are
    hidden;
  - `accepted[a]` is `results[a]` with each payload reduced to its block and
    key; the history field `at` is dropped.
- `ParseResult.tla` is `resolve_evidence` after the HTTP request was sent,
  and `parse_result`, as pure operators. A reply is a record with the
  transport outcome, the status code, and a body: not UTF-8, malformed, or
  a JSON value (objects are sequences of members in document order).
  - `FindMember` is `find` on the object's members (RECURSIVE).
  - `CharAsU8(c) == c % 256` is `*c as u8`.
  - `ResolveEvidence` is the chain of early returns in `resolve_evidence`.
  - Reference definitions written from spec 4.3 alone, independent of
    `find` and of `as u8`: `SpecSuccess` (a 200 whose body is an object with
    a string field `message`), `SpecMessage` (its characters), and
    `Utf8Encode`.
- `MCParseResult.tla` enumerates every reply over a small alphabet (`i`,
  `é`, `ũ`): up to two members with keys `message`/`status`, string values
  of up to two chars, and codes 200/503. A constant `reply` variable makes
  TLC check the operators on each reply as an initial state.
- `ChainSpec.tla` is `node/src/chain_spec.rs`: `testnet_genesis` and the
  development, mainnet staging and local testnet configurations, as record
  values. A key derived from a seed is its scheme plus the path `//seed`,
  so an authority's sr25519 Aura key is its account, as in the code. A hex
  key is its bytes. The runtime's `GenesisConfig` has no verifier entry,
  so `PublicKeys` starts empty.
- `MCVerifier.tla` gives the constants for TLC:
  - as validators, the authorities of the local testnet (Alice and Bob,
    with keys `k1, k2`, or Bob keyless), or of the development chain (Alice
    alone), taken from `ChainSpec`;
  - attacker key `kx`;
  - genesis or post-registration `PublicKeys`;
  - four oracle replies: a missed deadline, a 503, a 200 without
    `message`, and a 200 with a message.

## 3. Runs

| Run | cfg | Expect | What it shows |
|---|---|---|---|
| safety | `MCVerifier.cfg` | pass | From genesis, with two racing validators, one worker re-run after a re-org (`MaxReorgs = 1`), root registering at any time, a forging peer, and a pool that keeps transactions across blocks. Every accepted result is under a registered key (`AcceptedOnlyFromRegisteredKeys`). Every accepted result answers an existing entry in a block within `[b, b + EvidenceLifetime]`, however long it waited in the pool (`AcceptedWithinLifetime`). Only `pre_dispatch`'s re-check at inclusion ensures this; the mutant that trusts the pool's admission check breaks it. No result is accepted in its entry's own block `b` (`AcceptedAfterScheduledBlock`): the worker for `b` runs only after `b` is imported, so the usable window is one block shorter than the check. |
| refines | `MCVerifier_refines.cfg` | pass | Under the refinement mapping, the pipeline implements `VerifierAbstract` (one validator without a key). |
| parse_result | `MCParseResult.cfg` | pass | On each of 1,661 replies that name `message` at most once, `resolve_evidence` succeeds exactly on the replies spec 4.3 calls successes: a 200 whose body is an object with a string field `message`. An ASCII message comes back as its own bytes (`ResolveAgreesWithSpec`). |
| at_most_once | `MCVerifier_once.cfg` | violation | Spec §8's at-most-once fails. Alice answers entry `<<2,a1>>` and it is included in block 3, which prunes it from the pool. Bob's worker for block 2 runs late, and his answer passes validation, because the entry is still there. It is accepted again in block 4. |
| rerun_duplicate | `MCVerifier_rerun.cfg` | violation | At-most-once fails even with one validator. The first answer is included in block 3. The worker then re-runs block 2 after a re-org and re-sends the answer, which is accepted again in block 4. The comment at 251-253 says the code should handle re-runs; it keeps no record of what it sent. |
| no_retry | `MCVerifier_retry.cfg` | violation | Spec §4.3's retry fails. Blocks, workers, inclusion and revalidation are fair, and the oracle answers a request asked repeatedly; Bob has no local key. Still, an entry whose one attempt per validator is lost (here, both workers skip its block) is never answered. |
| message_bytes | `MCParseResult_bytes.cfg` | violation | Spec §4.3 says the message is the raw byte payload. `as u8` keeps only the low byte of each char: `é` becomes `0xE9`, not `C3 A9`, and `ũ` becomes `0x69`, the byte of `i` (`MessageIsRawBytes`). |

Bounds: `VerifyDelay = 1` and `EvidenceLifetime = 2`, so an entry has a
window of three blocks. With `MaxHeight = 5`, an entry scheduled at 2 can be
answered at 3 or 4. A transaction admitted for block 4 can still be left in
the pool and offered again at block 5, the first block past its lifetime,
which is the case `pre_dispatch` must catch. Two accounts and
`MaxRequests = 2` allow two entries of one account, or one each. Two
validators are the least that races. One key per actor. One re-run
(`MaxReorgs = 1`) is enough for a worker to answer an entry twice; the
bound keeps `results` finite. The safety run reaches about 1.6 million
states in about 2 minutes. The refines run reaches about 300,000 states in
about 1 minute. The `Accounts` symmetry is used only in those two runs.
`MCParseResult` covers every reply up to two members and two-char strings.
That bound includes chars below U+0080, between U+0080 and U+00FF, and above
U+00FF.

`no_retry` uses one account, `MaxHeight = 4` and no symmetry (symmetry is
unsound for liveness).

Fairness (`FairSpec`, for `no_retry`):
- Blocks keep being produced.
- A pool transaction that stays valid is eventually included (weak
  fairness on `ApplyResult`). It may still expire before that, because
  block production can always come first.
- Revalidation eventually drops a transaction that became invalid.
- Each worker keeps running for the next blocks and finishes its jobs.
- The oracle eventually answers a request that is repeated (strong
  fairness on `ResolveEvidenceAndSend`).

Users, root, the forging peer and re-orgs (`OffchainWorkerRerun`) have no
fairness. The model stops at `MaxHeight` (`ChainBound` stutters). The
liveness property only speaks of entries whose lifetime ends by
`MaxHeight`.

## 4. Not modelled, and why

- The HTTP transport is reduced to its outcome (`IoError`,
  `DeadlineReached`, `HttpError` or a response). lite_json's parser is
  reduced to "malformed" or the JSON value it yields.
- The message is not carried into the payload in `Verifier`: no ledger
  property tells messages apart, and `ParseResult` checks the conversion.
- Evidence contents, event emission and logging are not modelled. A
  second request of one account in one block overwrites the first's
  evidence. Spec §4.1 makes that last-write-wins intended, and the model
  sees it as a no-op.
- Re-orgs are modelled only as the worker re-running for its last block
  number. The fork's ledger state is not rolled back.
- The pool is a single global pool with instantaneous gossip. The
  10-block longevity is left out: in the bounds used, `EvidenceLifetime`
  invalidates a transaction first. Banning of included hashes is also left
  out. The pool and the block author are Substrate code, not in this
  repository. The pallet relies on them through `validate_unsigned` at
  `best + 1`, the `provides` tag, `pre_dispatch` at inclusion, pruning on
  import, and revalidation. `PoolImport`, `ApplyResult`, `ProduceBlock` and
  `DropInvalid` keep these. Separate pools for each node, with gossip delay,
  would need a pool and a best block per validator, which is beyond the
  state budget.
- Overlapping workers are not modelled. A worker that runs while an earlier
  one is still waiting on its 30 s deadlines is modelled only through
  `jobs[v]`, which accumulates the entries of every run of `v`.
- Events (`RequestVerification`) and the error enums (`Error`,
  `ValidityError` and its `u8` code) are not modelled. No state the pallet
  reads depends on them; an error is modelled as the step leaving ledger
  state unchanged.
- `api.rs` (`OvlVerifier::verify`) loads a library and returns `true`;
  nothing calls it.
- In `chain_spec.rs`, `mainnet_config` loads `res/mainnet.json`, which is
  not among the sources. The WASM binary is also left out, and so is the
  balance `1 << 60`: it is beyond TLC's integers, and no property compares
  balances. Nothing in the chain spec changes state after genesis.

## 5. Plan

Done:
- Sitting 1: `Verifier`, `VerifierAbstract`, `MCVerifier`, and the runs
  safety, refines, at_most_once and no_retry.
- Sitting 2:
  - `ParseResult` composed into the worker, with the runs parse_result and
    message_bytes.
  - Worker re-runs after re-orgs, with the runs reorg and rerun_duplicate.
  - A keyless validator in no_retry.
  - The refinement mapping `WITH` into a set-valued registry and
    `<<block, key>>` verdicts.

- Sitting 3:
  - `ChainSpec`, whose authorities are the validators of `MCVerifier`.
  - The liveness run inclusion (`PooledResultAccepted`).
- Sitting 4:
  - `AcceptedAfterScheduledBlock` (the lifetime window's first block is
    unusable).
  - The edge_delay run.
  - Hazards at 410 (window edge) and 318 (sequential 30 s deadlines).

- Review round:
  - The pool keeps transactions across blocks, with pruning on import and
    revalidation. `pre_dispatch`'s re-check is now exercised and mutated.
  - The re-run is folded into the safety run.
  - The runs reorg, edge_delay and inclusion are dropped. Their properties
    repeated safety's, or held only because the pool was drained each
    block.
  - The parse reference is rewritten from spec 4.3 alone.
  - Two hazards are dropped: the duplicate-key reply at 381 and the
    registry read at dispatch at 219.

Left open:
1. Separate pools and best blocks for each node (see "Not modelled").
2. No liveness run asks whether every entry is served. The code guarantees
   that only if the worker never skips a block, and Substrate does not
   promise that (the comment at 251). `no_retry` shows what happens
   without it.
3. A worker that retries until expiry (spec §4.3) is a design the code does
   not have. It is left out, because every module here is translated from
   the sources.
