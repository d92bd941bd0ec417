---------------------------- MODULE MCVerifier ----------------------------
(* Instantiates Verifier for TLC: the authorities of the chain specs as    *)
(* validators, each with its own key, one forging peer with its own key,   *)
(* and model-value accounts.                                               *)
EXTENDS Verifier, TLC

CONSTANTS k1, k2, kx

CS == INSTANCE ChainSpec
Alice == CS!AccountIdFromSeed("Alice")

\* The authorities of the local testnet (Alice, Bob) run the worker.
MCValidators == CS!Authorities(CS!LocalTestnetConfig.genesis)
\* The development chain has Alice alone: no race between nodes.
MCOneValidator == CS!Authorities(CS!DevelopmentConfig.genesis)
MCLocalKey == [v \in MCValidators |-> IF v = Alice THEN k1 ELSE k2]
\* Bob's keystore holds no key; k2 is registered for a node that lacks it.
MCLocalKeyOneKeyless == [v \in MCValidators |-> IF v = Alice THEN k1 ELSE NoKey]
MCRootKeys == {k1, k2}
MCAttackerKeys == {kx}
MCNoAttackerKeys == {}

\* Genesis configures no verifier keys (node/src/chain_spec.rs).
MCGenesisKeys == <<>>
\* PublicKeys once root has registered both validators.
MCBothKeys == <<k1, k2>>

\* The oracle's replies: a missed deadline, a 503, a 200 whose object lacks
\* "message", and a 200 carrying {"message": "i"}.
MCMessageBody == [kind |-> "object",
                  members |-> <<<<"message", [kind |-> "string", chars |-> <<105>>]>>>>]
MCOracleReplies ==
  { [outcome |-> "DeadlineReached", code |-> 0, body |-> [kind |-> "malformed"]],
    [outcome |-> "Response", code |-> 503, body |-> MCMessageBody],
    [outcome |-> "Response", code |-> 200,
     body |-> [kind |-> "object", members |-> <<<<"status", [kind |-> "number"]>>>>]],
    [outcome |-> "Response", code |-> 200, body |-> MCMessageBody] }

\* Accounts are interchangeable model values.
MCSymmetry == Permutations(Accounts)
=============================================================================
