----------------------------- MODULE ChainSpec -----------------------------
(***************************************************************************)
(* The genesis configurations of node/src/chain_spec.rs, as values.       *)
(*                                                                         *)
(* A public key derived from a seed is the pair of its signature scheme   *)
(* and the derivation path "//seed": AuraId is an sr25519 key, so an       *)
(* authority's Aura key and its account are the same public key, while    *)
(* its GRANDPA key is an ed25519 key.  A key given in hex is its bytes.    *)
(* The runtime's GenesisConfig has no entry for the verifier pallet, so   *)
(* PublicKeys starts empty on every chain built here.                     *)
(***************************************************************************)
EXTENDS Naturals, Sequences

\* get_from_seed::<T>(seed): the public key of the pair derived from //seed.
PublicFromSeed(scheme, seed) == [scheme |-> scheme, path |-> "//" \o seed]

\* A key written as a hex literal (`.into()` / `.unchecked_into()`).
PublicFromHex(bytes) == [bytes |-> bytes]

\* get_account_id_from_seed::<sr25519::Public>: an AccountId32 is the bytes
\* of the sr25519 public key.
AccountIdFromSeed(seed) == PublicFromSeed("sr25519", seed)

SessionKeys(aura, grandpa) == [aura |-> aura, grandpa |-> grandpa]

\* authority_keys_from_seed(s): (account, aura, grandpa).
AuthorityKeysFromSeed(s) ==
  <<AccountIdFromSeed(s), PublicFromSeed("sr25519", s), PublicFromSeed("ed25519", s)>>

\* testnet_genesis: every endowed account gets the same balance, 1 << 60
\* (beyond TLC's integers, and compared by no property, so only the
\* endowed accounts are kept); the authorities' accounts are the
\* invulnerable collators and each gets its session keys (account,
\* validator id, keys); root_key becomes the sudo key.
TestnetGenesis(initialAuthorities, rootKey, endowedAccounts) ==
  [endowed      |-> endowedAccounts,
   invulnerables |-> [i \in DOMAIN initialAuthorities |-> initialAuthorities[i][1]],
   candidacyBond |-> 500 * 16,
   session      |-> [i \in DOMAIN initialAuthorities |->
                       <<initialAuthorities[i][1], initialAuthorities[i][1],
                         SessionKeys(initialAuthorities[i][2], initialAuthorities[i][3])>>],
   sudo         |-> rootKey]

DevelopmentConfig ==
  [id |-> "dev",
   genesis |-> TestnetGenesis(
      <<AuthorityKeysFromSeed("Alice")>>,
      AccountIdFromSeed("Alice"),
      <<AccountIdFromSeed("Alice"), AccountIdFromSeed("Bob"),
        AccountIdFromSeed("Alice//stash"), AccountIdFromSeed("Bob//stash")>>)]

MainnetStagingConfig ==
  LET root == PublicFromHex("702ef850661d25330c0b41da767ade0aa0d7d82ea36f7d5cbb5411ff9daa8952")
      gran == PublicFromHex("289d6d8349986f343f572ad2b0251c9dcae17fd9e429adb46ff3c886c28e7584")
  IN [id |-> "mainnet",
      genesis |-> TestnetGenesis(<<<<root, root, gran>>>>, root, <<root>>)]

LocalTestnetConfig ==
  LET names == <<"Alice", "Bob", "Charlie", "Dave", "Eve", "Ferdie">>
      stash == [i \in DOMAIN names |-> names[i] \o "//stash"]
  IN [id |-> "local_testnet",
      genesis |-> TestnetGenesis(
         <<AuthorityKeysFromSeed("Alice"), AuthorityKeysFromSeed("Bob")>>,
         AccountIdFromSeed("Alice"),
         [i \in 1..12 |-> AccountIdFromSeed(IF i <= 6 THEN names[i] ELSE stash[i - 6])])]

\* The authorities of a genesis: the accounts holding session keys; these
\* nodes author blocks, so sp_io::offchain::is_validator() holds on them.
Authorities(genesis) == {genesis.session[i][1] : i \in DOMAIN genesis.session}

=============================================================================
