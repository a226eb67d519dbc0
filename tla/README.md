# Threshold in TLA+

Threshold is a network of nodes that hold bitcoin under one FROST key and keep
a small chain of account balances. This directory models the node: block
consensus, the chain actor with its executor and database, key generation with
its key file, signing, the way of a deposit or a withdrawal through one node,
and the tasks of a node with the channels between them. TLC checks the models on
small instances; TLAPS proves every safety property that the runs check, and that
the chain implements the abstract ledger, for every value of the constants.

## The system

| Part | Source | State | What is hard |
| --- | --- | --- | --- |
| Consensus task | `crates/consensus`, `handlers/consensus` | round, leader, votes, `block_finalized` | timers of all nodes, late and reordered gossip, votes without a round |
| Chain actor | `crates/abci` | accounts, intents, pending transactions, height; RocksDB | four writes per block, crash between them, failing transaction |
| Executor | `abci/src/executor.rs`, `protocol/src/transaction.rs` | stack, allowance list | state that outlives a transaction |
| Key generation | `handlers/dkg` | packages, secrets, keys in memory, key file (`config.rs`) | gossip against direct messages, missed packages, restart, a save that is cut off |
| Signing | `handlers/signing` | one session per node, pending spends | sessions that replace each other, no timeout |
| Deposits, withdrawals | `handlers/deposit`, `handlers/withdrawl` | intents, processed txids, open challenges, the user's balance | repeated confirmations, errors on the way, a balance that is stale at the debit |
| Wallet | `wallet/taproot.rs` | addresses, unspent outputs | inputs taken before signing, change |
| Oracle | `crates/oracle` | scanned height, addresses | scans against new addresses and new blocks |
| Node loop, gRPC, swarm | `node/src/main_loop.rs`, `crates/grpc`, `utils/swarm_manager.rs`, `messenger` | handlers, peers, channels and answers | an error drops all handlers, a full channel drops events, tasks wait for each other |

The node loop hands every event to all handlers in turn. A handler may ask the
chain actor or the consensus task and waits for the answer; `NodeLoop` models
these waits, and shows that each asker has its one request in one place and gets
the answer to it. The other modules therefore take a handler with its calls as
one atomic step of its node; the steps of different nodes, the round timer, and
the oracle's monitor interleave. `handle_message` takes the handler list out of
the node and returns on the first error without putting it back: from then on
the node drops every event. `Dkg`, `Signing`, `Funds` and `NodeLoop` keep that as
the variable `handlers`.

FROST, libp2p, RocksDB, Esplora, tonic and the bitcoin network are external:
they appear as the code uses them.

## Modules

**`Consensus`** has one record of fields per validator with the names of
`ConsensusState`, the chain actor's pending set and stored blocks, and an inbox
per node. Gossip does not return to its sender, has no order, and may never
arrive (an inbox message need not be received). Actions: `RoundTimer` (the
interval), `TriggerConsensusRound`, `Subscribed` (`AddValidator`), one action per
message, `SubmitTx`, `ReceiveTx`. `last_finalized` and `sent` are history.
`MaxRound` bounds the rounds. Validators are known to each other from the start,
as `start_node` configures them. Message handlers without a sender are left out.

**`SyncConsensus`** restricts `Consensus` to good timing: all messages of a round
arrive, in protocol order, before the next timer fires, and timers fire in a
fixed cyclic order (every such order is explored). The interval is ten seconds and gossip takes milliseconds.
Weak fairness of `Tick` and `Deliver` says that tokio's interval keeps firing
and that the connected swarm keeps delivering.

**`Executor`** is the stack machine, one action per operation. **`Chain`** extends
it with the chain actor: `FinalizeBlock` to `Swap` are the statements of
`finalize_and_store_block`, with the three puts of `insert_block` and the flush as
separate steps; `PutFails` and `Restart` may come between any two. `applied`
counts executions and is history. **`Ledger`** is the abstract specification:
balances change by whole blocks and never go below zero; `Chain` implements it
with the flushed state as refinement mapping.

**`Dkg`** names a polynomial by the number of the `part1` call that drew it, so a
group key is a function from signers to numbers, and `part3` succeeds when the
shares fit the round 1 packages. Gossip and direct messages are one unordered
set; gossip may miss a peer not yet seen. `save_keys`, `saved_keys` and `readable`
are the configuration and the key file: `save_dkg_keys` rewrites the file in
place, `SaveCutOff` is a write that does not finish, and a node whose file does
not parse cannot start again (`get_config`). A run starts from the key file that
the command line tool's setup writes.

**`Signing`** names a nonce by its session. A spend is requested, stranded,
pending or broadcast. `Refused` marks spends for which an external call may fail.

**`Wallet`** holds the operators of `TaprootWallet` on a sequence of outputs:
largest-first selection, change, and `ingest_external_tx`. The selection is stated
as a set of positions, each output taken as long as the ones sorted before it do
not reach the target, and `retain` as a recursive function, so that both can be
reasoned about. **`Funds`** composes
wallet, monitor, deposit and withdrawal handlers and a small bitcoin network at
one node, from a start with intents of an earlier life. All withdrawals are of
one user: their account has the balance of the last block and the list of
proposed transactions, which `FinalizeBlock` executes or leaves alone as a whole
(`Chain` has the parts of that step). The monitor is Esplora's or the mock's
(`use_mock_oracle`); heights are unsigned and wrap around at `MaxU32`; a download
may fail. Signing is external there (it completes, is refused or is replaced).
Requests to the node loop form a set, so every order of them is covered.

**`NodeLoop`** follows gRPC calls through the swarm's command queue, the bounded
event channel, the node loop, the consensus task and the chain actor, back to the
client, who may have gone. A call is idle, waiting, answered, in error, refused or
cancelled. `Emit` overwrites the oldest event when the channel is full, and with
it the only copy of a call's answer channel. `serving` is the event whose handler
waits; `answers` has one channel per asker, as `Sender::clone` makes one. What a
handler computes is abstracted to which actor it asks, whether it may fail and
whether it answers. `overwritten` and `failed` are history.

`MC*` modules give values to constants. Operators described as a *variant* are
wrong versions of the definition that follows them; replacing that definition
by its variant makes TLC report the property listed under `mutants` in
`PROJECT.json`.

## Runs

| Run | Instance | Shows |
| --- | --- | --- |
| `consensus` | 2 validators, 1 transaction that may fail, 4 rounds | `ConsensusInv` is an invariant; one leader per round; prevotes back the leader; votes of other nodes behind each block; a received transaction is pending or in exactly one block; at most one block per round |
| `consensus_sync` | 4 validators, 6 rounds | every node stores a first block (liveness) |
| `chain` | 3 transactions of 2 users, 2 finalizations, 1 crash | balances are those of the stored blocks, durable, and implement `Ledger` |
| `dkg` | 3 nodes, a failing save | `DkgInv` is an invariant; one group key; the only ways to stop short of keys |
| `dkg_restart` | 2 nodes, 2 restarts, a save that fails or is cut off, a node that does not save | keys in use are on disk, in a file that can be read; a node with keys starts no run |
| `signing` | 4 nodes, threshold 3, 3 sessions | `SigningInv` is an invariant; nonces sign once, no panic, spends broadcast once, a lone session completes |
| `funds` | 2 deposits, 2 withdrawals of one user, 1 foreign spend, 5 blocks, both oracles | `FundsInv` is an invariant; no early credit, no gap between scans, deposit outputs tracked once, the account follows the bitcoin, a debit is short by the fee at most unless withdrawals overlap |
| `node_loop` | 2 calls of any kind, channel of 2, a network event, a timer | `NodeLoopInv` is an invariant; why handlers and answers get lost; live peers are known; one request each; every call ends (liveness) |
| `sync_heights` | as `consensus_sync` | violated: equal heights when quiet |
| `chain_replay` | as `chain` | violated: a transaction is executed at most once |
| `dkg_quiet` | 3 nodes, nothing fails | violated: keys everywhere once every package is delivered |
| `funds_once` | as `funds` | violated: an output is tracked once |

Bounds. Two validators suffice for a finalization with its failure and retry,
and for every order of their announcements, proposals and votes; the quorum of
more than one vote is reached in `consensus_sync` with four, the fewest whose
quorum is within reach of every node although the leader casts no prevote, and
for every number in the proofs. Two finalizations and a crash cover a crash in a
block, a failed block and its successor. Two runs of key generation per node
(three with restarts) cover a reset and its repetition; `dkg` uses the symmetry of the nodes whose save does not
fail, which is sound as no definition tells them apart. Three sessions on two coordinators
cover a session that replaces and one that is replaced. In `funds` the chain
starts one block short of the confirmation depth, so that heights wrap; five
blocks let a deposit become deep, be spent, and the spend become deep as well.
The two withdrawals are equal or of different amounts, and the larger one exceeds the balance with its
fee. An event channel of two overflows with two calls and one event more.
Deadlock is checked for the chain; the other systems stop when their requests,
rounds or blocks run out.

Fairness. In `NodeLoop` the swarm task, the node loop, the consensus task and the
chain actor are tokio tasks that await their channels, so each step that stays
possible is taken (weak fairness). The consensus task selects between its queue
and its timer: tokio's `select!` chooses at random among what is ready, so its
queue is served infinitely often if it is ready infinitely often (strong
fairness of `poll_messages`). Nothing is assumed of clients, of the network or of
the timer.

### What the violated properties show

* **Heights drift apart.** A `LeaderAnnouncement` carries a node into a new round
  with the votes and `block_finalized` of the old one, so it may skip a
  finalization its peers do. The integration tests treat different heights as
  an error (`tests/src/bin/integration-tests/main.rs:796`).
* **Replay after a restart.** The state is flushed while its executed
  transactions are still pending in it (`abci/src/lib.rs:219`), so a crash before
  the next flush brings them back, and the next block executes them again.
* **Key generation may stop.** A node that enters round 2 after all round 2
  packages have arrived never calls `part3`, although it holds all it needs;
  `test_dkg_completion` expects keys on every node. (A package a peer misses, as
  its sender had not seen it subscribe, stops a run as well; the violated
  property leaves such runs out and `KnownStallsOnly` names both causes.)
* **Change is tracked twice.** A spend's change is recorded at once and again
  when the monitor confirms the spend; `overview.mdc:48` asks for idempotent
  handlers.

`KnownStallsOnly`, `AppliedOncePerLife` and `DepositAccounted` state what does
hold next to three of these. Three passing properties name an exception that
the code really has: equal withdrawals in one block are debited once
(`AccountFollowsBitcoin`), overlapping withdrawals can leave a debit that no block
can execute (`ShortByFeeOnly`), and a chain shorter than the confirmation depth
wraps the monitor's height (`WatchedNeverMissed`).

## Proofs

`ConsensusProofs` proves `Spec => []ConsensusInv` for any finite, non-empty set
of validators and any transactions. `OneLeaderPerRound` alone is not inductive:
an announcement in flight could name anybody. `LeaderInv` says that every node
and every announcement agrees with `select_leader`, which rests on the lemma
`LeaderExists` that the sorted list has an element at each index. `VoteInv` ties
counted votes to sent ones and `FinalizedInv` ties `block_finalized` to the round
of the last block; leadership, vote soundness and one block per round follow.
`ReceivedTxExactlyOnce` needs `TxInv`: a transaction is gossiped once, and a node
holds only what it has received. `StoredInOrder`, also a conjunct, says that the
blocks of a node carry the heights 1, 2, 3 and so on (`ChainInOrder`).
`EveryoneLeads` is about `select_leader` alone: the sorted list holds each validator
at one index, so each leads one of any N consecutive rounds of N validators.
`SyncImplements` shows that `SyncConsensus`, with its timers in a fixed order and its
messages delivered in between, implements `Consensus`: what is proved of `Consensus`
holds of the system that `consensus_sync` and `sync_heights` explore.

`ChainProofs` proves `Spec => []ChainInv` for any users, transactions and bounds.
`WorkInv` says what the copy of the state holds at each point of a finalization,
`StoreInv` which writes have been made, `ReplayInv` that a pending transaction was
not executed in this life, `ExecutorInv` what each instruction finds on the
stack. From it follow type correctness, durability, the match of balances and
blocks, index consistency, one place for each deposit, own arguments, no left-over
allowance, at most one execution per life and that the height never decreases.
`ImplementsLedger` is the refinement: every step maps to a block of `Ledger` or to
a stutter under the flushed state. It needs `CopyInv`, by which the copy of the
state differs from the current one by the sum of what the executed transactions
move, one transaction at a time. Assumptions are the named ASSUMEs of the modules:
types, finiteness and that there is a validator or a transaction.

`DkgProofs` proves `Spec => []DkgInv` for any finite set of nodes, failing saves and
any number of restarts. `KeyAgreement` is not inductive: that two keys agree
depends on every package in flight and every secret stored belonging to the
first run of its sender. `Drawn` bounds what a node holds by the runs it has made,
and `FirstRun`, claimed while there was no restart, says that a second `part1` never
happens: what the first one drew is in use, in the keys, or the handlers are gone.
`KeysDurable` is a conjunct of its own; `KeysEndTheRuns` follows step by step.
`KnownStallsOnly` needs `StallInv`: a node that has a package is in a run, and one in
a run is in round 2 or lacks a round 1 package. That a run has two signers
(`SignersAssumption`) is what `part1` requires.

`NodeLoopProofs` proves `[]NodeLoopInv` for any calls, peers and capacity of the
event channel and any amount of traffic. `LossesExplained` needs to know that the answer a handler finds is the one it asked for, which is `OneRequestEach`; that in turn
needs `HeldOnce`, by which the answer channel of a call is in one place only, so
that an overwritten event ends no call but its own. The lemmas `RequestsMeaning`
and `HeldMeaning` restate both in the form the steps use, and each action has a
lemma per conjunct it can disturb.

`SigningProofs` proves `[]SigningInv` for any finite set of nodes, any threshold from two (`part1` of key
generation refuses less) to their number, any sessions and coordinators. That a nonce signs one
package needs `SignedInv`: a session signs one package, its coordinator first, and
by then no request or commitment of the session is on its way, so nobody can join
it again. That the aggregation never fails needs `CollectInv` and `LeaderInv`: a
coordinator that still leads a session has counted only what its selected peers
sent for it, and what is under way has not been counted. For `QuietMeansDone`,
`ProgressInv` names the message each coordinator still waits for while no handler
is lost; for `LoneSessionCompletes`, `LoneInv` says that the peers of a session that is
alone stay in it until they have sent their shares. The steps that lose a
session or a message share one lemma (`ShrinkStep`), as do the two that count
(`CountStep`).

`FundsProofs`, on top of `FundsSteps`, proves `[]FundsInv` for any number of
deposits and withdrawals, any amounts, fees and confirmation depth, both oracles
and any losses of the handlers. None of the properties is inductive, and each has
its part of the invariant. `TxInv` says that a transaction is a payment or a spend
of this node, with change only to an address that was credited. `ScanInv`, for
`CreditedWhenDeep` and `WatchedNeverMissed`, says that the scanned height is deep
enough or has wrapped around for good. `DepositInv` and `SpendInv` follow a deposit
from the intent to the chain and a withdrawal from the proposal to its one spend,
so that neither is entered twice in the account (`AccountFollowsBitcoin`). `UtxoInv`
puts the output of a credited deposit in one place of the list or in one spend
(`DepositAccounted`); it rests on what `retain` does to a list (`Retain`) and on what
a spend takes and leaves (`SpendFacts`, `AfterSpendFacts`). `OverlapInv`, for
`ShortByFeeOnly`, says that without overlap there is one withdrawal in progress or
one proposed debit, which the balance covers up to the fee. `FundsAssumption` gives
the types of the constants, tells deposits, withdrawals and foreign spends apart,
and keeps the heights that are explored, with the depth on top, below the largest
u32, so that a height that has wrapped around is told from a real one.

Two theorems at the end of `FundsProofs` are about the wallet's operators, for any
list of outputs. `FundsFound`: the selection reaches its target exactly if all
outputs together do. Else take the first output left out, in the order of the
selection; all before it were selected, so they fall short of the target, and
it was to be selected too. `FeePaid`: what the selected outputs hold beyond the
outputs paid is between the fee and the fee with the dust limit on top. Both count
an output as often as the list holds it; `UtxoOnce` is violated, so that may be twice.

`Sums` holds what the proofs need of sums over finite sets: `SumFunctionOnSet` has
the value of a finite sum, grows by the value of a new member, is a natural
number if its terms are, is then no less than the sum of a part, and depends on
nothing but its terms. Induction takes the form of a least counterexample (`MinimalSubset`, `LeastNumber`), as the prover cannot instantiate
the induction rules of its library; the recursive function behind `retain` is
treated in the same way.

Only model-checked: liveness (`consensus_sync` and `EveryCallEnds`), which needs
fairness and ENABLED and is out of the prover's reach; and the counterexamples of
the violated properties, which are runs by nature.

## Not modelled

* Encodings, hashes, encryption and prompts (`proto.rs`, `block.rs`,
  `key_manager.rs`): conversions whose result the models take as given.
* `get_transaction_for_block` and `create_deposit_from_intent`, which nothing calls;
  `refresh_utxos`, which only the `utxo-spend` tool calls; the consensus messages that
  nothing sends (`NewRound`, `StartNewRound`, `SetLeader`, `Block`).
* The command line tools beyond setup and start, and the builder of
  configurations: input and output around gRPC calls and files.
* Gossip deduplication by content and the connection state of libp2p.
* A restart of a node with deposits and spends under way: `Funds` covers one life
  that starts with the intents of an earlier one, `Chain` and `Dkg` the restart of
  what they persist. The wallet persists nothing.
* That peers which have left are forgotten, and that a StartSigning call is
  answered: the code does neither, and `NodeLoop` shows both.
