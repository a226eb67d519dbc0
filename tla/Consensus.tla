----------------------------- MODULE Consensus -----------------------------
(***************************************************************************)
(* Block consensus of a Threshold network (crates/consensus).              *)
(*                                                                         *)
(* Every node runs one consensus task.  It rotates the leader by round, a  *)
(* leader proposes the block its own chain actor builds, the others        *)
(* prevote when their chain actor builds the same block, and prevotes and  *)
(* precommits are counted per sender.  Votes travel over gossipsub: a      *)
(* message may be late, reordered or never arrive, and a node never        *)
(* receives its own messages.                                              *)
(*                                                                         *)
(* The node loop waits for the consensus task's answer to every message it *)
(* forwards, and the consensus task waits for the chain actor, so one      *)
(* handler, with the chain calls it makes, is one atomic step of its node. *)
(* The handlers of NewRound, StartNewRound, SetLeader and the plain Block  *)
(* broadcast have no sender anywhere in the program and are left out.      *)
(***************************************************************************)
EXTENDS Integers, FiniteSets, Sequences

CONSTANTS
    Validators,  \* peer ids, as integers: PeerId's order sorts the leaders
    Txs,         \* chain transactions that may be submitted
    Fallible,    \* the transactions whose execution may fail
    MaxRound     \* bound: no timer or trigger fires at this round

ASSUME ValidatorsAssumption ==
    Validators \subseteq Int /\ IsFiniteSet(Validators) /\ Validators # {}
ASSUME TxsAssumption == Fallible \subseteq Txs
ASSUME MaxRoundAssumption == MaxRound \in Nat

VARIABLES
    current_round,    \* ConsensusState.current_round
    proposer,         \* ConsensusState.proposer
    is_leader,        \* ConsensusState.is_leader
    current_state,    \* ConsensusState.current_state
    validators,       \* ConsensusState.validators
    prevotes,         \* ConsensusState.prevotes: senders, nothing else
    precommits,       \* ConsensusState.precommits: senders, nothing else
    block_finalized,  \* ConsensusState.block_finalized
    current_height,   \* ConsensusState.current_height
    pending,          \* ChainState.proposed_transactions (sorted when read)
    blocks,           \* blocks the chain actor stored, by height
    last_finalized,   \* history: the round of the last stored block, or -1
    inbox,            \* gossip messages still on their way to a node
    sent              \* history: every gossip message ever published

chain == <<pending, blocks>>
tally == <<prevotes, precommits, block_finalized>>
view  == <<current_round, proposer, is_leader, current_state>>
net   == <<inbox, sent>>
vars  == <<view, validators, tally, current_height, chain, last_finalized, net>>

-----------------------------------------------------------------------------
(* Blocks and messages *)

(* A block's hash covers exactly these fields: previous_block is always    *)
(* None, and there is no timestamp.  So a block stands for its hash.       *)
Block == [height : Nat \ {0}, txs : SUBSET Txs, proposer : Validators]

Announcement == [type : {"LeaderAnnouncement"}, from : Validators,
                 leader : Validators, round : Nat]
Proposal     == [type : {"BlockProposal"}, from : Validators, block : Block]
Vote         == [type : {"Prevote", "Precommit"}, from : Validators,
                 round : Nat, block : Block]
TxGossip     == [type : {"Transaction"}, from : Validators, tx : Txs]
Message      == Announcement \cup Proposal \cup Vote \cup TxGossip

(* Variant of Publish: a message comes back to its own publisher.          *)
PublishToSelfToo(n, done, msgs) ==
    /\ inbox' = [p \in Validators |-> (IF p = n THEN inbox[p] \ done ELSE inbox[p])
                                       \cup msgs]
    /\ sent' = sent \cup msgs

(* Node n publishes msgs after taking the messages in done from its inbox. *)
Publish(n, done, msgs) ==
    /\ inbox' = [p \in Validators |-> IF p = n THEN inbox[p] \ done
                                               ELSE inbox[p] \cup msgs]
    /\ sent' = sent \cup msgs

-----------------------------------------------------------------------------
(* Helpers of ConsensusState and of the chain actor *)

(* The validator at index round % len of the sorted list. *)
select_leader(vs, round) ==
    CHOOSE p \in vs : Cardinality({q \in vs : q < p}) = round % Cardinality(vs)

(* Variant of Quorum: the number process_prevote_vote logs as needed.      *)
QuorumAsLogged(n) == (Cardinality(validators[n]) * 2) \div 3 + 1

(* The number of votes that counts as "2/3+" on n. *)
Quorum(n) == (Cardinality(validators[n]) * 2) \div 3

Height(n) == Len(blocks[n])

(* Variant of get_proposed_block: the height of the last block, not the next. *)
BlockAtLastHeight(n, by) ==
    [height |-> Height(n), txs |-> pending[n], proposer |-> by]

get_proposed_block(n, by) ==
    [height |-> Height(n) + 1, txs |-> pending[n], proposer |-> by]

(* Variant of FinalizeAndStoreBlock: the pending transactions are kept.    *)
StoreBlockKeepPending(n, block) ==
    /\ blocks' = [blocks EXCEPT ![n] = Append(@, block)]
    /\ UNCHANGED pending

(* finalize_and_store_block: nothing changes unless the whole block        *)
(* executes; then it is stored and every pending transaction is dropped.   *)
FinalizeAndStoreBlock(n, block) ==
    /\ blocks' = [blocks EXCEPT ![n] = Append(@, block)]
    /\ pending' = [pending EXCEPT ![n] = {}]

-----------------------------------------------------------------------------
(* Starting a round *)

(* start_new_round without its broadcast: the round advances, the leader   *)
(* is recomputed, and all that was counted in the old round is forgotten.  *)
start_new_round(n, phase) ==
    LET round  == current_round[n] + 1
        leader == select_leader(validators[n], round)
    IN  /\ current_round' = [current_round EXCEPT ![n] = round]
        /\ proposer' = [proposer EXCEPT ![n] = leader]
        /\ is_leader' = [is_leader EXCEPT ![n] = (leader = n)]
        /\ current_state' = [current_state EXCEPT ![n] = phase]
        /\ prevotes' = [prevotes EXCEPT ![n] = {}]
        /\ precommits' = [precommits EXCEPT ![n] = {}]
        /\ block_finalized' = [block_finalized EXCEPT ![n] = FALSE]

(* The LeaderAnnouncement that start_new_round broadcasts on a leader. *)
NewRoundMsgs(n) ==
    LET round == current_round[n] + 1
    IN  IF select_leader(validators[n], round) = n
        THEN {[type |-> "LeaderAnnouncement", from |-> n, leader |-> n, round |-> round]}
        ELSE {}

(* The proposal that propose_block_as_leader broadcasts.                   *)
propose_block_as_leader(n) ==
    [type |-> "BlockProposal", from |-> n, block |-> get_proposed_block(n, n)]

(* The round interval of the consensus task: a new round and, on its       *)
(* leader, the block proposal.                                             *)
RoundTimer(n) ==
    /\ Cardinality(validators[n]) >= 2
    /\ current_round[n] > 0
    /\ current_round[n] < MaxRound
    /\ LET leads == select_leader(validators[n], current_round[n] + 1) = n
       IN  /\ start_new_round(n, IF leads THEN "Prevote" ELSE "WaitingForPropose")
           /\ Publish(n, {}, NewRoundMsgs(n) \cup
                             IF leads THEN {propose_block_as_leader(n)} ELSE {})
    /\ UNCHANGED <<validators, current_height, chain, last_finalized>>

(* The operator's request: a new round, but no proposal even on its leader. *)
TriggerConsensusRound(n) ==
    /\ current_round[n] < MaxRound
    /\ start_new_round(n, "WaitingForPropose")
    /\ Publish(n, {}, NewRoundMsgs(n))
    /\ UNCHANGED <<validators, current_height, chain, last_finalized>>

(* A peer subscribed to the topic: AddValidator, which starts round 1 when *)
(* no round has started and every configured validator is known.           *)
Subscribed(n, p) ==
    /\ validators' = [validators EXCEPT ![n] = @ \cup {p}]
    /\ IF current_round[n] = 0 /\ Cardinality(validators'[n]) >= Cardinality(Validators)
       THEN /\ current_round[n] < MaxRound
            /\ start_new_round(n, "WaitingForPropose")
            /\ Publish(n, {}, NewRoundMsgs(n))
       ELSE UNCHANGED <<view, tally, net>>
    /\ UNCHANGED <<current_height, chain, last_finalized>>

-----------------------------------------------------------------------------
(* Receipt of consensus messages *)

(* Variant of IsCurrent: announcements of past rounds are followed too.    *)
AnyRound(n, m) == TRUE

(* An announcement is followed unless its round is older than the node's.  *)
IsCurrent(n, m) == m.round >= current_round[n]

(* Variant of AdoptRound: a node that led its old round keeps is_leader.   *)
AdoptRoundKeepRole(n, m) ==
    /\ current_round' = [current_round EXCEPT ![n] = m.round]
    /\ proposer' = [proposer EXCEPT ![n] = m.leader]
    /\ current_state' = [current_state EXCEPT ![n] = "WaitingForPropose"]
    /\ UNCHANGED is_leader

(* The announced round and leader replace the node's own; the votes and    *)
(* block_finalized of the round it leaves are kept.                        *)
AdoptRound(n, m) ==
    /\ current_round' = [current_round EXCEPT ![n] = m.round]
    /\ proposer' = [proposer EXCEPT ![n] = m.leader]
    /\ is_leader' = [is_leader EXCEPT ![n] = (m.leader = n)]
    /\ current_state' = [current_state EXCEPT ![n] = "WaitingForPropose"]

HandleLeaderAnnouncement(n, m) ==
    /\ m.type = "LeaderAnnouncement"
    /\ IF IsCurrent(n, m) THEN AdoptRound(n, m) ELSE UNCHANGED view
    /\ Publish(n, {m}, {})
    /\ UNCHANGED <<validators, tally, current_height, chain, last_finalized>>

(* The vote of n for block in its present round. *)
VoteMsg(n, type, block) ==
    [type |-> type, from |-> n, round |-> current_round[n], block |-> block]

(* Variant of IsValidProposal: the block's own proposer field is trusted.  *)
MatchesAnyProposer(n, block) == get_proposed_block(n, block.proposer) = block

(* A proposal is valid when the node's own chain actor would build the     *)
(* same block for the leader this node believes in.                        *)
IsValidProposal(n, block) == get_proposed_block(n, proposer[n]) = block

HandleBlockProposal(n, m) ==
    /\ m.type = "BlockProposal"
    /\ Publish(n, {m}, IF IsValidProposal(n, m.block)
                       THEN {VoteMsg(n, "Prevote", m.block)} ELSE {})
    /\ UNCHANGED <<view, validators, tally, current_height, chain, last_finalized>>

(* Each prevote from a new sender at or beyond the quorum is answered by a *)
(* precommit for the block of that prevote.                                *)
HandlePrevote(n, m) ==
    /\ m.type = "Prevote"
    /\ LET new == m.from \in validators[n] /\ m.from \notin prevotes[n]
       IN  /\ prevotes' = [prevotes EXCEPT ![n] = IF new THEN @ \cup {m.from} ELSE @]
           /\ Publish(n, {m}, IF new /\ Cardinality(prevotes'[n]) >= Quorum(n)
                              THEN {VoteMsg(n, "Precommit", m.block)} ELSE {})
    /\ UNCHANGED <<view, validators, precommits, block_finalized, current_height,
                   chain, last_finalized>>

(* The first quorum of precommits finalizes what the node itself would     *)
(* propose now, under its own id.  block_finalized is set before the block *)
(* is executed, and stays set when execution fails.                        *)
HandlePrecommit(n, m) ==
    /\ m.type = "Precommit"
    /\ LET new    == m.from \in validators[n] /\ m.from \notin precommits[n]
           quorum == new /\ Cardinality(precommits'[n]) >= Quorum(n)
           block  == get_proposed_block(n, n)
       IN  /\ precommits' = [precommits EXCEPT ![n] = IF new THEN @ \cup {m.from} ELSE @]
           /\ block_finalized' = [block_finalized EXCEPT ![n] = @ \/ quorum]
           /\ \/ /\ quorum /\ ~block_finalized[n]
                 /\ FinalizeAndStoreBlock(n, block)
                 /\ current_height' = [current_height EXCEPT ![n] = block.height]
                 /\ last_finalized' = [last_finalized EXCEPT ![n] = current_round[n]]
              \/ /\ (quorum /\ ~block_finalized[n]) => block.txs \cap Fallible # {}
                 /\ UNCHANGED <<chain, current_height, last_finalized>>
    /\ Publish(n, {m}, {})
    /\ UNCHANGED <<view, validators, prevotes>>

-----------------------------------------------------------------------------
(* Transactions: a deposit or a withdrawal is added to the pending set of  *)
(* the node it reaches first, which gossips it to the others.              *)

SubmitTx(n, t) ==
    /\ \A m \in sent : m.type = "Transaction" => m.tx # t
    /\ pending' = [pending EXCEPT ![n] = @ \cup {t}]
    /\ Publish(n, {}, {[type |-> "Transaction", from |-> n, tx |-> t]})
    /\ UNCHANGED <<view, validators, tally, current_height, blocks, last_finalized>>

ReceiveTx(n, m) ==
    /\ m.type = "Transaction"
    /\ pending' = [pending EXCEPT ![n] = @ \cup {m.tx}]
    /\ Publish(n, {m}, {})
    /\ UNCHANGED <<view, validators, tally, current_height, blocks, last_finalized>>

-----------------------------------------------------------------------------
(* The state start_node leaves behind: adding the node itself reached the  *)
(* configured number of validators and started round 1, and                *)
(* initialize_from_chain_state set the round, and only it, back to 0.      *)
Init ==
    /\ current_round = [n \in Validators |-> 0]
    /\ proposer = [n \in Validators |-> select_leader(Validators, 1)]
    /\ is_leader = [n \in Validators |-> select_leader(Validators, 1) = n]
    /\ current_state = [n \in Validators |-> "WaitingForPropose"]
    /\ validators = [n \in Validators |-> Validators]
    /\ prevotes = [n \in Validators |-> {}]
    /\ precommits = [n \in Validators |-> {}]
    /\ block_finalized = [n \in Validators |-> FALSE]
    /\ current_height = [n \in Validators |-> 0]
    /\ pending = [n \in Validators |-> {}]
    /\ blocks = [n \in Validators |-> <<>>]
    /\ last_finalized = [n \in Validators |-> -1]
    /\ inbox = [n \in Validators |-> {}]
    /\ sent = {}

Receive(n, m) ==
    \/ HandleLeaderAnnouncement(n, m)
    \/ HandleBlockProposal(n, m)
    \/ HandlePrevote(n, m)
    \/ HandlePrecommit(n, m)
    \/ ReceiveTx(n, m)

Next ==
    \E n \in Validators :
        \/ RoundTimer(n)
        \/ TriggerConsensusRound(n)
        \/ \E p \in Validators \ {n} : Subscribed(n, p)
        \/ \E m \in inbox[n] : Receive(n, m)
        \/ \E t \in Txs : SubmitTx(n, t)

Spec == Init /\ [][Next]_vars

-----------------------------------------------------------------------------
(* Properties *)

(* Every variable has the type its Rust field has.                         *)
TypeOK ==
    /\ current_round \in [Validators -> Nat]
    /\ proposer \in [Validators -> Validators]
    /\ is_leader \in [Validators -> BOOLEAN]
    /\ current_state \in [Validators -> {"WaitingForPropose", "Prevote"}]
    /\ validators \in [Validators -> SUBSET Validators]
    /\ prevotes \in [Validators -> SUBSET Validators]
    /\ precommits \in [Validators -> SUBSET Validators]
    /\ block_finalized \in [Validators -> BOOLEAN]
    /\ current_height \in [Validators -> Nat]
    /\ pending \in [Validators -> SUBSET Txs]
    /\ blocks \in [Validators -> Seq(Block)]
    /\ last_finalized \in [Validators -> Nat \cup {-1}]
    /\ inbox \in [Validators -> SUBSET sent]
    /\ sent \subseteq Message

(* Two nodes that are in the same round and both act as its leader are the *)
(* same node: timers, triggers, subscriptions and announcements never give *)
(* a round two leaders.                                                    *)
OneLeaderPerRound ==
    \A n, p \in Validators :
        is_leader[n] /\ is_leader[p] /\ current_round[n] = current_round[p] => n = p

LeaderOf(round) == select_leader(Validators, IF round = 0 THEN 1 ELSE round)

(* A prevote cast in a round is for a block that the leader of that round  *)
(* proposed, however late the proposal or the announcement arrived         *)
(* (handle_block_proposal compares with the block of state.proposer).      *)
PrevoteBacksTheLeader ==
    \A v \in sent : v.type = "Prevote" =>
        \E p \in sent : /\ p.type = "BlockProposal"
                        /\ p.from = LeaderOf(v.round)
                        /\ p.block = v.block

Voters(type, n) == {p \in Validators \ {n} : \E v \in sent : v.type = type /\ v.from = p}

(* A precommit of a node means that a quorum of the OTHER validators       *)
(* prevoted, one of them for the very block; a stored block means that a   *)
(* quorum of the others precommitted.  A node's own vote never counts, as  *)
(* gossip does not come back to its sender.                                *)
VotesAreJustified ==
    /\ \A v \in sent : v.type = "Precommit" =>
         /\ Cardinality(Voters("Prevote", v.from)) >= Quorum(v.from)
         /\ \E u \in sent : u.type = "Prevote" /\ u.from # v.from /\ u.block = v.block
    /\ \A n \in Validators : blocks[n] # <<>> =>
         Cardinality(Voters("Precommit", n)) >= Quorum(n)

(* The strengthening of OneLeaderPerRound that every step preserves: what  *)
(* a node believes of its round, and what an announcement says of another, *)
(* is what select_leader gives for the full validator set.                 *)
LeaderInv ==
    /\ \A n \in Validators : /\ validators[n] = Validators
                             /\ proposer[n] = LeaderOf(current_round[n])
                             /\ is_leader[n] = (proposer[n] = n)
    /\ \A m \in sent : m.type = "LeaderAnnouncement" =>
         m.round > 0 /\ m.leader = LeaderOf(m.round)

(* The strengthening of PrevoteBacksTheLeader and VotesAreJustified.       *)
VoteInv ==
    /\ \A m \in sent : m.type = "BlockProposal" => m.block.proposer = m.from
    /\ \A n \in Validators : /\ \A m \in inbox[n] : m.from # n
                             /\ prevotes[n] \subseteq Voters("Prevote", n)
                             /\ precommits[n] \subseteq Voters("Precommit", n)

(* The strengthening of AtMostOneBlockPerRound.                            *)
FinalizedInv ==
    \A n \in Validators :
        /\ last_finalized[n] <= current_round[n]
        /\ ~block_finalized[n] => last_finalized[n] < current_round[n]

HasReceived(n, t) ==
    \E m \in sent : m.type = "Transaction" /\ m.tx = t /\ m \notin inbox[n]

StoredIn(n, t) == {i \in 1..Len(blocks[n]) : t \in blocks[n][i].txs}

(* A transaction a node has received is either still pending there or in   *)
(* exactly one of its stored blocks: a finalization, failed or not, neither*)
(* loses a transaction nor executes one twice.                             *)
ReceivedTxExactlyOnce ==
    \A n \in Validators, t \in Txs :
        HasReceived(n, t) =>
            Cardinality(StoredIn(n, t)) = IF t \in pending[n] THEN 0 ELSE 1

(* The strengthening of ReceivedTxExactlyOnce: a transaction is gossiped   *)
(* once, and a node has only transactions it has received.                 *)
TxInv ==
    /\ \A k, m \in sent : k.type = "Transaction" /\ m.type = "Transaction" /\ k.tx = m.tx => k = m
    /\ \A n \in Validators, t \in Txs :
         t \in pending[n] \/ StoredIn(n, t) # {} => HasReceived(n, t)

(* The chain of a node has no gap: its blocks carry the heights 1, 2, 3 ...*)
(* and the node's own id, whoever proposed them, and the height consensus  *)
(* keeps is the one of the chain actor.                                    *)
StoredInOrder ==
    \A n \in Validators :
        /\ current_height[n] = Height(n)
        /\ \A i \in 1 .. Height(n) : blocks[n][i].height = i /\ blocks[n][i].proposer = n

(* The inductive invariant of the specification.                           *)
ConsensusInv ==
    TypeOK /\ LeaderInv /\ VoteInv /\ FinalizedInv /\ TxInv /\ StoredInOrder
           /\ PrevoteBacksTheLeader /\ VotesAreJustified /\ ReceivedTxExactlyOnce

(* A node stores a block only in a later round than the one in which it    *)
(* stored its previous block: block_finalized holds one round back from    *)
(* finalizing twice, although announcements change the round under it.     *)
AtMostOneBlockPerRound ==
    [][\A n \in Validators :
         blocks'[n] # blocks[n] => last_finalized[n] < current_round[n]]_vars

=============================================================================
