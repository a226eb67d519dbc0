-------------------------- MODULE ConsensusProofs --------------------------
(* Safety of Consensus for every finite validator set and every bound, and *)
(* that SyncConsensus is a way of scheduling it.                           *)
EXTENDS SyncConsensus, FiniteSetTheorems, TLAPS

-----------------------------------------------------------------------------
(* Leader rotation *)

(* How many validators are smaller: the index in the sorted list.          *)
Rank(V, a) == Cardinality({b \in V : b < a})

(* The indices are 0 .. len - 1, each taken once: being strictly monotone, *)
(* Rank is an injection into them, hence onto.                             *)
LEMMA RankOnto ==
  ASSUME NEW V \in SUBSET Int, IsFiniteSet(V), V # {}
  PROVE  /\ Cardinality(V) \in Nat \ {0}
         /\ \A p \in V : Rank(V, p) \in 0 .. Cardinality(V) - 1
         /\ \A p, q \in V : Rank(V, p) = Rank(V, q) => p = q
         /\ \A i \in 0 .. Cardinality(V) - 1 : \E p \in V : Rank(V, p) = i
<1> DEFINE Below(a) == {b \in V : b < a}
           C == Cardinality(V)
           rank == [a \in V |-> Cardinality(Below(a))]
<1>1. C \in Nat \ {0}
  BY FS_CardinalityType, FS_EmptySet
<1>2. ASSUME NEW p \in V
      PROVE  /\ IsFiniteSet(Below(p)) /\ Below(p) \subseteq V /\ p \notin Below(p)
             /\ Cardinality(Below(p)) \in 0 .. C - 1
  <2>1. Below(p) \subseteq V /\ p \notin Below(p)
    OBVIOUS
  <2>2. /\ IsFiniteSet(Below(p)) /\ Cardinality(Below(p)) <= C
        /\ C = Cardinality(Below(p)) => V = Below(p)
    BY <2>1, FS_Subset
  <2>3. Cardinality(Below(p)) \in Nat
    BY <2>2, FS_CardinalityType
  <2> HIDE DEF Below, C
  <2> QED BY <2>1, <2>2, <2>3, <1>1
<1>3. ASSUME NEW p \in V, NEW q \in V, p < q
      PROVE  rank[p] < rank[q]
  <2>1. ASSUME NEW x \in Below(p) PROVE x \in Below(q)
    BY <1>3
  <2>2. p \in Below(q) /\ p \notin Below(p)
    BY <1>3
  <2>3. Below(p) \in SUBSET Below(q)
    BY <2>1, Zenon
  <2>4. /\ Cardinality(Below(p)) <= Cardinality(Below(q))
        /\ Cardinality(Below(q)) = Cardinality(Below(p)) => Below(q) = Below(p)
    BY <2>3, <1>2, FS_Subset
  <2>5. rank[p] = Cardinality(Below(p)) /\ rank[q] = Cardinality(Below(q))
    OBVIOUS
  <2>6. Cardinality(Below(p)) \in Int /\ Cardinality(Below(q)) \in Int
    BY <1>2
  <2> HIDE DEF Below, rank
  <2> QED BY <2>2, <2>4, <2>5, <2>6
<1>4. rank \in Injection(V, 0 .. C - 1)
  <2>1. rank \in [V -> 0 .. C - 1]
    BY <1>2
  <2> HIDE DEF rank, Below, C
  <2>2. ASSUME NEW p \in V, NEW q \in V, rank[p] = rank[q]
        PROVE  p = q
    <3>1. rank[p] \in Int /\ rank[q] \in Int
      BY <2>1
    <3>2. ~(p < q)
      BY <3>1, <2>2, <1>3
    <3>3. ~(q < p)
      BY <3>1, <2>2, <1>3
    <3> QED BY <3>2, <3>3
  <2> QED BY <2>1, <2>2 DEF Injection, IsInjective
<1>5. IsFiniteSet(0 .. C - 1) /\ Cardinality(0 .. C - 1) = C
  <2> HIDE DEF C
  <2> QED BY <1>1, FS_Interval
<1>6. rank \in Surjection(V, 0 .. C - 1)
  <2> HIDE DEF rank
  <2> QED BY <1>4, <1>5, FS_Injection
<1>7. \A p \in V : rank[p] = Rank(V, p)
  BY DEF Rank
<1> HIDE DEF rank
<1>8. \A p, q \in V : rank[p] = rank[q] => p = q
  BY <1>4 DEF Injection, IsInjective
<1>9. \A p \in V : rank[p] \in 0 .. C - 1
  BY <1>6 DEF Surjection
<1>10. \A i \in 0 .. C - 1 : \E p \in V : rank[p] = i
  BY <1>6 DEF Surjection
<1>11. \A p \in V : Rank(V, p) \in 0 .. C - 1
  BY <1>7, <1>9, Zenon
<1>12. \A p, q \in V : Rank(V, p) = Rank(V, q) => p = q
  BY <1>7, <1>8, Zenon
<1>13. \A i \in 0 .. C - 1 : \E p \in V : Rank(V, p) = i
  BY <1>7, <1>10, Zenon
<1> QED BY <1>1, <1>11, <1>12, <1>13

(* select_leader never comes back empty-handed: index round % len of the   *)
(* sorted validators exists, and is the leader's.                          *)
LEMMA LeaderExists ==
  ASSUME NEW V \in SUBSET Int, IsFiniteSet(V), V # {}, NEW r \in Nat
  PROVE  select_leader(V, r) \in V /\ Rank(V, select_leader(V, r)) = r % Cardinality(V)
<1>1. r % Cardinality(V) \in 0 .. Cardinality(V) - 1
  BY RankOnto
<1>2. PICK p \in V : Rank(V, p) = r % Cardinality(V)
  BY <1>1, RankOnto
<1> QED BY <1>2 DEF select_leader, Rank

(* Division by a number that need not be known.                            *)
LEMMA Remainder ==
  ASSUME NEW c \in Nat \ {0}, NEW a \in Nat
  PROVE  /\ a % c \in 0 .. c - 1
         /\ \A k \in 0 .. c - 1 :
              (a + k) % c = IF (a % c) + k < c THEN (a % c) + k ELSE (a % c) + k - c
<1>1. a % c \in 0 .. c - 1
  OBVIOUS
<1>2. ASSUME NEW x \in Nat, NEW q \in Nat, NEW m \in 0 .. c - 1, x = c * q + m
      PROVE  x % c = m
  <2> DEFINE d == x \div c
             n == x % c
  <2>1. x = c * d + n /\ d \in Int /\ n \in 0 .. c - 1
    OBVIOUS
  <2> HIDE DEF d, n
  <2>2. c * (d - q) = m - n
    BY <1>2, <2>1
  <2>3. ~(d - q >= 1)
    <3>1. \A z \in Int : z >= 1 => c * z >= c
      OBVIOUS
    <3> QED BY <2>1, <2>2, <3>1
  <2>4. ~(d - q <= -1)
    <3>1. \A z \in Int : z <= -1 => c * z <= -c
      OBVIOUS
    <3> QED BY <2>1, <2>2, <3>1
  <2>5. d = q
    BY <2>1, <2>3, <2>4
  <2>6. n = m
    BY <1>2, <2>1, <2>5
  <2> QED BY <2>6 DEF n
<1>3. ASSUME NEW k \in 0 .. c - 1
      PROVE  (a + k) % c = IF (a % c) + k < c THEN (a % c) + k ELSE (a % c) + k - c
  <2> DEFINE q == a \div c
             m == a % c
  <2>1. a = c * q + m /\ q \in Nat /\ m \in 0 .. c - 1
    OBVIOUS
  <2> HIDE DEF q, m
  <2>2. CASE m + k < c
    <3>1. a + k = c * q + (m + k) /\ m + k \in 0 .. c - 1
      BY <2>1, <2>2
    <3> QED BY <1>2, <2>1, <2>2, <3>1 DEF m
  <2>3. CASE ~(m + k < c)
    <3>1. c * (q + 1) = c * q + c
      BY <2>1
    <3>2. a + k = c * (q + 1) + (m + k - c) /\ m + k - c \in 0 .. c - 1 /\ q + 1 \in Nat
      BY <2>1, <2>3, <3>1
    <3>3. a + k \in Nat
      BY <2>1
    <3>4. (a + k) % c = m + k - c
      BY ONLY <1>2, <3>2, <3>3, Zenon
    <3> QED BY <2>3, <3>4 DEF m
  <2> QED BY <2>2, <2>3 DEF m
<1> QED BY <1>1, <1>3

(* Nobody is left out: of any len consecutive rounds, whichever the first, *)
(* every validator leads exactly one.                                      *)
THEOREM EveryoneLeads ==
  \A r \in Nat, p \in Validators :
    /\ \E k \in 0 .. N - 1 : select_leader(Validators, r + k) = p
    /\ \A j, k \in 0 .. N - 1 : select_leader(Validators, r + j) = p
                               /\ select_leader(Validators, r + k) = p => j = k
<1> TAKE r \in Nat, p \in Validators
<1> DEFINE m == r % N
           i == Rank(Validators, p)
<1>1. /\ N \in Nat \ {0} /\ i \in 0 .. N - 1
      /\ \A q \in Validators : Rank(Validators, q) = i => q = p
  BY RankOnto, ValidatorsAssumption DEF N
<1>2. /\ m \in 0 .. N - 1
      /\ \A k \in 0 .. N - 1 : (r + k) % N = IF m + k < N THEN m + k ELSE m + k - N
  BY <1>1, Remainder, Zenon
<1>3. ASSUME NEW k \in 0 .. N - 1
      PROVE  select_leader(Validators, r + k) = p <=> (r + k) % N = i
  <2>1. r + k \in Nat
    BY <1>1
  <2>2. /\ select_leader(Validators, r + k) \in Validators
        /\ Rank(Validators, select_leader(Validators, r + k)) = (r + k) % N
    BY <2>1, LeaderExists, ValidatorsAssumption DEF N
  <2> QED BY <1>1, <2>2
<1> HIDE DEF m, i
<1>4. \E k \in 0 .. N - 1 : (r + k) % N = i
  <2>1. CASE m <= i
    <3>1. i - m \in 0 .. N - 1 /\ m + (i - m) = i /\ i < N
      BY <1>1, <1>2, <2>1
    <3>2. (r + (i - m)) % N = i
      BY <1>2, <3>1
    <3> QED BY <3>1, <3>2
  <2>2. CASE i < m
    <3> DEFINE k == i - m + N
    <3>1. k \in 0 .. N - 1 /\ ~(m + k < N) /\ m + k - N = i
      BY <1>1, <1>2, <2>2
    <3> HIDE DEF k
    <3>2. (r + k) % N = m + k - N
      BY ONLY <1>2, <3>1, Zenon
    <3> QED BY <3>1, <3>2, Zenon
  <2> QED BY <1>1, <1>2, <2>1, <2>2
<1>5. \A j, k \in 0 .. N - 1 : (r + j) % N = i /\ (r + k) % N = i => j = k
  BY <1>1, <1>2
<1> QED BY <1>3, <1>4, <1>5, Zenon

LEMMA LeaderType == \A r \in Nat : select_leader(Validators, r) \in Validators
  BY LeaderExists, ValidatorsAssumption

-----------------------------------------------------------------------------
(* Types of what a step writes *)

(* Publishing well-typed messages keeps the network well-typed. *)
LEMMA PublishType ==
  ASSUME TypeOK, NEW n \in Validators, NEW done, NEW msgs \in SUBSET Message,
         Publish(n, done, msgs)
  PROVE  /\ sent' \subseteq Message
         /\ inbox' \in [Validators -> SUBSET sent']
         /\ sent \subseteq sent'
<1>1. sent' \subseteq Message /\ sent \subseteq sent'
  BY DEF TypeOK, Publish
<1>2. ASSUME NEW p \in Validators
      PROVE  (IF p = n THEN inbox[p] \ done ELSE inbox[p] \cup msgs) \in SUBSET sent'
  BY DEF TypeOK, Publish
<1>3. inbox' \in [Validators -> SUBSET sent']
  BY <1>2 DEF Publish
<1> QED BY <1>1, <1>3

LEMMA ProposedBlockType ==
  ASSUME TypeOK, NEW n \in Validators, NEW p \in Validators
  PROVE  get_proposed_block(n, p) \in Block
<1>1. Len(blocks[n]) \in Nat
  BY DEF TypeOK
<1> QED BY <1>1 DEF TypeOK, get_proposed_block, Height, Block

LEMMA NewRoundMsgsType ==
  ASSUME TypeOK, NEW n \in Validators
  PROVE  NewRoundMsgs(n) \subseteq Message
<1>1. current_round[n] + 1 \in Nat
  BY DEF TypeOK
<1> QED BY <1>1 DEF NewRoundMsgs, Message, Announcement

LEMMA VoteMsgType ==
  ASSUME TypeOK, NEW n \in Validators, NEW type \in {"Prevote", "Precommit"},
         NEW block \in Block
  PROVE  VoteMsg(n, type, block) \in Message
  BY DEF TypeOK, VoteMsg, Message, Vote

LEMMA InboxType ==
  ASSUME TypeOK, NEW n \in Validators, NEW m \in inbox[n]
  PROVE  /\ m \in sent /\ m \in Message
         /\ m.type = "LeaderAnnouncement" => m \in Announcement
         /\ m.type = "BlockProposal" => m \in Proposal
         /\ m.type \in {"Prevote", "Precommit"} => m \in Vote
         /\ m.type = "Transaction" => m \in TxGossip
<1>1. m \in sent /\ m \in Message
  BY DEF TypeOK
<1> QED BY <1>1 DEF Message, Announcement, Proposal, Vote, TxGossip

(* start_new_round writes well-typed values: the leader it picks exists.   *)
LEMMA StartType ==
  ASSUME TypeOK, NEW n \in Validators, validators[n] = Validators,
         NEW phase \in {"WaitingForPropose", "Prevote"}, start_new_round(n, phase)
  PROVE  /\ current_round' \in [Validators -> Nat]
         /\ proposer' \in [Validators -> Validators]
         /\ is_leader' \in [Validators -> BOOLEAN]
         /\ current_state' \in [Validators -> {"WaitingForPropose", "Prevote"}]
         /\ prevotes' \in [Validators -> SUBSET Validators]
         /\ precommits' \in [Validators -> SUBSET Validators]
         /\ block_finalized' \in [Validators -> BOOLEAN]
<1>1. current_round[n] + 1 \in Nat
  BY DEF TypeOK
<1>2. select_leader(validators[n], current_round[n] + 1) \in Validators
  BY <1>1, LeaderType
<1> QED BY <1>1, <1>2 DEF TypeOK, start_new_round

-----------------------------------------------------------------------------
(* Type correctness is preserved *)

LEMMA TypeStep ==
  ASSUME TypeOK, LeaderInv, [Next]_vars
  PROVE  TypeOK'
<1> USE DEF chain, tally, view, net
<1>1. ASSUME NEW n \in Validators, RoundTimer(n) PROVE TypeOK'
  <2> DEFINE leads == select_leader(validators[n], current_round[n] + 1) = n
             msgs == NewRoundMsgs(n) \cup
                       (IF leads THEN {[type |-> "BlockProposal", from |-> n,
                                        block |-> get_proposed_block(n, n)]}
                                 ELSE {})
             phase == IF leads THEN "Prevote" ELSE "WaitingForPropose"
  <2>1. msgs \in SUBSET Message
    BY NewRoundMsgsType, ProposedBlockType DEF Message, Proposal
  <2>2. phase \in {"WaitingForPropose", "Prevote"} /\ validators[n] = Validators
    BY DEF LeaderInv
  <2>3. start_new_round(n, phase) /\ Publish(n, {}, msgs)
    BY <1>1 DEF RoundTimer, propose_block_as_leader
  <2> HIDE DEF msgs, phase
  <2>4. UNCHANGED <<validators, current_height, chain, last_finalized>>
    BY <1>1 DEF RoundTimer, propose_block_as_leader
  <2>5. /\ sent' \subseteq Message
        /\ inbox' \in [Validators -> SUBSET sent']
    BY <2>1, <2>3, PublishType
  <2>6. /\ current_round' \in [Validators -> Nat]
        /\ proposer' \in [Validators -> Validators]
        /\ is_leader' \in [Validators -> BOOLEAN]
        /\ current_state' \in [Validators -> {"WaitingForPropose", "Prevote"}]
        /\ prevotes' \in [Validators -> SUBSET Validators]
        /\ precommits' \in [Validators -> SUBSET Validators]
        /\ block_finalized' \in [Validators -> BOOLEAN]
    BY <2>2, <2>3, StartType
  <2> QED BY <2>4, <2>5, <2>6 DEF TypeOK
<1>2. ASSUME NEW n \in Validators, TriggerConsensusRound(n) PROVE TypeOK'
  <2>1. validators[n] = Validators
    BY DEF LeaderInv
  <2> QED BY <1>2, <2>1, NewRoundMsgsType, PublishType, StartType, Zenon
          DEF TriggerConsensusRound, TypeOK
<1>3. ASSUME NEW n \in Validators, NEW p \in Validators, Subscribed(n, p) PROVE TypeOK'
  <2>1. validators[n] = Validators
    BY DEF LeaderInv
  <2>2. validators' \in [Validators -> SUBSET Validators]
    BY <1>3 DEF Subscribed, TypeOK
  <2>3. CASE UNCHANGED <<view, tally, net>>
    BY <1>3, <2>2, <2>3 DEF Subscribed, TypeOK
  <2>4. CASE start_new_round(n, "WaitingForPropose") /\ Publish(n, {}, NewRoundMsgs(n))
    BY <1>3, <2>1, <2>2, <2>4, NewRoundMsgsType, PublishType, StartType, Zenon
       DEF Subscribed, TypeOK
  <2> QED BY <1>3, <2>3, <2>4 DEF Subscribed
<1>4. ASSUME NEW n \in Validators, NEW m \in inbox[n], HandleLeaderAnnouncement(n, m)
      PROVE  TypeOK'
  <2>1. m \in Announcement
    BY <1>4, InboxType DEF HandleLeaderAnnouncement
  <2>2. /\ sent' \subseteq Message
        /\ inbox' \in [Validators -> SUBSET sent']
    <3>1. Publish(n, {m}, {})
      BY <1>4 DEF HandleLeaderAnnouncement
    <3> QED BY <3>1, PublishType
  <2>3. /\ current_round' \in [Validators -> Nat]
        /\ proposer' \in [Validators -> Validators]
        /\ is_leader' \in [Validators -> BOOLEAN]
        /\ current_state' \in [Validators -> {"WaitingForPropose", "Prevote"}]
    <3>1. CASE UNCHANGED view
      BY <3>1 DEF TypeOK
    <3>2. CASE AdoptRound(n, m)
      <4>1. m.round \in Nat /\ m.leader \in Validators
        BY <2>1 DEF Announcement
      <4> QED BY <3>2, <4>1 DEF AdoptRound, TypeOK
    <3> QED BY <1>4, <3>1, <3>2 DEF HandleLeaderAnnouncement
  <2>4. UNCHANGED <<validators, tally, current_height, chain, last_finalized>>
    BY <1>4 DEF HandleLeaderAnnouncement
  <2> QED BY <2>2, <2>3, <2>4 DEF TypeOK
<1>5. ASSUME NEW n \in Validators, NEW m \in inbox[n], HandleBlockProposal(n, m)
      PROVE  TypeOK'
  <2>1. m.block \in Block
    BY <1>5, InboxType DEF HandleBlockProposal, Proposal
  <2>2. VoteMsg(n, "Prevote", m.block) \in Message
    BY <2>1, VoteMsgType
  <2>3. /\ sent' \subseteq Message
        /\ inbox' \in [Validators -> SUBSET sent']
    BY <1>5, <2>2, PublishType DEF HandleBlockProposal
  <2> QED BY <1>5, <2>3, Zenon DEF HandleBlockProposal, TypeOK
<1>6. ASSUME NEW n \in Validators, NEW m \in inbox[n], HandlePrevote(n, m)
      PROVE  TypeOK'
  <2>1. m.block \in Block /\ m.from \in Validators
    BY <1>6, InboxType DEF HandlePrevote, Vote
  <2>2. VoteMsg(n, "Precommit", m.block) \in Message
    BY <2>1, VoteMsgType
  <2>3. /\ sent' \subseteq Message
        /\ inbox' \in [Validators -> SUBSET sent']
    BY <1>6, <2>2, PublishType DEF HandlePrevote
  <2>4. prevotes' \in [Validators -> SUBSET Validators]
    BY <1>6, <2>1, Zenon DEF HandlePrevote, TypeOK
  <2> QED BY <1>6, <2>3, <2>4, Zenon DEF HandlePrevote, TypeOK
<1>7. ASSUME NEW n \in Validators, NEW m \in inbox[n], HandlePrecommit(n, m)
      PROVE  TypeOK'
  <2>1. m.from \in Validators
    BY <1>7, InboxType, Zenon DEF HandlePrecommit, Vote
  <2>2. /\ sent' \subseteq Message
        /\ inbox' \in [Validators -> SUBSET sent']
    <3>1. Publish(n, {m}, {})
      BY <1>7, Zenon DEF HandlePrecommit
    <3> QED BY <3>1, PublishType
  <2>3. precommits' \in [Validators -> SUBSET Validators]
    BY <1>7, <2>1, Zenon DEF HandlePrecommit, TypeOK
  <2>4. block_finalized' \in [Validators -> BOOLEAN]
    BY <1>7, Zenon DEF HandlePrecommit, TypeOK
  <2>5. CASE /\ FinalizeAndStoreBlock(n, get_proposed_block(n, n))
             /\ current_height' = [current_height EXCEPT ![n] = get_proposed_block(n, n).height]
             /\ last_finalized' = [last_finalized EXCEPT ![n] = current_round[n]]
    <3>1. get_proposed_block(n, n) \in Block
      BY ProposedBlockType
    <3>2. blocks' \in [Validators -> Seq(Block)] /\ pending' \in [Validators -> SUBSET Txs]
      BY <2>5, <3>1 DEF FinalizeAndStoreBlock, TypeOK
    <3>3. /\ current_height' \in [Validators -> Nat]
          /\ last_finalized' \in [Validators -> Nat \cup {-1}]
      BY <2>5, <3>1, Zenon DEF Block, TypeOK
    <3> QED BY <1>7, <2>2, <2>3, <2>4, <3>2, <3>3 DEF HandlePrecommit, TypeOK
  <2>6. CASE UNCHANGED <<chain, current_height, last_finalized>>
    BY <1>7, <2>2, <2>3, <2>4, <2>6, Zenon DEF HandlePrecommit, TypeOK
  <2> QED BY <1>7, <2>5, <2>6, Zenon DEF HandlePrecommit
<1>8. ASSUME NEW n \in Validators, NEW m \in inbox[n], ReceiveTx(n, m)
      PROVE  TypeOK'
  <2>1. m.tx \in Txs
    BY <1>8, InboxType DEF ReceiveTx, TxGossip
  <2>2. /\ sent' \subseteq Message
        /\ inbox' \in [Validators -> SUBSET sent']
    BY <1>8, PublishType DEF ReceiveTx
  <2> QED BY <1>8, <2>1, <2>2, Zenon DEF ReceiveTx, TypeOK
<1>9. ASSUME NEW n \in Validators, NEW t \in Txs, SubmitTx(n, t)
      PROVE  TypeOK'
  <2>1. {[type |-> "Transaction", from |-> n, tx |-> t]} \in SUBSET Message
    BY DEF Message, TxGossip
  <2>2. /\ sent' \subseteq Message
        /\ inbox' \in [Validators -> SUBSET sent']
    BY <1>9, <2>1, PublishType DEF SubmitTx
  <2> QED BY <1>9, <2>2, Zenon DEF SubmitTx, TypeOK
<1>10. CASE UNCHANGED vars
  BY <1>10 DEF vars, TypeOK
<1> QED BY <1>1, <1>2, <1>3, <1>4, <1>5, <1>6, <1>7, <1>8, <1>9, <1>10, Zenon DEF Next, Receive

-----------------------------------------------------------------------------
(* Leaders *)

LEMMA StartLeader ==
  ASSUME TypeOK, LeaderInv, NEW n \in Validators, NEW phase, start_new_round(n, phase),
         validators' = validators
  PROVE  /\ \A p \in Validators : /\ validators'[p] = Validators
                                  /\ proposer'[p] = LeaderOf(current_round'[p])
                                  /\ is_leader'[p] = (proposer'[p] = p)
         /\ \A m \in NewRoundMsgs(n) : m.round > 0 /\ m.leader = LeaderOf(m.round)
<1>1. /\ current_round[n] + 1 \in Nat /\ current_round[n] + 1 > 0
      /\ validators[n] = Validators
  BY DEF TypeOK, LeaderInv
<1>2. LeaderOf(current_round[n] + 1) = select_leader(validators[n], current_round[n] + 1)
  BY <1>1 DEF LeaderOf
<1>3. \A m \in NewRoundMsgs(n) : m.round > 0 /\ m.leader = LeaderOf(m.round)
  BY <1>1, <1>2 DEF NewRoundMsgs
<1> HIDE DEF LeaderOf
<1>4. ASSUME NEW p \in Validators
      PROVE  /\ validators'[p] = Validators
             /\ proposer'[p] = LeaderOf(current_round'[p])
             /\ is_leader'[p] = (proposer'[p] = p)
  BY <1>1, <1>2, Zenon DEF start_new_round, TypeOK, LeaderInv
<1> QED BY <1>3, <1>4

-----------------------------------------------------------------------------
(* What a step sends and stores *)

LEMMA Sent ==
  ASSUME NEW n, NEW done, NEW msgs, Publish(n, done, msgs)
  PROVE  sent' = sent \cup msgs
  BY DEF Publish

(* Only a valid proposal and a quorum of prevotes are answered.            *)
LEMMA Answers ==
  ASSUME NEW n \in Validators, NEW m, Receive(n, m), NEW v \in sent', v \notin sent
  PROVE  \/ /\ HandleBlockProposal(n, m) /\ IsValidProposal(n, m.block)
            /\ v = VoteMsg(n, "Prevote", m.block) /\ v.type = "Prevote"
         \/ /\ HandlePrevote(n, m) /\ Cardinality(prevotes'[n]) >= Quorum(n)
            /\ v = VoteMsg(n, "Precommit", m.block) /\ v.type = "Precommit"
<1>1. CASE HandleBlockProposal(n, m)
  <2> DEFINE msgs == IF IsValidProposal(n, m.block)
                     THEN {VoteMsg(n, "Prevote", m.block)} ELSE {}
  <2>1. Publish(n, {m}, msgs)
    BY <1>1 DEF HandleBlockProposal
  <2> HIDE DEF msgs
  <2>2. v \in msgs
    BY <2>1, Sent
  <2>3. IsValidProposal(n, m.block) /\ v = VoteMsg(n, "Prevote", m.block)
    BY <2>2 DEF msgs
  <2>4. v.type = "Prevote"
    BY <2>3 DEF VoteMsg
  <2> QED BY <1>1, <2>3, <2>4
<1>2. CASE HandlePrevote(n, m)
  <2> DEFINE new == m.from \in validators[n] /\ m.from \notin prevotes[n]
             msgs == IF new /\ Cardinality(prevotes'[n]) >= Quorum(n)
                     THEN {VoteMsg(n, "Precommit", m.block)} ELSE {}
  <2>1. Publish(n, {m}, msgs)
    BY <1>2 DEF HandlePrevote
  <2> HIDE DEF msgs
  <2>2. v \in msgs
    BY <2>1, Sent
  <2>3. Cardinality(prevotes'[n]) >= Quorum(n) /\ v = VoteMsg(n, "Precommit", m.block)
    BY <2>2 DEF msgs
  <2>4. v.type = "Precommit"
    BY <2>3 DEF VoteMsg
  <2> QED BY <1>2, <2>3, <2>4, Zenon
<1>3. CASE Publish(n, {m}, {})
  BY <1>3, Sent
<1> QED BY <1>1, <1>2, <1>3
        DEF Receive, HandleLeaderAnnouncement, HandlePrecommit, ReceiveTx

(* What the round interval sends. *)
LEMMA TimerSends ==
  ASSUME NEW n \in Validators, RoundTimer(n), NEW v \in sent', v \notin sent
  PROVE  \/ v.type = "LeaderAnnouncement"
         \/ v.type = "BlockProposal" /\ v.block.proposer = v.from
<1> DEFINE msgs == NewRoundMsgs(n) \cup
                     (IF select_leader(validators[n], current_round[n] + 1) = n
                      THEN {propose_block_as_leader(n)} ELSE {})
<1>1. Publish(n, {}, msgs)
  BY DEF RoundTimer
<1>2. \A m \in NewRoundMsgs(n) : m.type = "LeaderAnnouncement"
  BY DEF NewRoundMsgs
<1>3. /\ propose_block_as_leader(n).type = "BlockProposal"
      /\ propose_block_as_leader(n).block.proposer = propose_block_as_leader(n).from
  BY DEF propose_block_as_leader, get_proposed_block
<1> HIDE DEF msgs
<1>4. v \in msgs
  BY <1>1, Sent, Zenon
<1> QED BY <1>2, <1>3, <1>4, Zenon DEF msgs

(* Every new message is an announcement, a transaction, a proposal of the  *)
(* sender's own block, or the answer to a message.                         *)
LEMMA NewMessages ==
  ASSUME [Next]_vars, NEW v \in sent', v \notin sent
  PROVE  \/ v.type \in {"LeaderAnnouncement", "Transaction"}
         \/ v.type = "BlockProposal" /\ v.block.proposer = v.from
         \/ /\ v.type = "Prevote"
            /\ \E n \in Validators : \E m \in inbox[n] :
                 /\ HandleBlockProposal(n, m) /\ IsValidProposal(n, m.block)
                 /\ v = VoteMsg(n, "Prevote", m.block)
         \/ /\ v.type = "Precommit"
            /\ \E n \in Validators : \E m \in inbox[n] :
                 /\ HandlePrevote(n, m) /\ Cardinality(prevotes'[n]) >= Quorum(n)
                 /\ v = VoteMsg(n, "Precommit", m.block)
<1>1. ASSUME NEW n \in Validators, Publish(n, {}, NewRoundMsgs(n))
      PROVE  v.type = "LeaderAnnouncement"
  <2>1. v \in NewRoundMsgs(n)
    BY <1>1, Sent
  <2> QED BY <2>1 DEF NewRoundMsgs
<1>2. ASSUME NEW n \in Validators, NEW t \in Txs, SubmitTx(n, t)
      PROVE  v.type = "Transaction"
  <2>1. Publish(n, {}, {[type |-> "Transaction", from |-> n, tx |-> t]})
    BY <1>2 DEF SubmitTx
  <2>2. v \in {[type |-> "Transaction", from |-> n, tx |-> t]}
    BY <2>1, Sent, Zenon
  <2> QED BY <2>2
<1>3. CASE \E n \in Validators : \E m \in inbox[n] : Receive(n, m)
  BY <1>3, Answers
<1>4. ASSUME NEW n \in Validators,
             TriggerConsensusRound(n) \/ \E p \in Validators \ {n} : Subscribed(n, p)
      PROVE  Publish(n, {}, NewRoundMsgs(n))
  BY <1>4 DEF TriggerConsensusRound, Subscribed, net
<1>5. ~UNCHANGED vars
  BY Zenon DEF vars, net
<1> QED BY <1>1, <1>2, <1>3, <1>4, <1>5, TimerSends, Zenon DEF Next

(* Only a precommit makes a node store a block. *)
LEMMA NewBlocks ==
  ASSUME [Next]_vars, blocks' # blocks
  PROVE  \E n \in Validators : \E m \in inbox[n] : HandlePrecommit(n, m)
<1> USE DEF chain
<1>1. ASSUME NEW n \in Validators
      PROVE  /\ ~RoundTimer(n) /\ ~TriggerConsensusRound(n)
             /\ \A p \in Validators \ {n} : ~Subscribed(n, p)
             /\ \A t \in Txs : ~SubmitTx(n, t)
  BY Zenon DEF RoundTimer, TriggerConsensusRound, Subscribed, SubmitTx
<1>2. ASSUME NEW n \in Validators, NEW m \in inbox[n], Receive(n, m)
      PROVE  HandlePrecommit(n, m)
  BY <1>2 DEF Receive, HandleLeaderAnnouncement, HandleBlockProposal, HandlePrevote, ReceiveTx
<1>3. ~UNCHANGED vars
  BY Zenon DEF vars
<1> QED BY <1>1, <1>2, <1>3, Zenon DEF Next

-----------------------------------------------------------------------------
(* Leaders *)

(* A step that changes no view and announces nothing keeps LeaderInv. *)
LEMMA SameView ==
  ASSUME LeaderInv, UNCHANGED <<view, validators>>,
         \A m \in sent' : m.type = "LeaderAnnouncement" => m \in sent
  PROVE  LeaderInv'
  BY Zenon DEF LeaderInv, view, LeaderOf

LEMMA LeaderStep ==
  ASSUME TypeOK, LeaderInv, [Next]_vars
  PROVE  LeaderInv'
<1> USE DEF chain, tally, view, net
<1>1. ASSUME NEW n \in Validators, NEW phase, validators' = validators,
             start_new_round(n, phase),
             \A m \in sent' : m.type = "LeaderAnnouncement" =>
                               m \in sent \cup NewRoundMsgs(n)
      PROVE  LeaderInv'
  BY <1>1, StartLeader DEF LeaderInv, LeaderOf
<1>2. ASSUME NEW n \in Validators, RoundTimer(n) PROVE LeaderInv'
  <2> DEFINE phase == IF select_leader(validators[n], current_round[n] + 1) = n
                      THEN "Prevote" ELSE "WaitingForPropose"
  <2>1. start_new_round(n, phase) /\ validators' = validators
    BY <1>2, Zenon DEF RoundTimer, propose_block_as_leader
  <2>2. \A m \in sent' : m.type = "LeaderAnnouncement" => m \in sent \cup NewRoundMsgs(n)
    BY <1>2 DEF RoundTimer, propose_block_as_leader, Publish
  <2> HIDE DEF phase
  <2> QED BY <2>1, <2>2, <1>1, Zenon
<1>3. ASSUME NEW n \in Validators, TriggerConsensusRound(n) PROVE LeaderInv'
  <2>1. /\ start_new_round(n, "WaitingForPropose") /\ validators' = validators
        /\ sent' = sent \cup NewRoundMsgs(n)
    BY <1>3 DEF TriggerConsensusRound, Publish
  <2> QED BY <2>1, <1>1
<1>4. ASSUME NEW n \in Validators, NEW p \in Validators, Subscribed(n, p) PROVE LeaderInv'
  <2>1. validators' = validators
    <3>1. validators[n] \cup {p} = validators[n]
      BY DEF LeaderInv
    <3> QED BY <1>4, <3>1 DEF Subscribed, TypeOK
  <2>2. CASE UNCHANGED <<view, tally, net>>
    BY <2>1, <2>2, SameView
  <2>3. CASE start_new_round(n, "WaitingForPropose") /\ Publish(n, {}, NewRoundMsgs(n))
    <3>1. sent' = sent \cup NewRoundMsgs(n)
      BY <2>3, Zenon DEF Publish
    <3> QED BY <2>1, <2>3, <3>1, <1>1
  <2> QED BY <1>4, <2>2, <2>3 DEF Subscribed
<1>5. ASSUME NEW n \in Validators, NEW m \in inbox[n], HandleLeaderAnnouncement(n, m)
      PROVE  LeaderInv'
  <2>1. m \in sent /\ m.type = "LeaderAnnouncement" /\ m \in Announcement
    BY <1>5, InboxType DEF HandleLeaderAnnouncement
  <2>2. m.leader = LeaderOf(m.round)
    BY <2>1 DEF LeaderInv
  <2>3. sent' = sent /\ validators' = validators
    BY <1>5 DEF HandleLeaderAnnouncement, Publish
  <2>4. CASE UNCHANGED view
    BY <2>3, <2>4, SameView, Zenon
  <2>5. CASE AdoptRound(n, m)
    BY <2>2, <2>3, <2>5, Zenon DEF AdoptRound, TypeOK, LeaderInv, LeaderOf
  <2> QED BY <1>5, <2>4, <2>5, Zenon DEF HandleLeaderAnnouncement
<1>6. ASSUME NEW n \in Validators, NEW m \in inbox[n],
             \/ HandleBlockProposal(n, m) \/ HandlePrevote(n, m)
             \/ HandlePrecommit(n, m) \/ ReceiveTx(n, m)
      PROVE  LeaderInv'
  <2>1. UNCHANGED <<view, validators>>
    BY <1>6 DEF HandleBlockProposal, HandlePrevote, HandlePrecommit, ReceiveTx
  <2>2. \A k \in sent' : k.type = "LeaderAnnouncement" => k \in sent
    <3>1. Receive(n, m)
      BY <1>6 DEF Receive
    <3>2. ASSUME NEW k \in sent', k \notin sent PROVE k.type # "LeaderAnnouncement"
      BY <3>1, <3>2, Answers
    <3> QED BY <3>2
  <2> QED BY <2>1, <2>2, SameView
<1>7. ASSUME NEW n \in Validators, NEW t \in Txs, SubmitTx(n, t) PROVE LeaderInv'
  <2>1. UNCHANGED <<view, validators>>
    BY <1>7 DEF SubmitTx
  <2>2. \A k \in sent' : k.type = "LeaderAnnouncement" => k \in sent
    <3>1. Publish(n, {}, {[type |-> "Transaction", from |-> n, tx |-> t]})
      BY <1>7 DEF SubmitTx
    <3> QED BY <3>1, Sent
  <2> QED BY <2>1, <2>2, SameView
<1>8. CASE UNCHANGED vars
  BY <1>8, SameView, Zenon DEF vars
<1> QED BY <1>2, <1>3, <1>4, <1>5, <1>6, <1>7, <1>8, Zenon DEF Next, Receive

-----------------------------------------------------------------------------
(* Votes *)

(* Every step is a publication by one node of messages of its own, or      *)
(* leaves the network alone; so no message ever reaches its own sender.    *)
LEMMA NetStep ==
  ASSUME TypeOK, VoteInv, [Next]_vars
  PROVE  /\ sent \subseteq sent'
         /\ \A p \in Validators : \A m \in inbox'[p] : m.from # p
<1> USE DEF chain, tally, view, net
<1>1. ASSUME NEW n \in Validators, NEW done, NEW msgs, Publish(n, done, msgs),
             \A m \in msgs : m.from = n
      PROVE  /\ sent \subseteq sent'
             /\ \A p \in Validators : \A m \in inbox'[p] : m.from # p
  BY <1>1 DEF Publish, TypeOK, VoteInv
<1>2. ASSUME NEW n \in Validators, RoundTimer(n)
      PROVE  /\ sent \subseteq sent'
             /\ \A p \in Validators : \A m \in inbox'[p] : m.from # p
  <2> DEFINE msgs == NewRoundMsgs(n) \cup
                       (IF select_leader(validators[n], current_round[n] + 1) = n
                        THEN {[type |-> "BlockProposal", from |-> n,
                               block |-> get_proposed_block(n, n)]}
                        ELSE {})
  <2>1. \A m \in msgs : m.from = n
    BY DEF NewRoundMsgs
  <2>2. Publish(n, {}, msgs)
    BY <1>2, Zenon DEF RoundTimer, propose_block_as_leader
  <2> HIDE DEF msgs
  <2> QED BY <2>1, <2>2, <1>1, Zenon
<1>3. ASSUME NEW n \in Validators, Publish(n, {}, NewRoundMsgs(n))
      PROVE  /\ sent \subseteq sent'
             /\ \A p \in Validators : \A m \in inbox'[p] : m.from # p
  <2>1. \A m \in NewRoundMsgs(n) : m.from = n
    BY DEF NewRoundMsgs
  <2> QED BY <2>1, <1>1, <1>3, Zenon
<1>4. ASSUME NEW n \in Validators, NEW m \in inbox[n], Receive(n, m)
      PROVE  /\ sent \subseteq sent'
             /\ \A p \in Validators : \A k \in inbox'[p] : k.from # p
  <2>1. CASE HandleBlockProposal(n, m)
    <3> DEFINE msgs == IF IsValidProposal(n, m.block)
                       THEN {VoteMsg(n, "Prevote", m.block)} ELSE {}
    <3>1. \A k \in msgs : k.from = n
      BY DEF VoteMsg
    <3>2. Publish(n, {m}, msgs)
      BY <2>1, Zenon DEF HandleBlockProposal
    <3> HIDE DEF msgs
    <3> QED BY <3>1, <3>2, <1>1, Zenon
  <2>2. CASE HandlePrevote(n, m)
    <3>1. \A k \in {VoteMsg(n, "Precommit", m.block)} : k.from = n
      BY DEF VoteMsg
    <3>2. Publish(n, {m}, {VoteMsg(n, "Precommit", m.block)}) \/ Publish(n, {m}, {})
      BY <2>2, Zenon DEF HandlePrevote
    <3>3. CASE Publish(n, {m}, {VoteMsg(n, "Precommit", m.block)})
      BY <3>1, <3>3, <1>1
    <3>4. CASE Publish(n, {m}, {})
      BY <3>4, <1>1
    <3> QED BY <3>2, <3>3, <3>4
  <2>3. CASE Publish(n, {m}, {})
    BY <2>3, <1>1
  <2> QED BY <1>4, <2>1, <2>2, <2>3, Zenon
          DEF Receive, HandleLeaderAnnouncement, HandlePrecommit, ReceiveTx
<1>5. ASSUME NEW n \in Validators, NEW t \in Txs, SubmitTx(n, t)
      PROVE  /\ sent \subseteq sent'
             /\ \A p \in Validators : \A m \in inbox'[p] : m.from # p
  <2> DEFINE msgs == {[type |-> "Transaction", from |-> n, tx |-> t]}
  <2>1. Publish(n, {}, msgs) /\ \A m \in msgs : m.from = n
    BY <1>5 DEF SubmitTx
  <2> HIDE DEF msgs
  <2> QED BY <2>1, <1>1
<1>6. CASE UNCHANGED net
  BY <1>6 DEF VoteInv
<1> QED BY <1>2, <1>3, <1>4, <1>5, <1>6, Zenon
        DEF Next, TriggerConsensusRound, Subscribed, vars

LEMMA VotersGrow ==
  ASSUME sent \subseteq sent', NEW type, NEW n
  PROVE  Voters(type, n) \subseteq Voters(type, n)'
  BY DEF Voters

(* A counted vote was sent, by another validator. *)
LEMMA VoteStep ==
  ASSUME TypeOK, VoteInv, [Next]_vars
  PROVE  VoteInv'
<1> USE DEF chain, tally, view, net
<1>1. /\ sent \subseteq sent'
      /\ \A p \in Validators : \A m \in inbox'[p] : m.from # p
  BY NetStep
<1>2. \A m \in sent' : m.type = "BlockProposal" => m.block.proposer = m.from
  <2>1. \A m \in sent : m.type = "BlockProposal" => m.block.proposer = m.from
    BY Zenon DEF VoteInv
  <2>2. ASSUME NEW m \in sent', m \notin sent, m.type = "BlockProposal"
        PROVE  m.block.proposer = m.from
    BY <2>2, NewMessages, Zenon
  <2> QED BY <2>1, <2>2
<1>3. ASSUME NEW p \in Validators
      PROVE  /\ prevotes'[p] \subseteq Voters("Prevote", p)'
             /\ precommits'[p] \subseteq Voters("Precommit", p)'
  <2>1. /\ Voters("Prevote", p) \subseteq Voters("Prevote", p)'
        /\ Voters("Precommit", p) \subseteq Voters("Precommit", p)'
        /\ prevotes[p] \subseteq Voters("Prevote", p)
        /\ precommits[p] \subseteq Voters("Precommit", p)
    BY <1>1, VotersGrow DEF VoteInv
  <2>2. CASE prevotes'[p] \subseteq prevotes[p] /\ precommits'[p] \subseteq precommits[p]
    BY <2>1, <2>2, Zenon
  <2>3. ASSUME NEW n \in Validators, NEW phase, start_new_round(n, phase)
        PROVE  prevotes'[p] \subseteq prevotes[p] /\ precommits'[p] \subseteq precommits[p]
    BY <2>3, Zenon DEF start_new_round, TypeOK
  <2>4. ASSUME NEW n \in Validators, NEW m \in inbox[n],
               HandlePrevote(n, m) \/ HandlePrecommit(n, m)
        PROVE  /\ prevotes'[p] \subseteq Voters("Prevote", p)'
               /\ precommits'[p] \subseteq Voters("Precommit", p)'
    <3>1. m \in sent /\ m.from \in Validators /\ m.from # n
      BY <2>4, InboxType, Zenon DEF HandlePrevote, HandlePrecommit, Vote, VoteInv
    <3>2. CASE HandlePrevote(n, m)
      <4>1. m.from \in Voters("Prevote", n)
        BY <3>1, <3>2 DEF HandlePrevote, Voters
      <4>2. p = n => m.from \in Voters("Prevote", p)'
        BY <4>1, <2>1, Zenon
      <4>3. /\ prevotes'[p] \subseteq prevotes[p] \cup {m.from}
            /\ p # n => prevotes'[p] = prevotes[p]
            /\ precommits'[p] = precommits[p]
        BY <3>2, Zenon DEF HandlePrevote, TypeOK
      <4> QED BY <2>1, <4>2, <4>3, Zenon
    <3>3. CASE HandlePrecommit(n, m)
      <4>1. m.from \in Voters("Precommit", n)
        BY <3>1, <3>3, Zenon DEF HandlePrecommit, Voters
      <4>2. p = n => m.from \in Voters("Precommit", p)'
        BY <4>1, <2>1, Zenon
      <4>3. /\ precommits'[p] \subseteq precommits[p] \cup {m.from}
            /\ p # n => precommits'[p] = precommits[p]
            /\ prevotes'[p] = prevotes[p]
        BY <3>3 DEF HandlePrecommit, TypeOK
      <4> QED BY <2>1, <4>2, <4>3, Zenon
    <3> QED BY <2>4, <3>2, <3>3, Zenon
  <2>5. CASE UNCHANGED <<prevotes, precommits>>
    BY <2>1, <2>5
  <2> QED BY <2>2, <2>3, <2>4, <2>5, Zenon
          DEF Next, Receive, RoundTimer, propose_block_as_leader, TriggerConsensusRound, Subscribed,
              HandleLeaderAnnouncement, HandleBlockProposal, ReceiveTx, SubmitTx, vars
<1> QED BY <1>1, <1>2, <1>3 DEF VoteInv

(* A prevote is for a block of the leader its sender believes in. *)
LEMMA BackStep ==
  ASSUME TypeOK, LeaderInv, VoteInv, PrevoteBacksTheLeader, [Next]_vars
  PROVE  PrevoteBacksTheLeader'
<1> USE DEF chain, tally, view, net
<1> DEFINE Backed(v) == \E p \in sent : /\ p.type = "BlockProposal"
                                        /\ p.from = LeaderOf(v.round)
                                        /\ p.block = v.block
<1>1. \A v \in sent : v.type = "Prevote" => Backed(v)
  BY DEF PrevoteBacksTheLeader
<1>2. \A v \in sent' : v.type = "Prevote" => Backed(v)
  <2>1. ASSUME NEW n \in Validators, NEW m \in inbox[n], HandleBlockProposal(n, m),
               IsValidProposal(n, m.block)
        PROVE  Backed(VoteMsg(n, "Prevote", m.block))
    <3>1. m \in sent /\ m.type = "BlockProposal" /\ m.block.proposer = m.from
      BY <2>1, InboxType DEF HandleBlockProposal, VoteInv
    <3>2. m.from = LeaderOf(current_round[n])
      <4>1. m.block.proposer = proposer[n]
        BY <2>1 DEF IsValidProposal, get_proposed_block
      <4> QED BY <3>1, <4>1 DEF LeaderInv
    <3> QED BY <3>1, <3>2 DEF VoteMsg
  <2> HIDE DEF Backed
  <2>2. ASSUME NEW v \in sent', v \notin sent, v.type = "Prevote"
        PROVE  Backed(v)
    <3>1. PICK n \in Validators : \E m \in inbox[n] :
            /\ HandleBlockProposal(n, m) /\ IsValidProposal(n, m.block)
            /\ v = VoteMsg(n, "Prevote", m.block)
      BY <2>2, NewMessages
    <3> QED BY <3>1, <2>1, Zenon
  <2> QED BY <1>1, <2>2
<1>3. sent \subseteq sent'
  BY NetStep
<1> QED BY <1>2, <1>3, Zenon DEF PrevoteBacksTheLeader, LeaderOf, select_leader

(* A number of votes that the senders once had, or that a set of them has, *)
(* they have after the step too.                                           *)
LEMMA Counted ==
  ASSUME NEW type, NEW n, NEW S, S \subseteq Voters(type, n)', NEW q \in Nat,
         Cardinality(S) >= q
  PROVE  Cardinality(Voters(type, n)') >= q
<1>1. IsFiniteSet(Voters(type, n)')
  BY FS_Subset, ValidatorsAssumption DEF Voters
<1>2. S \in SUBSET Voters(type, n)'
  OBVIOUS
<1>3. IsFiniteSet(S) /\ Cardinality(S) <= Cardinality(Voters(type, n)')
  BY <1>1, <1>2, FS_Subset
<1>4. Cardinality(S) \in Nat /\ Cardinality(Voters(type, n)') \in Nat
  BY <1>1, <1>3, FS_CardinalityType
<1> QED BY <1>3, <1>4

LEMMA Grown ==
  ASSUME TypeOK, VoteInv, [Next]_vars, NEW type, NEW n, NEW q \in Nat,
         Cardinality(Voters(type, n)) >= q
  PROVE  Cardinality(Voters(type, n)') >= q
<1>1. Voters(type, n) \subseteq Voters(type, n)'
  BY NetStep, VotersGrow, Zenon
<1> QED BY <1>1, Counted, Zenon

(* Precommits and stored blocks rest on quorums of other validators. *)
LEMMA JustifiedStep ==
  ASSUME TypeOK, LeaderInv, VoteInv, VoteInv', LeaderInv', VotesAreJustified, [Next]_vars
  PROVE  VotesAreJustified'
<1> USE DEF chain, tally, view, net
<1> DEFINE Q == (Cardinality(Validators) * 2) \div 3
<1>1. /\ Q \in Nat
      /\ \A p \in Validators : Quorum(p) = Q /\ Quorum(p)' = Q
  <2>1. Cardinality(Validators) \in Nat
    BY FS_CardinalityType, ValidatorsAssumption
  <2>2. ASSUME NEW c \in Nat PROVE (c * 2) \div 3 \in Nat
    OBVIOUS
  <2>3. \A p \in Validators : validators[p] = Validators /\ validators'[p] = Validators
    BY DEF LeaderInv
  <2>4. \A p \in Validators : Quorum(p) = Q /\ Quorum(p)' = Q
    BY <2>3, Zenon DEF Quorum
  <2> QED BY <2>1, <2>2, <2>4
<1> HIDE DEF Q
<1>2. sent \subseteq sent'
  BY NetStep, Zenon
<1>3. \A m \in sent : m.from \in Validators
  BY DEF TypeOK, Message, Announcement, Proposal, Vote, TxGossip
<1>4. \A v \in sent' : v.type = "Precommit" =>
        /\ Cardinality(Voters("Prevote", v.from)') >= Q
        /\ \E u \in sent' : u.type = "Prevote" /\ u.from # v.from /\ u.block = v.block
  <2>1. ASSUME NEW v \in sent, v.type = "Precommit"
        PROVE  /\ Cardinality(Voters("Prevote", v.from)') >= Q
               /\ \E u \in sent' : u.type = "Prevote" /\ u.from # v.from /\ u.block = v.block
    <3>1. Cardinality(Voters("Prevote", v.from)) >= Q
      BY <2>1, <1>1, <1>3 DEF VotesAreJustified
    <3>2. Cardinality(Voters("Prevote", v.from)') >= Q
      BY <3>1, <1>1, Grown, Zenon
    <3>3. \E u \in sent : u.type = "Prevote" /\ u.from # v.from /\ u.block = v.block
      BY <2>1, Zenon DEF VotesAreJustified
    <3> QED BY <3>2, <3>3, <1>2, Zenon
  <2>2. ASSUME NEW v \in sent', v \notin sent, v.type = "Precommit"
        PROVE  /\ Cardinality(Voters("Prevote", v.from)') >= Q
               /\ \E u \in sent' : u.type = "Prevote" /\ u.from # v.from /\ u.block = v.block
    <3>1. PICK n \in Validators : \E m \in inbox[n] :
            /\ HandlePrevote(n, m) /\ Cardinality(prevotes'[n]) >= Quorum(n)
            /\ v = VoteMsg(n, "Precommit", m.block)
      BY <2>2, NewMessages, Zenon
    <3>2. PICK m \in inbox[n] :
            /\ HandlePrevote(n, m) /\ Cardinality(prevotes'[n]) >= Quorum(n)
            /\ v = VoteMsg(n, "Precommit", m.block)
      BY <3>1, Zenon
    <3>3. prevotes'[n] \subseteq Voters("Prevote", n)' /\ Cardinality(prevotes'[n]) >= Q
      BY <3>2, <1>1, Zenon DEF VoteInv
    <3>4. Cardinality(Voters("Prevote", n)') >= Q
      BY <3>3, <1>1, Counted, Zenon
    <3>5. m \in sent' /\ m.type = "Prevote" /\ m.from # n
      BY <3>2, <1>2, InboxType, Zenon DEF HandlePrevote, VoteInv
    <3>6. v.from = n /\ v.block = m.block
      BY <3>2 DEF VoteMsg
    <3> QED BY <3>4, <3>5, <3>6, Zenon
  <2> QED BY <2>1, <2>2
<1>5. ASSUME NEW p \in Validators, blocks'[p] # <<>>
      PROVE  Cardinality(Voters("Precommit", p)') >= Q
  <2>1. CASE blocks[p] # <<>>
    <3>1. Cardinality(Voters("Precommit", p)) >= Q
      BY <2>1, <1>1, Zenon DEF VotesAreJustified
    <3> QED BY <3>1, <1>1, Grown, Zenon
  <2>2. CASE blocks[p] = <<>>
    <3>1. PICK n \in Validators : \E m \in inbox[n] : HandlePrecommit(n, m)
      BY <2>2, <1>5, NewBlocks, Zenon
    <3>2. blocks' = [blocks EXCEPT ![n] = Append(@, get_proposed_block(n, n))]
          /\ Cardinality(precommits'[n]) >= Quorum(n)
      BY <3>1, <2>2, <1>5, Zenon DEF HandlePrecommit, FinalizeAndStoreBlock
    <3>3. n = p
      BY <3>2, <2>2, <1>5, Zenon DEF TypeOK
    <3>4. precommits'[n] \subseteq Voters("Precommit", n)'
      BY Zenon DEF VoteInv
    <3> QED BY <3>2, <3>3, <3>4, <1>1, Counted, Zenon
  <2> QED BY <2>1, <2>2
<1> QED
  <2>1. \A m \in sent' : m.type = "Precommit" => m.from \in Validators
    BY TypeStep, Zenon DEF TypeOK, Message, Announcement, Proposal, Vote, TxGossip
  <2> QED BY <1>1, <1>4, <1>5, <2>1, Zenon DEF VotesAreJustified

(* The round of the last stored block is in the past unless the flag is up. *)
LEMMA FinalizedStep ==
  ASSUME TypeOK, LeaderInv, FinalizedInv, [Next]_vars
  PROVE  FinalizedInv'
<1> USE DEF chain, tally, view, net
<1> SUFFICES ASSUME NEW p \in Validators
             PROVE  /\ last_finalized'[p] <= current_round'[p]
                    /\ ~block_finalized'[p] => last_finalized'[p] < current_round'[p]
  BY DEF FinalizedInv
<1>0. /\ last_finalized[p] <= current_round[p]
      /\ ~block_finalized[p] => last_finalized[p] < current_round[p]
      /\ last_finalized[p] \in Int /\ current_round[p] \in Nat
  BY DEF FinalizedInv, TypeOK
<1>1. ASSUME NEW n \in Validators, NEW phase, start_new_round(n, phase), UNCHANGED last_finalized
      PROVE  /\ last_finalized'[p] <= current_round'[p]
             /\ ~block_finalized'[p] => last_finalized'[p] < current_round'[p]
  BY <1>0, <1>1 DEF start_new_round, TypeOK
<1>2. ASSUME NEW n \in Validators, NEW m \in inbox[n], HandleLeaderAnnouncement(n, m)
      PROVE  /\ last_finalized'[p] <= current_round'[p]
             /\ ~block_finalized'[p] => last_finalized'[p] < current_round'[p]
  <2>1. m \in Announcement
    BY <1>2, InboxType, Zenon DEF HandleLeaderAnnouncement
  <2>2. UNCHANGED <<block_finalized, last_finalized>>
    BY <1>2 DEF HandleLeaderAnnouncement
  <2>3. m.round \in Nat
    BY <2>1 DEF Announcement
  <2>4. current_round'[p] \in Nat /\ current_round'[p] >= current_round[p]
    <3>1. CASE IsCurrent(n, m)
      <4>1. current_round' = [current_round EXCEPT ![n] = m.round]
        BY <1>2, <3>1, Zenon DEF HandleLeaderAnnouncement, AdoptRound
      <4> QED BY <4>1, <3>1, <2>3, <1>0 DEF IsCurrent, TypeOK
    <3>2. CASE ~IsCurrent(n, m)
      BY <1>2, <3>2, <1>0 DEF HandleLeaderAnnouncement
    <3> QED BY <3>1, <3>2, Zenon
  <2> QED BY <1>0, <2>2, <2>4
<1>3. ASSUME NEW n \in Validators, NEW m \in inbox[n], HandlePrecommit(n, m)
      PROVE  /\ last_finalized'[p] <= current_round'[p]
             /\ ~block_finalized'[p] => last_finalized'[p] < current_round'[p]
  <2>1. UNCHANGED current_round
    BY <1>3, Zenon DEF HandlePrecommit
  <2>2. CASE UNCHANGED last_finalized
    <3>1. ~block_finalized'[p] => ~block_finalized[p]
      BY <1>3 DEF HandlePrecommit, TypeOK
    <3> QED BY <1>0, <2>1, <2>2, <3>1, Zenon
  <2>3. CASE last_finalized' # last_finalized
    <3>1. /\ last_finalized' = [last_finalized EXCEPT ![n] = current_round[n]]
          /\ block_finalized' = [block_finalized EXCEPT ![n] = TRUE]
      BY <1>3, <2>3, Zenon DEF HandlePrecommit
    <3>2. CASE p = n
      BY <1>0, <2>1, <3>1, <3>2 DEF TypeOK
    <3>3. CASE p # n
      BY <1>0, <2>1, <3>1, <3>3 DEF TypeOK
    <3> QED BY <3>2, <3>3, Zenon
  <2> QED BY <2>2, <2>3, Zenon
<1>4. CASE UNCHANGED <<current_round, block_finalized, last_finalized>>
  BY <1>0, <1>4
<1>5. ASSUME NEW n \in Validators,
             \/ RoundTimer(n) \/ TriggerConsensusRound(n)
             \/ \E q \in Validators \ {n} : Subscribed(n, q)
             \/ \E t \in Txs : SubmitTx(n, t)
      PROVE  \/ UNCHANGED <<current_round, block_finalized, last_finalized>>
             \/ (\E phase : start_new_round(n, phase)) /\ UNCHANGED last_finalized
  BY <1>5, Zenon DEF RoundTimer, TriggerConsensusRound, Subscribed, SubmitTx
<1>6. ASSUME NEW n \in Validators, NEW m \in inbox[n], Receive(n, m)
      PROVE  \/ HandleLeaderAnnouncement(n, m) \/ HandlePrecommit(n, m)
             \/ UNCHANGED <<current_round, block_finalized, last_finalized>>
  BY <1>6 DEF Receive, HandleBlockProposal, HandlePrevote, ReceiveTx
<1>7. CASE UNCHANGED vars
  BY <1>4, <1>7 DEF vars
<1> QED BY <1>1, <1>2, <1>3, <1>4, <1>5, <1>6, <1>7, Zenon DEF Next

-----------------------------------------------------------------------------
(* Transactions *)

(* Counting the blocks of a transaction, without numbers. *)
LEMMA StoredCount ==
  ASSUME TypeOK, NEW n \in Validators, NEW t
  PROVE  /\ IsFiniteSet(StoredIn(n, t))
         /\ Cardinality(StoredIn(n, t)) = 0 <=> StoredIn(n, t) = {}
<1>1. Len(blocks[n]) \in Nat
  BY DEF TypeOK
<1>2. IsFiniteSet(1..Len(blocks[n]))
  BY <1>1, FS_Interval
<1>3. StoredIn(n, t) \in SUBSET (1..Len(blocks[n]))
  BY DEF StoredIn
<1>4. IsFiniteSet(StoredIn(n, t))
  BY <1>2, <1>3, FS_Subset, Zenon
<1> QED BY <1>4, FS_EmptySet

(* A step that moves no transaction message and changes no chain. *)
LEMMA SameTxs ==
  ASSUME TypeOK, TxInv, ReceivedTxExactlyOnce, UNCHANGED <<pending, blocks>>,
         sent \subseteq sent',
         \A k \in sent' : k.type = "Transaction" => k \in sent,
         \A p \in Validators : \A k \in sent :
           k.type = "Transaction" => (k \in inbox'[p] <=> k \in inbox[p])
  PROVE  TxInv' /\ ReceivedTxExactlyOnce'
<1>1. ASSUME NEW p \in Validators, NEW t
      PROVE  HasReceived(p, t)' <=> HasReceived(p, t)
  BY Zenon DEF HasReceived
<1>2. \A p \in Validators, t \in Txs : StoredIn(p, t)' = StoredIn(p, t)
  BY Zenon DEF StoredIn
<1>3. \A k, m \in sent' : k.type = "Transaction" /\ m.type = "Transaction" /\ k.tx = m.tx => k = m
  <2> SUFFICES ASSUME NEW k \in sent', NEW m \in sent', k.type = "Transaction",
                      m.type = "Transaction", k.tx = m.tx
               PROVE  k = m
    BY Zenon
  <2>1. k \in sent /\ m \in sent
    BY Zenon
  <2> QED BY <2>1, Zenon DEF TxInv
<1>4. \A p \in Validators, t \in Txs :
        t \in pending'[p] \/ StoredIn(p, t)' # {} => HasReceived(p, t)'
  BY <1>1, <1>2 DEF TxInv
<1>5. TxInv'
  BY <1>3, <1>4, Zenon DEF TxInv
<1>6. ReceivedTxExactlyOnce'
  BY <1>1, <1>2 DEF ReceivedTxExactlyOnce
<1> QED BY <1>5, <1>6, Zenon

(* Publishing without transactions, after taking none. *)
LEMMA OtherMessages ==
  ASSUME TypeOK, NEW n \in Validators, NEW done, NEW msgs, Publish(n, done, msgs),
         \A k \in done \cup msgs : k.type # "Transaction"
  PROVE  /\ sent \subseteq sent'
         /\ \A k \in sent' : k.type = "Transaction" => k \in sent
         /\ \A p \in Validators : \A k \in sent :
              k.type = "Transaction" => (k \in inbox'[p] <=> k \in inbox[p])
  BY Zenon DEF TypeOK, Publish

(* A step of any handler but the two of transactions. *)
LEMMA NoTxStep ==
  ASSUME NEW n \in Validators,
         \/ RoundTimer(n) \/ TriggerConsensusRound(n)
         \/ \E p \in Validators \ {n} : Subscribed(n, p)
         \/ \E m \in inbox[n] : \/ HandleLeaderAnnouncement(n, m) \/ HandleBlockProposal(n, m)
                                \/ HandlePrevote(n, m) \/ HandlePrecommit(n, m)
  PROVE  \/ UNCHANGED net
         \/ \E done, msgs : /\ Publish(n, done, msgs)
                            /\ \A k \in done \cup msgs : k.type # "Transaction"
<1>1. \A k \in NewRoundMsgs(n) : k.type # "Transaction"
  BY DEF NewRoundMsgs
<1>2. ASSUME NEW m \in inbox[n], m.type # "Transaction", NEW msgs, Publish(n, {m}, msgs),
             \A k \in msgs : k.type # "Transaction"
      PROVE  \E done, ms : /\ Publish(n, done, ms)
                           /\ \A k \in done \cup ms : k.type # "Transaction"
  BY <1>2
<1>3. CASE RoundTimer(n)
  <2> DEFINE msgs == NewRoundMsgs(n) \cup
                       (IF select_leader(validators[n], current_round[n] + 1) = n
                        THEN {propose_block_as_leader(n)} ELSE {})
  <2>1. Publish(n, {}, msgs)
    BY <1>3, Zenon DEF RoundTimer
  <2>2. \A k \in msgs : k.type # "Transaction"
    BY <1>1 DEF propose_block_as_leader
  <2> HIDE DEF msgs
  <2>3. \A k \in {} \cup msgs : k.type # "Transaction"
    BY <2>2, Zenon
  <2> QED BY <2>1, <2>3, Zenon
<1>4. CASE TriggerConsensusRound(n) \/ \E p \in Validators \ {n} : Subscribed(n, p)
  <2>1. UNCHANGED net \/ Publish(n, {}, NewRoundMsgs(n))
    BY <1>4, Zenon DEF TriggerConsensusRound, Subscribed, net
  <2>2. \A k \in {} \cup NewRoundMsgs(n) : k.type # "Transaction"
    BY <1>1, Zenon
  <2> QED BY <2>1, <2>2, Zenon
<1>5. ASSUME NEW m \in inbox[n], HandleBlockProposal(n, m)
      PROVE  \E done, ms : /\ Publish(n, done, ms)
                           /\ \A k \in done \cup ms : k.type # "Transaction"
  <2> DEFINE msgs == IF IsValidProposal(n, m.block)
                     THEN {VoteMsg(n, "Prevote", m.block)} ELSE {}
  <2>1. Publish(n, {m}, msgs) /\ m.type # "Transaction"
    BY <1>5, Zenon DEF HandleBlockProposal
  <2>2. VoteMsg(n, "Prevote", m.block).type = "Prevote"
    BY Zenon DEF VoteMsg
  <2>3. \A k \in msgs : k.type # "Transaction"
    BY <2>2, Zenon
  <2> HIDE DEF msgs
  <2> QED BY <1>2, <2>1, <2>3, Zenon
<1>6. ASSUME NEW m \in inbox[n], HandlePrevote(n, m)
      PROVE  \E done, ms : /\ Publish(n, done, ms)
                           /\ \A k \in done \cup ms : k.type # "Transaction"
  <2>1. /\ Publish(n, {m}, {VoteMsg(n, "Precommit", m.block)}) \/ Publish(n, {m}, {})
        /\ m.type # "Transaction"
    BY <1>6, Zenon DEF HandlePrevote
  <2>2. VoteMsg(n, "Precommit", m.block).type = "Precommit"
    BY Zenon DEF VoteMsg
  <2>3. CASE Publish(n, {m}, {VoteMsg(n, "Precommit", m.block)})
    <3> DEFINE msgs == {VoteMsg(n, "Precommit", m.block)}
    <3>1. Publish(n, {m}, msgs) /\ \A k \in msgs : k.type # "Transaction"
      BY <2>2, <2>3, Zenon
    <3> HIDE DEF msgs
    <3> QED BY <1>2, <2>1, <3>1, Zenon
  <2>4. CASE Publish(n, {m}, {})
    <3> DEFINE msgs == {}
    <3>1. Publish(n, {m}, msgs) /\ \A k \in msgs : k.type # "Transaction"
      BY <2>4, Zenon
    <3> HIDE DEF msgs
    <3> QED BY <1>2, <2>1, <3>1, Zenon
  <2> QED BY <2>1, <2>3, <2>4, Zenon
<1>7. ASSUME NEW m \in inbox[n], HandleLeaderAnnouncement(n, m) \/ HandlePrecommit(n, m)
      PROVE  \E done, ms : /\ Publish(n, done, ms)
                           /\ \A k \in done \cup ms : k.type # "Transaction"
  <2>1. Publish(n, {m}, {}) /\ m.type # "Transaction"
    BY <1>7, Zenon DEF HandleLeaderAnnouncement, HandlePrecommit
  <2> DEFINE msgs == {}
  <2>2. Publish(n, {m}, msgs) /\ \A k \in msgs : k.type # "Transaction"
    BY <2>1, Zenon
  <2> HIDE DEF msgs
  <2> QED BY <1>2, <2>1, <2>2, Zenon
<1> QED BY <1>3, <1>4, <1>5, <1>6, <1>7, Zenon

LEMMA TxStep ==
  ASSUME TypeOK, TxInv, ReceivedTxExactlyOnce, [Next]_vars
  PROVE  TxInv' /\ ReceivedTxExactlyOnce'
<1> USE DEF chain, tally, view, net
<1>0. TypeOK
  OBVIOUS
<1>1. ASSUME NEW n \in Validators, NEW t \in Txs, SubmitTx(n, t)
      PROVE  TxInv' /\ ReceivedTxExactlyOnce'
  <2> DEFINE x == [type |-> "Transaction", from |-> n, tx |-> t]
  <2>1. /\ \A m \in sent : m.type = "Transaction" => m.tx # t
        /\ pending' = [pending EXCEPT ![n] = @ \cup {t}] /\ UNCHANGED blocks
        /\ Publish(n, {}, {x})
    BY <1>1 DEF SubmitTx
  <2>2. x.type = "Transaction" /\ x.tx = t
    BY Zenon
  <2> HIDE DEF x
  <2>3. /\ sent' = sent \cup {x} /\ x \notin sent
        /\ \A p \in Validators :
             /\ \A k \in sent : k \in inbox'[p] <=> k \in inbox[p]
             /\ x \in inbox'[p] <=> p # n
    BY <2>1, <2>2, Zenon DEF Publish, TypeOK
  <2>4. \A p \in Validators : ~HasReceived(p, t) /\ t \notin pending[p] /\ StoredIn(p, t) = {}
    BY <2>1 DEF HasReceived, TxInv
  <2>5. ASSUME NEW p \in Validators
        PROVE  HasReceived(p, t)' <=> p = n
    <3>1. \A k \in sent' : k.type = "Transaction" /\ k.tx = t => k = x
      BY <2>1, <2>3, Zenon
    <3>2. CASE p = n
      <4>1. x \in sent' /\ x \notin inbox'[p]
        BY <2>3, <3>2, Zenon
      <4> QED BY <2>2, <3>2, <4>1, Zenon DEF HasReceived
    <3>3. CASE p # n
      <4>1. x \in inbox'[p]
        BY <2>3, <3>3, Zenon
      <4> QED BY <3>1, <3>3, <4>1, Zenon DEF HasReceived
    <3> QED BY <3>2, <3>3, Zenon
  <2>6. ASSUME NEW p \in Validators, NEW u \in Txs, u # t
        PROVE  HasReceived(p, u)' <=> HasReceived(p, u)
    <3>1. \A k \in sent' : k.tx = u => k \in sent
      BY <2>2, <2>3, <2>6, Zenon
    <3>2. \A k \in sent : k \in sent' /\ (k \in inbox'[p] <=> k \in inbox[p])
      BY <2>3, Zenon
    <3>3. ASSUME HasReceived(p, u)' PROVE HasReceived(p, u)
      BY <3>1, <3>2, <3>3, Zenon DEF HasReceived
    <3>4. ASSUME HasReceived(p, u) PROVE HasReceived(p, u)'
      BY <3>2, <3>4, Zenon DEF HasReceived
    <3> QED BY <3>3, <3>4, Zenon
  <2>7. \A p \in Validators, u \in Txs :
          /\ StoredIn(p, u)' = StoredIn(p, u)
          /\ u \in pending'[p] <=> u \in pending[p] \/ (p = n /\ u = t)
    BY <2>1, Zenon DEF StoredIn, TypeOK
  <2>8. \A p \in Validators : Cardinality(StoredIn(p, t)) = 0
    BY <2>4, StoredCount, Zenon
  <2>9. TxInv'
    <3>1. \A k, m \in sent' : k.type = "Transaction" /\ m.type = "Transaction" /\ k.tx = m.tx => k = m
      BY <2>1, <2>2, <2>3, Zenon DEF TxInv
    <3>2. \A p \in Validators, u \in Txs :
            u \in pending'[p] \/ StoredIn(p, u)' # {} => HasReceived(p, u)'
      <4> SUFFICES ASSUME NEW p \in Validators, NEW u \in Txs,
                          u \in pending'[p] \/ StoredIn(p, u)' # {}
                   PROVE  HasReceived(p, u)'
        BY Zenon
      <4>1. CASE u = t
        BY <2>4, <2>5, <2>7, <4>1, Zenon
      <4>2. CASE u # t
        <5>1. HasReceived(p, u)
          BY <2>7, <4>2, Zenon DEF TxInv
        <5> QED BY <2>6, <4>2, <5>1, Zenon
      <4> QED BY <4>1, <4>2, Zenon
    <3> QED BY <3>1, <3>2, Zenon DEF TxInv
  <2>10. ReceivedTxExactlyOnce'
    BY <2>5, <2>6, <2>7, <2>8 DEF ReceivedTxExactlyOnce
  <2> QED BY <2>9, <2>10, Zenon
<1>2. ASSUME NEW n \in Validators, NEW m \in inbox[n], ReceiveTx(n, m)
      PROVE  TxInv' /\ ReceivedTxExactlyOnce'
  <2>1. /\ m.type = "Transaction" /\ m \in sent /\ m.tx \in Txs
        /\ pending' = [pending EXCEPT ![n] = @ \cup {m.tx}] /\ UNCHANGED blocks
        /\ Publish(n, {m}, {})
    BY <1>2, InboxType, Zenon DEF ReceiveTx, TxGossip
  <2>2. /\ sent' = sent
        /\ \A p \in Validators : \A k \in sent :
             k \in inbox'[p] <=> k \in inbox[p] /\ ~(p = n /\ k = m)
    BY <2>1, Zenon DEF Publish, TypeOK
  <2>3. \A k \in sent : k.type = "Transaction" /\ k.tx = m.tx => k = m
    BY <2>1, Zenon DEF TxInv
  <2>4. ~HasReceived(n, m.tx) /\ HasReceived(n, m.tx)'
    BY <2>1, <2>2, <2>3, Zenon DEF HasReceived
  <2>5. m.tx \notin pending[n] /\ StoredIn(n, m.tx) = {}
    BY <2>1, <2>4, Zenon DEF TxInv
  <2>6. \A p \in Validators, u \in Txs : ~(p = n /\ u = m.tx) =>
          (HasReceived(p, u)' <=> HasReceived(p, u))
    BY <2>2, <2>3, Zenon DEF HasReceived
  <2>7. \A p \in Validators, u \in Txs :
          /\ StoredIn(p, u)' = StoredIn(p, u)
          /\ u \in pending'[p] <=> u \in pending[p] \/ (p = n /\ u = m.tx)
    BY <2>1, Zenon DEF StoredIn, TypeOK
  <2>8. Cardinality(StoredIn(n, m.tx)) = 0
    BY <2>5, StoredCount, Zenon
  <2>9. TxInv'
    <3>1. \A p \in Validators, u \in Txs :
            u \in pending'[p] \/ StoredIn(p, u)' # {} => HasReceived(p, u)'
      BY <2>4, <2>6, <2>7, Zenon DEF TxInv
    <3> QED BY <2>2, <3>1, Zenon DEF TxInv
  <2>10. ReceivedTxExactlyOnce'
    BY <2>4, <2>6, <2>7, <2>8 DEF ReceivedTxExactlyOnce
  <2> QED BY <2>9, <2>10, Zenon
<1>3. ASSUME NEW n \in Validators, UNCHANGED chain,
             \/ RoundTimer(n) \/ TriggerConsensusRound(n)
             \/ \E p \in Validators \ {n} : Subscribed(n, p)
             \/ \E m \in inbox[n] : \/ HandleLeaderAnnouncement(n, m) \/ HandleBlockProposal(n, m)
                                    \/ HandlePrevote(n, m) \/ HandlePrecommit(n, m)
      PROVE  TxInv' /\ ReceivedTxExactlyOnce'
  <2>1. CASE UNCHANGED net
    BY <1>3, <2>1, SameTxs, Zenon
  <2>2. ASSUME NEW done, NEW msgs, Publish(n, done, msgs),
               \A k \in done \cup msgs : k.type # "Transaction"
        PROVE  TxInv' /\ ReceivedTxExactlyOnce'
    BY <1>3, <2>2, OtherMessages, SameTxs, Zenon
  <2> QED BY <1>3, <2>1, <2>2, NoTxStep, Zenon
<1>4. ASSUME NEW n \in Validators, NEW m \in inbox[n], HandlePrecommit(n, m), ~UNCHANGED chain
      PROVE  TxInv' /\ ReceivedTxExactlyOnce'
  <2>1. FinalizeAndStoreBlock(n, get_proposed_block(n, n)) /\ Publish(n, {m}, {})
        /\ m.type # "Transaction"
    BY <1>4, Zenon DEF HandlePrecommit
  <2>2. \A k \in {m} \cup {} : k.type # "Transaction"
    BY <2>1, Zenon
  <2>3. sent' = sent
    BY <2>1, Sent
  <2>4. \A p \in Validators, t \in Txs : HasReceived(p, t)' <=> HasReceived(p, t)
    BY <2>1, <2>2, <2>3, OtherMessages, Zenon DEF HasReceived
  <2> DEFINE b == get_proposed_block(n, n)
             l == Len(blocks[n])
  <2>5. /\ l \in Nat /\ blocks[n] \in Seq(Block) /\ b \in Block /\ b.txs = pending[n]
    BY ProposedBlockType DEF TypeOK, get_proposed_block
  <2>6. /\ blocks' = [blocks EXCEPT ![n] = Append(@, b)]
        /\ pending' = [pending EXCEPT ![n] = {}]
    BY <2>1, Zenon DEF FinalizeAndStoreBlock
  <2> HIDE DEF b
  <2>7. /\ Len(blocks'[n]) = l + 1 /\ blocks'[n][l + 1] = b
        /\ \A i \in 1..l : blocks'[n][i] = blocks[n][i]
        /\ pending'[n] = {}
        /\ \A p \in Validators : p # n => blocks'[p] = blocks[p] /\ pending'[p] = pending[p]
    BY <2>5, <2>6 DEF TypeOK
  <2>8. ASSUME NEW t \in Txs
        PROVE  /\ t \in pending[n] => StoredIn(n, t)' = StoredIn(n, t) \cup {l + 1}
               /\ t \notin pending[n] => StoredIn(n, t)' = StoredIn(n, t)
    <3>1. \A k \in Nat : 1..(k + 1) = (1..k) \cup {k + 1} /\ k + 1 \notin 1..k
      OBVIOUS
    <3>2. /\ StoredIn(n, t)' = {i \in 1..(l + 1) : t \in blocks'[n][i].txs}
          /\ StoredIn(n, t) = {i \in 1..l : t \in blocks[n][i].txs}
      BY <2>7, Zenon DEF StoredIn
    <3>3. /\ 1..(l + 1) = (1..l) \cup {l + 1} /\ l + 1 \notin 1..l
      BY <2>5, <3>1, Zenon
    <3> HIDE DEF l
    <3> QED BY <2>5, <2>7, <3>2, <3>3, Zenon
  <2>9. \A p \in Validators, t \in Txs : p # n => StoredIn(p, t)' = StoredIn(p, t)
    BY <2>7, Zenon DEF StoredIn
  <2>10. TxInv'
    <3>1. \A p \in Validators, t \in Txs :
            t \in pending'[p] \/ StoredIn(p, t)' # {} => HasReceived(p, t)'
      BY <2>4, <2>7, <2>8, <2>9 DEF TxInv
    <3> QED BY <2>3, <3>1, Zenon DEF TxInv
  <2>11. ASSUME NEW t \in Txs, HasReceived(n, t)
         PROVE  Cardinality(StoredIn(n, t)') = 1
    <3>1. CASE t \in pending[n]
      <4>1. StoredIn(n, t) = {}
        BY <2>11, <3>1, StoredCount DEF ReceivedTxExactlyOnce
      <4>2. StoredIn(n, t)' = {l + 1}
        BY <2>8, <3>1, <4>1, Zenon
      <4> QED BY <4>2, FS_Singleton, Zenon
    <3>2. CASE t \notin pending[n]
      BY <2>8, <2>11, <3>2, Zenon DEF ReceivedTxExactlyOnce
    <3> QED BY <3>1, <3>2, Zenon
  <2>12. ReceivedTxExactlyOnce'
    BY <2>4, <2>7, <2>9, <2>11 DEF ReceivedTxExactlyOnce
  <2> QED BY <2>10, <2>12
<1>5. CASE UNCHANGED vars
  BY <1>5, SameTxs, Zenon DEF vars
<1>6. ASSUME NEW n \in Validators,
             \/ RoundTimer(n) \/ TriggerConsensusRound(n)
             \/ \E p \in Validators \ {n} : Subscribed(n, p)
             \/ \E m \in inbox[n] : \/ HandleLeaderAnnouncement(n, m)
                                    \/ HandleBlockProposal(n, m) \/ HandlePrevote(n, m)
      PROVE  UNCHANGED chain
  BY <1>6, Zenon DEF RoundTimer, TriggerConsensusRound, Subscribed, HandleLeaderAnnouncement,
              HandleBlockProposal, HandlePrevote
<1> QED BY <1>1, <1>2, <1>3, <1>4, <1>5, <1>6, Zenon DEF Next, Receive

-----------------------------------------------------------------------------
(* Stored blocks *)

LEMMA Stores ==
  ASSUME [Next]_vars
  PROVE  \/ UNCHANGED <<blocks, current_height>>
         \/ \E n \in Validators :
               /\ blocks' = [blocks EXCEPT ![n] = Append(@, get_proposed_block(n, n))]
               /\ current_height' = [current_height EXCEPT ![n] = Height(n) + 1]
<1> USE DEF chain
<1>1. ASSUME NEW n \in Validators, NEW m, HandlePrecommit(n, m)
      PROVE  \/ UNCHANGED <<blocks, current_height>>
             \/ /\ blocks' = [blocks EXCEPT ![n] = Append(@, get_proposed_block(n, n))]
                /\ current_height' = [current_height EXCEPT ![n] = Height(n) + 1]
  <2>1. get_proposed_block(n, n).height = Height(n) + 1
    BY Zenon DEF get_proposed_block
  <2> QED BY <1>1, <2>1, Zenon DEF HandlePrecommit, FinalizeAndStoreBlock
<1>2. ASSUME NEW n \in Validators
      PROVE  /\ RoundTimer(n) \/ TriggerConsensusRound(n) => UNCHANGED <<blocks, current_height>>
             /\ \A p : Subscribed(n, p) => UNCHANGED <<blocks, current_height>>
             /\ \A t : SubmitTx(n, t) => UNCHANGED <<blocks, current_height>>
  BY Zenon DEF RoundTimer, TriggerConsensusRound, Subscribed, SubmitTx
<1>3. ASSUME NEW n \in Validators, NEW m, Receive(n, m)
      PROVE  HandlePrecommit(n, m) \/ UNCHANGED <<blocks, current_height>>
  BY <1>3, Zenon DEF Receive, HandleLeaderAnnouncement, HandleBlockProposal, HandlePrevote, ReceiveTx
<1>4. UNCHANGED vars => UNCHANGED <<blocks, current_height>>
  BY Zenon DEF vars
<1> QED BY <1>1, <1>2, <1>3, <1>4, Zenon DEF Next

(* A stored block goes on top of the others.                               *)
LEMMA StoredStep ==
  ASSUME TypeOK, StoredInOrder, [Next]_vars
  PROVE  StoredInOrder'
<1>1. CASE UNCHANGED <<blocks, current_height>>
  BY <1>1, Zenon DEF StoredInOrder, Height
<1>2. ASSUME NEW n \in Validators,
             blocks' = [blocks EXCEPT ![n] = Append(@, get_proposed_block(n, n))],
             current_height' = [current_height EXCEPT ![n] = Height(n) + 1],
             NEW p \in Validators
      PROVE  /\ current_height'[p] = Height(p)'
             /\ \A i \in 1 .. Height(p)' : blocks'[p][i].height = i /\ blocks'[p][i].proposer = p
  <2> DEFINE b == get_proposed_block(n, n)
  <2>1. /\ blocks \in [Validators -> Seq(Block)] /\ current_height \in [Validators -> Nat]
        /\ blocks[n] \in Seq(Block)
    BY DEF TypeOK
  <2>2. b.height = Len(blocks[n]) + 1 /\ b.proposer = n
    BY Zenon DEF get_proposed_block, Height
  <2>3. CASE p # n
    BY <1>2, <2>1, <2>3, Zenon DEF StoredInOrder, Height
  <2>4. CASE p = n
    <3>1. blocks'[p] = Append(blocks[n], b) /\ current_height'[p] = Len(blocks[n]) + 1
      BY <1>2, <2>1, <2>4, Zenon DEF Height
    <3> HIDE DEF b
    <3>2. /\ Len(blocks'[p]) = Len(blocks[n]) + 1 /\ Len(blocks[n]) \in Nat
          /\ \A i \in 1 .. Len(blocks[n]) : blocks'[p][i] = blocks[n][i]
          /\ blocks'[p][Len(blocks[n]) + 1] = b
      BY <2>1, <3>1
    <3>3. \A i \in 1 .. Len(blocks[n]) : blocks[n][i].height = i /\ blocks[n][i].proposer = n
      BY Zenon DEF StoredInOrder, Height
    <3> QED BY <2>2, <2>4, <3>1, <3>2, <3>3 DEF Height
  <2> QED BY <2>3, <2>4, Zenon
<1>3. CASE \E n \in Validators :
             /\ blocks' = [blocks EXCEPT ![n] = Append(@, get_proposed_block(n, n))]
             /\ current_height' = [current_height EXCEPT ![n] = Height(n) + 1]
  BY <1>2, <1>3, Zenon DEF StoredInOrder
<1> QED BY <1>1, <1>3, Stores, Zenon

-----------------------------------------------------------------------------
(* The theorems *)

LEMMA InitInv == Init => ConsensusInv
<1> SUFFICES ASSUME Init PROVE ConsensusInv
  OBVIOUS
<1> USE DEF Init
<1>1. TypeOK
  BY LeaderType, ValidatorsAssumption DEF TypeOK
<1>2. LeaderInv
  BY DEF LeaderInv, LeaderOf
<1>3. VoteInv
  BY Zenon DEF VoteInv
<1>4. FinalizedInv
  BY DEF FinalizedInv
<1>5. PrevoteBacksTheLeader /\ VotesAreJustified
  BY Zenon DEF PrevoteBacksTheLeader, VotesAreJustified
<1>6. TxInv /\ ReceivedTxExactlyOnce
  <2>1. \A n \in Validators, t \in Txs : StoredIn(n, t) = {} /\ ~HasReceived(n, t)
    BY DEF StoredIn, HasReceived
  <2> QED BY <2>1, Zenon DEF TxInv, ReceivedTxExactlyOnce
<1>7. StoredInOrder
  BY DEF StoredInOrder, Height
<1> QED BY <1>1, <1>2, <1>3, <1>4, <1>5, <1>6, <1>7 DEF ConsensusInv

(* The conjunction of the strengthenings is an inductive invariant, for    *)
(* every set of validators and every set of transactions.                  *)
THEOREM Inductive == Spec => []ConsensusInv
<1>1. ConsensusInv /\ [Next]_vars => ConsensusInv'
  BY TypeStep, LeaderStep, VoteStep, FinalizedStep, BackStep, JustifiedStep, TxStep,
     StoredStep, Zenon DEF ConsensusInv
<1> QED BY InitInv, <1>1, PTL DEF Spec

(* Every variable keeps its type.                                          *)
THEOREM TypeCorrect == Spec => []TypeOK
<1>1. ConsensusInv => TypeOK
  BY Zenon DEF ConsensusInv
<1> QED BY Inductive, <1>1, PTL

(* Timers, triggers and announcements never give a round two leaders.      *)
THEOREM LeaderUnique == Spec => []OneLeaderPerRound
<1>1. ConsensusInv => OneLeaderPerRound
  <2> SUFFICES ASSUME ConsensusInv, NEW n \in Validators, NEW p \in Validators,
                      is_leader[n], is_leader[p], current_round[n] = current_round[p]
               PROVE  n = p
    BY Zenon DEF OneLeaderPerRound
  <2>1. proposer[n] = n /\ proposer[p] = p
    BY Zenon DEF ConsensusInv, LeaderInv
  <2>2. /\ proposer[n] = LeaderOf(current_round[n])
        /\ proposer[p] = LeaderOf(current_round[p])
    BY DEF ConsensusInv, LeaderInv
  <2> QED BY <2>1, <2>2, Zenon
<1> QED BY Inductive, <1>1, PTL

(* A prevote is always for a block proposed by its round's leader.         *)
THEOREM PrevoteSound == Spec => []PrevoteBacksTheLeader
<1>1. ConsensusInv => PrevoteBacksTheLeader
  BY DEF ConsensusInv
<1> QED BY Inductive, <1>1, PTL

(* A precommit, and a stored block, rest on a quorum of other validators.  *)
THEOREM VotesSound == Spec => []VotesAreJustified
<1>1. ConsensusInv => VotesAreJustified
  BY DEF ConsensusInv
<1> QED BY Inductive, <1>1, PTL

(* A received transaction is pending or in one stored block, never both,   *)
(* never neither, never in two.                                            *)
THEOREM TxExactlyOnce == Spec => []ReceivedTxExactlyOnce
<1>1. ConsensusInv => ReceivedTxExactlyOnce
  BY DEF ConsensusInv
<1> QED BY Inductive, <1>1, PTL

(* Blocks are stored in order, whatever fails or is skipped in between.    *)
THEOREM ChainInOrder == Spec => []StoredInOrder
<1>1. ConsensusInv => StoredInOrder
  BY DEF ConsensusInv
<1> QED BY Inductive, <1>1, PTL

(* No node stores two blocks in one round.                                 *)
THEOREM OneBlockPerRound == Spec => AtMostOneBlockPerRound
<1>1. ASSUME ConsensusInv, [Next]_vars, NEW n \in Validators, blocks'[n] # blocks[n]
      PROVE  last_finalized[n] < current_round[n]
  <2>1. PICK p \in Validators : /\ ~block_finalized[p]
                                /\ FinalizeAndStoreBlock(p, get_proposed_block(p, p))
    <3>1. PICK p \in Validators : \E m \in inbox[p] : HandlePrecommit(p, m)
      BY <1>1, NewBlocks, Zenon
    <3>2. PICK m \in inbox[p] : HandlePrecommit(p, m)
      BY <3>1, Zenon
    <3> QED BY <3>2, <1>1, Zenon DEF HandlePrecommit, chain
  <2>2. n = p
    BY <1>1, <2>1, Zenon DEF FinalizeAndStoreBlock, ConsensusInv, TypeOK
  <2> QED BY <1>1, <2>1, <2>2, Zenon DEF ConsensusInv, FinalizedInv
<1>2. ConsensusInv /\ [Next]_vars =>
        [\A n \in Validators : blocks'[n] # blocks[n] => last_finalized[n] < current_round[n]]_vars
  BY <1>1
<1> QED BY Inductive, <1>2, PTL DEF Spec, AtMostOneBlockPerRound

-----------------------------------------------------------------------------
(* The scheduled system *)

(* The next interval to fire is one of a validator.                        *)
TurnInv == turn \in 1 .. N /\ order \in [1 .. N -> Validators]

(* What SyncConsensus does, with its timers in a fixed order and all       *)
(* messages delivered in between, Consensus does too: all that is proved   *)
(* of Spec holds of the scheduled system.                                  *)
THEOREM SyncImplements == SyncSpec => Spec
<1>1. N \in Nat \ {0}
  BY ValidatorsAssumption, FS_CardinalityType, FS_EmptySet, Zenon DEF N
<1>2. SyncInit => Init /\ TurnInv
  BY <1>1 DEF SyncInit, TurnInv, Bijection, Injection, Surjection
<1>3. ASSUME TurnInv, [SyncNext]_syncVars
      PROVE  TurnInv'
  <2>1. CASE Tick
    <3>1. turn' = (turn % N) + 1 /\ order' = order
      BY <2>1 DEF Tick
    <3>2. turn % N \in 0 .. N - 1
      BY <1>1, <1>3 DEF TurnInv
    <3> QED BY <1>1, <1>3, <3>1, <3>2 DEF TurnInv
  <2>2. CASE UNCHANGED <<order, turn>>
    BY <1>3, <2>2 DEF TurnInv
  <2> QED BY <1>3, <2>1, <2>2, Zenon DEF SyncNext, Deliver, syncVars
<1>4. ASSUME TurnInv, [SyncNext]_syncVars
      PROVE  [Next]_vars
  <2>1. order[turn] \in Validators
    BY <1>4 DEF TurnInv
  <2>2. Tick => Next
    BY <2>1, Zenon DEF Tick, Next
  <2>3. Deliver => Next
    BY Zenon DEF Deliver, Next
  <2>4. UNCHANGED syncVars => UNCHANGED vars
    BY DEF syncVars
  <2> QED BY <1>4, <2>2, <2>3, <2>4, Zenon DEF SyncNext
<1>5. TurnInv /\ [SyncNext]_syncVars => TurnInv' /\ [Next]_vars
  BY <1>3, <1>4
<1> QED BY <1>2, <1>5, PTL DEF SyncSpec, Spec

=============================================================================
