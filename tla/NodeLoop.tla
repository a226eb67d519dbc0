------------------------------ MODULE NodeLoop ------------------------------
(***************************************************************************)
(* The tasks of one node and the channels between them.                    *)
(*                                                                         *)
(* A gRPC call becomes a self request with a channel for its answer.  It   *)
(* goes through the unbounded command queue of the swarm task into the     *)
(* bounded event channel that the consensus task and the network fill as   *)
(* well, and the node loop hands it to the handlers.  These ask the chain  *)
(* actor or the consensus task, which asks the chain actor itself, and     *)
(* wait for the answer: each asker has an answer channel of its own.       *)
(*                                                                         *)
(* When the event channel is full the oldest event is overwritten.  A      *)
(* handler's error costs the loop all its handlers; from then on requests  *)
(* are taken from the channel and dropped.  Dropping the last copy of a    *)
(* call's answer channel ends the call with RecvError.                     *)
(***************************************************************************)
EXTENDS Integers, Sequences, FiniteSets

CONSTANTS
    Calls,         \* gRPC calls
    Kinds,         \* the self requests that a call may be
    Capacity,      \* of the event channel
    Peers,         \* peers mDNS may discover
    allowed_peers, \* SwarmManager.allowed_peers
    MaxNetwork,    \* bound: events that come from the network
    MaxTimers      \* bound: rounds this node's timer starts as their leader

(* GetChainInfo and GetLatestBlocks are served like CheckBalance, and      *)
(* GetPendingDepositIntents like CreateDeposit: one question to the chain  *)
(* actor, one answer.                                                      *)
SelfRequests == {"CheckBalance", "CreateDeposit", "ProposeWithdrawal", "ConfirmWithdrawal",
                 "Spend", "StartSigningSession", "TriggerConsensusRound"}

ASSUME KindsAssumption == Kinds \in [Calls -> SUBSET SelfRequests]
ASSUME CapacityAssumption == Capacity \in Nat \ {0}
ASSUME PeersAssumption == allowed_peers \subseteq Peers
ASSUME BoundsAssumption == MaxNetwork \in Nat /\ MaxTimers \in Nat

VARIABLES
    kind,         \* the self request of a call
    status,       \* how far a call is
    commands,     \* NetworkMessages on their way to the swarm task
    live_peers,   \* SwarmManager.live_peers
    events,       \* NetworkEvents on their way to the node loop
    overwritten,  \* history: has the event channel been full
    handlers,     \* does the loop still have its handlers
    peers,        \* NodeState.peers
    serving,      \* the event whose handler waits for an actor, or NoEvent
    failed,       \* history: has a handler returned an error of its own
    consensus_q,  \* requests to the consensus task
    consensus,    \* what the consensus task is doing
    chain_q,      \* requests to the chain actor, with who waits for the answer
    answers,      \* the answer channels
    network,      \* events that came from the network
    timers        \* rounds the timer has started

swarm  == <<commands, live_peers, network>>
loop   == <<handlers, peers, serving, failed>>
task   == <<consensus_q, consensus, timers>>
vars   == <<kind, status, swarm, events, overwritten, loop, task, chain_q, answers>>

Askers == {"node", "consensus"}

-----------------------------------------------------------------------------
(* Requests, events and messages *)

NoEvent == [type |-> "None"]
Event == [type : {"SelfRequest"}, call : Calls]
           \cup [type : {"Connected"}, peers : SUBSET allowed_peers]
           \cup [type : {"Disconnected", "Consensus", "Transaction", "Stray",
                         "SendBroadcast", "Internal"}]

Request(c)  == [type |-> "SelfRequest", call |-> c]
SendBroadcast == [type |-> "SendBroadcast"]
Internal      == [type |-> "Internal"]   \* a self request nobody waits for
Publish       == [type |-> "Publish"]    \* NetworkMessage::SendBroadcast

KindOf(e) == IF e.type = "SelfRequest" THEN kind[e.call] ELSE e.type

ReadsAccount == {"CheckBalance", "ProposeWithdrawal"}

(* What the handler of an event asks the chain actor.                      *)
ChainMessage(e) ==
    CASE KindOf(e) \in ReadsAccount    -> "GetAccount"
      [] KindOf(e) = "CreateDeposit"   -> "InsertDepositIntent"
      [] OTHER                         -> "AddTransactionToBlock"

AsksChain(e) == KindOf(e) \in ReadsAccount \cup {"CreateDeposit", "Transaction"}
AsksConsensus(e) == KindOf(e) \in {"TriggerConsensusRound", "Consensus"}

(* Handlers that return an error of their own: an unknown challenge, a low *)
(* balance, a session that is active or gone.  A failed CreateDeposit is   *)
(* answered with NodeError, and a failed Spend with "No sighash".          *)
MayFail(e) ==
    KindOf(e) \in {"ProposeWithdrawal", "ConfirmWithdrawal", "StartSigningSession",
                   "Transaction", "Stray"}
MustFail(e) == KindOf(e) = "Stray"

(* The handler of StartSigningSession ignores the answer channel.          *)
Answers(e) == e.type = "SelfRequest" /\ KindOf(e) # "StartSigningSession"

-----------------------------------------------------------------------------
(* The event channel *)

(* The calls whose answer channel goes with the event e.                   *)
CallsOf(e) == IF e.type = "SelfRequest" THEN {e.call} ELSE {}

(* Their answer channel is dropped: whoever still waits gets RecvError.    *)
RecvError(calls) ==
    status' = [c \in Calls |-> IF c \in calls /\ status[c] = "waiting"
                               THEN "error" ELSE status[c]]

(* Variant of Emit: the channel has no bound.                              *)
EmitUnbounded(e) ==
    /\ events' = Append(events, e)
    /\ UNCHANGED <<status, overwritten>>

(* Send e to the node loop, over the oldest event when the channel is full. *)
Emit(e) ==
    LET full == Len(events) = Capacity
    IN  /\ events' = Append(IF full THEN Tail(events) ELSE events, e)
        /\ overwritten' = (overwritten \/ full)
        /\ RecvError(IF full THEN CallsOf(Head(events)) ELSE {})

-----------------------------------------------------------------------------
(* gRPC calls *)

(* send_self_request with an answer channel.                               *)
send_self_request(c) ==
    /\ status[c] = "idle"
    /\ status' = [status EXCEPT ![c] = "waiting"]
    /\ commands' = Append(commands, Request(c))
    /\ UNCHANGED <<kind, live_peers, network, events, overwritten, loop, task, chain_q, answers>>

(* An amount of zero is refused before anything is sent.                   *)
InvalidArgument(c) ==
    /\ status[c] = "idle"
    /\ kind[c] \in {"CreateDeposit", "ProposeWithdrawal"}
    /\ status' = [status EXCEPT ![c] = "refused"]
    /\ UNCHANGED <<kind, swarm, events, overwritten, loop, task, chain_q, answers>>

(* The client goes away or its deadline passes: the call's future, and     *)
(* with it the receiving end of its answer channel, is dropped.            *)
Cancel(c) ==
    /\ status[c] = "waiting"
    /\ status' = [status EXCEPT ![c] = "cancelled"]
    /\ UNCHANGED <<kind, swarm, events, overwritten, loop, task, chain_q, answers>>

-----------------------------------------------------------------------------
(* The swarm task *)

SwarmCommand ==
    /\ commands # <<>>
    /\ commands' = Tail(commands)
    /\ IF Head(commands) = Publish
       THEN UNCHANGED <<status, events, overwritten>>
       ELSE Emit(Head(commands))
    /\ UNCHANGED <<kind, live_peers, network, loop, task, chain_q, answers>>

(* Gossip and direct messages.  "Stray" is one its handler refuses.        *)
SwarmMessage ==
    /\ network < MaxNetwork
    /\ network' = network + 1
    /\ \E t \in {"Consensus", "Transaction", "Stray"} : Emit([type |-> t])
    /\ UNCHANGED <<kind, commands, live_peers, loop, task, chain_q, answers>>

(* Variant of Discovered: peers that are not configured are accepted.      *)
DiscoveredAny(p) ==
    /\ network < MaxNetwork
    /\ network' = network + 1
    /\ live_peers' = live_peers \cup {p}
    /\ Emit([type |-> "Connected", peers |-> {p}])
    /\ UNCHANGED <<kind, commands, loop, task, chain_q, answers>>

(* mDNS: only configured peers count, but the event is sent for any.       *)
Discovered(p) ==
    /\ network < MaxNetwork
    /\ network' = network + 1
    /\ live_peers' = live_peers \cup ({p} \cap allowed_peers)
    /\ Emit([type |-> "Connected", peers |-> {p} \cap allowed_peers])
    /\ UNCHANGED <<kind, commands, loop, task, chain_q, answers>>

Expired(p) ==
    /\ network < MaxNetwork
    /\ network' = network + 1
    /\ live_peers' = live_peers \ ({p} \cap allowed_peers)
    /\ Emit([type |-> "Disconnected"])
    /\ UNCHANGED <<kind, commands, loop, task, chain_q, answers>>

-----------------------------------------------------------------------------
(* The node loop *)

(* handle_message after the handlers: peers are noted, and the broadcasts  *)
(* of the consensus task passed on, whether or not there are handlers.     *)
Forward(e) ==
    /\ peers' = IF e.type = "Connected" THEN peers \cup e.peers ELSE peers
    /\ commands' = CASE e.type = "SendBroadcast" -> Append(commands, Publish)
                     [] OTHER -> commands

(* Sending the answer to a call that was cancelled is an error.            *)
Answer(c) ==
    /\ status' = [status EXCEPT ![c] = IF @ = "waiting" THEN "answered" ELSE @]
    /\ handlers' = (status[c] = "waiting")

(* The handlers have dealt with e: the last one returned an error of its   *)
(* own, or answered, or had nothing to answer.  confirm_withdrawal posts   *)
(* its spend before the answer.                                            *)
Finish(e) ==
    \/ /\ MayFail(e)
       /\ handlers' = FALSE
       /\ failed' = TRUE
       /\ RecvError(CallsOf(e))
       /\ UNCHANGED <<peers, commands>>
    \/ /\ Answers(e)
       /\ Answer(e.call)
       /\ commands' = IF KindOf(e) = "ConfirmWithdrawal" THEN Append(commands, Internal)
                                                         ELSE commands
       /\ UNCHANGED <<failed, peers>>
    \/ /\ ~Answers(e) /\ ~MustFail(e)
       /\ RecvError(CallsOf(e))
       /\ Forward(e)
       /\ UNCHANGED <<handlers, failed>>

(* poll takes the next event.  Without handlers it is only forwarded.      *)
Poll ==
    /\ serving = NoEvent
    /\ events # <<>>
    /\ events' = Tail(events)
    /\ LET e == Head(events)
       IN  \/ /\ ~handlers
              /\ RecvError(CallsOf(e))
              /\ Forward(e)
              /\ UNCHANGED <<handlers, failed, serving, chain_q, consensus_q>>
           \/ /\ handlers /\ AsksChain(e)
              /\ chain_q' = Append(chain_q, [from |-> "node", message |-> ChainMessage(e)])
              /\ serving' = e
              /\ UNCHANGED <<status, commands, handlers, peers, failed, consensus_q>>
           \/ /\ handlers /\ AsksConsensus(e)
              /\ consensus_q' = Append(consensus_q, KindOf(e))
              /\ serving' = e
              /\ UNCHANGED <<status, commands, handlers, peers, failed, chain_q>>
           \/ /\ handlers /\ ~AsksChain(e) /\ ~AsksConsensus(e)
              /\ Finish(e)
              /\ UNCHANGED <<serving, chain_q, consensus_q>>
    /\ UNCHANGED <<kind, live_peers, network, overwritten, consensus, timers, answers>>

(* Variant of Resume: a handler gives up waiting for a slow answer.        *)
ResumeOrGiveUp ==
    /\ serving # NoEvent
    /\ answers' = [answers EXCEPT !["node"] = IF @ = <<>> THEN @ ELSE Tail(@)]
    /\ Finish(serving)
    /\ serving' = NoEvent
    /\ UNCHANGED <<kind, live_peers, network, events, overwritten, task, chain_q>>

(* The answer of the actor.  A handler that asked for an account and finds *)
(* another answer returns an error.                                        *)
Resume ==
    /\ serving # NoEvent
    /\ answers["node"] # <<>>
    /\ answers' = [answers EXCEPT !["node"] = Tail(@)]
    /\ IF KindOf(serving) \in ReadsAccount /\ Head(answers["node"]) # "GetAccount"
       THEN /\ handlers' = FALSE
            /\ RecvError(CallsOf(serving))
            /\ UNCHANGED <<peers, commands, failed>>
       ELSE Finish(serving)
    /\ serving' = NoEvent
    /\ UNCHANGED <<kind, live_peers, network, events, overwritten, task, chain_q>>

-----------------------------------------------------------------------------
(* The consensus task *)

Idle == [for |-> "none", todo |-> <<>>, says |-> FALSE]

(* How a message may be handled: the chain requests it takes, and whether  *)
(* a broadcast follows.                                                    *)
Handling(message) ==
    IF message = "TriggerConsensusRound"
    THEN {[todo |-> <<>>, says |-> b] : b \in BOOLEAN}
    ELSE [todo : {<<>>, <<"GetProposedBlock">>}, says : BOOLEAN]
           \cup {[todo |-> <<"GetProposedBlock", "FinalizeBlock">>, says |-> FALSE]}

(* The task does what is left of its work for the node loop or the timer:  *)
(* it asks the chain actor, or it broadcasts and answers the node loop.    *)
(* The answer channels, without the answer it has just taken, are as.      *)
Proceed(for, todo, says, as) ==
    \/ /\ todo # <<>>
       /\ consensus' = [for |-> for, todo |-> todo, says |-> says]
       /\ chain_q' = Append(chain_q, [from |-> "consensus", message |-> Head(todo)])
       /\ answers' = as
       /\ UNCHANGED <<status, events, overwritten>>
    \/ /\ todo = <<>>
       /\ consensus' = Idle
       /\ IF says THEN Emit(SendBroadcast) ELSE UNCHANGED <<status, events, overwritten>>
       /\ answers' = IF for = "node"
                     THEN [as EXCEPT !["node"] = Append(@, "Consensus")]
                     ELSE as
       /\ UNCHANGED chain_q

poll_messages ==
    /\ consensus = Idle
    /\ consensus_q # <<>>
    /\ consensus_q' = Tail(consensus_q)
    /\ \E w \in Handling(Head(consensus_q)) : Proceed("node", w.todo, w.says, answers)
    /\ UNCHANGED <<kind, swarm, loop, timers>>

(* The timer on the leader of the new round: the announcement, then the    *)
(* block of the chain actor as a proposal.                                 *)
trigger_new_round ==
    /\ consensus = Idle
    /\ timers < MaxTimers
    /\ timers' = timers + 1
    /\ Emit(SendBroadcast)
    /\ chain_q' = Append(chain_q, [from |-> "consensus", message |-> "GetProposedBlock"])
    /\ consensus' = [for |-> "timer", todo |-> <<"GetProposedBlock">>, says |-> TRUE]
    /\ UNCHANGED <<kind, swarm, loop, consensus_q, answers>>

(* The chain's answer to the first request of todo.                        *)
ConsensusResume ==
    /\ consensus # Idle
    /\ answers["consensus"] # <<>>
    /\ Proceed(consensus.for, Tail(consensus.todo), consensus.says,
               [answers EXCEPT !["consensus"] = Tail(@)])
    /\ UNCHANGED <<kind, swarm, loop, consensus_q, timers>>

-----------------------------------------------------------------------------
(* The chain actor *)

(* Variant of AnswerChannel: a cloned Sender shares its answer channel.    *)
SharedChannel(asker) == Askers

(* Sender::clone makes an answer channel of its own.                       *)
AnswerChannel(asker) == {asker}

(* Variant of Reply: an error is returned instead of being answered.       *)
ReplyUnlessError(asker, message, ok) ==
    answers' = [s \in Askers |-> IF ok /\ s \in AnswerChannel(asker)
                                 THEN Append(answers[s], message) ELSE answers[s]]

(* Errors are part of the answer.                                          *)
Reply(asker, message, ok) ==
    answers' = [s \in Askers |-> IF s \in AnswerChannel(asker)
                                 THEN Append(answers[s], message) ELSE answers[s]]

(* One message of the chain actor, whose operation may fail.               *)
ChainHandle ==
    /\ chain_q # <<>>
    /\ chain_q' = Tail(chain_q)
    /\ \E ok \in BOOLEAN : Reply(Head(chain_q).from, Head(chain_q).message, ok)
    /\ UNCHANGED <<kind, status, swarm, events, overwritten, loop, task>>

-----------------------------------------------------------------------------
Init ==
    /\ kind \in [Calls -> SelfRequests] /\ \A c \in Calls : kind[c] \in Kinds[c]
    /\ status = [c \in Calls |-> "idle"]
    /\ commands = <<>> /\ live_peers = {} /\ network = 0
    /\ events = <<>> /\ overwritten = FALSE
    /\ handlers = TRUE /\ peers = {} /\ serving = NoEvent /\ failed = FALSE
    /\ consensus_q = <<>> /\ consensus = Idle /\ timers = 0
    /\ chain_q = <<>>
    /\ answers = [s \in Askers |-> <<>>]

Next ==
    \/ \E c \in Calls : send_self_request(c) \/ InvalidArgument(c) \/ Cancel(c)
    \/ SwarmCommand \/ SwarmMessage
    \/ \E p \in Peers : Discovered(p) \/ Expired(p)
    \/ Poll \/ Resume
    \/ poll_messages \/ trigger_new_round \/ ConsensusResume
    \/ ChainHandle

(* Every task is scheduled by tokio as long as it can run; the consensus   *)
(* task's select! takes its poll interval sooner or later.                 *)
Fairness ==
    /\ WF_vars(SwarmCommand) /\ WF_vars(Poll) /\ WF_vars(Resume)
    /\ SF_vars(poll_messages) /\ WF_vars(ConsensusResume) /\ WF_vars(ChainHandle)

Spec == Init /\ [][Next]_vars /\ Fairness

-----------------------------------------------------------------------------
(* Properties *)

Statuses == {"idle", "waiting", "answered", "error", "refused", "cancelled"}
ChainMessages == {"GetAccount", "InsertDepositIntent", "AddTransactionToBlock",
                  "GetProposedBlock", "FinalizeBlock"}

(* Every variable has the type of the field or channel it stands for.      *)
TypeOK ==
    /\ kind \in [Calls -> SelfRequests]
    /\ status \in [Calls -> Statuses]
    /\ commands \in Seq(Event \cup {Publish})
    /\ live_peers \subseteq Peers /\ peers \subseteq Peers
    /\ events \in Seq(Event) /\ Len(events) <= Capacity
    /\ {overwritten, handlers, failed} \subseteq BOOLEAN
    /\ serving \in Event \cup {NoEvent}
    /\ consensus_q \in Seq({"TriggerConsensusRound", "Consensus"})
    /\ consensus \in [for : {"none", "node", "timer"}, todo : Seq(ChainMessages), says : BOOLEAN]
    /\ chain_q \in Seq([from : Askers, message : ChainMessages])
    /\ answers \in [Askers -> Seq(ChainMessages \cup {"Consensus"})]
    /\ network \in Nat /\ timers \in Nat

(* The handlers are lost only by a handler's own error or by an answer to  *)
(* a client that has gone; and while the loop has them, a call that gets   *)
(* RecvError was overwritten in the event channel or was a start_signing,  *)
(* which is never answered.                                                *)
LossesExplained ==
    /\ ~handlers => failed \/ \E c \in Calls : status[c] = "cancelled"
    /\ \A c \in Calls : status[c] = "error" =>
         ~handlers \/ overwritten \/ kind[c] = "StartSigningSession"

(* Unless events were overwritten the node loop knows, or is about to      *)
(* learn of, every live peer; and it never knows one that the              *)
(* configuration does not name.                                            *)
LivePeersKnown ==
    /\ peers \subseteq allowed_peers
    /\ overwritten \/ \A p \in live_peers \ peers :
         \E i \in DOMAIN events : events[i].type = "Connected" /\ p \in events[i].peers

(* A task's request is in the queue of the chain actor.                    *)
AtChain(s) == \E i \in DOMAIN chain_q : chain_q[i].from = s

(* The node loop's request is with the consensus task.                     *)
AtConsensus == consensus_q # <<>> \/ consensus.for = "node"

(* The answer the node loop is waiting for.                                *)
Expected == IF AsksChain(serving) THEN ChainMessage(serving) ELSE "Consensus"

(* A task waits exactly as long as its one request, or the answer to it,   *)
(* is in exactly one place, and the answer it finds is the one to this     *)
(* request.  So nobody waits for an answer that cannot come, no answer is  *)
(* left over for the next request, and the messengers' channels of 100     *)
(* never overwrite anything.                                               *)
OneRequestEach ==
    /\ \A i, j \in DOMAIN chain_q : chain_q[i].from = chain_q[j].from => i = j
    /\ serving # NoEvent <=> AtChain("node") \/ AtConsensus \/ answers["node"] # <<>>
    /\ AtChain("node") => ~AtConsensus /\ answers["node"] = <<>> /\ AsksChain(serving)
    /\ AtConsensus => answers["node"] = <<>> /\ AsksConsensus(serving)
    /\ consensus_q # <<>> => Len(consensus_q) = 1 /\ consensus.for # "node"
    /\ consensus # Idle <=> AtChain("consensus") \/ answers["consensus"] # <<>>
    /\ consensus # Idle => consensus.todo # <<>> /\ consensus.for # "none"
    /\ AtChain("consensus") => answers["consensus"] = <<>>
    /\ \A i \in DOMAIN chain_q :
         chain_q[i].message = IF chain_q[i].from = "node" THEN Expected
                                                          ELSE Head(consensus.todo)
    /\ answers["node"] \in {<<>>, <<Expected>>}
    /\ answers["consensus"] # <<>> => answers["consensus"] = <<Head(consensus.todo)>>

(* The channel q holds the answer channel of call c.                       *)
Holds(q, c) == \E i \in DOMAIN q : c \in CallsOf(q[i])

(* The answer channel of a call is in one place, from where its client can *)
(* still be answered or has gone; the loop waits only while it has its     *)
(* handlers.                                                               *)
HeldOnce ==
    /\ \A q \in {commands, events} : \A i, j \in DOMAIN q :
          CallsOf(q[i]) \cap CallsOf(q[j]) # {} => i = j
    /\ \A c \in Calls :
          /\ ~(Holds(commands, c) /\ Holds(events, c))
          /\ c \in CallsOf(serving) => ~Holds(commands, c) /\ ~Holds(events, c)
          /\ Holds(commands, c) \/ Holds(events, c) \/ c \in CallsOf(serving) =>
               status[c] \in {"waiting", "cancelled"}
    /\ serving # NoEvent => handlers

(* The inductive invariant behind the safety properties.                   *)
NodeLoopInv == TypeOK /\ OneRequestEach /\ HeldOnce /\ LossesExplained /\ LivePeersKnown

(* Every call comes to an end: no two tasks wait for each other, and no    *)
(* request is lost in a way that leaves its client waiting.                *)
EveryCallEnds == \A c \in Calls : status[c] = "waiting" ~> status[c] # "waiting"
=============================================================================
