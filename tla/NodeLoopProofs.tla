--------------------------- MODULE NodeLoopProofs ---------------------------
(***************************************************************************)
(* Proofs about the tasks of one node and their channels, for any calls,   *)
(* any peers, any capacity of the event channel and any bounds: the types  *)
(* and the requests under way between the tasks, then the answer channels, *)
(* the losses and the peers.                                               *)
(***************************************************************************)
EXTENDS NodeLoop, SequenceTheorems, TLAPS

-----------------------------------------------------------------------------
(* Channels *)

LEMMA Appended ==
  ASSUME NEW S, NEW q \in Seq(S), NEW e \in S
  PROVE  /\ Append(q, e) \in Seq(S) /\ Len(q) \in Nat
         /\ DOMAIN q = 1 .. Len(q) /\ DOMAIN Append(q, e) = 1 .. Len(q) + 1
         /\ Len(Append(q, e)) = Len(q) + 1
         /\ Append(q, e)[Len(q) + 1] = e
         /\ \A i \in 1 .. Len(q) : Append(q, e)[i] = q[i]
         /\ Append(q, e) # <<>>
  BY AppendProperties, LenProperties

LEMMA Taken ==
  ASSUME NEW S, NEW q \in Seq(S), q # <<>>
  PROVE  /\ Head(q) \in S /\ Head(q) = q[1] /\ Tail(q) \in Seq(S)
         /\ Len(q) \in Nat \ {0} /\ Len(Tail(q)) = Len(q) - 1
         /\ DOMAIN q = 1 .. Len(q) /\ DOMAIN Tail(q) = 1 .. Len(q) - 1
         /\ \A i \in 1 .. Len(q) - 1 : Tail(q)[i] = q[i + 1]
<1>1. Len(q) \in Nat \ {0} /\ DOMAIN q = 1 .. Len(q)
  BY EmptySeq, LenProperties
<1>2. /\ Head(q) \in S /\ Tail(q) \in Seq(S) /\ Len(Tail(q)) = Len(q) - 1
      /\ \A i \in 1 .. Len(Tail(q)) : Tail(q)[i] = q[i + 1]
  BY HeadTailProperties
<1>3. DOMAIN Tail(q) = 1 .. Len(q) - 1
  BY <1>2, LenProperties
<1> QED BY <1>1, <1>2, <1>3

(* What an event can be.                                                   *)
LEMMA Events ==
  /\ \A c \in Calls : Request(c) \in Event /\ CallsOf(Request(c)) = {c}
  /\ \A t \in {"Disconnected", "Consensus", "Transaction", "Stray", "SendBroadcast", "Internal"} :
       [type |-> t] \in Event /\ CallsOf([type |-> t]) = {}
  /\ \A ps \in SUBSET allowed_peers :
       LET e == [type |-> "Connected", peers |-> ps] IN e \in Event /\ CallsOf(e) = {}
  /\ SendBroadcast \in Event /\ CallsOf(SendBroadcast) = {}
  /\ Internal \in Event /\ CallsOf(Internal) = {}
  /\ CallsOf(Publish) = {} /\ CallsOf(NoEvent) = {}
  /\ \A e \in Event : CallsOf(e) \in SUBSET Calls /\ e # NoEvent
  /\ \A e \in Event : e.type = "SelfRequest" => e.call \in Calls /\ CallsOf(e) = {e.call}
  /\ \A e \in Event : e.type # "SelfRequest" => CallsOf(e) = {}
  /\ \A e \in Event : e.type = "Connected" => e.peers \in SUBSET allowed_peers
  BY DEF Event, CallsOf, Request, SendBroadcast, Internal, Publish, NoEvent

(* Emit: either nothing goes, or the oldest event does and whoever waits   *)
(* for its answer gets an error.                                           *)
LEMMA EmitEffect ==
  ASSUME TypeOK, NEW e \in Event, Emit(e)
  PROVE  /\ events' \in Seq(Event) /\ Len(events') <= Capacity
         /\ status' \in [Calls -> Statuses] /\ overwritten' \in BOOLEAN
         /\ \/ events' = Append(events, e) /\ overwritten' = overwritten /\ status' = status
            \/ /\ events # <<>> /\ events' = Append(Tail(events), e) /\ overwritten'
               /\ RecvError(CallsOf(Head(events)))
<1>0. /\ events \in Seq(Event) /\ Len(events) <= Capacity /\ Len(events) \in Nat
      /\ status \in [Calls -> Statuses] /\ overwritten \in BOOLEAN
      /\ Capacity \in Nat \ {0}
  BY CapacityAssumption, LenProperties DEF TypeOK
<1>1. CASE Len(events) = Capacity
  <2>1. events # <<>>
    BY <1>0, <1>1, EmptySeq
  <2>2. /\ events' = Append(Tail(events), e) /\ overwritten' = TRUE
        /\ RecvError(CallsOf(Head(events)))
    BY <1>1, Zenon DEF Emit
  <2>3. Tail(events) \in Seq(Event) /\ Len(Tail(events)) = Len(events) - 1
    BY <1>0, <2>1, Taken
  <2>4. events' \in Seq(Event) /\ Len(events') = Len(Tail(events)) + 1
    BY <2>2, <2>3, Appended
  <2>5. Len(events') <= Capacity
    BY <1>0, <1>1, <2>3, <2>4
  <2>6. status' \in [Calls -> Statuses]
    BY <1>0, <2>2 DEF RecvError, Statuses
  <2> QED BY <2>1, <2>2, <2>4, <2>5, <2>6, Zenon
<1>2. CASE Len(events) # Capacity
  <2>1. events' = Append(events, e) /\ overwritten' = overwritten /\ RecvError({})
    BY <1>0, <1>2 DEF Emit
  <2>2. status' = status
    BY <1>0, <2>1 DEF RecvError
  <2>3. events' \in Seq(Event) /\ Len(events') = Len(events) + 1
    BY <1>0, <2>1, Appended
  <2> QED BY <1>0, <1>2, <2>1, <2>2, <2>3
<1> QED BY <1>1, <1>2

(* What Finish does to the loop and its commands.                          *)
LEMMA FinishEffect ==
  ASSUME TypeOK, NEW e \in Event, Finish(e)
  PROVE  /\ status' \in [Calls -> Statuses] /\ handlers' \in BOOLEAN /\ failed' \in BOOLEAN
         /\ commands' \in Seq(Event \cup {Publish}) /\ peers' \in SUBSET Peers
         /\ \/ commands' = commands
            \/ \E x \in Event \cup {Publish} : CallsOf(x) = {} /\ commands' = Append(commands, x)
         /\ \A c \in Calls \ CallsOf(e) : status'[c] = status[c]
<1>0. /\ status \in [Calls -> Statuses] /\ handlers \in BOOLEAN /\ failed \in BOOLEAN
      /\ commands \in Seq(Event \cup {Publish}) /\ peers \in SUBSET Peers
  BY DEF TypeOK
<1>1. /\ Append(commands, Publish) \in Seq(Event \cup {Publish})
      /\ Append(commands, Internal) \in Seq(Event \cup {Publish})
  BY <1>0, Appended, Events
<1>2. ASSUME RecvError(CallsOf(e))
      PROVE  /\ status' \in [Calls -> Statuses]
             /\ \A c \in Calls \ CallsOf(e) : status'[c] = status[c]
  BY <1>0, <1>2 DEF RecvError, Statuses
<1>3. CASE MayFail(e) /\ handlers' = FALSE /\ failed' = TRUE /\ RecvError(CallsOf(e))
           /\ UNCHANGED <<peers, commands>>
  BY <1>0, <1>2, <1>3, Zenon
<1>4. CASE /\ Answers(e) /\ Answer(e.call)
           /\ commands' = IF KindOf(e) = "ConfirmWithdrawal" THEN Append(commands, Internal)
                                                             ELSE commands
           /\ UNCHANGED <<failed, peers>>
  <2>1. e.call \in Calls /\ CallsOf(e) = {e.call}
    BY <1>4, Events DEF Answers
  <2>2. status' \in [Calls -> Statuses] /\ handlers' \in BOOLEAN
        /\ \A c \in Calls \ {e.call} : status'[c] = status[c]
    BY <1>0, <1>4, <2>1 DEF Answer, Statuses
  <2> QED BY <1>0, <1>1, <1>4, <2>1, <2>2, Events
<1>5. CASE ~Answers(e) /\ RecvError(CallsOf(e)) /\ Forward(e) /\ UNCHANGED <<handlers, failed>>
  <2>1. peers' \in SUBSET Peers
    BY <1>0, <1>5, Events, PeersAssumption DEF Forward
  <2>2. commands' \in {commands, Append(commands, Publish)}
    BY <1>5 DEF Forward
  <2> QED BY <1>0, <1>1, <1>2, <1>5, <2>1, <2>2, Events, Zenon
<1> QED BY <1>3, <1>4, <1>5, Zenon DEF Finish

-----------------------------------------------------------------------------
(* Types *)

LEMMA TypeUnfolded ==
  TypeOK <=>
    /\ kind \in [Calls -> SelfRequests]
    /\ status \in [Calls -> Statuses]
    /\ commands \in Seq(Event \cup {Publish})
    /\ live_peers \subseteq Peers /\ peers \subseteq Peers
    /\ events \in Seq(Event) /\ Len(events) <= Capacity
    /\ overwritten \in BOOLEAN /\ handlers \in BOOLEAN /\ failed \in BOOLEAN
    /\ serving \in Event \cup {NoEvent}
    /\ consensus_q \in Seq({"TriggerConsensusRound", "Consensus"})
    /\ consensus \in [for : {"none", "node", "timer"}, todo : Seq(ChainMessages), says : BOOLEAN]
    /\ chain_q \in Seq([from : Askers, message : ChainMessages])
    /\ answers \in [Askers -> Seq(ChainMessages \cup {"Consensus"})]
    /\ network \in Nat /\ timers \in Nat
<1>1. {overwritten, handlers, failed} \subseteq BOOLEAN
        <=> overwritten \in BOOLEAN /\ handlers \in BOOLEAN /\ failed \in BOOLEAN
  BY Zenon
<1> QED BY <1>1, Zenon DEF TypeOK

(* The work the consensus task may have left is a sequence of requests to  *)
(* the chain actor.                                                        *)
LEMMA Works ==
  /\ \A m : \A w \in Handling(m) : w.todo \in Seq(ChainMessages) /\ w.says \in BOOLEAN
  /\ Idle \in [for : {"none", "node", "timer"}, todo : Seq(ChainMessages), says : BOOLEAN]
  /\ Idle.for = "none" /\ Idle.todo = <<>>
<1>1. /\ <<>> \in Seq(ChainMessages) /\ <<"GetProposedBlock">> \in Seq(ChainMessages)
      /\ <<"GetProposedBlock", "FinalizeBlock">> \in Seq(ChainMessages)
  BY DEF ChainMessages
<1>2. ASSUME NEW m, NEW w \in Handling(m)
      PROVE  w.todo \in Seq(ChainMessages) /\ w.says \in BOOLEAN
  <2>1. CASE m = "TriggerConsensusRound"
    <3>1. PICK b \in BOOLEAN : w = [todo |-> <<>>, says |-> b]
      BY <1>2, <2>1 DEF Handling
    <3>2. w.todo = <<>> /\ w.says = b
      BY <3>1
    <3> QED BY <1>1, <3>2, Zenon
  <2>2. CASE m # "TriggerConsensusRound"
    <3>1. \/ w \in [todo : {<<>>, <<"GetProposedBlock">>}, says : BOOLEAN]
          \/ w = [todo |-> <<"GetProposedBlock", "FinalizeBlock">>, says |-> FALSE]
      BY <1>2, <2>2 DEF Handling
    <3>2. \/ w.todo \in {<<>>, <<"GetProposedBlock">>} /\ w.says \in BOOLEAN
          \/ w.todo = <<"GetProposedBlock", "FinalizeBlock">> /\ w.says = FALSE
      BY <3>1
    <3> QED BY <1>1, <3>2, Zenon
  <2> QED BY <2>1, <2>2
<1>3. /\ Idle \in [for : {"none", "node", "timer"}, todo : Seq(ChainMessages), says : BOOLEAN]
      /\ Idle.for = "none" /\ Idle.todo = <<>>
  BY <1>1 DEF Idle
<1> QED BY <1>2, <1>3

LEMMA ProceedTypes ==
  ASSUME TypeOK, NEW for \in {"node", "timer"}, NEW todo \in Seq(ChainMessages),
         NEW says \in BOOLEAN,
         NEW as \in [Askers -> Seq(ChainMessages \cup {"Consensus"})],
         Proceed(for, todo, says, as)
  PROVE  /\ consensus' \in [for : {"none", "node", "timer"}, todo : Seq(ChainMessages),
                            says : BOOLEAN]
         /\ chain_q' \in Seq([from : Askers, message : ChainMessages])
         /\ answers' \in [Askers -> Seq(ChainMessages \cup {"Consensus"})]
         /\ events' \in Seq(Event) /\ Len(events') <= Capacity
         /\ status' \in [Calls -> Statuses] /\ overwritten' \in BOOLEAN
<1> DEFINE R == [from : Askers, message : ChainMessages]
           S == ChainMessages \cup {"Consensus"}
<1>0. /\ chain_q \in Seq(R) /\ events \in Seq(Event) /\ Len(events) <= Capacity
      /\ status \in [Calls -> Statuses] /\ overwritten \in BOOLEAN
  BY TypeUnfolded
<1>1. CASE todo # <<>>
  <2>1. /\ consensus' = [for |-> for, todo |-> todo, says |-> says]
        /\ chain_q' = Append(chain_q, [from |-> "consensus", message |-> Head(todo)])
        /\ answers' = as /\ UNCHANGED <<status, events, overwritten>>
    BY <1>1, Zenon DEF Proceed
  <2>2. [from |-> "consensus", message |-> Head(todo)] \in R
    <3>1. Head(todo) \in ChainMessages
      BY <1>1, Taken
    <3> QED BY <3>1 DEF Askers
  <2>3. chain_q' \in Seq(R)
    <3> HIDE DEF R
    <3> QED BY <1>0, <2>1, <2>2, Appended
  <2>4. consensus' \in [for : {"none", "node", "timer"}, todo : Seq(ChainMessages),
                        says : BOOLEAN]
    BY <2>1
  <2> QED BY <1>0, <2>1, <2>3, <2>4, Zenon
<1>2. CASE todo = <<>>
  <2>1. /\ consensus' = Idle /\ chain_q' = chain_q
        /\ IF says THEN Emit(SendBroadcast) ELSE UNCHANGED <<status, events, overwritten>>
        /\ answers' = IF for = "node" THEN [as EXCEPT !["node"] = Append(@, "Consensus")]
                                      ELSE as
    BY <1>2, Zenon DEF Proceed
  <2>2. /\ events' \in Seq(Event) /\ Len(events') <= Capacity
        /\ status' \in [Calls -> Statuses] /\ overwritten' \in BOOLEAN
    <3>1. CASE says
      <4>1. Emit(SendBroadcast)
        BY <2>1, <3>1
      <4> QED BY <4>1, EmitEffect, Events
    <3>2. CASE ~says
      BY <1>0, <2>1, <3>2
    <3> QED BY <3>1, <3>2
  <2>3. answers' \in [Askers -> Seq(S)]
    <3>1. Append(as["node"], "Consensus") \in Seq(S)
      <4>1. as["node"] \in Seq(S) /\ "Consensus" \in S
        BY Zenon DEF Askers
      <4> HIDE DEF S
      <4> QED BY <4>1, Appended, Zenon
    <3> QED BY <2>1, <3>1, Zenon
  <2> QED BY <1>0, <2>1, <2>2, <2>3, Works, Zenon
<1> QED BY <1>1, <1>2

LEMMA CallTypes ==
  ASSUME TypeOK, NEW c \in Calls, send_self_request(c) \/ InvalidArgument(c) \/ Cancel(c)
  PROVE  TypeOK'
<1>1. CASE send_self_request(c)
  <2>1. /\ status \in [Calls -> Statuses] /\ commands \in Seq(Event \cup {Publish})
        /\ Request(c) \in Event \cup {Publish}
    BY TypeUnfolded, Events
  <2>2. commands' \in Seq(Event \cup {Publish})
    BY <1>1, <2>1, Appended DEF send_self_request
  <2>3. status' \in [Calls -> Statuses]
    BY <1>1, <2>1 DEF send_self_request, Statuses
  <2> QED BY <1>1, <2>2, <2>3 DEF TypeOK, send_self_request, task, loop
<1>2. CASE InvalidArgument(c)
  <2>1. status' \in [Calls -> Statuses]
    BY <1>2 DEF InvalidArgument, Statuses, TypeOK
  <2> QED BY <1>2, <2>1 DEF TypeOK, InvalidArgument, swarm, task, loop
<1>3. CASE Cancel(c)
  <2>1. status' \in [Calls -> Statuses]
    BY <1>3 DEF Cancel, Statuses, TypeOK
  <2> QED BY <1>3, <2>1 DEF TypeOK, Cancel, swarm, task, loop
<1> QED BY <1>1, <1>2, <1>3

LEMMA SwarmTypes ==
  ASSUME TypeOK, SwarmCommand \/ SwarmMessage \/ \E p \in Peers : Discovered(p) \/ Expired(p)
  PROVE  TypeOK'
<1>0. /\ commands \in Seq(Event \cup {Publish}) /\ network \in Nat /\ live_peers \subseteq Peers
  BY TypeUnfolded
<1>1. CASE SwarmCommand
  <2>1. /\ commands # <<>> /\ commands' = Tail(commands)
        /\ IF Head(commands) = Publish THEN UNCHANGED <<status, events, overwritten>>
                                       ELSE Emit(Head(commands))
    BY <1>1 DEF SwarmCommand
  <2>2. commands' \in Seq(Event \cup {Publish}) /\ Head(commands) \in Event \cup {Publish}
    BY <1>0, <2>1, Taken
  <2>3. /\ events' \in Seq(Event) /\ Len(events') <= Capacity
        /\ status' \in [Calls -> Statuses] /\ overwritten' \in BOOLEAN
    <3>1. CASE Head(commands) = Publish
      BY <2>1, <3>1, TypeUnfolded
    <3>2. CASE Head(commands) # Publish
      BY <2>1, <2>2, <3>2, EmitEffect
    <3> QED BY <3>1, <3>2
  <2>4. UNCHANGED <<kind, live_peers, network, loop, task, chain_q, answers>>
    BY <1>1 DEF SwarmCommand
  <2> QED BY <2>2, <2>3, <2>4 DEF TypeOK, loop, task
<1>2. CASE SwarmMessage
  <2>1. PICK t \in {"Consensus", "Transaction", "Stray"} : Emit([type |-> t])
    BY <1>2 DEF SwarmMessage
  <2>2. /\ events' \in Seq(Event) /\ Len(events') <= Capacity
        /\ status' \in [Calls -> Statuses] /\ overwritten' \in BOOLEAN
    BY <2>1, EmitEffect, Events
  <2>3. network' \in Nat /\ UNCHANGED <<kind, commands, live_peers, loop, task, chain_q, answers>>
    BY <1>0, <1>2 DEF SwarmMessage
  <2> QED BY <2>2, <2>3 DEF TypeOK, loop, task
<1>3. ASSUME NEW p \in Peers, Discovered(p) \/ Expired(p)
      PROVE  TypeOK'
  <2>1. /\ network' \in Nat /\ live_peers' \subseteq Peers
        /\ UNCHANGED <<kind, commands, loop, task, chain_q, answers>>
    BY <1>0, <1>3 DEF Discovered, Expired
  <2>2. \E e \in Event : Emit(e)
    <3>1. CASE Discovered(p)
      <4>1. [type |-> "Connected", peers |-> {p} \cap allowed_peers] \in Event
        BY DEF Event
      <4> QED BY <3>1, <4>1 DEF Discovered
    <3>2. CASE Expired(p)
      BY <3>2, Events DEF Expired
    <3> QED BY <1>3, <3>1, <3>2
  <2>3. /\ events' \in Seq(Event) /\ Len(events') <= Capacity
        /\ status' \in [Calls -> Statuses] /\ overwritten' \in BOOLEAN
    BY <2>2, EmitEffect
  <2> QED BY <2>1, <2>3 DEF TypeOK, loop, task
<1> QED BY <1>1, <1>2, <1>3

(* Poll and Resume: what the node loop does to the queues.                 *)
LEMMA PollEffect ==
  ASSUME TypeOK, Poll
  PROVE  /\ Head(events) \in Event /\ Head(events) = events[1]
         /\ events' = Tail(events) /\ events' \in Seq(Event)
         /\ Len(events) \in Nat \ {0} /\ Len(events') = Len(events) - 1
         /\ DOMAIN events = 1 .. Len(events) /\ DOMAIN events' = 1 .. Len(events) - 1
         /\ \A i \in 1 .. Len(events) - 1 : events'[i] = events[i + 1]
         /\ serving = NoEvent
         /\ UNCHANGED <<kind, live_peers, network, overwritten, consensus, timers, answers>>
<1>1. events # <<>> /\ events' = Tail(events) /\ events \in Seq(Event) /\ serving = NoEvent
      /\ UNCHANGED <<kind, live_peers, network, overwritten, consensus, timers, answers>>
  BY TypeUnfolded DEF Poll
<1> QED BY <1>1, Taken

LEMMA ForwardEffect ==
  ASSUME TypeOK, NEW e \in Event, Forward(e)
  PROVE  /\ peers' \in SUBSET Peers
         /\ commands' \in {commands, Append(commands, Publish)}
         /\ commands' \in Seq(Event \cup {Publish})
<1>0. commands \in Seq(Event \cup {Publish}) /\ peers \subseteq Peers
  BY TypeUnfolded
<1>1. commands' \in {commands, Append(commands, Publish)}
  BY DEF Forward
<1>2. Append(commands, Publish) \in Seq(Event \cup {Publish})
  BY <1>0, Appended
<1>3. peers' \in SUBSET Peers
  BY <1>0, Events, PeersAssumption DEF Forward
<1> QED BY <1>0, <1>1, <1>2, <1>3

LEMMA ChainMessageType ==
  ASSUME TypeOK, NEW e \in Event
  PROVE  /\ ChainMessage(e) \in {"GetAccount", "InsertDepositIntent", "AddTransactionToBlock"}
         /\ AsksConsensus(e) => KindOf(e) \in {"TriggerConsensusRound", "Consensus"}
         /\ [from |-> "node", message |-> ChainMessage(e)]
               \in [from : Askers, message : ChainMessages]
<1>1. ChainMessage(e) \in {"GetAccount", "InsertDepositIntent", "AddTransactionToBlock"}
  BY DEF ChainMessage
<1> QED BY <1>1 DEF Askers, ChainMessages, AsksConsensus

LEMMA PollTypes ==
  ASSUME TypeOK, Poll
  PROVE  TypeOK'
<1> DEFINE e == Head(events)
           R == [from : Askers, message : ChainMessages]
           M == {"TriggerConsensusRound", "Consensus"}
<1>0. /\ commands \in Seq(Event \cup {Publish}) /\ peers \subseteq Peers
      /\ status \in [Calls -> Statuses] /\ chain_q \in Seq(R) /\ consensus_q \in Seq(M)
      /\ handlers \in BOOLEAN /\ failed \in BOOLEAN /\ Len(events) <= Capacity
      /\ Capacity \in Nat
  BY TypeUnfolded, CapacityAssumption
<1>1. /\ e \in Event /\ events' \in Seq(Event) /\ Len(events') <= Capacity
      /\ serving = NoEvent
      /\ UNCHANGED <<kind, live_peers, network, overwritten, consensus, timers, answers>>
  BY <1>0, PollEffect
<1> DEFINE Rest == /\ commands' \in Seq(Event \cup {Publish}) /\ peers' \subseteq Peers
                   /\ status' \in [Calls -> Statuses]
                   /\ handlers' \in BOOLEAN /\ failed' \in BOOLEAN
                   /\ serving' \in Event \cup {NoEvent}
                   /\ chain_q' \in Seq(R) /\ consensus_q' \in Seq(M)
<1> SUFFICES Rest
  BY <1>1 DEF TypeOK
<1> HIDE DEF e, R, M
<1>2. CASE ~handlers /\ RecvError(CallsOf(e)) /\ Forward(e)
           /\ UNCHANGED <<handlers, failed, serving, chain_q, consensus_q>>
  <2>1. status' \in [Calls -> Statuses]
    BY <1>0, <1>2 DEF RecvError, Statuses
  <2>2. commands' \in Seq(Event \cup {Publish}) /\ peers' \subseteq Peers
    BY <1>1, <1>2, ForwardEffect
  <2> QED BY <1>0, <1>1, <1>2, <2>1, <2>2
<1>3. CASE handlers /\ AsksChain(e)
           /\ chain_q' = Append(chain_q, [from |-> "node", message |-> ChainMessage(e)])
           /\ serving' = e
           /\ UNCHANGED <<status, commands, handlers, peers, failed, consensus_q>>
  <2>1. [from |-> "node", message |-> ChainMessage(e)] \in R
    BY <1>1, ChainMessageType DEF R
  <2>2. chain_q' \in Seq(R)
    BY <1>0, <1>3, <2>1, Appended
  <2> QED BY <1>0, <1>1, <1>3, <2>2
<1>4. CASE handlers /\ AsksConsensus(e)
           /\ consensus_q' = Append(consensus_q, KindOf(e)) /\ serving' = e
           /\ UNCHANGED <<status, commands, handlers, peers, failed, chain_q>>
  <2>1. KindOf(e) \in M
    BY <1>1, <1>4, ChainMessageType DEF M
  <2>2. consensus_q' \in Seq(M)
    BY <1>0, <1>4, <2>1, Appended
  <2> QED BY <1>0, <1>1, <1>4, <2>2
<1>5. CASE handlers /\ Finish(e) /\ UNCHANGED <<serving, chain_q, consensus_q>>
  <2>1. /\ status' \in [Calls -> Statuses] /\ handlers' \in BOOLEAN /\ failed' \in BOOLEAN
        /\ commands' \in Seq(Event \cup {Publish}) /\ peers' \subseteq Peers
    BY <1>1, <1>5, FinishEffect
  <2> QED BY <1>0, <1>1, <1>5, <2>1
<1> QED BY <1>2, <1>3, <1>4, <1>5 DEF Poll, e

LEMMA ResumeTypes ==
  ASSUME TypeOK, Resume
  PROVE  TypeOK'
<1> DEFINE S == ChainMessages \cup {"Consensus"}
<1>0. /\ serving \in Event /\ answers \in [Askers -> Seq(S)] /\ status \in [Calls -> Statuses]
      /\ commands \in Seq(Event \cup {Publish}) /\ peers \subseteq Peers /\ failed \in BOOLEAN
  BY TypeUnfolded DEF Resume
<1>1. answers' \in [Askers -> Seq(S)]
  <2>1. answers["node"] \in Seq(S) /\ answers["node"] # <<>>
    BY <1>0 DEF Resume, Askers
  <2>2. Tail(answers["node"]) \in Seq(S)
    <3> HIDE DEF S
    <3> QED BY <2>1, Taken
  <2>3. answers' = [answers EXCEPT !["node"] = Tail(@)]
    BY DEF Resume
  <2> QED BY <1>0, <2>2, <2>3, Zenon
<1>2. /\ status' \in [Calls -> Statuses] /\ handlers' \in BOOLEAN /\ failed' \in BOOLEAN
      /\ commands' \in Seq(Event \cup {Publish}) /\ peers' \subseteq Peers
  <2>1. CASE Finish(serving)
    BY <1>0, <2>1, FinishEffect
  <2>2. CASE handlers' = FALSE /\ RecvError(CallsOf(serving)) /\ UNCHANGED <<peers, commands, failed>>
    <3>1. status' \in [Calls -> Statuses]
      BY <1>0, <2>2 DEF RecvError, Statuses
    <3> QED BY <1>0, <2>2, <3>1, Zenon
  <2> QED BY <2>1, <2>2, Zenon DEF Resume
<1>3. /\ serving' = NoEvent
      /\ UNCHANGED <<kind, live_peers, network, events, overwritten, task, chain_q>>
  BY DEF Resume
<1> QED BY <1>1, <1>2, <1>3 DEF TypeOK, task

LEMMA ConsensusTypes ==
  ASSUME TypeOK, OneRequestEach, poll_messages \/ trigger_new_round \/ ConsensusResume
  PROVE  TypeOK'
<1> DEFINE S == ChainMessages \cup {"Consensus"}
           M == {"TriggerConsensusRound", "Consensus"}
           W == [for : {"none", "node", "timer"}, todo : Seq(ChainMessages), says : BOOLEAN]
           R == [from : Askers, message : ChainMessages]
<1>0. /\ answers \in [Askers -> Seq(S)] /\ consensus_q \in Seq(M) /\ consensus \in W
      /\ timers \in Nat /\ chain_q \in Seq(R)
  BY TypeUnfolded
<1> DEFINE Rest == /\ consensus' \in W /\ chain_q' \in Seq(R) /\ answers' \in [Askers -> Seq(S)]
                   /\ events' \in Seq(Event) /\ Len(events') <= Capacity
                   /\ status' \in [Calls -> Statuses] /\ overwritten' \in BOOLEAN
                   /\ consensus_q' \in Seq(M) /\ timers' \in Nat
<1> SUFFICES Rest
  <2>1. UNCHANGED <<kind, swarm, loop>>
    BY DEF poll_messages, trigger_new_round, ConsensusResume
  <2> QED BY <2>1 DEF TypeOK, swarm, loop
<1>1. CASE poll_messages
  <2>1. PICK w \in Handling(Head(consensus_q)) : Proceed("node", w.todo, w.says, answers)
    BY <1>1 DEF poll_messages
  <2>2. w.todo \in Seq(ChainMessages) /\ w.says \in BOOLEAN
    BY <2>1, Works
  <2>3. /\ consensus' \in W /\ chain_q' \in Seq(R) /\ answers' \in [Askers -> Seq(S)]
        /\ events' \in Seq(Event) /\ Len(events') <= Capacity
        /\ status' \in [Calls -> Statuses] /\ overwritten' \in BOOLEAN
    BY <1>0, <2>1, <2>2, ProceedTypes, Zenon
  <2>4. consensus_q' \in Seq(M)
    <3>1. consensus_q # <<>> /\ consensus_q' = Tail(consensus_q)
      BY <1>1 DEF poll_messages
    <3> HIDE DEF M
    <3> QED BY <1>0, <3>1, Taken
  <2>5. timers' = timers
    BY <1>1 DEF poll_messages
  <2> QED BY <1>0, <2>3, <2>4, <2>5
<1>2. CASE trigger_new_round
  <2>1. /\ timers' = timers + 1 /\ Emit(SendBroadcast)
        /\ chain_q' = Append(chain_q, [from |-> "consensus", message |-> "GetProposedBlock"])
        /\ consensus' = [for |-> "timer", todo |-> <<"GetProposedBlock">>, says |-> TRUE]
        /\ UNCHANGED <<consensus_q, answers>>
    BY <1>2 DEF trigger_new_round
  <2>2. /\ events' \in Seq(Event) /\ Len(events') <= Capacity
        /\ status' \in [Calls -> Statuses] /\ overwritten' \in BOOLEAN
    BY <2>1, EmitEffect, Events
  <2>3. chain_q' \in Seq(R)
    <3>1. [from |-> "consensus", message |-> "GetProposedBlock"] \in R
      BY DEF Askers, ChainMessages
    <3> HIDE DEF R
    <3> QED BY <1>0, <2>1, <3>1, Appended
  <2>4. consensus' \in W
    <3>1. <<"GetProposedBlock">> \in Seq(ChainMessages)
      BY DEF ChainMessages
    <3> QED BY <2>1, <3>1
  <2>5. answers' \in [Askers -> Seq(S)] /\ consensus_q' \in Seq(M)
    BY <1>0, <2>1
  <2>6. timers' \in Nat
    BY <1>0, <2>1
  <2> HIDE DEF S, M, W, R
  <2> QED BY <2>2, <2>3, <2>4, <2>5, <2>6
<1>3. CASE ConsensusResume
  <2> DEFINE as == [answers EXCEPT !["consensus"] = Tail(@)]
  <2>1. /\ consensus # Idle /\ answers["consensus"] # <<>>
        /\ Proceed(consensus.for, Tail(consensus.todo), consensus.says, as)
        /\ UNCHANGED <<consensus_q, timers>>
    BY <1>3 DEF ConsensusResume
  <2>2. as \in [Askers -> Seq(S)]
    <3>1. answers["consensus"] \in Seq(S)
      BY <1>0 DEF Askers
    <3>2. Tail(answers["consensus"]) \in Seq(S)
      <4> HIDE DEF S
      <4> QED BY <2>1, <3>1, Taken
    <3> QED BY <1>0, <3>2, Zenon
  <2>3. /\ consensus.for \in {"node", "timer"} /\ Tail(consensus.todo) \in Seq(ChainMessages)
        /\ consensus.says \in BOOLEAN
    <3>1. consensus.todo # <<>> /\ consensus.for # "none"
      BY <2>1 DEF OneRequestEach
    <3>2. consensus.todo \in Seq(ChainMessages)
      BY <1>0
    <3> QED BY <1>0, <3>1, <3>2, Taken
  <2> HIDE DEF as
  <2>4. /\ consensus' \in W /\ chain_q' \in Seq(R) /\ answers' \in [Askers -> Seq(S)]
        /\ events' \in Seq(Event) /\ Len(events') <= Capacity
        /\ status' \in [Calls -> Statuses] /\ overwritten' \in BOOLEAN
    BY <2>1, <2>2, <2>3, ProceedTypes, Zenon
  <2> QED BY <1>0, <2>1, <2>4
<1> QED BY <1>1, <1>2, <1>3

LEMMA ChainTypes ==
  ASSUME TypeOK, ChainHandle
  PROVE  TypeOK'
<1> DEFINE S == ChainMessages \cup {"Consensus"}
           R == [from : Askers, message : ChainMessages]
<1>0. answers \in [Askers -> Seq(S)] /\ chain_q \in Seq(R) /\ chain_q # <<>>
      /\ chain_q' = Tail(chain_q)
  BY TypeUnfolded DEF ChainHandle
<1>1. Head(chain_q) \in R /\ Tail(chain_q) \in Seq(R)
  <2> HIDE DEF R
  <2> QED BY <1>0, Taken
<1>2. Head(chain_q).message \in S
  BY <1>1
<1>3. answers' \in [Askers -> Seq(S)]
  <2>1. answers' = [s \in Askers |-> IF s \in AnswerChannel(Head(chain_q).from)
                                     THEN Append(answers[s], Head(chain_q).message)
                                     ELSE answers[s]]
    BY DEF ChainHandle, Reply
  <2>2. \A s \in Askers : answers[s] \in Seq(S) /\ Append(answers[s], Head(chain_q).message) \in Seq(S)
    <3> HIDE DEF S
    <3> QED BY <1>0, <1>2, Appended
  <2> QED BY <2>1, <2>2
<1>4. UNCHANGED <<kind, status, swarm, events, overwritten, loop, task>>
  BY DEF ChainHandle
<1> QED BY <1>0, <1>1, <1>3, <1>4, Zenon DEF TypeOK, swarm, loop, task

-----------------------------------------------------------------------------
(* Requests and their answers *)

Entries(q) == {q[i] : i \in DOMAIN q}
OneEach(q) == \A i, j \in DOMAIN q : q[i].from = q[j].from => i = j

LEMMA EntriesIn ==
  ASSUME NEW R, NEW q \in Seq(R)
  PROVE  Entries(q) \subseteq R
<1>1. \A i \in DOMAIN q : q[i] \in R
  BY ElementOfSeq, LenProperties
<1> QED BY <1>1 DEF Entries

LEMMA Posted ==
  ASSUME NEW R, NEW q \in Seq(R), NEW r \in R, OneEach(q),
         \A x \in Entries(q) : x.from # r.from
  PROVE  OneEach(Append(q, r)) /\ Entries(Append(q, r)) = Entries(q) \cup {r}
<1> DEFINE p == Append(q, r)
<1>1. /\ Len(q) \in Nat /\ DOMAIN q = 1 .. Len(q) /\ DOMAIN p = 1 .. Len(q) + 1
      /\ p[Len(q) + 1] = r /\ \A i \in 1 .. Len(q) : p[i] = q[i]
  BY Appended
<1> HIDE DEF p
<1>2. \A i \in DOMAIN q : q[i].from # r.from
  BY DEF Entries
<1>3. OneEach(p)
  <2> SUFFICES ASSUME NEW i \in DOMAIN p, NEW j \in DOMAIN p, p[i].from = p[j].from
               PROVE  i = j
    BY DEF OneEach
  <2>1. CASE i \in DOMAIN q /\ j \in DOMAIN q
    BY <1>1, <2>1 DEF OneEach
  <2>2. CASE i \notin DOMAIN q \/ j \notin DOMAIN q
    BY <1>1, <1>2, <2>2
  <2> QED BY <2>1, <2>2
<1>4. Entries(p) = Entries(q) \cup {r}
  <2>1. Entries(p) \subseteq Entries(q) \cup {r}
    BY <1>1 DEF Entries
  <2>2. Entries(q) \subseteq Entries(p)
    BY <1>1 DEF Entries
  <2>3. r \in Entries(p)
    BY <1>1 DEF Entries
  <2> QED BY <2>1, <2>2, <2>3
<1> QED BY <1>3, <1>4 DEF p

LEMMA Served ==
  ASSUME NEW R, NEW q \in Seq(R), q # <<>>, OneEach(q)
  PROVE  /\ OneEach(Tail(q)) /\ Head(q) \in Entries(q)
         /\ Entries(Tail(q)) = {x \in Entries(q) : x.from # Head(q).from}
<1> DEFINE p == Tail(q)
           h == Head(q)
<1>1. /\ Len(q) \in Nat \ {0} /\ DOMAIN q = 1 .. Len(q) /\ DOMAIN p = 1 .. Len(q) - 1
      /\ h = q[1] /\ \A i \in 1 .. Len(q) - 1 : p[i] = q[i + 1]
  BY Taken
<1> HIDE DEF p, h
<1>2. OneEach(p)
  <2> SUFFICES ASSUME NEW i \in DOMAIN p, NEW j \in DOMAIN p, p[i].from = p[j].from
               PROVE  i = j
    BY DEF OneEach
  <2>1. i + 1 \in DOMAIN q /\ j + 1 \in DOMAIN q /\ p[i] = q[i + 1] /\ p[j] = q[j + 1]
        /\ i \in Int /\ j \in Int
    BY <1>1
  <2>2. i + 1 = j + 1
    BY <2>1 DEF OneEach
  <2> QED BY <2>1, <2>2
<1>3. h \in Entries(q)
  BY <1>1 DEF Entries
<1>4. ASSUME NEW x \in Entries(p)
      PROVE  x \in Entries(q) /\ x.from # h.from
  <2>1. PICK i \in DOMAIN p : x = p[i]
    BY DEF Entries
  <2>2. i + 1 \in DOMAIN q /\ 1 \in DOMAIN q /\ x = q[i + 1] /\ i + 1 # 1
    BY <1>1, <2>1
  <2>3. q[i + 1].from # q[1].from
    BY <2>2 DEF OneEach
  <2> QED BY <1>1, <2>2, <2>3 DEF Entries
<1>5. ASSUME NEW x \in Entries(q), x.from # h.from
      PROVE  x \in Entries(p)
  <2>1. PICK i \in DOMAIN q : x = q[i]
    BY DEF Entries
  <2>2. i # 1
    BY <1>1, <1>5, <2>1
  <2>3. i - 1 \in DOMAIN p /\ x = p[i - 1]
    BY <1>1, <2>1, <2>2
  <2> QED BY <2>3 DEF Entries
<1>6. Entries(p) = {x \in Entries(q) : x.from # h.from}
  BY <1>4, <1>5
<1> QED BY <1>2, <1>3, <1>6 DEF p, h

(* The requests of both tasks, with the queue of the chain actor as a set. *)
Requests ==
    LET asked == Entries(chain_q)
        node  == \E x \in asked : x.from = "node"
        cons  == \E x \in asked : x.from = "consensus"
    IN  /\ OneEach(chain_q)
        /\ serving # NoEvent <=> node \/ AtConsensus \/ answers["node"] # <<>>
        /\ node => ~AtConsensus /\ answers["node"] = <<>> /\ AsksChain(serving)
        /\ AtConsensus => answers["node"] = <<>> /\ AsksConsensus(serving)
        /\ consensus_q # <<>> => Len(consensus_q) = 1 /\ consensus.for # "node"
        /\ consensus # Idle <=> cons \/ answers["consensus"] # <<>>
        /\ consensus # Idle => consensus.todo # <<>> /\ consensus.for # "none"
        /\ cons => answers["consensus"] = <<>>
        /\ \A x \in asked : x.message = IF x.from = "node" THEN Expected
                                                           ELSE Head(consensus.todo)
        /\ answers["node"] \in {<<>>, <<Expected>>}
        /\ answers["consensus"] # <<>> => answers["consensus"] = <<Head(consensus.todo)>>

LEMMA RequestsMeaning == OneRequestEach <=> Requests
<1>1. ASSUME NEW s
      PROVE  AtChain(s) <=> \E x \in Entries(chain_q) : x.from = s
  BY DEF AtChain, Entries
<1>2. (\A i \in DOMAIN chain_q :
         chain_q[i].message = IF chain_q[i].from = "node" THEN Expected ELSE Head(consensus.todo))
       <=> \A x \in Entries(chain_q) :
             x.message = IF x.from = "node" THEN Expected ELSE Head(consensus.todo)
  BY DEF Entries
<1>3. AtChain("node") <=> \E x \in Entries(chain_q) : x.from = "node"
  BY <1>1
<1>4. AtChain("consensus") <=> \E x \in Entries(chain_q) : x.from = "consensus"
  BY <1>1
<1> HIDE DEF AtChain
<1> QED BY <1>2, <1>3, <1>4, Zenon DEF OneRequestEach, Requests, OneEach

LEMMA RequestsMeaningNext == OneRequestEach' <=> Requests'
  BY RequestsMeaning, PTL

(* The two kinds of question a handler asks exclude each other.            *)
LEMMA OneQuestion ==
  ASSUME NEW e
  PROVE  AsksConsensus(e) => ~AsksChain(e)
  BY DEF AsksConsensus, AsksChain, ReadsAccount

(* A sequence of one element, and what is left of it.                      *)
LEMMA Single ==
  ASSUME NEW a
  PROVE  <<a>> # <<>> /\ Tail(<<a>>) = <<>> /\ Head(<<a>>) = a /\ Append(<<>>, a) = <<a>>
  OBVIOUS

LEMMA OneLeft ==
  ASSUME NEW S, NEW q \in Seq(S), Len(q) = 1
  PROVE  q # <<>> /\ Tail(q) = <<>>
<1>1. q # <<>>
  BY EmptySeq
<1>2. Tail(q) \in Seq(S) /\ Len(Tail(q)) = 0
  BY <1>1, Taken
<1> QED BY <1>1, <1>2, EmptySeq, Zenon

(* Steps that leave the requests and the tasks that wait for them alone.   *)
LEMMA RequestsSame ==
  ASSUME OneRequestEach, UNCHANGED <<kind, serving, consensus_q, consensus, chain_q, answers>>
  PROVE  OneRequestEach'
  BY DEF OneRequestEach, AtChain, AtConsensus, Expected, AsksChain, AsksConsensus, ChainMessage,
         KindOf, ReadsAccount, Idle

LEMMA PollRequests ==
  ASSUME TypeOK, OneRequestEach, Poll
  PROVE  OneRequestEach'
<1> DEFINE e == Head(events)
           R == [from : Askers, message : ChainMessages]
           asked == Entries(chain_q)
<1>0. /\ e \in Event /\ chain_q \in Seq(R) /\ serving = NoEvent
      /\ UNCHANGED <<kind, consensus, answers>>
      /\ consensus_q \in Seq({"TriggerConsensusRound", "Consensus"})
  BY PollEffect, TypeUnfolded
<1>1. Requests
  BY RequestsMeaning
<1>2. /\ OneEach(chain_q) /\ \A x \in asked : x.from # "node"
      /\ consensus_q = <<>> /\ consensus.for # "node" /\ answers["node"] = <<>>
  BY <1>0, <1>1 DEF Requests, AtConsensus
<1>3. /\ consensus # Idle <=> (\E x \in asked : x.from = "consensus") \/ answers["consensus"] # <<>>
      /\ consensus # Idle => consensus.todo # <<>> /\ consensus.for # "none"
      /\ (\E x \in asked : x.from = "consensus") => answers["consensus"] = <<>>
      /\ \A x \in asked : x.message = Head(consensus.todo)
      /\ answers["consensus"] # <<>> => answers["consensus"] = <<Head(consensus.todo)>>
  BY <1>1, <1>2 DEF Requests
<1>4. e # NoEvent
  BY <1>0, Events
<1> HIDE DEF e, R, asked
<1>5. CASE UNCHANGED <<serving, chain_q, consensus_q>>
  BY <1>0, <1>5, RequestsSame
<1>6. CASE /\ AsksChain(e)
           /\ chain_q' = Append(chain_q, [from |-> "node", message |-> ChainMessage(e)])
           /\ serving' = e /\ UNCHANGED consensus_q
  <2> DEFINE r == [from |-> "node", message |-> ChainMessage(e)]
  <2>1. r \in R /\ r.from = "node" /\ r.message = ChainMessage(e)
    BY <1>0, ChainMessageType DEF R
  <2> HIDE DEF r
  <2>2. OneEach(chain_q') /\ Entries(chain_q') = asked \cup {r}
    <3>1. chain_q' = Append(chain_q, r)
      BY <1>6 DEF r
    <3> QED BY <1>0, <1>2, <2>1, <3>1, Posted DEF asked
  <2>3. AsksChain(serving)' /\ Expected' = ChainMessage(e)
    BY <1>0, <1>6 DEF AsksChain, Expected, ChainMessage, KindOf, ReadsAccount
  <2>4. ~AtConsensus'
    BY <1>0, <1>2, <1>6, Zenon DEF AtConsensus
  <2>5. Requests'
    BY <1>0, <1>2, <1>3, <1>4, <1>6, <2>1, <2>2, <2>3, <2>4 DEF Requests, Idle
  <2> QED BY <2>5, RequestsMeaningNext
<1>7. CASE /\ AsksConsensus(e)
           /\ consensus_q' = Append(consensus_q, KindOf(e)) /\ serving' = e /\ UNCHANGED chain_q
  <2>1. consensus_q' # <<>> /\ Len(consensus_q') = 1
    <3>1. consensus_q' = <<KindOf(e)>>
      BY <1>2, <1>7, Single
    <3> QED BY <3>1
  <2>2. AsksConsensus(serving)' /\ AtConsensus'
    BY <1>0, <1>7, <2>1, Zenon DEF AsksConsensus, KindOf, AtConsensus
  <2>3. Requests'
    BY <1>0, <1>2, <1>3, <1>4, <1>7, <2>1, <2>2 DEF Requests, Idle, asked
  <2> QED BY <2>3, RequestsMeaningNext
<1> QED BY <1>5, <1>6, <1>7 DEF Poll, e

LEMMA ResumeRequests ==
  ASSUME TypeOK, OneRequestEach, Resume
  PROVE  OneRequestEach' /\ Head(answers["node"]) = Expected
<1>0. /\ serving # NoEvent /\ serving' = NoEvent /\ answers["node"] # <<>>
      /\ answers' = [answers EXCEPT !["node"] = Tail(@)]
      /\ UNCHANGED <<kind, consensus_q, consensus, chain_q>>
      /\ "node" \in DOMAIN answers /\ "consensus" \in DOMAIN answers
  BY TypeUnfolded DEF Resume, task, Askers
<1>1. Requests
  BY RequestsMeaning
<1>2. answers["node"] = <<Expected>>
  BY <1>0, <1>1 DEF Requests
<1>3. Head(answers["node"]) = Expected /\ Tail(answers["node"]) = <<>>
  BY <1>2, Single
<1>4. answers'["node"] = <<>> /\ answers'["consensus"] = answers["consensus"]
  BY <1>0, <1>3
<1>5. (\A x \in Entries(chain_q) : x.from # "node") /\ ~AtConsensus
  BY <1>0, <1>1 DEF Requests
<1>6. ~AtConsensus'
  BY <1>0, <1>5 DEF AtConsensus
<1>7. Requests'
  BY <1>0, <1>1, <1>4, <1>5, <1>6 DEF Requests, Idle
<1> QED BY <1>3, <1>7, RequestsMeaningNext

(* The consensus task has nothing with the chain actor and goes on with    *)
(* its work, for the node loop or for the timer.                           *)
LEMMA ProceedRequests ==
  ASSUME TypeOK, NEW for \in {"node", "timer"}, NEW todo \in Seq(ChainMessages),
         NEW says \in BOOLEAN,
         NEW as \in [Askers -> Seq(ChainMessages \cup {"Consensus"})],
         Proceed(for, todo, says, as), UNCHANGED <<kind, serving>>,
         OneEach(chain_q),
         \A x \in Entries(chain_q) : x.from = "node" /\ x.message = Expected,
         as["consensus"] = <<>>, as["node"] \in {<<>>, <<Expected>>},
         Entries(chain_q) # {} => AsksChain(serving) /\ as["node"] = <<>>,
         consensus_q' # <<>> => /\ for = "timer" /\ Len(consensus_q') = 1 /\ as["node"] = <<>>
                                /\ AsksConsensus(serving),
         for = "node" => Entries(chain_q) = {} /\ as["node"] = <<>> /\ AsksConsensus(serving),
         serving # NoEvent <=> \/ Entries(chain_q) # {} \/ as["node"] # <<>>
                               \/ consensus_q' # <<>> \/ for = "node"
  PROVE  OneRequestEach'
<1> DEFINE R == [from : Askers, message : ChainMessages]
           asked == Entries(chain_q)
<1>0. chain_q \in Seq(R) /\ "node" \in DOMAIN as /\ "consensus" \in DOMAIN as
  BY TypeUnfolded DEF Askers
<1>1. /\ Expected' = Expected /\ (AsksChain(serving)' <=> AsksChain(serving))
      /\ (AsksConsensus(serving)' <=> AsksConsensus(serving))
  BY DEF Expected, AsksChain, AsksConsensus, ChainMessage, KindOf, ReadsAccount
<1>a. ~(asked # {} /\ consensus_q' # <<>>)
  BY OneQuestion, Zenon
<1>2. CASE todo # <<>>
  <2> DEFINE r == [from |-> "consensus", message |-> Head(todo)]
             w == [for |-> for, todo |-> todo, says |-> says]
  <2>1. /\ consensus' = w /\ chain_q' = Append(chain_q, r) /\ answers' = as
    BY <1>2, Zenon DEF Proceed
  <2>2. w.for = for /\ w.todo = todo
    OBVIOUS
  <2>3. w # Idle
    BY <1>2, <2>2, Works
  <2>4. r \in R /\ r.from = "consensus" /\ r.message = Head(todo)
    BY <1>2, Taken, Zenon DEF Askers
  <2> HIDE DEF r, w, R
  <2>5. OneEach(chain_q') /\ Entries(chain_q') = asked \cup {r}
    BY <1>0, <2>1, <2>4, Posted
  <2>6. AtConsensus' <=> consensus_q' # <<>> \/ for = "node"
    BY <2>1, <2>2 DEF AtConsensus
  <2>7. (\E x \in Entries(chain_q') : x.from = "node") <=> asked # {}
    BY <2>4, <2>5
  <2>8. \E x \in Entries(chain_q') : x.from = "consensus"
    BY <2>4, <2>5
  <2>9. \A x \in Entries(chain_q') : x.message = IF x.from = "node" THEN Expected' ELSE Head(todo)
    BY <1>1, <2>4, <2>5, Zenon
  <2> HIDE DEF asked
  <2>10. Requests'
    <3>1. Idle' = Idle
      BY DEF Idle
    <3> QED BY <1>1, <1>2, <1>a, <2>1, <2>2, <2>3, <2>5, <2>6, <2>7, <2>8, <2>9, <3>1, Zenon
            DEF Requests, asked
  <2> QED BY <2>10, RequestsMeaningNext
<1>3. CASE todo = <<>>
  <2>1. /\ consensus' = Idle /\ chain_q' = chain_q
        /\ answers' = IF for = "node" THEN [as EXCEPT !["node"] = Append(@, "Consensus")]
                                      ELSE as
    BY <1>3, Zenon DEF Proceed
  <2>2. AtConsensus' <=> consensus_q' # <<>>
    BY <2>1, Works DEF AtConsensus
  <2>3. answers'["consensus"] = <<>>
    BY <1>0, <2>1, Zenon
  <2>4. /\ for = "node" => answers'["node"] = <<"Consensus">> /\ Expected = "Consensus"
        /\ for = "timer" => answers'["node"] = as["node"]
    <3>1. ASSUME for = "node"
          PROVE  answers'["node"] = <<"Consensus">> /\ Expected = "Consensus"
      <4>1. answers'["node"] = Append(<<>>, "Consensus")
        BY <1>0, <2>1, <3>1, Zenon
      <4>2. ~AsksChain(serving)
        BY <3>1, OneQuestion
      <4> QED BY <4>1, <4>2, Single DEF Expected
    <3>2. ASSUME for = "timer"
          PROVE  answers'["node"] = as["node"]
      BY <2>1, <3>2
    <3> QED BY <3>1, <3>2, Zenon
  <2>5. <<"Consensus">> # <<>>
    BY Single
  <2>6. Idle' = Idle
    BY DEF Idle
  <2>7. (\E x \in Entries(chain_q') : x.from = "node") <=> asked # {}
    BY <2>1
  <2>8. \A x \in Entries(chain_q') : x.from = "node" /\ x.message = Expected'
    BY <1>1, <2>1
  <2>9. OneEach(chain_q')
    BY <2>1
  <2>10. answers'["node"] \in {<<>>, <<Expected'>>}
    BY <1>1, <2>4, Zenon
  <2> HIDE DEF asked
  <2>11. serving' # NoEvent' <=> asked # {} \/ AtConsensus' \/ answers'["node"] # <<>>
    BY <2>2, <2>4, <2>5, Zenon DEF asked, NoEvent
  <2>12. /\ asked # {} => ~AtConsensus' /\ answers'["node"] = <<>> /\ AsksChain(serving)'
         /\ AtConsensus' => answers'["node"] = <<>> /\ AsksConsensus(serving)'
    BY <1>1, <1>a, <2>2, <2>4, Zenon DEF asked
  <2>13. consensus_q' # <<>> => Len(consensus_q') = 1 /\ consensus.for' # "node"
    BY <2>1, Works
  <2>14. Requests'
    BY <2>1, <2>3, <2>6, <2>7, <2>8, <2>9, <2>10, <2>11, <2>12, <2>13, Zenon DEF Requests
  <2> QED BY <2>14, RequestsMeaningNext
<1> QED BY <1>2, <1>3

LEMMA ConsensusRequests ==
  ASSUME TypeOK, OneRequestEach, poll_messages \/ trigger_new_round \/ ConsensusResume
  PROVE  OneRequestEach'
<1> DEFINE S == ChainMessages \cup {"Consensus"}
           asked == Entries(chain_q)
<1>0. /\ answers \in [Askers -> Seq(S)] /\ UNCHANGED <<kind, serving>>
      /\ consensus_q \in Seq({"TriggerConsensusRound", "Consensus"})
      /\ "node" \in DOMAIN answers /\ "consensus" \in DOMAIN answers
      /\ chain_q \in Seq([from : Askers, message : ChainMessages])
      /\ consensus \in [for : {"none", "node", "timer"}, todo : Seq(ChainMessages), says : BOOLEAN]
  BY TypeUnfolded, Zenon DEF Askers, poll_messages, trigger_new_round, ConsensusResume, loop
<1>1. Requests
  BY RequestsMeaning
<1>2. \A x \in asked : x.from \in {"node", "consensus"}
  <2>1. asked \subseteq [from : Askers, message : ChainMessages]
    BY <1>0, EntriesIn, Zenon
  <2> QED BY <2>1 DEF Askers
<1>3. ASSUME \A x \in asked : x.from # "consensus"
      PROVE  \A x \in asked : x.from = "node" /\ x.message = Expected
  BY <1>1, <1>2, <1>3 DEF Requests
<1>4. CASE poll_messages
  <2>1. consensus = Idle /\ consensus_q # <<>> /\ consensus_q' = Tail(consensus_q)
    BY <1>4, Zenon DEF poll_messages
  <2>2. /\ Len(consensus_q) = 1 /\ AsksConsensus(serving) /\ serving # NoEvent
        /\ answers["node"] = <<>> /\ answers["consensus"] = <<>> /\ OneEach(chain_q)
        /\ asked = {}
    BY <1>1, <1>2, <2>1 DEF Requests, AtConsensus
  <2>3. consensus_q' = <<>>
    BY <1>0, <2>1, <2>2, OneLeft
  <2>4. PICK w \in Handling(Head(consensus_q)) : Proceed("node", w.todo, w.says, answers)
    BY <1>4 DEF poll_messages
  <2>5. w.todo \in Seq(ChainMessages) /\ w.says \in BOOLEAN
    BY <2>4, Works
  <2> QED BY <1>0, <2>2, <2>3, <2>4, <2>5, ProceedRequests
<1>5. CASE trigger_new_round
  <2> DEFINE r == [from |-> "consensus", message |-> "GetProposedBlock"]
             w == [for |-> "timer", todo |-> <<"GetProposedBlock">>, says |-> TRUE]
  <2>1. /\ consensus = Idle /\ chain_q' = Append(chain_q, r) /\ consensus' = w
        /\ UNCHANGED <<consensus_q, answers>>
    BY <1>5 DEF trigger_new_round
  <2>2. w.for = "timer" /\ w.todo = <<"GetProposedBlock">> /\ w.todo # <<>> /\ w # Idle
        /\ Head(w.todo) = "GetProposedBlock"
    BY Single, Works
  <2>3. /\ r \in [from : Askers, message : ChainMessages]
        /\ r.from = "consensus" /\ r.message = "GetProposedBlock"
    BY Zenon DEF Askers, ChainMessages
  <2> HIDE DEF r, w
  <2>4. (\A x \in asked : x.from = "node" /\ x.message = Expected) /\ answers["consensus"] = <<>>
    BY <1>1, <1>3, <2>1 DEF Requests
  <2>5. OneEach(chain_q') /\ Entries(chain_q') = asked \cup {r}
    <3>1. OneEach(chain_q) /\ \A x \in Entries(chain_q) : x.from # r.from
      BY <1>1, <2>3, <2>4 DEF Requests
    <3> DEFINE R == [from : Askers, message : ChainMessages]
    <3>2. chain_q \in Seq(R) /\ r \in R /\ chain_q' = Append(chain_q, r)
      BY <1>0, <2>1, <2>3
    <3> HIDE DEF R, asked
    <3> QED BY <3>1, <3>2, Posted, Zenon DEF asked
  <2>6. /\ Expected' = Expected /\ (AsksChain(serving)' <=> AsksChain(serving))
        /\ (AsksConsensus(serving)' <=> AsksConsensus(serving))
    BY <1>0 DEF Expected, AsksChain, AsksConsensus, ChainMessage, KindOf, ReadsAccount
  <2>7. AtConsensus' <=> AtConsensus
    BY <2>1, <2>2, Works DEF AtConsensus
  <2>8. (\E x \in Entries(chain_q') : x.from = "node") <=> \E x \in asked : x.from = "node"
    BY <2>3, <2>5, Zenon
  <2>9. \A x \in Entries(chain_q') :
          x.message = IF x.from = "node" THEN Expected' ELSE Head(consensus'.todo)
    BY <2>1, <2>2, <2>3, <2>4, <2>5, <2>6
  <2>10. \E x \in Entries(chain_q') : x.from = "consensus"
    BY <2>3, <2>5, Zenon
  <2>11. Requests'
    <3>1. Idle' = Idle /\ NoEvent' = NoEvent
      BY Zenon DEF Idle, NoEvent
    <3> HIDE DEF asked
    <3> QED BY <1>0, <1>1, <2>1, <2>2, <2>4, <2>5, <2>6, <2>7, <2>8, <2>9, <2>10, <3>1, Zenon
            DEF Requests, asked
  <2> QED BY <2>11, RequestsMeaningNext
<1>6. CASE ConsensusResume
  <2> DEFINE as == [answers EXCEPT !["consensus"] = Tail(@)]
  <2>1. /\ consensus # Idle /\ answers["consensus"] # <<>>
        /\ Proceed(consensus.for, Tail(consensus.todo), consensus.says, as)
        /\ consensus_q' = consensus_q
    BY <1>6 DEF ConsensusResume
  <2>2. /\ answers["consensus"] = <<Head(consensus.todo)>>
        /\ \A x \in asked : x.from # "consensus"
    BY <1>1, <2>1 DEF Requests
  <2>3. Tail(answers["consensus"]) = <<>>
    BY <2>2, Single
  <2>4. /\ as["consensus"] = <<>> /\ as["node"] = answers["node"]
    BY <1>0, <2>3
  <2>5. as \in [Askers -> Seq(S)]
    <3>1. <<>> \in Seq(S)
      OBVIOUS
    <3> QED BY <1>0, <2>3, <3>1, Zenon
  <2> HIDE DEF as
  <2>6. /\ consensus.for \in {"node", "timer"} /\ Tail(consensus.todo) \in Seq(ChainMessages)
        /\ consensus.says \in BOOLEAN
    <3>1. consensus.todo # <<>> /\ consensus.for # "none"
      BY <1>1, <2>1 DEF Requests
    <3>2. consensus.todo \in Seq(ChainMessages)
      BY <1>0
    <3> QED BY <1>0, <3>1, <3>2, Taken
  <2>7. \A x \in asked : x.from = "node" /\ x.message = Expected
    BY <1>3, <2>2, Zenon
  <2>8. /\ OneEach(chain_q) /\ as["node"] \in {<<>>, <<Expected>>}
        /\ asked # {} => AsksChain(serving) /\ as["node"] = <<>> /\ ~AtConsensus
        /\ AtConsensus => as["node"] = <<>> /\ AsksConsensus(serving)
        /\ consensus_q # <<>> => Len(consensus_q) = 1 /\ consensus.for # "node"
        /\ serving # NoEvent <=> asked # {} \/ AtConsensus \/ as["node"] # <<>>
    BY <1>1, <2>4, <2>7 DEF Requests
  <2>9. AtConsensus <=> consensus_q # <<>> \/ consensus.for = "node"
    BY Zenon DEF AtConsensus
  <2>10. /\ asked # {} => AsksChain(serving) /\ as["node"] = <<>>
         /\ consensus_q' # <<>> => /\ consensus.for = "timer" /\ Len(consensus_q') = 1
                                   /\ as["node"] = <<>> /\ AsksConsensus(serving)
         /\ consensus.for = "node" => asked = {} /\ as["node"] = <<>> /\ AsksConsensus(serving)
         /\ serving # NoEvent <=> \/ asked # {} \/ as["node"] # <<>>
                                  \/ consensus_q' # <<>> \/ consensus.for = "node"
    BY <2>1, <2>6, <2>8, <2>9, Zenon
  <2> QED BY <1>0, <2>1, <2>4, <2>5, <2>6, <2>7, <2>8, <2>10, ProceedRequests, Zenon
<1> QED BY <1>4, <1>5, <1>6

LEMMA ChainRequests ==
  ASSUME TypeOK, OneRequestEach, ChainHandle
  PROVE  OneRequestEach'
<1> DEFINE R == [from : Askers, message : ChainMessages]
           S == ChainMessages \cup {"Consensus"}
           asked == Entries(chain_q)
           h == Head(chain_q)
<1>0. /\ chain_q \in Seq(R) /\ answers \in [Askers -> Seq(S)] /\ chain_q # <<>>
      /\ chain_q' = Tail(chain_q) /\ UNCHANGED <<kind, serving, consensus_q, consensus>>
      /\ Reply(h.from, h.message, TRUE)
  BY TypeUnfolded, Zenon DEF ChainHandle, loop, task, Reply
<1>1. Requests
  BY RequestsMeaning
<1>2. OneEach(chain_q') /\ h \in asked /\ Entries(chain_q') = {x \in asked : x.from # h.from}
  <2> HIDE DEF R
  <2> QED BY <1>0, <1>1, Served DEF Requests
<1>3. \A x \in asked : x.from \in {"node", "consensus"}
  <2>1. asked \subseteq [from : Askers, message : ChainMessages]
    BY <1>0, EntriesIn, Zenon
  <2> QED BY <2>1 DEF Askers
<1>4. /\ answers'["node"] = IF h.from = "node" THEN Append(answers["node"], h.message)
                                               ELSE answers["node"]
      /\ answers'["consensus"] = IF h.from = "consensus"
                                 THEN Append(answers["consensus"], h.message)
                                 ELSE answers["consensus"]
  BY <1>0 DEF Reply, AnswerChannel, Askers
<1>5. /\ Expected' = Expected /\ (AsksChain(serving)' <=> AsksChain(serving))
      /\ (AsksConsensus(serving)' <=> AsksConsensus(serving))
      /\ (AtConsensus' <=> AtConsensus) /\ Idle' = Idle /\ NoEvent' = NoEvent
  BY <1>0 DEF Expected, AsksChain, AsksConsensus, ChainMessage, KindOf, ReadsAccount,
              AtConsensus, Idle, NoEvent
<1> HIDE DEF asked, h
<1>6. CASE h.from = "node"
  <2>1. answers["node"] = <<>> /\ h.message = Expected
    BY <1>1, <1>2, <1>6 DEF Requests, asked
  <2>2. answers'["node"] = <<Expected>> /\ answers'["node"] # <<>>
        /\ answers'["consensus"] = answers["consensus"]
    BY <1>4, <1>6, <2>1, Single
  <2>3. (\A x \in Entries(chain_q') : x.from # "node")
        /\ ((\E x \in Entries(chain_q') : x.from = "consensus")
              <=> \E x \in asked : x.from = "consensus")
        /\ \A x \in Entries(chain_q') : x \in asked
    BY <1>2, <1>6
  <2>4. Requests'
    BY <1>0, <1>1, <1>2, <1>5, <1>6, <2>1, <2>2, <2>3, Zenon DEF Requests, asked
  <2> QED BY <2>4, RequestsMeaningNext
<1>7. CASE h.from = "consensus"
  <2>1. answers["consensus"] = <<>> /\ h.message = Head(consensus.todo) /\ consensus # Idle
    BY <1>1, <1>2, <1>7 DEF Requests, asked
  <2>2. /\ answers'["consensus"] = <<Head(consensus.todo)>> /\ answers'["consensus"] # <<>>
        /\ answers'["node"] = answers["node"]
    BY <1>4, <1>7, <2>1, Single
  <2>3. (\A x \in Entries(chain_q') : x.from # "consensus")
        /\ ((\E x \in Entries(chain_q') : x.from = "node") <=> \E x \in asked : x.from = "node")
        /\ \A x \in Entries(chain_q') : x \in asked
    BY <1>2, <1>7, Zenon
  <2>4. Requests'
    BY <1>0, <1>1, <1>2, <1>5, <1>7, <2>1, <2>2, <2>3 DEF Requests, asked
  <2> QED BY <2>4, RequestsMeaningNext
<1> QED BY <1>2, <1>3, <1>6, <1>7

-----------------------------------------------------------------------------
(* The answer channels of the calls *)

SingleOwner(q) == \A i, j \in DOMAIN q : CallsOf(q[i]) \cap CallsOf(q[j]) # {} => i = j

LEMMA HoldsAppended ==
  ASSUME NEW S, NEW q \in Seq(S), NEW e \in S, SingleOwner(q),
         \A c \in CallsOf(e) : ~Holds(q, c)
  PROVE  /\ SingleOwner(Append(q, e))
         /\ \A c : Holds(Append(q, e), c) <=> Holds(q, c) \/ c \in CallsOf(e)
<1> DEFINE p == Append(q, e)
<1>1. /\ Len(q) \in Nat /\ DOMAIN q = 1 .. Len(q) /\ DOMAIN p = 1 .. Len(q) + 1
      /\ p[Len(q) + 1] = e /\ \A i \in 1 .. Len(q) : p[i] = q[i]
  BY Appended
<1> HIDE DEF p
<1>2. \A i \in DOMAIN q : CallsOf(q[i]) \cap CallsOf(e) = {}
  BY Zenon DEF Holds
<1>3. SingleOwner(p)
  <2> SUFFICES ASSUME NEW i \in DOMAIN p, NEW j \in DOMAIN p,
                      CallsOf(p[i]) \cap CallsOf(p[j]) # {}
               PROVE  i = j
    BY Zenon DEF SingleOwner
  <2>1. CASE i \in DOMAIN q /\ j \in DOMAIN q
    <3>1. p[i] = q[i] /\ p[j] = q[j]
      BY <1>1, <2>1, Zenon
    <3> QED BY <2>1, <3>1, Zenon DEF SingleOwner
  <2>2. CASE i \in DOMAIN q /\ j \notin DOMAIN q
    <3>1. p[i] = q[i] /\ p[j] = e
      BY <1>1, <2>2
    <3> QED BY <1>2, <2>2, <3>1, Zenon
  <2>3. CASE i \notin DOMAIN q /\ j \in DOMAIN q
    <3>1. p[j] = q[j] /\ p[i] = e
      BY <1>1, <2>3
    <3> QED BY <1>2, <2>3, <3>1, Zenon
  <2>4. CASE i \notin DOMAIN q /\ j \notin DOMAIN q
    BY <1>1, <2>4
  <2> QED BY <2>1, <2>2, <2>3, <2>4, Zenon
<1>4. ASSUME NEW c
      PROVE  Holds(p, c) <=> Holds(q, c) \/ c \in CallsOf(e)
  <2>1. ASSUME Holds(p, c)
        PROVE  Holds(q, c) \/ c \in CallsOf(e)
    <3>1. PICK i \in DOMAIN p : c \in CallsOf(p[i])
      BY <2>1 DEF Holds
    <3>2. CASE i \in DOMAIN q
      <4>1. p[i] = q[i]
        BY <1>1, <3>2
      <4> QED BY <3>1, <3>2, <4>1, Zenon DEF Holds
    <3>3. CASE i \notin DOMAIN q
      <4>1. p[i] = e
        BY <1>1, <3>3
      <4> QED BY <3>1, <4>1, Zenon
    <3> QED BY <3>2, <3>3, Zenon
  <2>2. ASSUME Holds(q, c)
        PROVE  Holds(p, c)
    <3>1. PICK i \in DOMAIN q : c \in CallsOf(q[i])
      BY <2>2, Zenon DEF Holds
    <3>2. i \in 1 .. Len(q)
      BY <1>1, Zenon
    <3>3. i \in DOMAIN p /\ p[i] = q[i]
      BY <1>1, <3>2
    <3> QED BY <3>1, <3>3 DEF Holds
  <2>3. ASSUME c \in CallsOf(e)
        PROVE  Holds(p, c)
    <3>1. Len(q) + 1 \in DOMAIN p
      BY <1>1
    <3> QED BY <1>1, <2>3, <3>1 DEF Holds
  <2> QED BY <2>1, <2>2, <2>3, Zenon
<1> QED BY <1>3, <1>4, Zenon DEF p

LEMMA HoldsTaken ==
  ASSUME NEW S, NEW q \in Seq(S), q # <<>>, SingleOwner(q)
  PROVE  /\ SingleOwner(Tail(q)) /\ \A c \in CallsOf(Head(q)) : Holds(q, c)
         /\ \A c : Holds(Tail(q), c) <=> Holds(q, c) /\ c \notin CallsOf(Head(q))
<1> DEFINE p == Tail(q)
           h == Head(q)
<1>1. /\ Len(q) \in Nat \ {0} /\ DOMAIN q = 1 .. Len(q) /\ DOMAIN p = 1 .. Len(q) - 1
      /\ h = q[1] /\ \A i \in 1 .. Len(q) - 1 : p[i] = q[i + 1]
  BY Taken
<1> HIDE DEF p, h
<1>2. 1 \in DOMAIN q
  BY <1>1
<1>3. SingleOwner(p)
  <2> SUFFICES ASSUME NEW i \in DOMAIN p, NEW j \in DOMAIN p,
                      CallsOf(p[i]) \cap CallsOf(p[j]) # {}
               PROVE  i = j
    BY DEF SingleOwner
  <2>1. i + 1 \in DOMAIN q /\ j + 1 \in DOMAIN q /\ p[i] = q[i + 1] /\ p[j] = q[j + 1]
        /\ i \in Int /\ j \in Int
    BY <1>1
  <2>2. i + 1 = j + 1
    BY <2>1 DEF SingleOwner
  <2> QED BY <2>1, <2>2
<1>4. \A c \in CallsOf(h) : Holds(q, c)
  BY <1>1, <1>2 DEF Holds
<1>5. ASSUME NEW c
      PROVE  Holds(p, c) <=> Holds(q, c) /\ c \notin CallsOf(h)
  <2>1. ASSUME Holds(p, c)
        PROVE  Holds(q, c) /\ c \notin CallsOf(h)
    <3>1. PICK i \in DOMAIN p : c \in CallsOf(p[i])
      BY <2>1 DEF Holds
    <3>2. i + 1 \in DOMAIN q /\ p[i] = q[i + 1] /\ i + 1 # 1
      BY <1>1
    <3>3. CallsOf(q[i + 1]) \cap CallsOf(q[1]) = {}
      BY <1>2, <3>2 DEF SingleOwner
    <3> QED BY <1>1, <3>1, <3>2, <3>3 DEF Holds
  <2>2. ASSUME Holds(q, c), c \notin CallsOf(h)
        PROVE  Holds(p, c)
    <3>1. PICK i \in DOMAIN q : c \in CallsOf(q[i])
      BY <2>2 DEF Holds
    <3>2. i # 1
      BY <1>1, <2>2, <3>1
    <3>3. i - 1 \in DOMAIN p /\ p[i - 1] = q[i]
      BY <1>1, <3>2
    <3> QED BY <3>1, <3>3 DEF Holds
  <2> QED BY <2>1, <2>2
<1> QED BY <1>3, <1>4, <1>5 DEF p, h

(* HeldOnce, with what it says of the two channels and of a call named.    *)
InOnePlace(c) ==
    /\ ~(Holds(commands, c) /\ Holds(events, c))
    /\ c \in CallsOf(serving) => ~Holds(commands, c) /\ ~Holds(events, c)
    /\ Holds(commands, c) \/ Holds(events, c) \/ c \in CallsOf(serving) =>
         status[c] \in {"waiting", "cancelled"}

Held ==
    /\ SingleOwner(commands) /\ SingleOwner(events)
    /\ \A c \in Calls : InOnePlace(c)
    /\ serving # NoEvent => handlers

LEMMA HeldMeaning == HeldOnce <=> Held
<1>1. (\A q \in {commands, events} : SingleOwner(q)) <=> SingleOwner(commands) /\ SingleOwner(events)
  BY Zenon
<1> QED BY <1>1, Zenon DEF HeldOnce, Held, SingleOwner, InOnePlace

LEMMA HeldMeaningNext == HeldOnce' <=> Held'
  BY HeldMeaning, PTL

(* An event that brings only calls the channel does not hold.              *)
LEMMA EmitHeld ==
  ASSUME TypeOK, NEW e \in Event, Emit(e), SingleOwner(events),
         \A c \in CallsOf(e) : ~Holds(events, c)
  PROVE  /\ SingleOwner(events')
         /\ \A c : Holds(events', c) => Holds(events, c) \/ c \in CallsOf(e)
         /\ \A c \in Calls : status'[c] # status[c] => Holds(events, c) /\ ~Holds(events', c)
<1>0. /\ events \in Seq(Event) /\ status \in [Calls -> Statuses]
      /\ \/ events' = Append(events, e) /\ overwritten' = overwritten /\ status' = status
         \/ /\ events # <<>> /\ events' = Append(Tail(events), e) /\ overwritten'
            /\ RecvError(CallsOf(Head(events)))
  BY EmitEffect, TypeUnfolded, Zenon
<1>1. CASE events' = Append(events, e) /\ status' = status
  BY <1>0, <1>1, HoldsAppended, Zenon
<1>2. CASE events # <<>> /\ events' = Append(Tail(events), e) /\ RecvError(CallsOf(Head(events)))
  <2> DEFINE t == Tail(events)
             h == Head(events)
  <2>1. /\ SingleOwner(t) /\ \A c \in CallsOf(h) : Holds(events, c)
        /\ \A c : Holds(t, c) <=> Holds(events, c) /\ c \notin CallsOf(h)
    BY <1>0, <1>2, HoldsTaken, Zenon
  <2>2. t \in Seq(Event)
    BY <1>0, <1>2, Taken
  <2>3. events' = Append(t, e)
    BY <1>2
  <2>4. \A c \in Calls : status'[c] # status[c] => c \in CallsOf(h)
    BY <1>2 DEF RecvError
  <2> HIDE DEF t, h
  <2>5. SingleOwner(events') /\ \A c : Holds(events', c) <=> Holds(t, c) \/ c \in CallsOf(e)
    BY <2>1, <2>2, <2>3, HoldsAppended
  <2> QED BY <2>1, <2>4, <2>5, Zenon
<1> QED BY <1>0, <1>1, <1>2, Zenon

(* A command nobody waits for changes nothing.                             *)
LEMMA CallFree ==
  ASSUME TypeOK, SingleOwner(commands),
         \/ commands' = commands
         \/ \E x \in Event \cup {Publish} : CallsOf(x) = {} /\ commands' = Append(commands, x)
  PROVE  SingleOwner(commands') /\ \A c : Holds(commands', c) <=> Holds(commands, c)
<1>1. commands \in Seq(Event \cup {Publish})
  BY TypeUnfolded
<1>2. CASE commands' = commands
  BY <1>2
<1>3. ASSUME NEW x \in Event \cup {Publish}, CallsOf(x) = {}, commands' = Append(commands, x)
      PROVE  SingleOwner(commands') /\ \A c : Holds(commands', c) <=> Holds(commands, c)
  BY <1>1, <1>3, HoldsAppended
<1> QED BY <1>2, <1>3

LEMMA CallHeld ==
  ASSUME TypeOK, HeldOnce, NEW d \in Calls, send_self_request(d) \/ InvalidArgument(d) \/ Cancel(d)
  PROVE  HeldOnce'
<1>0. /\ status \in [Calls -> Statuses] /\ commands \in Seq(Event \cup {Publish}) /\ Held
      /\ UNCHANGED <<events, serving, handlers>>
  BY TypeUnfolded, HeldMeaning DEF send_self_request, InvalidArgument, Cancel, loop
<1>1. CASE send_self_request(d)
  <2>1. /\ status[d] = "idle" /\ status' = [status EXCEPT ![d] = "waiting"]
        /\ commands' = Append(commands, Request(d))
    BY <1>1 DEF send_self_request
  <2>2. ~Holds(commands, d) /\ ~Holds(events, d) /\ d \notin CallsOf(serving)
    BY <1>0, <2>1, Zenon DEF Held, InOnePlace
  <2>3. Request(d) \in Event \cup {Publish} /\ CallsOf(Request(d)) = {d}
    BY Events, Zenon
  <2>4. SingleOwner(commands') /\ \A c : Holds(commands', c) <=> Holds(commands, c) \/ c = d
    BY <1>0, <2>1, <2>2, <2>3, HoldsAppended DEF Held
  <2>5. ASSUME NEW c \in Calls
        PROVE  InOnePlace(c)'
    BY <1>0, <2>1, <2>2, <2>4 DEF Held, InOnePlace
  <2>6. Held'
    BY <1>0, <2>4, <2>5, Zenon DEF Held, NoEvent
  <2> QED BY <2>6, HeldMeaningNext
<1>2. CASE InvalidArgument(d) \/ Cancel(d)
  <2>1. /\ commands' = commands
        /\ \/ status[d] = "idle" /\ status' = [status EXCEPT ![d] = "refused"]
           \/ status[d] = "waiting" /\ status' = [status EXCEPT ![d] = "cancelled"]
    BY <1>2, Zenon DEF InvalidArgument, Cancel, swarm
  <2>2. ASSUME NEW c \in Calls
        PROVE  InOnePlace(c)'
    BY <1>0, <2>1 DEF Held, InOnePlace
  <2>3. Held'
    BY <1>0, <2>1, <2>2 DEF Held, NoEvent
  <2> QED BY <2>3, HeldMeaningNext
<1> QED BY <1>1, <1>2

(* Steps that only send an event nobody waits for.                         *)
LEMMA EmitOnlyHeld ==
  ASSUME TypeOK, HeldOnce, NEW e \in Event, CallsOf(e) = {}, Emit(e),
         UNCHANGED <<commands, serving, handlers>>
  PROVE  HeldOnce'
<1>0. Held
  BY HeldMeaning, Zenon
<1>1. /\ SingleOwner(events') /\ \A c : Holds(events', c) => Holds(events, c)
      /\ \A c \in Calls : status'[c] # status[c] => Holds(events, c) /\ ~Holds(events', c)
  BY <1>0, EmitHeld, Zenon DEF Held
<1>2. ASSUME NEW c \in Calls
      PROVE  InOnePlace(c)'
  BY <1>0, <1>1, Zenon DEF Held, InOnePlace
<1>3. Held'
  BY <1>0, <1>1, <1>2 DEF Held, NoEvent
<1> QED BY <1>3, HeldMeaningNext

LEMMA SwarmHeld ==
  ASSUME TypeOK, HeldOnce, SwarmCommand \/ SwarmMessage \/ \E p \in Peers : Discovered(p) \/ Expired(p)
  PROVE  HeldOnce'
<1>0. commands \in Seq(Event \cup {Publish}) /\ Held
  BY TypeUnfolded, HeldMeaning
<1>1. CASE SwarmCommand
  <2> DEFINE h == Head(commands)
  <2>1. /\ commands # <<>> /\ commands' = Tail(commands) /\ UNCHANGED <<serving, handlers>>
        /\ IF h = Publish THEN UNCHANGED <<status, events, overwritten>> ELSE Emit(h)
    BY <1>1 DEF SwarmCommand, loop
  <2>2. /\ SingleOwner(commands') /\ \A c \in CallsOf(h) : Holds(commands, c)
        /\ \A c : Holds(commands', c) <=> Holds(commands, c) /\ c \notin CallsOf(h)
    BY <1>0, <2>1, HoldsTaken DEF Held
  <2>3. h \in Event \cup {Publish}
    BY <1>0, <2>1, Taken, Zenon
  <2> HIDE DEF h
  <2>4. /\ SingleOwner(events')
        /\ \A c : Holds(events', c) => Holds(events, c) \/ c \in CallsOf(h)
        /\ \A c \in Calls : status'[c] # status[c] => Holds(events, c) /\ ~Holds(events', c)
    <3>1. CASE h = Publish
      BY <1>0, <2>1, <3>1, Zenon DEF Held
    <3>2. CASE h # Publish
      <4>1. h \in Event /\ Emit(h) /\ SingleOwner(events)
        BY <1>0, <2>1, <2>3, <3>2, Zenon DEF Held
      <4>2. \A c \in CallsOf(h) : c \in Calls
        BY <4>1, Events, Zenon
      <4>3. \A c \in CallsOf(h) : ~Holds(events, c)
        BY <1>0, <2>2, <4>2, Zenon DEF Held, InOnePlace
      <4> QED BY <4>1, <4>3, EmitHeld
    <3> QED BY <3>1, <3>2, Zenon
  <2>5. ASSUME NEW c \in Calls
        PROVE  InOnePlace(c)'
    <3>1. InOnePlace(c)
      BY <1>0, Zenon DEF Held
    <3> QED BY <2>1, <2>2, <2>4, <3>1 DEF InOnePlace
  <2>6. Held'
    BY <1>0, <2>1, <2>2, <2>4, <2>5 DEF Held, NoEvent
  <2> QED BY <2>6, HeldMeaningNext
<1>2. CASE SwarmMessage
  <2>1. UNCHANGED <<commands, serving, handlers>>
    BY <1>2, Zenon DEF SwarmMessage, loop
  <2>2. \E e \in Event : CallsOf(e) = {} /\ Emit(e)
    BY <1>2, Events, Zenon DEF SwarmMessage
  <2> QED BY <2>1, <2>2, EmitOnlyHeld, Zenon
<1>3. ASSUME NEW p \in Peers, Discovered(p) \/ Expired(p)
      PROVE  HeldOnce'
  <2>1. UNCHANGED <<commands, serving, handlers>>
    BY <1>3 DEF Discovered, Expired, loop
  <2>2. \E e \in Event : CallsOf(e) = {} /\ Emit(e)
    <3>1. CASE Discovered(p)
      <4> DEFINE e == [type |-> "Connected", peers |-> {p} \cap allowed_peers]
      <4>1. {p} \cap allowed_peers \in SUBSET allowed_peers
        BY Zenon
      <4>2. e \in Event /\ CallsOf(e) = {}
        BY <4>1, Events, Zenon
      <4> QED BY <3>1, <4>2 DEF Discovered
    <3>2. CASE Expired(p)
      BY <3>2, Events, Zenon DEF Expired
    <3> QED BY <1>3, <3>1, <3>2, Zenon
  <2> QED BY <2>1, <2>2, EmitOnlyHeld, Zenon
<1> QED BY <1>1, <1>2, <1>3

LEMMA PollHeld ==
  ASSUME TypeOK, HeldOnce, Poll
  PROVE  HeldOnce'
<1> DEFINE e == Head(events)
<1>0. /\ e \in Event /\ events \in Seq(Event) /\ events # <<>> /\ events' = Tail(events)
      /\ serving = NoEvent /\ CallsOf(serving) = {} /\ Held
      /\ status \in [Calls -> Statuses]
  BY PollEffect, TypeUnfolded, HeldMeaning, Events, Zenon DEF Poll
<1>1. /\ SingleOwner(events') /\ \A c \in CallsOf(e) : Holds(events, c)
      /\ \A c : Holds(events', c) <=> Holds(events, c) /\ c \notin CallsOf(e)
  BY <1>0, HoldsTaken, Zenon DEF Held
<1>2. CallsOf(e) \subseteq Calls
  BY <1>0, Events, Zenon
<1> HIDE DEF e
<1>3. \A c \in CallsOf(e) : ~Holds(commands, c) /\ status[c] \in {"waiting", "cancelled"}
  BY <1>0, <1>1, <1>2, Zenon DEF Held, InOnePlace
<1>4. CASE /\ serving' = NoEvent /\ \A c \in Calls \ CallsOf(e) : status'[c] = status[c]
           /\ \/ commands' = commands
              \/ \E x \in Event \cup {Publish} : CallsOf(x) = {} /\ commands' = Append(commands, x)
  <2>1. SingleOwner(commands') /\ \A c : Holds(commands', c) <=> Holds(commands, c)
    BY <1>0, <1>4, CallFree, Zenon DEF Held
  <2>2. CallsOf(serving') = {}
    BY <1>4, Events
  <2>3. ASSUME NEW c \in Calls
        PROVE  InOnePlace(c)'
    <3>1. InOnePlace(c)
      BY <1>0, Zenon DEF Held
    <3>2. CASE c \in CallsOf(e)
      BY <1>1, <1>3, <2>1, <2>2, <3>2, Zenon DEF InOnePlace
    <3>3. CASE c \notin CallsOf(e)
      BY <1>1, <1>4, <2>1, <2>2, <3>1, <3>3, Zenon DEF InOnePlace
    <3> QED BY <3>2, <3>3
  <2>4. Held'
    BY <1>1, <1>4, <2>1, <2>3, Zenon DEF Held, NoEvent
  <2> QED BY <2>4, HeldMeaningNext
<1>5. CASE serving' = e /\ handlers /\ UNCHANGED <<status, commands, handlers>>
  <2>1. ASSUME NEW c \in Calls
        PROVE  InOnePlace(c)'
    <3>1. InOnePlace(c)
      BY <1>0 DEF Held
    <3> QED BY <1>1, <1>3, <1>5, <3>1 DEF InOnePlace
  <2>2. Held'
    BY <1>0, <1>1, <1>5, <2>1 DEF Held
  <2> QED BY <2>2, HeldMeaningNext
<1>6. CASE RecvError(CallsOf(e)) /\ Forward(e) /\ UNCHANGED serving
  <2>1. \A c \in Calls \ CallsOf(e) : status'[c] = status[c]
    BY <1>6 DEF RecvError
  <2>2. commands' \in {commands, Append(commands, Publish)}
    BY <1>0, <1>6, ForwardEffect, Zenon
  <2>3. Publish \in Event \cup {Publish} /\ CallsOf(Publish) = {}
    BY Events
  <2> QED BY <1>0, <1>4, <1>6, <2>1, <2>2, <2>3
<1>7. CASE Finish(e) /\ UNCHANGED serving
  <2>1. /\ \A c \in Calls \ CallsOf(e) : status'[c] = status[c]
        /\ \/ commands' = commands
           \/ \E x \in Event \cup {Publish} : CallsOf(x) = {} /\ commands' = Append(commands, x)
    BY <1>0, <1>7, FinishEffect, Zenon
  <2> QED BY <1>0, <1>4, <1>7, <2>1
<1> QED BY <1>5, <1>6, <1>7, Zenon DEF Poll, e

LEMMA ResumeHeld ==
  ASSUME TypeOK, HeldOnce, Resume
  PROVE  HeldOnce'
<1>0. /\ serving \in Event /\ serving' = NoEvent /\ CallsOf(serving') = {} /\ Held
      /\ events' = events
  BY TypeUnfolded, HeldMeaning, Events, Zenon DEF Resume
<1>1. /\ \A c \in Calls \ CallsOf(serving) : status'[c] = status[c]
      /\ \/ commands' = commands
         \/ \E x \in Event \cup {Publish} : CallsOf(x) = {} /\ commands' = Append(commands, x)
  <2>1. CASE Finish(serving)
    BY <1>0, <2>1, FinishEffect
  <2>2. CASE RecvError(CallsOf(serving)) /\ UNCHANGED commands
    BY <2>2, Zenon DEF RecvError
  <2> QED BY <2>1, <2>2 DEF Resume
<1>2. SingleOwner(commands') /\ \A c : Holds(commands', c) <=> Holds(commands, c)
  BY <1>0, <1>1, CallFree, Zenon DEF Held
<1>3. ASSUME NEW c \in Calls
      PROVE  InOnePlace(c)'
  <2>1. InOnePlace(c)
    BY <1>0 DEF Held
  <2> QED BY <1>0, <1>1, <1>2, <2>1 DEF InOnePlace
<1>4. Held'
  BY <1>0, <1>2, <1>3, Zenon DEF Held, NoEvent
<1> QED BY <1>4, HeldMeaningNext

(* The consensus and chain tasks only send broadcasts to the node loop.    *)
LEMMA TaskEmits ==
  ASSUME poll_messages \/ trigger_new_round \/ ConsensusResume \/ ChainHandle
  PROVE  /\ Emit(SendBroadcast) \/ UNCHANGED <<status, events, overwritten>>
         /\ UNCHANGED <<kind, commands, live_peers, serving, handlers, peers, failed>>
<1>1. ASSUME NEW for, NEW todo, NEW says, NEW as, Proceed(for, todo, says, as)
      PROVE  Emit(SendBroadcast) \/ UNCHANGED <<status, events, overwritten>>
  BY <1>1, Zenon DEF Proceed
<1>2. CASE poll_messages
  BY <1>1, <1>2 DEF poll_messages, swarm, loop
<1>3. CASE trigger_new_round
  BY <1>3 DEF trigger_new_round, swarm, loop
<1>4. CASE ConsensusResume
  <2>1. Emit(SendBroadcast) \/ UNCHANGED <<status, events, overwritten>>
    BY <1>1, <1>4 DEF ConsensusResume
  <2> QED BY <1>4, <2>1 DEF ConsensusResume, swarm, loop
<1>5. CASE ChainHandle
  BY <1>5 DEF ChainHandle, swarm, loop
<1> QED BY <1>2, <1>3, <1>4, <1>5, Zenon

LEMMA TaskHeld ==
  ASSUME TypeOK, HeldOnce, poll_messages \/ trigger_new_round \/ ConsensusResume \/ ChainHandle
  PROVE  HeldOnce'
<1>1. CASE Emit(SendBroadcast)
  BY <1>1, TaskEmits, EmitOnlyHeld, Events, Zenon
<1>2. CASE UNCHANGED <<status, events, overwritten>>
  BY <1>2, TaskEmits, Zenon DEF HeldOnce, Holds, NoEvent
<1> QED BY <1>1, <1>2, TaskEmits, Zenon

-----------------------------------------------------------------------------
(* Losses *)

(* What a step may do to the calls and the handlers.                       *)
StepExplained ==
    /\ kind' = kind
    /\ overwritten => overwritten'
    /\ failed => failed'
    /\ handlers' => handlers
    /\ handlers /\ ~handlers' => failed' \/ \E c \in Calls : status'[c] = "cancelled"
    /\ \A c \in Calls : status[c] = "cancelled" => status'[c] = "cancelled"
    /\ \A c \in Calls : status'[c] = "error" =>
          status[c] = "error" \/ ~handlers' \/ overwritten' \/ kind[c] = "StartSigningSession"

LEMMA ExplainedStep ==
  ASSUME LossesExplained, StepExplained
  PROVE  LossesExplained'
<1>1. ~handlers' => failed' \/ \E c \in Calls : status'[c] = "cancelled"
  BY Zenon DEF LossesExplained, StepExplained
<1>2. \A c \in Calls : status'[c] = "error" =>
         ~handlers' \/ overwritten' \/ kind'[c] = "StartSigningSession"
  BY DEF LossesExplained, StepExplained
<1> QED BY <1>1, <1>2, Zenon DEF LossesExplained

LEMMA EmitExplained ==
  ASSUME TypeOK, NEW e \in Event, Emit(e), UNCHANGED <<kind, handlers, failed>>
  PROVE  StepExplained
<1>0. /\ status \in [Calls -> Statuses] /\ overwritten \in BOOLEAN
      /\ \/ overwritten' = overwritten /\ status' = status
         \/ overwritten' /\ RecvError(CallsOf(Head(events)))
  BY EmitEffect, TypeUnfolded, Zenon
<1>1. CASE overwritten' = overwritten /\ status' = status
  BY <1>1, Zenon DEF StepExplained
<1>2. CASE overwritten' /\ RecvError(CallsOf(Head(events)))
  <2>1. \A c \in Calls : status[c] = "cancelled" => status'[c] = "cancelled"
    BY <1>2 DEF RecvError
  <2> QED BY <1>2, <2>1 DEF StepExplained
<1> QED BY <1>0, <1>1, <1>2, Zenon

(* A finished event whose call, if it has one, waits or has been cancelled. *)
LEMMA FinishExplained ==
  ASSUME TypeOK, NEW e \in Event, Finish(e), handlers, UNCHANGED <<kind, overwritten>>,
         \A c \in CallsOf(e) : status[c] \in {"waiting", "cancelled"}
  PROVE  StepExplained
<1>0. status \in [Calls -> Statuses]
  BY TypeUnfolded
<1>1. CASE handlers' = FALSE /\ failed' = TRUE /\ RecvError(CallsOf(e))
  <2>1. \A c \in Calls : status[c] = "cancelled" => status'[c] = "cancelled"
    BY <1>1 DEF RecvError
  <2> QED BY <1>1, <2>1 DEF StepExplained
<1>2. CASE Answers(e) /\ Answer(e.call) /\ UNCHANGED failed
  <2>1. e.call \in Calls /\ status[e.call] \in {"waiting", "cancelled"}
    BY <1>2, Events DEF Answers
  <2>2. CASE status[e.call] = "waiting"
    <3>1. status' = [status EXCEPT ![e.call] = "answered"] /\ handlers' = TRUE
      BY <1>0, <1>2, <2>1, <2>2, Zenon DEF Answer
    <3> QED BY <1>0, <1>2, <2>1, <2>2, <3>1, Zenon DEF StepExplained
  <2>3. CASE status[e.call] = "cancelled"
    <3>1. status' = status /\ handlers' = FALSE
      BY <1>0, <1>2, <2>1, <2>3, Zenon DEF Answer
    <3>2. \E c \in Calls : status'[c] = "cancelled"
      BY <2>1, <2>3, <3>1
    <3> QED BY <1>0, <1>2, <3>1, <3>2 DEF StepExplained
  <2> QED BY <2>1, <2>2, <2>3
<1>3. CASE ~Answers(e) /\ RecvError(CallsOf(e)) /\ UNCHANGED <<handlers, failed>>
  <2>1. \A c \in CallsOf(e) : kind[c] = "StartSigningSession"
    <3>1. CASE e.type = "SelfRequest"
      <4>1. KindOf(e) = "StartSigningSession"
        BY <1>3, <3>1, Zenon DEF Answers
      <4>2. CallsOf(e) = {e.call}
        BY <3>1, Events, Zenon
      <4> QED BY <3>1, <4>1, <4>2 DEF KindOf
    <3>2. CASE e.type # "SelfRequest"
      BY <3>2, Events, Zenon
    <3> QED BY <3>1, <3>2, Zenon
  <2>2. \A c \in Calls : status'[c] = "error" => status[c] = "error" \/ c \in CallsOf(e)
    BY <1>3 DEF RecvError
  <2>3. \A c \in Calls : status[c] = "cancelled" => status'[c] = "cancelled"
    BY <1>3 DEF RecvError
  <2> QED BY <1>3, <2>1, <2>2, <2>3 DEF StepExplained
<1> QED BY <1>1, <1>2, <1>3, Zenon DEF Finish

LEMMA NextExplained ==
  ASSUME TypeOK, OneRequestEach, HeldOnce, Next
  PROVE  StepExplained
<1>0. status \in [Calls -> Statuses] /\ Held
  BY TypeUnfolded, HeldMeaning, Zenon
<1>1. ASSUME NEW c \in Calls, send_self_request(c) \/ InvalidArgument(c) \/ Cancel(c)
      PROVE  StepExplained
  <2>1. /\ UNCHANGED <<kind, overwritten, failed, handlers>>
        /\ \/ status[c] = "idle" /\ status' = [status EXCEPT ![c] = "waiting"]
           \/ status[c] = "idle" /\ status' = [status EXCEPT ![c] = "refused"]
           \/ status[c] = "waiting" /\ status' = [status EXCEPT ![c] = "cancelled"]
    BY <1>1 DEF send_self_request, InvalidArgument, Cancel, loop
  <2>2. \A d \in Calls : status'[d] = "error" => status[d] = "error"
    BY <1>0, <2>1
  <2>3. \A d \in Calls : status[d] = "cancelled" => status'[d] = "cancelled"
    BY <1>0, <2>1
  <2> QED BY <2>1, <2>2, <2>3, Zenon DEF StepExplained
<1>2. ASSUME SwarmCommand \/ SwarmMessage \/ \E p \in Peers : Discovered(p) \/ Expired(p)
      PROVE  StepExplained
  <2>1. UNCHANGED <<kind, handlers, failed>>
    BY <1>2, Zenon DEF SwarmCommand, SwarmMessage, Discovered, Expired, loop
  <2>2. UNCHANGED <<status, overwritten>> \/ \E e \in Event : Emit(e)
    <3>1. CASE SwarmCommand
      <4>1. commands # <<>> /\ commands \in Seq(Event \cup {Publish})
        BY <3>1, TypeUnfolded DEF SwarmCommand
      <4>2. Head(commands) \in Event \cup {Publish}
        BY <4>1, Taken
      <4> QED BY <3>1, <4>2 DEF SwarmCommand
    <3>2. CASE SwarmMessage
      BY <3>2, Events DEF SwarmMessage
    <3>3. ASSUME NEW p \in Peers, Discovered(p)
          PROVE  \E e \in Event : Emit(e)
      <4>1. [type |-> "Connected", peers |-> {p} \cap allowed_peers] \in Event
        BY Zenon DEF Event
      <4> QED BY <3>3, <4>1, Zenon DEF Discovered
    <3>4. ASSUME NEW p \in Peers, Expired(p)
          PROVE  \E e \in Event : Emit(e)
      BY <3>4, Events, Zenon DEF Expired
    <3> QED BY <1>2, <3>1, <3>2, <3>3, <3>4
  <2>3. CASE UNCHANGED <<status, overwritten>>
    BY <2>1, <2>3 DEF StepExplained
  <2>4. CASE \E e \in Event : Emit(e)
    BY <2>1, <2>4, EmitExplained, Zenon
  <2> QED BY <2>2, <2>3, <2>4, Zenon
<1>3. ASSUME Poll
      PROVE  StepExplained
  <2> DEFINE e == Head(events)
  <2>1. /\ e \in Event /\ events \in Seq(Event) /\ events # <<>>
        /\ UNCHANGED <<kind, overwritten>>
    BY <1>3, PollEffect, TypeUnfolded, Zenon DEF Poll
  <2>2. \A c \in CallsOf(e) : c \in Calls /\ Holds(events, c)
    BY <1>0, <2>1, HoldsTaken, Events, Zenon DEF Held
  <2> HIDE DEF e
  <2>3. \A c \in CallsOf(e) : status[c] \in {"waiting", "cancelled"}
    BY <1>0, <2>2, Zenon DEF Held, InOnePlace
  <2>4. CASE ~handlers /\ RecvError(CallsOf(e)) /\ UNCHANGED <<handlers, failed>>
    <3>1. \A c \in Calls : status[c] = "cancelled" => status'[c] = "cancelled"
      BY <2>4 DEF RecvError
    <3> QED BY <2>1, <2>4, <3>1 DEF StepExplained
  <2>5. CASE UNCHANGED <<status, handlers, failed>>
    BY <2>1, <2>5 DEF StepExplained
  <2>6. CASE handlers /\ Finish(e)
    BY <2>1, <2>3, <2>6, FinishExplained
  <2> QED BY <1>3, <2>4, <2>5, <2>6, Zenon DEF Poll, e
<1>4. ASSUME Resume
      PROVE  StepExplained
  <2>1. /\ serving \in Event /\ serving # NoEvent /\ UNCHANGED <<kind, overwritten>>
    BY <1>4, TypeUnfolded, Zenon DEF Resume
  <2>2. handlers /\ CallsOf(serving) \subseteq Calls
    BY <1>0, <2>1, Events DEF Held
  <2>3. \A c \in CallsOf(serving) : status[c] \in {"waiting", "cancelled"}
    BY <1>0, <2>2 DEF Held, InOnePlace
  <2>4. Head(answers["node"]) = Expected
    BY <1>4, ResumeRequests
  <2>5. KindOf(serving) \in ReadsAccount => Expected = "GetAccount"
    BY DEF Expected, AsksChain, ChainMessage, ReadsAccount
  <2>6. Finish(serving)
    BY <1>4, <2>4, <2>5 DEF Resume
  <2> QED BY <2>1, <2>2, <2>3, <2>6, FinishExplained, Zenon
<1>5. ASSUME poll_messages \/ trigger_new_round \/ ConsensusResume \/ ChainHandle
      PROVE  StepExplained
  <2>1. UNCHANGED <<kind, handlers, failed>>
        /\ (Emit(SendBroadcast) \/ UNCHANGED <<status, events, overwritten>>)
    BY <1>5, TaskEmits, Zenon
  <2>2. CASE Emit(SendBroadcast)
    BY <2>1, <2>2, EmitExplained, Events, Zenon
  <2>3. CASE UNCHANGED <<status, events, overwritten>>
    BY <2>1, <2>3, Zenon DEF StepExplained
  <2> QED BY <2>1, <2>2, <2>3
<1> QED BY <1>1, <1>2, <1>3, <1>4, <1>5 DEF Next

-----------------------------------------------------------------------------
(* Peers *)

Announced(q, p) == \E i \in DOMAIN q : q[i].type = "Connected" /\ p \in q[i].peers

LEMMA AnnouncedAppended ==
  ASSUME NEW q \in Seq(Event), NEW e \in Event, NEW p
  PROVE  /\ Announced(q, p) => Announced(Append(q, e), p)
         /\ e.type = "Connected" /\ p \in e.peers => Announced(Append(q, e), p)
<1> DEFINE r == Append(q, e)
<1>1. /\ Len(q) \in Nat /\ DOMAIN q = 1 .. Len(q) /\ DOMAIN r = 1 .. Len(q) + 1
      /\ r[Len(q) + 1] = e /\ \A i \in 1 .. Len(q) : r[i] = q[i]
  BY Appended
<1> HIDE DEF r
<1>2. \A i \in DOMAIN q : i \in DOMAIN r /\ r[i] = q[i]
  BY <1>1
<1>3. Announced(q, p) => Announced(r, p)
  BY <1>2 DEF Announced
<1>4. Len(q) + 1 \in DOMAIN r
  BY <1>1
<1>5. e.type = "Connected" /\ p \in e.peers => Announced(r, p)
  BY <1>1, <1>4 DEF Announced
<1> QED BY <1>3, <1>5, Zenon DEF r

LEMMA AnnouncedTaken ==
  ASSUME NEW q \in Seq(Event), q # <<>>, NEW p, Announced(q, p)
  PROVE  \/ Announced(Tail(q), p)
         \/ Head(q).type = "Connected" /\ p \in Head(q).peers
<1> DEFINE r == Tail(q)
           h == Head(q)
<1>1. /\ Len(q) \in Nat \ {0} /\ DOMAIN q = 1 .. Len(q) /\ DOMAIN r = 1 .. Len(q) - 1
      /\ h = q[1] /\ \A i \in 1 .. Len(q) - 1 : r[i] = q[i + 1]
  BY Taken
<1> HIDE DEF r, h
<1>2. PICK i \in DOMAIN q : q[i].type = "Connected" /\ p \in q[i].peers
  BY DEF Announced
<1>3. CASE i = 1
  BY <1>1, <1>2, <1>3
<1>4. CASE i # 1
  <2>1. i - 1 \in DOMAIN r /\ r[i - 1] = q[i]
    BY <1>1, <1>4
  <2>2. Announced(r, p)
    BY <1>2, <2>1, Zenon DEF Announced
  <2> QED BY <2>2 DEF r
<1> QED BY <1>3, <1>4 DEF r, h

(* An event added to the channel: the peers it names are announced.        *)
LEMMA EmitPeers ==
  ASSUME TypeOK, LivePeersKnown, NEW e \in Event, Emit(e), UNCHANGED peers,
         \A p \in live_peers' \ live_peers : e.type = "Connected" /\ p \in e.peers
  PROVE  LivePeersKnown'
<1>0. /\ events \in Seq(Event)
      /\ (events' = Append(events, e) /\ overwritten' = overwritten) \/ overwritten'
  BY EmitEffect, TypeUnfolded, Zenon
<1>1. CASE overwritten'
  BY <1>1, Zenon DEF LivePeersKnown
<1>2. CASE events' = Append(events, e) /\ overwritten' = overwritten /\ ~overwritten
  <2>1. ASSUME NEW p \in live_peers' \ peers
        PROVE  Announced(events', p)
    <3>1. CASE p \in live_peers
      <4>1. Announced(events, p)
        BY <1>2, <3>1, Zenon DEF LivePeersKnown, Announced
      <4> QED BY <1>0, <1>2, <4>1, AnnouncedAppended, Zenon
    <3>2. CASE p \notin live_peers
      BY <1>0, <1>2, <3>2, AnnouncedAppended, Zenon
    <3> QED BY <3>1, <3>2, Zenon
  <2> QED BY <2>1, Zenon DEF LivePeersKnown, Announced
<1> QED BY <1>0, <1>1, <1>2

LEMMA PollPeers ==
  ASSUME TypeOK, LivePeersKnown, Poll
  PROVE  LivePeersKnown'
<1> DEFINE e == Head(events)
<1>0. /\ e \in Event /\ events \in Seq(Event) /\ events # <<>> /\ events' = Tail(events)
      /\ UNCHANGED <<live_peers, overwritten>>
  BY PollEffect, TypeUnfolded DEF Poll
<1> HIDE DEF e
<1>1. peers' = IF e.type = "Connected" THEN peers \cup e.peers ELSE peers
  <2>1. e.type = "Connected" => KindOf(e) = "Connected"
    BY DEF KindOf
  <2>2. e.type = "Connected" => ~MayFail(e) /\ ~AsksChain(e) /\ ~AsksConsensus(e) /\ ~Answers(e)
    BY <2>1 DEF MayFail, AsksChain, AsksConsensus, Answers, ReadsAccount
  <2>3. Forward(e) \/ (e.type # "Connected" /\ UNCHANGED peers)
    <3>1. Finish(e) => Forward(e) \/ (e.type # "Connected" /\ UNCHANGED peers)
      BY <2>2, Zenon DEF Finish
    <3>2. Forward(e) \/ (AsksChain(e) /\ UNCHANGED peers) \/ (AsksConsensus(e) /\ UNCHANGED peers)
            \/ Finish(e)
      BY Zenon DEF Poll, e
    <3> QED BY <2>2, <3>1, <3>2
  <2> QED BY <2>3 DEF Forward
<1>2. peers' \subseteq allowed_peers
  BY <1>0, <1>1, Events, Zenon DEF LivePeersKnown
<1>3. ASSUME ~overwritten, NEW p \in live_peers \ peers'
      PROVE  Announced(events', p)
  <2>1. p \in live_peers \ peers /\ ~(e.type = "Connected" /\ p \in e.peers)
    BY <1>1
  <2>2. Announced(events, p)
    BY <1>3, <2>1 DEF LivePeersKnown, Announced
  <2> QED BY <1>0, <2>1, <2>2, AnnouncedTaken DEF e
<1> QED BY <1>0, <1>2, <1>3, Zenon DEF LivePeersKnown, Announced

LEMMA NextPeers ==
  ASSUME TypeOK, OneRequestEach, LivePeersKnown, Next
  PROVE  LivePeersKnown'
<1>a. ASSUME UNCHANGED <<peers, live_peers, events, overwritten>>
      PROVE  LivePeersKnown'
  BY <1>a, Zenon DEF LivePeersKnown
<1>1. ASSUME NEW c \in Calls, send_self_request(c) \/ InvalidArgument(c) \/ Cancel(c)
      PROVE  LivePeersKnown'
  BY <1>1, <1>a DEF send_self_request, InvalidArgument, Cancel, loop, swarm
<1>2. ASSUME SwarmCommand
      PROVE  LivePeersKnown'
  <2>1. UNCHANGED <<peers, live_peers>> /\ commands # <<>> /\ commands \in Seq(Event \cup {Publish})
    BY <1>2, TypeUnfolded DEF SwarmCommand, loop
  <2>2. Head(commands) \in Event \cup {Publish}
    BY <2>1, Taken, Zenon
  <2>3. CASE Head(commands) = Publish
    BY <1>2, <1>a, <2>1, <2>3, Zenon DEF SwarmCommand
  <2>4. CASE Head(commands) # Publish
    <3>1. Emit(Head(commands)) /\ Head(commands) \in Event
      BY <1>2, <2>2, <2>4, Zenon DEF SwarmCommand
    <3> QED BY <2>1, <3>1, EmitPeers, Zenon
  <2> QED BY <2>3, <2>4, Zenon
<1>3. ASSUME SwarmMessage
      PROVE  LivePeersKnown'
  <2>1. UNCHANGED <<peers, live_peers>> /\ \E e \in Event : Emit(e)
    BY <1>3, Events, Zenon DEF SwarmMessage, loop
  <2> QED BY <2>1, EmitPeers, Zenon
<1>4. ASSUME NEW p \in Peers, Discovered(p)
      PROVE  LivePeersKnown'
  <2> DEFINE e == [type |-> "Connected", peers |-> {p} \cap allowed_peers]
  <2>1. e \in Event /\ e.type = "Connected" /\ e.peers = {p} \cap allowed_peers
    BY Zenon DEF Event
  <2>2. Emit(e) /\ UNCHANGED peers /\ live_peers' = live_peers \cup ({p} \cap allowed_peers)
    BY <1>4, Zenon DEF Discovered, loop
  <2> HIDE DEF e
  <2> QED BY <2>1, <2>2, EmitPeers, Zenon
<1>5. ASSUME NEW p \in Peers, Expired(p)
      PROVE  LivePeersKnown'
  <2>1. /\ [type |-> "Disconnected"] \in Event /\ Emit([type |-> "Disconnected"])
        /\ UNCHANGED peers /\ live_peers' \subseteq live_peers
    BY <1>5, Events, Zenon DEF Expired, loop
  <2> QED BY <2>1, EmitPeers, Zenon
<1>6. ASSUME Resume
      PROVE  LivePeersKnown'
  <2>1. /\ serving \in Event /\ serving # NoEvent /\ answers["node"] # <<>>
        /\ UNCHANGED <<live_peers, events, overwritten>>
    BY <1>6, TypeUnfolded DEF Resume
  <2>2. peers' = peers \/ peers' = peers \cup (IF serving.type = "Connected" THEN serving.peers ELSE {})
    BY <1>6, Zenon DEF Resume, Finish, Forward
  <2>3. peers \subseteq peers' /\ peers' \subseteq allowed_peers
    BY <2>1, <2>2, Events, Zenon DEF LivePeersKnown
  <2> QED BY <2>1, <2>3, Zenon DEF LivePeersKnown
<1>7. ASSUME poll_messages \/ trigger_new_round \/ ConsensusResume \/ ChainHandle
      PROVE  LivePeersKnown'
  <2>1. CASE Emit(SendBroadcast)
    BY <1>7, <2>1, TaskEmits, EmitPeers, Events, Zenon
  <2>2. CASE UNCHANGED <<status, events, overwritten>>
    BY <1>7, <1>a, <2>2, TaskEmits
  <2> QED BY <1>7, <2>1, <2>2, TaskEmits, Zenon
<1> QED BY <1>1, <1>2, <1>3, <1>4, <1>5, <1>6, <1>7, PollPeers, Zenon DEF Next

-----------------------------------------------------------------------------
(* Theorems *)

LEMMA InvInit == Init => NodeLoopInv
<1> SUFFICES ASSUME Init
             PROVE  NodeLoopInv
  OBVIOUS
<1>0. /\ commands = <<>> /\ events = <<>> /\ chain_q = <<>> /\ consensus_q = <<>>
      /\ answers = [a \in Askers |-> <<>>] /\ consensus = Idle /\ serving = NoEvent
      /\ live_peers = {} /\ peers = {} /\ network = 0 /\ timers = 0
  BY DEF Init
<1>a. /\ kind \in [Calls -> SelfRequests] /\ status = [c \in Calls |-> "idle"]
      /\ overwritten = FALSE /\ handlers = TRUE /\ failed = FALSE
  BY Zenon DEF Init
<1>1. TypeOK
  <2>1. status \in [Calls -> Statuses]
    BY <1>a DEF Statuses
  <2>2. answers \in [Askers -> Seq(ChainMessages \cup {"Consensus"})]
    <3>1. <<>> \in Seq(ChainMessages \cup {"Consensus"})
      OBVIOUS
    <3> QED BY <1>0, <3>1
  <2>3. Len(events) <= Capacity
    <3>1. Len(<<>>) = 0 /\ Capacity \in Nat
      BY CapacityAssumption
    <3> QED BY <1>0, <3>1
  <2>4. /\ events \in Seq(Event) /\ commands \in Seq(Event \cup {Publish})
        /\ chain_q \in Seq([from : Askers, message : ChainMessages])
        /\ consensus_q \in Seq({"TriggerConsensusRound", "Consensus"})
    BY <1>0
  <2>5. overwritten \in BOOLEAN /\ handlers \in BOOLEAN /\ failed \in BOOLEAN
    BY <1>a, Zenon
  <2>6. live_peers \subseteq Peers /\ peers \subseteq Peers /\ network \in Nat /\ timers \in Nat
    BY <1>0, Zenon
  <2> QED BY <1>0, <1>a, <2>1, <2>2, <2>3, <2>4, <2>5, <2>6, Works, TypeUnfolded, Zenon
<1>2. OneRequestEach
  <2>1. answers["node"] = <<>> /\ answers["consensus"] = <<>>
    BY <1>0 DEF Askers
  <2>2. ~AtConsensus
    BY <1>0, Works DEF AtConsensus
  <2>3. DOMAIN chain_q = {}
    BY <1>0
  <2> QED BY <1>0, <2>1, <2>2, <2>3 DEF OneRequestEach, AtChain
<1>3. HeldOnce
  <2>1. DOMAIN commands = {} /\ DOMAIN events = {}
    BY <1>0
  <2>2. SingleOwner(commands) /\ SingleOwner(events)
    BY <2>1, Zenon DEF SingleOwner
  <2>3. CallsOf(serving) = {}
    BY <1>0, Events, Zenon
  <2>4. \A c \in Calls : InOnePlace(c)
    BY <2>1, <2>3 DEF InOnePlace, Holds
  <2> QED BY <1>0, <2>2, <2>4, HeldMeaning DEF Held
<1>4. LossesExplained
  BY <1>a, Zenon DEF LossesExplained
<1>5. LivePeersKnown
  BY <1>0 DEF LivePeersKnown
<1> QED BY <1>1, <1>2, <1>3, <1>4, <1>5 DEF NodeLoopInv

LEMMA InvNext == NodeLoopInv /\ [Next]_vars => NodeLoopInv'
<1> SUFFICES ASSUME TypeOK, OneRequestEach, HeldOnce, LossesExplained, LivePeersKnown,
                    [Next]_vars
             PROVE  NodeLoopInv'
  BY DEF NodeLoopInv
<1>1. CASE UNCHANGED vars
  <2>1. TypeOK'
    BY <1>1, Zenon DEF TypeOK, vars, swarm, loop, task
  <2>2. OneRequestEach'
    BY <1>1, RequestsSame, Zenon DEF vars, loop, task
  <2>3. HeldOnce'
    BY <1>1, Zenon DEF HeldOnce, Holds, NoEvent, vars, swarm, loop
  <2>4. LossesExplained' /\ LivePeersKnown'
    BY <1>1, Zenon DEF LossesExplained, LivePeersKnown, vars, swarm, loop
  <2> QED BY <2>1, <2>2, <2>3, <2>4, Zenon DEF NodeLoopInv
<1>2. CASE Next
  <2>1. TypeOK' /\ OneRequestEach' /\ HeldOnce'
    <3>1. ASSUME NEW c \in Calls, send_self_request(c) \/ InvalidArgument(c) \/ Cancel(c)
          PROVE  TypeOK' /\ OneRequestEach' /\ HeldOnce'
      <4>1. UNCHANGED <<kind, serving, consensus_q, consensus, chain_q, answers>>
        BY <3>1, Zenon DEF send_self_request, InvalidArgument, Cancel, loop, task
      <4> QED BY <3>1, <4>1, CallTypes, CallHeld, RequestsSame, Zenon
    <3>2. ASSUME SwarmCommand \/ SwarmMessage \/ \E p \in Peers : Discovered(p) \/ Expired(p)
          PROVE  TypeOK' /\ OneRequestEach' /\ HeldOnce'
      <4>1. UNCHANGED <<kind, serving, consensus_q, consensus, chain_q, answers>>
        BY <3>2, Zenon DEF SwarmCommand, SwarmMessage, Discovered, Expired, loop, task
      <4> QED BY <3>2, <4>1, SwarmTypes, SwarmHeld, RequestsSame, Zenon
    <3>3. CASE Poll
      BY <3>3, PollTypes, PollRequests, PollHeld
    <3>4. CASE Resume
      BY <3>4, ResumeTypes, ResumeRequests, ResumeHeld
    <3>5. CASE poll_messages \/ trigger_new_round \/ ConsensusResume
      BY <3>5, ConsensusTypes, ConsensusRequests, TaskHeld
    <3>6. CASE ChainHandle
      BY <3>6, ChainTypes, ChainRequests, TaskHeld
    <3> QED BY <1>2, <3>1, <3>2, <3>3, <3>4, <3>5, <3>6, Zenon DEF Next
  <2>2. LossesExplained'
    BY <1>2, NextExplained, ExplainedStep
  <2>3. LivePeersKnown'
    BY <1>2, NextPeers
  <2> QED BY <2>1, <2>2, <2>3, Zenon DEF NodeLoopInv
<1> QED BY <1>1, <1>2, Zenon

(* NodeLoopInv is an inductive invariant of the node's tasks: the types,   *)
(* the requests under way, the answer channels of the calls, the losses    *)
(* and the peers support each other.                                       *)
THEOREM Inductive == Spec => []NodeLoopInv
  BY InvInit, InvNext, PTL DEF Spec

(* Whatever the capacity of the event channel and however many calls there *)
(* are: the node loop loses its handlers only by a handler's own error or  *)
(* by the answer to a client that has gone, and while it has them a call   *)
(* gets RecvError only for an overwritten event or a start_signing.        *)
THEOREM Losses == Spec => []LossesExplained
<1>1. NodeLoopInv => LossesExplained
  BY DEF NodeLoopInv
<1> QED BY <1>1, Inductive, PTL

(* Unless the event channel overflowed, the node loop knows or is about to *)
(* learn of every live peer, and never of one that is not configured.      *)
THEOREM Peered == Spec => []LivePeersKnown
<1>1. NodeLoopInv => LivePeersKnown
  BY DEF NodeLoopInv
<1> QED BY <1>1, Inductive, PTL

(* The node loop and the consensus task have at most one request under way *)
(* each, in exactly one place, and the answer they take is the one to that *)
(* request.                                                                *)
THEOREM OneRequest == Spec => []OneRequestEach
<1>1. NodeLoopInv => OneRequestEach
  BY DEF NodeLoopInv
<1> QED BY <1>1, Inductive, PTL
=============================================================================
