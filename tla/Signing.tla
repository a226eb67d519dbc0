------------------------------ MODULE Signing -------------------------------
(***************************************************************************)
(* Threshold signing sessions (crates/node/src/handlers/signing).          *)
(*                                                                         *)
(* A coordinator picks min_signers - 1 peers and asks each for nonce       *)
(* commitments; with all of them it distributes a signing package, and     *)
(* with all signature shares it aggregates the signature, broadcasts the   *)
(* spend and hands the debit to its chain.  A node has one session at a    *)
(* time, and a request of another coordinator replaces it.  There is no    *)
(* timeout.                                                                *)
(*                                                                         *)
(* An error that a handler returns reaches NodeState::handle_message,      *)
(* which leaves before it puts the handlers back: from then on the node    *)
(* takes events from its channel and drops them.  Key generation is over   *)
(* and every peer is connected.                                            *)
(***************************************************************************)
EXTENDS Integers, FiniteSets, FiniteSetsExt

CONSTANTS
    Nodes,        \* the signers
    min_signers,  \* NodeConfig.min_signers; part1 of key generation refuses less than 2
    SignIds,      \* session ids, drawn at random: one for each request
    Coordinator,  \* the node that receives the request, by session id
    Spends,       \* sessions started by SelfRequest::Spend
    Refused       \* spends that the wallet, the oracle or the chain may refuse

ASSUME SignersAssumption ==
    /\ IsFiniteSet(Nodes) /\ min_signers \in 2 .. Cardinality(Nodes)
    /\ SignIds \subseteq Nat \ {0} /\ Coordinator \in [SignIds -> Nodes]
    /\ Refused \subseteq Spends /\ Spends \subseteq SignIds

VARIABLES
    active_signing,  \* SigningState.active_signing of each node
    pending_spends,  \* SigningState.pending_spends: the session ids
    handlers,        \* NodeState.handlers is not empty
    panicked,        \* nodes whose aggregation failed its expect
    requests,        \* requests not made yet
    stranded,        \* spends dropped after their inputs left the wallet
    broadcast,       \* spends handed to the bitcoin network
    signed,          \* history: the shares produced
    net              \* direct messages on their way

vars == <<active_signing, pending_spends, handlers, panicked, requests, stranded,
          broadcast, signed, net>>

-----------------------------------------------------------------------------
(* Sessions and messages *)

Peers(n) == Nodes \ {n}

(* A nonce is named by the session it was drawn for; 0 is none.            *)
Nonces == [Nodes -> {0} \cup SignIds]

NoNonces == [n \in Nodes |-> 0]

Package == [sign_id : SignIds, commitments : Nonces]

NoPackage == [sign_id |-> 0, commitments |-> NoNonces]

NoShares == [n \in Nodes |-> NoPackage]

(* A signature share is the package it signs.                              *)
ActiveSigning == [sign_id : SignIds, selected_peers : SUBSET Nodes, nonces : SignIds,
                  commitments : Nonces, signature_shares : [Nodes -> Package \cup {NoPackage}],
                  signing_package : Package \cup {NoPackage}, is_coordinator : BOOLEAN]

NoSession == [sign_id |-> 0]

Session(id, peers, nonces, commitments, coordinator) ==
    [sign_id |-> id, selected_peers |-> peers, nonces |-> nonces,
     commitments |-> commitments, signature_shares |-> NoShares,
     signing_package |-> NoPackage, is_coordinator |-> coordinator]

Message(type, n, p, id, body) ==
    [type |-> type, from |-> n, to |-> p, sign_id |-> id, body |-> body]

Commitments(a) == {n \in Nodes : a.commitments[n] # 0}

Shares(a) == {n \in Nodes : a.signature_shares[n] # NoPackage}

Signature(n, nonces, package) == [node |-> n, nonces |-> nonces, package |-> package]

(* frost::round2::sign and frost::aggregate: a signer's own commitment     *)
(* must be in the package, and the shares must be those of the package.    *)
SignOk(n, nonces, package) == package.commitments[n] = nonces

AggregateOk(a) ==
    /\ Shares(a) = Commitments(a.signing_package)
    /\ \A n \in Shares(a) : a.signature_shares[n] = a.signing_package

-----------------------------------------------------------------------------
(* Starting a session *)

(* The state of the handlers goes with them.                               *)
LoseHandlers(n) ==
    /\ handlers' = [handlers EXCEPT ![n] = FALSE]
    /\ active_signing' = [active_signing EXCEPT ![n] = NoSession]
    /\ pending_spends' = [pending_spends EXCEPT ![n] = {}]

(* start_signing_session, when no session is active.                       *)
start_signing_session(n, id) ==
    \E peers \in kSubset(min_signers - 1, Peers(n)) :
        /\ active_signing' = [active_signing EXCEPT ![n] =
               Session(id, peers, id, [NoNonces EXCEPT ![n] = id], TRUE)]
        /\ net' = net \cup {Message("SignRequest", n, p, id, 0) : p \in peers}

Requested(n, id) ==
    /\ id \in requests /\ Coordinator[id] = n /\ handlers[n] /\ n \notin panicked
    /\ requests' = requests \ {id}

(* Variant of StartSigningSession: the session is recorded as a spend.     *)
StartAsSpend(n, id) ==
    /\ Requested(n, id) /\ id \notin Spends
    /\ active_signing[n] = NoSession
    /\ start_signing_session(n, id)
    /\ pending_spends' = [pending_spends EXCEPT ![n] = @ \cup {id}]
    /\ UNCHANGED <<handlers, panicked, stranded, broadcast, signed>>

StartSigningSession(n, id) ==
    /\ Requested(n, id) /\ id \notin Spends
    /\ \/ /\ active_signing[n] = NoSession
          /\ start_signing_session(n, id)
          /\ UNCHANGED <<pending_spends, handlers>>
       \/ /\ active_signing[n] # NoSession
          /\ LoseHandlers(n)
          /\ UNCHANGED net
    /\ UNCHANGED <<panicked, stranded, broadcast, signed>>

(* start_spend_request: create_spend takes the inputs from the wallet, if  *)
(* it has enough; the error of a session that cannot start is swallowed.   *)
start_spend_request(n, id) ==
    /\ Requested(n, id) /\ id \in Spends
    /\ \/ /\ active_signing[n] = NoSession
          /\ start_signing_session(n, id)
          /\ pending_spends' = [pending_spends EXCEPT ![n] = @ \cup {id}]
          /\ UNCHANGED stranded
       \/ /\ active_signing[n] # NoSession
          /\ stranded' = stranded \cup {id}
          /\ UNCHANGED <<active_signing, pending_spends, net>>
       \/ /\ id \in Refused
          /\ UNCHANGED <<active_signing, pending_spends, stranded, net>>
    /\ UNCHANGED <<handlers, panicked, broadcast, signed>>

-----------------------------------------------------------------------------
(* Messages *)

Receives(n, m, type) ==
    m \in net /\ m.to = n /\ m.type = type /\ handlers[n] /\ n \notin panicked

(* Variant of handle_sign_request: the nonces of a session that is still   *)
(* active are used again.                                                  *)
SignRequestReuseNonces(n, m) ==
    LET nonces == IF active_signing[n] = NoSession THEN m.sign_id ELSE active_signing[n].nonces
    IN  /\ Receives(n, m, "SignRequest")
        /\ active_signing' = [active_signing EXCEPT ![n] =
               Session(m.sign_id, {}, nonces, NoNonces, FALSE)]
        /\ net' = (net \ {m}) \cup {Message("Commitments", n, m.from, m.sign_id, nonces)}
        /\ UNCHANGED <<pending_spends, handlers, panicked, requests, stranded, broadcast, signed>>

(* handle_sign_request: fresh nonces, and the session replaces any other,  *)
(* one that this node coordinates included.                                *)
handle_sign_request(n, m) ==
    /\ Receives(n, m, "SignRequest")
    /\ active_signing' = [active_signing EXCEPT ![n] =
           Session(m.sign_id, {}, m.sign_id, NoNonces, FALSE)]
    /\ net' = (net \ {m}) \cup {Message("Commitments", n, m.from, m.sign_id, m.sign_id)}
    /\ UNCHANGED <<pending_spends, handlers, panicked, requests, stranded, broadcast, signed>>

(* Variant of Coordinates: any session that this node coordinates.         *)
CoordinatesAny(n, m) ==
    active_signing[n] # NoSession /\ active_signing[n].is_coordinator

(* The check that opens both of the coordinator's handlers.                *)
Coordinates(n, m) ==
    /\ active_signing[n] # NoSession
    /\ active_signing[n].is_coordinator /\ active_signing[n].sign_id = m.sign_id

(* Variant of SessionMismatch: the message is dropped without an error.    *)
IgnoreMismatch(n, m) ==
    /\ net' = net \ {m}
    /\ UNCHANGED <<active_signing, pending_spends, handlers, panicked, requests, stranded,
                   broadcast, signed>>

SessionMismatch(n, m) ==
    /\ LoseHandlers(n)
    /\ net' = net \ {m}
    /\ UNCHANGED <<panicked, requests, stranded, broadcast, signed>>

(* Variant of PackageReady: one commitment is still missing.               *)
PackageReadyEarly(a) == Cardinality(Commitments(a)) + 1 >= min_signers

PackageReady(a) == Cardinality(Commitments(a)) = min_signers

handle_commitments_response(n, m) ==
    LET a       == [active_signing[n] EXCEPT !.commitments[m.from] = m.body]
        package == [sign_id |-> a.sign_id, commitments |-> a.commitments]
    IN  /\ Receives(n, m, "Commitments")
        /\ \/ ~Coordinates(n, m) /\ SessionMismatch(n, m)
           \/ /\ Coordinates(n, m) /\ ~PackageReady(a)
              /\ active_signing' = [active_signing EXCEPT ![n] = a]
              /\ net' = net \ {m}
              /\ UNCHANGED <<pending_spends, handlers, panicked, requests, stranded,
                             broadcast, signed>>
           \/ /\ Coordinates(n, m) /\ PackageReady(a)
              /\ active_signing' = [active_signing EXCEPT ![n] =
                     [a EXCEPT !.signing_package = package, !.signature_shares[n] = package]]
              /\ net' = (net \ {m}) \cup
                     {Message("SignPackage", n, p, a.sign_id, package) : p \in a.selected_peers}
              /\ signed' = signed \cup {Signature(n, a.nonces, package)}
              /\ UNCHANGED <<pending_spends, handlers, panicked, requests, stranded, broadcast>>

(* handle_sign_package: the participant signs once and ends its session.   *)
handle_sign_package(n, m) ==
    LET a  == active_signing[n]
        ok == a # NoSession /\ a.sign_id = m.sign_id /\ SignOk(n, a.nonces, m.body)
    IN  /\ Receives(n, m, "SignPackage")
        /\ \/ ~ok /\ SessionMismatch(n, m)
           \/ /\ ok
              /\ active_signing' = [active_signing EXCEPT ![n] = NoSession]
              /\ net' = (net \ {m}) \cup
                     {Message("SignatureShare", n, m.from, m.sign_id, m.body)}
              /\ signed' = signed \cup {Signature(n, a.nonces, m.body)}
              /\ UNCHANGED <<pending_spends, handlers, panicked, requests, stranded, broadcast>>

(* Variant of Aggregate: the spend stays pending.                          *)
AggregateKeepPending(n, id) ==
    /\ active_signing' = [active_signing EXCEPT ![n] = NoSession]
    /\ broadcast' = broadcast \cup (pending_spends[n] \cap {id})
    /\ UNCHANGED <<pending_spends, handlers>>

(* handle_signed_withdrawal, and the end of the session.  A refusal, before*)
(* or after the bitcoin network has the spend, is an error of the handler. *)
Aggregate(n, id) ==
    \/ /\ active_signing' = [active_signing EXCEPT ![n] = NoSession]
       /\ pending_spends' = [pending_spends EXCEPT ![n] = @ \ {id}]
       /\ broadcast' = broadcast \cup (pending_spends[n] \cap {id})
       /\ UNCHANGED handlers
    \/ /\ id \in Refused
       /\ LoseHandlers(n)
       /\ broadcast' \in {broadcast, broadcast \cup {id}}

handle_signature_share(n, m) ==
    LET a == [active_signing[n] EXCEPT !.signature_shares[m.from] = m.body]
    IN  /\ Receives(n, m, "SignatureShare")
        /\ \/ ~Coordinates(n, m) /\ SessionMismatch(n, m)
           \/ /\ Coordinates(n, m)
              /\ net' = net \ {m}
              /\ \/ /\ Cardinality(Shares(a)) # min_signers
                    /\ active_signing' = [active_signing EXCEPT ![n] = a]
                    /\ UNCHANGED <<pending_spends, handlers, panicked, broadcast>>
                 \/ /\ Cardinality(Shares(a)) = min_signers
                    /\ IF AggregateOk(a)
                       THEN Aggregate(n, a.sign_id) /\ UNCHANGED panicked
                       ELSE /\ panicked' = panicked \cup {n}
                            /\ UNCHANGED <<active_signing, pending_spends, handlers, broadcast>>
              /\ UNCHANGED <<requests, stranded, signed>>

(* A node without handlers takes the event from the channel and drops it.  *)
Ignore(n, m) ==
    /\ m \in net /\ m.to = n /\ ~handlers[n]
    /\ net' = net \ {m}
    /\ UNCHANGED <<active_signing, pending_spends, handlers, panicked, requests, stranded,
                   broadcast, signed>>

Init ==
    /\ active_signing = [n \in Nodes |-> NoSession]
    /\ pending_spends = [n \in Nodes |-> {}]
    /\ handlers = [n \in Nodes |-> TRUE]
    /\ panicked = {}
    /\ requests = SignIds
    /\ stranded = {} /\ broadcast = {} /\ signed = {} /\ net = {}

Next == \E n \in Nodes :
    \/ \E id \in SignIds : StartSigningSession(n, id) \/ start_spend_request(n, id)
    \/ \E m \in net : \/ handle_sign_request(n, m)
                      \/ handle_commitments_response(n, m)
                      \/ handle_sign_package(n, m)
                      \/ handle_signature_share(n, m)
                      \/ Ignore(n, m)

Spec == Init /\ [][Next]_vars

-----------------------------------------------------------------------------
(* Properties *)

(* Every variable has the type its Rust field has; in particular only a    *)
(* session that start_spend_request began is ever a pending spend.         *)
TypeOK ==
    /\ active_signing \in [Nodes -> ActiveSigning \cup {NoSession}]
    /\ pending_spends \in [Nodes -> SUBSET Spends]
    /\ handlers \in [Nodes -> BOOLEAN] /\ panicked \subseteq Nodes
    /\ requests \subseteq SignIds /\ stranded \subseteq Spends /\ broadcast \subseteq Spends

(* No nonce ever signs two different packages, whichever sessions a node   *)
(* starts, joins, abandons or replaces: a second share with the same nonce *)
(* would reveal the node's key share.                                      *)
NoncesSignOnce ==
    \A s, t \in signed : s.node = t.node /\ s.nonces = t.nonces => s.package = t.package

(* The aggregation never meets the share of another session: its expect    *)
(* (create_signature.rs:383) never takes the process down.                 *)
NeverPanics == panicked = {}

(* A spend is in one place: still to be requested, dropped, pending at its *)
(* coordinator, or with the bitcoin network.  So it is broadcast once.     *)
SpendInOnePlace ==
    LET place == <<requests, stranded, broadcast, UNION {pending_spends[n] : n \in Nodes}>>
    IN  \A i, j \in 1 .. 4 : i # j => Spends \cap place[i] \cap place[j] = {}

Idle(n) == active_signing[n] = NoSession /\ pending_spends[n] = {}

(* When no message is left, either every session has ended and no spend is *)
(* pending, or a node has lost its handlers on the way: a session that was *)
(* replaced or left waiting always takes a node's handlers with it.        *)
QuietMeansDone == net = {} => (\A n \in Nodes : Idle(n)) \/ (\E n \in Nodes : ~handlers[n])

(* A session that meets no other one, and whose spend is accepted, ends    *)
(* with no handler lost, and a spend with its transaction broadcast.       *)
LoneSessionCompletes ==
    \A id \in SignIds \ Refused :
        SignIds \ requests = {id} =>
            /\ \A n \in Nodes : handlers[n]
            /\ net = {} => /\ \A n \in Nodes : Idle(n)
                           /\ id \in Spends => id \in broadcast

-----------------------------------------------------------------------------
(* The inductive invariant *)

AllUp == \A n \in Nodes : handlers[n]

Leads(n, id) == active_signing[n].sign_id = id /\ active_signing[n].is_coordinator

Joined(n, id) == active_signing[n].sign_id = id /\ ~active_signing[n].is_coordinator

Sent(type, n, p, id) ==
    \E m \in net : m.type = type /\ m.from = n /\ m.to = p /\ m.sign_id = id

(* A message belongs to a session that was requested, goes to or comes     *)
(* from its coordinator, and carries a package that the coordinator signed *)
(* and that has a commitment of the peer.                                  *)
MessageInv(m) ==
    /\ m = Message(m.type, m.from, m.to, m.sign_id, m.body)
    /\ m.sign_id \in SignIds \ requests /\ m.from \in Nodes /\ m.to \in Peers(m.from)
    /\ \/ m.type = "SignRequest" /\ m.from = Coordinator[m.sign_id] /\ m.body = 0
       \/ m.type = "Commitments" /\ m.to = Coordinator[m.sign_id] /\ m.body = m.sign_id
       \/ /\ m.type = "SignPackage" /\ m.from = Coordinator[m.sign_id]
          /\ Signature(m.from, m.sign_id, m.body) \in signed
          /\ m.body.commitments[m.to] = m.sign_id
       \/ /\ m.type = "SignatureShare" /\ m.to = Coordinator[m.sign_id]
          /\ Signature(m.to, m.sign_id, m.body) \in signed
          /\ m.body.commitments[m.from] = m.sign_id

(* A session signs one package, the coordinator first, and by then all its *)
(* requests and commitments have been received.                            *)
SignedInv(s) ==
    /\ s.node \in Nodes /\ s.package \in Package
    /\ s.nonces = s.package.sign_id /\ s.nonces \notin requests
    /\ Signature(Coordinator[s.nonces], s.nonces, s.package) \in signed
    /\ \A t \in signed : t.nonces = s.nonces => t.package = s.package
    /\ \A m \in net : m.sign_id = s.nonces => m.type \notin {"SignRequest", "Commitments"}

SessionInv(n, a) ==
    a # NoSession =>
        /\ a.nonces = a.sign_id /\ a.sign_id \notin requests
        /\ a.is_coordinator <=> Coordinator[a.sign_id] = n

(* What a coordinator has collected so far: the commitments of its         *)
(* selected peers, then a package with all of them, then shares of it.     *)
CollectInv(n, a) ==
    LET signers == a.selected_peers \cup {n}
    IN  /\ a.selected_peers \in kSubset(min_signers - 1, Peers(n))
        /\ a.commitments[n] = a.sign_id
        /\ \A p \in Nodes : a.commitments[p] \in {0, a.sign_id}
        /\ Commitments(a) \subseteq signers
        /\ a.signing_package # NoPackage <=> Commitments(a) = signers
        /\ a.signing_package # NoPackage =>
               a.signing_package = [sign_id |-> a.sign_id, commitments |-> a.commitments]
        /\ a.signature_shares[n] = a.signing_package
        /\ \A p \in Nodes : a.signature_shares[p] \in {NoPackage, a.signing_package}
        /\ Shares(a) \subseteq signers /\ Shares(a) # signers

(* What is on its way to a coordinator has not been counted yet ...        *)
Uncounted(m, a) ==
    /\ m.type = "SignRequest" => m.to \in a.selected_peers /\ a.commitments[m.to] = 0
    /\ m.type = "Commitments" => m.from \in a.selected_peers /\ a.commitments[m.from] = 0
    /\ m.type = "SignPackage" => m.to \in a.selected_peers
    /\ m.type = "SignatureShare" =>
           m.from \in a.selected_peers /\ a.signature_shares[m.from] = NoPackage

(* ... nor have the shares of its peers in session, and what anybody       *)
(* signed for its session is its package.                                  *)
LeaderInv(n, a) ==
    /\ a.sign_id \in Spends => a.sign_id \in pending_spends[n]
    /\ \A s \in signed : s.nonces = a.sign_id => s.package = a.signing_package
    /\ \A p \in Nodes : Joined(p, a.sign_id) =>
           p \in a.selected_peers /\ a.signature_shares[p] = NoPackage
    /\ \A m \in net : m.sign_id = a.sign_id => Uncounted(m, a)

(* A peer is at one stage of a session: asked, or committed, or past it.   *)
StageInv ==
    \A m \in net :
        /\ m.type = "SignRequest" =>
               ~Joined(m.to, m.sign_id) /\ ~Sent("Commitments", m.to, m.from, m.sign_id)
        /\ m.type = "SignatureShare" => ~Joined(m.from, m.sign_id)

(* As long as no node has lost its handlers, a coordinator waits for       *)
(* something that is on its way, and a session without its coordinator has *)
(* a message on its way or has ended everywhere.                           *)
Awaited(n, a) ==
    \A p \in a.selected_peers :
        /\ \/ a.commitments[p] # 0
           \/ Sent("SignRequest", n, p, a.sign_id) \/ Sent("Commitments", p, n, a.sign_id)
        /\ \/ a.signing_package = NoPackage \/ a.signature_shares[p] # NoPackage
           \/ Sent("SignPackage", n, p, a.sign_id) \/ Sent("SignatureShare", p, n, a.sign_id)

Ended(id) ==
    id \notin pending_spends[Coordinator[id]] /\ \A n \in Nodes : active_signing[n].sign_id # id

ProgressInv(id) ==
    \/ Leads(Coordinator[id], id) /\ Awaited(Coordinator[id], active_signing[Coordinator[id]])
    \/ ~Leads(Coordinator[id], id) /\ ((\E m \in net : m.sign_id = id) \/ Ended(id))

(* A session that is alone loses nothing: its peers stay in it until they  *)
(* have sent their shares, and its coordinator until it has them all.      *)
LoneInv(id) ==
    /\ AllUp
    /\ \/ /\ Leads(Coordinator[id], id)
          /\ \A p \in active_signing[Coordinator[id]].selected_peers :
                 \/ Sent("SignRequest", Coordinator[id], p, id) \/ Joined(p, id)
                 \/ active_signing[Coordinator[id]].signature_shares[p] # NoPackage
                 \/ Sent("SignatureShare", p, Coordinator[id], id)
       \/ net = {} /\ (id \in Spends => id \in broadcast)
    /\ \A m \in net : m.type = "SignPackage" => Joined(m.to, id)

OwnSpends == \A n \in Nodes : \A id \in pending_spends[n] : Coordinator[id] = n

LeadersInv ==
    \A n \in Nodes : \A id \in SignIds :
        Leads(n, id) => CollectInv(n, active_signing[n]) /\ LeaderInv(n, active_signing[n])

(* The inductive invariant behind all properties of this module.           *)
SigningInv ==
    /\ TypeOK /\ NeverPanics /\ SpendInOnePlace /\ OwnSpends
    /\ \A m \in net : MessageInv(m)
    /\ \A s \in signed : SignedInv(s)
    /\ \A n \in Nodes : SessionInv(n, active_signing[n])
    /\ LeadersInv /\ StageInv
    /\ AllUp => \A id \in SignIds \ requests : ProgressInv(id)
    /\ requests = SignIds => AllUp
    /\ \A id \in SignIds \ Refused : SignIds \ requests = {id} => LoneInv(id)
=============================================================================
