--------------------------- MODULE SigningProofs ----------------------------
(***************************************************************************)
(* Proofs about signing sessions: what SigningInv says of a session, and   *)
(* the steps that start, join or lose one; the steps that collect          *)
(* commitments, distribute a package and sign it; shares, aggregation and  *)
(* lost handlers.  SigningInv is an inductive invariant, and every property *)
(* of module Signing follows from it.                                      *)
(***************************************************************************)
EXTENDS Signing, FiniteSetTheorems, TLAPS

-----------------------------------------------------------------------------
(* Sessions and packages *)

LEMMA Ids ==
  /\ 0 \notin SignIds /\ NoPackage \notin Package /\ NoSession \notin ActiveSigning
  /\ NoSession.sign_id = 0 /\ NoPackage.sign_id = 0
<1>1. 0 \notin SignIds /\ NoSession.sign_id = 0 /\ NoPackage.sign_id = 0
  BY SignersAssumption DEF NoSession, NoPackage
<1>2. \A a \in Package : a.sign_id \in SignIds
  BY DEF Package
<1>3. \A a \in ActiveSigning : a.sign_id \in SignIds
  BY DEF ActiveSigning
<1> QED BY <1>1, <1>2, <1>3

LEMMA SessionType ==
  ASSUME NEW id \in SignIds, NEW peers \in SUBSET Nodes, NEW c \in Nonces, NEW b \in BOOLEAN
  PROVE  Session(id, peers, id, c, b) \in ActiveSigning
<1>1. NoShares \in [Nodes -> Package \cup {NoPackage}]
  BY DEF NoShares
<1> QED BY <1>1 DEF Session, ActiveSigning

(* A coordinator and its selected peers are min_signers nodes.             *)
LEMMA SignersCount ==
  ASSUME NEW n \in Nodes, NEW S \in kSubset(min_signers - 1, Peers(n))
  PROVE  /\ S \subseteq Nodes /\ n \notin S /\ S # {}
         /\ \A T \in SUBSET (S \cup {n}) : Cardinality(T) = min_signers <=> T = S \cup {n}
<1>1. S \subseteq Peers(n) /\ Cardinality(S) = min_signers - 1
  BY DEF kSubset
<1>2. S \subseteq Nodes /\ n \notin S
  BY <1>1 DEF Peers
<1>3. IsFiniteSet(S) /\ min_signers \in Nat /\ min_signers >= 2
  <2>1. IsFiniteSet(Nodes) /\ Cardinality(Nodes) \in Nat
    BY SignersAssumption, FS_CardinalityType
  <2> QED BY <1>2, <2>1, SignersAssumption, FS_Subset
<1>4. S # {}
  <2>1. Cardinality({}) = 0
    BY FS_EmptySet
  <2> QED BY <1>1, <1>3, <2>1
<1>5. IsFiniteSet(S \cup {n}) /\ Cardinality(S \cup {n}) = min_signers
  <2>1. IsFiniteSet(S \cup {n}) /\ Cardinality(S \cup {n}) = Cardinality(S) + 1
    BY <1>2, <1>3, FS_AddElement
  <2> QED BY <1>1, <1>3, <2>1
<1>6. ASSUME NEW T \in SUBSET (S \cup {n})
      PROVE  Cardinality(T) = min_signers <=> T = S \cup {n}
  BY <1>5, FS_Subset, Zenon
<1> QED BY <1>2, <1>4, <1>6

(* What the invariant says of a node that is in a session.                 *)
LEMMA InSession ==
  ASSUME SigningInv, NEW n \in Nodes, NEW id \in SignIds, active_signing[n].sign_id = id
  PROVE  /\ active_signing[n] \in ActiveSigning /\ active_signing[n] # NoSession
         /\ active_signing[n].nonces = id /\ id \notin requests
         /\ active_signing[n].is_coordinator \in BOOLEAN
         /\ active_signing[n].is_coordinator <=> Coordinator[id] = n
<1>1. active_signing[n] \in ActiveSigning \cup {NoSession}
  BY DEF SigningInv, TypeOK
<1>2. active_signing[n] \in ActiveSigning /\ active_signing[n] # NoSession
  BY <1>1, Ids
<1>3. SessionInv(n, active_signing[n])
  BY DEF SigningInv
<1> QED BY <1>2, <1>3 DEF SessionInv, ActiveSigning

LEMMA OutOfSession ==
  ASSUME SigningInv, NEW n \in Nodes, active_signing[n].sign_id \notin SignIds
  PROVE  active_signing[n] = NoSession
<1>1. active_signing[n] \in ActiveSigning \cup {NoSession}
  BY DEF SigningInv, TypeOK
<1> QED BY <1>1 DEF ActiveSigning

(* SpendInOnePlace without the sequence of places.                         *)
OnePlace ==
  \A id \in Spends :
    /\ id \in requests => id \notin stranded /\ id \notin broadcast
    /\ id \in stranded => id \notin broadcast
    /\ \A n \in Nodes : id \in pending_spends[n] =>
           id \notin requests /\ id \notin stranded /\ id \notin broadcast

LEMMA PlaceMeaning == SpendInOnePlace <=> OnePlace
<1> DEFINE U == UNION {pending_spends[n] : n \in Nodes}
<1>1. \A id : id \in U <=> \E n \in Nodes : id \in pending_spends[n]
  OBVIOUS
<1> HIDE DEF U
<1> DEFINE place == <<requests, stranded, broadcast, U>>
<1>2. place[1] = requests /\ place[2] = stranded /\ place[3] = broadcast /\ place[4] = U
  OBVIOUS
<1>3. SpendInOnePlace <=> \A i, j \in 1 .. 4 : i # j => Spends \cap place[i] \cap place[j] = {}
  BY DEF SpendInOnePlace, U
<1> HIDE DEF place
<1>4. (\A i, j \in 1 .. 4 : i # j => Spends \cap place[i] \cap place[j] = {}) <=>
        /\ Spends \cap place[1] \cap place[2] = {} /\ Spends \cap place[1] \cap place[3] = {}
        /\ Spends \cap place[1] \cap place[4] = {} /\ Spends \cap place[2] \cap place[3] = {}
        /\ Spends \cap place[2] \cap place[4] = {} /\ Spends \cap place[3] \cap place[4] = {}
  <2>1. \A i : i \in 1 .. 4 <=> i = 1 \/ i = 2 \/ i = 3 \/ i = 4
    OBVIOUS
  <2> QED BY <2>1
<1>5. SpendInOnePlace <=>
        \A id \in Spends :
          /\ ~(id \in requests /\ id \in stranded) /\ ~(id \in requests /\ id \in broadcast)
          /\ ~(id \in requests /\ id \in U) /\ ~(id \in stranded /\ id \in broadcast)
          /\ ~(id \in stranded /\ id \in U) /\ ~(id \in broadcast /\ id \in U)
  BY <1>2, <1>3, <1>4
<1> QED BY <1>1, <1>5 DEF OnePlace

LEMMA PlaceMeaningNext == SpendInOnePlace' <=> OnePlace'
  BY PlaceMeaning, PTL

-----------------------------------------------------------------------------
(* Steps that only lose something *)

(* A session that its coordinator keeps.                                   *)
LEMMA LeaderKept ==
  ASSUME SigningInv, NEW n \in Nodes, NEW id \in SignIds, Leads(n, id),
         active_signing'[n] = active_signing[n],
         id \in pending_spends[n] => id \in pending_spends'[n],
         \A s \in signed' : s.nonces = id =>
             s \in signed \/ s.package = active_signing[n].signing_package,
         \A p \in Nodes : Joined(p, id)' => \/ Joined(p, id)
                                            \/ /\ p \in active_signing[n].selected_peers
                                               /\ active_signing[n].signature_shares[p] = NoPackage,
         \A m \in net' : m.sign_id = id => m \in net \/ Uncounted(m, active_signing[n])
  PROVE  (CollectInv(n, active_signing[n]) /\ LeaderInv(n, active_signing[n]))'
<1>1. CollectInv(n, active_signing[n]) /\ LeaderInv(n, active_signing[n])
  BY DEF SigningInv, LeadersInv
<1>2. active_signing[n].sign_id = id
  BY DEF Leads
<1>3. CollectInv(n, active_signing[n])'
  BY <1>1 DEF CollectInv
<1>4. LeaderInv(n, active_signing[n])'
  <2>1. (id \in Spends => id \in pending_spends[n])'
    BY <1>1, <1>2 DEF LeaderInv
  <2>2. \A s \in signed' : s.nonces = id => s.package = active_signing[n].signing_package
    BY <1>1, <1>2 DEF LeaderInv
  <2>3. \A p \in Nodes : Joined(p, id)' =>
            /\ p \in active_signing[n].selected_peers
            /\ active_signing[n].signature_shares[p] = NoPackage
    BY <1>1, <1>2 DEF LeaderInv
  <2>4. \A m \in net' : m.sign_id = id => Uncounted(m, active_signing[n])
    BY <1>1, <1>2 DEF LeaderInv
  <2> QED BY <1>2, <2>1, <2>2, <2>3, <2>4 DEF LeaderInv, Uncounted
<1> QED BY <1>3, <1>4

LEMMA ShrinkStep ==
  ASSUME SigningInv,
         active_signing' \in [Nodes -> ActiveSigning \cup {NoSession}],
         pending_spends' \in [Nodes -> SUBSET Spends], handlers' \in [Nodes -> BOOLEAN],
         \A p \in Nodes :
            \/ active_signing'[p] = active_signing[p] /\ pending_spends'[p] = pending_spends[p]
            \/ active_signing'[p] = NoSession /\ pending_spends'[p] = {},
         net' \subseteq net, requests' \subseteq requests, requests' # SignIds,
         UNCHANGED <<panicked, stranded, signed>>,
         \/ broadcast' = broadcast
         \/ \E n \in Nodes : \E id \in pending_spends[n] :
               broadcast' = broadcast \cup {id} /\ pending_spends'[n] = {},
         ~AllUp', \A id \in SignIds \ Refused : SignIds \ requests' # {id}
  PROVE  SigningInv'
<1>1. TypeOK'
  BY DEF SigningInv, TypeOK
<1>2. NeverPanics' /\ OwnSpends'
  BY DEF SigningInv, NeverPanics, OwnSpends
<1>3. SpendInOnePlace'
  <2>1. OnePlace /\ OwnSpends
    BY PlaceMeaning DEF SigningInv
  <2>2. \A p \in Nodes : pending_spends'[p] \subseteq pending_spends[p]
    OBVIOUS
  <2>3. CASE broadcast' = broadcast
    <3>1. OnePlace'
      BY <2>1, <2>2, <2>3 DEF OnePlace
    <3> QED BY <3>1, PlaceMeaningNext
  <2>4. CASE broadcast' # broadcast
    <3>1. PICK n \in Nodes : \E id \in pending_spends[n] :
               broadcast' = broadcast \cup {id} /\ pending_spends'[n] = {}
      BY <2>4
    <3>2. PICK id \in pending_spends[n] :
               broadcast' = broadcast \cup {id} /\ pending_spends'[n] = {}
      BY <3>1
    <3>3. \A p \in Nodes : id \notin pending_spends'[p]
      BY <2>1, <2>2, <3>2 DEF OwnSpends
    <3>4. OnePlace'
      BY <2>1, <2>2, <3>2, <3>3 DEF OnePlace
    <3> QED BY <3>4, PlaceMeaningNext
  <2> QED BY <2>3, <2>4
<1>4. (\A m \in net : MessageInv(m))'
  <2> SUFFICES ASSUME NEW m \in net' PROVE MessageInv(m)'
    OBVIOUS
  <2>1. MessageInv(m)
    BY DEF SigningInv
  <2> QED BY <2>1 DEF MessageInv
<1>5. (\A s \in signed : SignedInv(s))'
  <2> SUFFICES ASSUME NEW s \in signed PROVE SignedInv(s)'
    OBVIOUS
  <2>1. SignedInv(s)
    BY DEF SigningInv
  <2> QED BY <2>1 DEF SignedInv
<1>6. (\A n \in Nodes : SessionInv(n, active_signing[n]))'
  <2> SUFFICES ASSUME NEW n \in Nodes PROVE SessionInv(n, active_signing[n])'
    OBVIOUS
  <2>1. SessionInv(n, active_signing[n])
    BY DEF SigningInv
  <2> QED BY <2>1 DEF SessionInv
<1>7. \A p \in Nodes : \A id \in SignIds :
        active_signing'[p].sign_id = id =>
            active_signing'[p] = active_signing[p] /\ pending_spends'[p] = pending_spends[p]
  BY Ids
<1>8. \A p \in Nodes : \A id \in SignIds : Joined(p, id)' => Joined(p, id)
  BY <1>7 DEF Joined
<1>9. LeadersInv'
  <2> SUFFICES ASSUME NEW n \in Nodes, NEW id \in SignIds, Leads(n, id)'
               PROVE  (CollectInv(n, active_signing[n]) /\ LeaderInv(n, active_signing[n]))'
    BY DEF LeadersInv
  <2>1. Leads(n, id) /\ active_signing'[n] = active_signing[n]
        /\ pending_spends'[n] = pending_spends[n]
    BY <1>7 DEF Leads
  <2> QED BY <1>8, <2>1, LeaderKept
<1>10. StageInv'
  <2> SUFFICES ASSUME NEW m \in net'
               PROVE  /\ m.type = "SignRequest" => /\ ~Joined(m.to, m.sign_id)'
                                                   /\ ~Sent("Commitments", m.to, m.from, m.sign_id)'
                      /\ m.type = "SignatureShare" => ~Joined(m.from, m.sign_id)'
    BY DEF StageInv
  <2>1. MessageInv(m) /\ StageInv
    BY DEF SigningInv
  <2>2. m.sign_id \in SignIds /\ m.from \in Nodes /\ m.to \in Nodes
    BY <2>1 DEF MessageInv, Peers
  <2> QED BY <1>8, <2>1, <2>2 DEF StageInv, Sent
<1> QED BY <1>1, <1>2, <1>3, <1>4, <1>5, <1>6, <1>9, <1>10 DEF SigningInv

-----------------------------------------------------------------------------
(* Requests *)

(* Nothing exists yet of a session that is still to be requested.          *)
LEMMA Fresh ==
  ASSUME SigningInv, NEW id \in requests
  PROVE  /\ id \in SignIds
         /\ \A m \in net : m.sign_id # id
         /\ \A s \in signed : s.nonces # id
         /\ \A p \in Nodes : active_signing[p].sign_id # id /\ id \notin pending_spends[p]
         /\ id \in Spends => id \notin stranded /\ id \notin broadcast
<1>1. id \in SignIds
  BY DEF SigningInv, TypeOK
<1>2. \A m \in net : m.sign_id # id
  BY DEF SigningInv, MessageInv
<1>3. \A s \in signed : s.nonces # id
  BY DEF SigningInv, SignedInv
<1>4. \A p \in Nodes : active_signing[p].sign_id # id
  BY <1>1, InSession
<1>5. OnePlace /\ pending_spends \in [Nodes -> SUBSET Spends]
  BY PlaceMeaning DEF SigningInv, TypeOK
<1> QED BY <1>1, <1>2, <1>3, <1>4, <1>5 DEF OnePlace

LEMMA DropStep ==
  ASSUME SigningInv, NEW n \in Nodes, NEW id \in requests, id \in Spends,
         active_signing[n] # NoSession \/ id \in Refused,
         requests' = requests \ {id}, stranded' \in {stranded, stranded \cup {id}},
         UNCHANGED <<active_signing, pending_spends, handlers, panicked, broadcast, signed, net>>
  PROVE  SigningInv'
<1>0. /\ id \in SignIds /\ id \notin broadcast /\ requests \subseteq SignIds
      /\ \A m \in net : m.sign_id # id
      /\ \A p \in Nodes : active_signing[p].sign_id # id /\ id \notin pending_spends[p]
  BY Fresh DEF SigningInv, TypeOK
<1>1. TypeOK'
  BY DEF SigningInv, TypeOK
<1>2. NeverPanics' /\ OwnSpends'
  BY DEF SigningInv, NeverPanics, OwnSpends
<1>3. SpendInOnePlace'
  <2>1. OnePlace
    BY PlaceMeaning DEF SigningInv
  <2>2. OnePlace'
    BY <1>0, <2>1 DEF OnePlace
  <2> QED BY <2>2, PlaceMeaningNext
<1>4. (\A m \in net : MessageInv(m))'
  BY DEF SigningInv, MessageInv
<1>5. (\A s \in signed : SignedInv(s))'
  BY DEF SigningInv, SignedInv
<1>6. (\A p \in Nodes : SessionInv(p, active_signing[p]))'
  BY DEF SigningInv, SessionInv
<1>7. LeadersInv'
  <2> SUFFICES ASSUME NEW p \in Nodes, NEW k \in SignIds, Leads(p, k)'
               PROVE  (CollectInv(p, active_signing[p]) /\ LeaderInv(p, active_signing[p]))'
    BY DEF LeadersInv
  <2>1. Leads(p, k) /\ \A q \in Nodes : Joined(q, k)' <=> Joined(q, k)
    BY DEF Leads, Joined
  <2> QED BY <2>1, LeaderKept
<1>8. StageInv'
  BY DEF SigningInv, StageInv, Joined, Sent
<1>9. ASSUME AllUp', NEW k \in SignIds \ requests'
      PROVE  ProgressInv(k)'
  <2>1. CASE k = id
    <3>1. Coordinator[id] \in Nodes
      BY <1>0, SignersAssumption, Zenon
    <3> QED BY <1>0, <2>1, <3>1 DEF ProgressInv, Leads, Ended
  <2>2. CASE k # id
    <3>1. ProgressInv(k)
      BY <1>9, <2>2 DEF SigningInv, AllUp
    <3> QED BY <3>1 DEF ProgressInv, Leads, Awaited, Ended, Sent
  <2> QED BY <2>1, <2>2
<1>10. requests' # SignIds
  BY <1>0
<1>11. ASSUME NEW k \in SignIds \ Refused, SignIds \ requests' = {k}
       PROVE  FALSE
  <2>1. k = id /\ active_signing[n] # NoSession
    BY <1>0, <1>11
  <2>2. active_signing[n].sign_id \in SignIds
    BY <2>1, OutOfSession
  <2>3. active_signing[n].sign_id \notin requests
    BY <2>2, InSession
  <2> QED BY <1>0, <1>11, <2>1, <2>2, <2>3
<1> QED BY <1>1, <1>2, <1>3, <1>4, <1>5, <1>6, <1>7, <1>8, <1>9, <1>10, <1>11 DEF SigningInv

(* A message that is sent is on its way.                                   *)
LEMMA SentNew ==
  ASSUME NEW type, NEW n, NEW p, NEW id, NEW body, Message(type, n, p, id, body) \in net'
  PROVE  Sent(type, n, p, id)'
<1> DEFINE m == Message(type, n, p, id, body)
<1>1. m \in net' /\ m.type = type /\ m.from = n /\ m.to = p /\ m.sign_id = id
  BY DEF Message
<1> HIDE DEF m
<1> QED BY <1>1 DEF Sent

(* A session begins at its coordinator.                                    *)
Begins(n, id, peers) ==
  /\ id \in requests /\ Coordinator[id] = n /\ active_signing[n] = NoSession
  /\ requests' = requests \ {id}
  /\ active_signing' = [active_signing EXCEPT ![n] =
         Session(id, peers, id, [NoNonces EXCEPT ![n] = id], TRUE)]
  /\ net' = net \cup {Message("SignRequest", n, p, id, 0) : p \in peers}
  /\ pending_spends' = IF id \in Spends THEN [pending_spends EXCEPT ![n] = @ \cup {id}]
                                        ELSE pending_spends
  /\ UNCHANGED <<handlers, panicked, stranded, broadcast, signed>>

LEMMA BeginStep ==
  ASSUME SigningInv, NEW n \in Nodes, NEW id \in SignIds,
         NEW peers \in kSubset(min_signers - 1, Peers(n)), Begins(n, id, peers)
  PROVE  SigningInv'
<1> DEFINE a == Session(id, peers, id, [NoNonces EXCEPT ![n] = id], TRUE)
           asked == {Message("SignRequest", n, p, id, 0) : p \in peers}
<1>0. /\ id \in requests /\ Coordinator[id] = n /\ active_signing[n] = NoSession
      /\ requests' = requests \ {id} /\ net' = net \cup asked
      /\ UNCHANGED <<handlers, panicked, stranded, broadcast, signed>>
  BY DEF Begins
<1>1. /\ peers \subseteq Nodes /\ n \notin peers /\ peers # {}
      /\ \A T \in SUBSET (peers \cup {n}) : Cardinality(T) = min_signers <=> T = peers \cup {n}
  BY SignersCount
<1>2. /\ \A m \in net : m.sign_id # id
      /\ \A s \in signed : s.nonces # id
      /\ \A p \in Nodes : active_signing[p].sign_id # id /\ id \notin pending_spends[p]
      /\ id \in Spends => id \notin stranded /\ id \notin broadcast
  BY <1>0, Fresh
<1>3. /\ active_signing \in [Nodes -> ActiveSigning \cup {NoSession}]
      /\ pending_spends \in [Nodes -> SUBSET Spends] /\ requests \subseteq SignIds
  BY DEF SigningInv, TypeOK
<1>4. /\ a \in ActiveSigning /\ a # NoSession
      /\ a.sign_id = id /\ a.is_coordinator /\ a.selected_peers = peers /\ a.nonces = id
      /\ a.commitments = [NoNonces EXCEPT ![n] = id] /\ a.signature_shares = NoShares
      /\ a.signing_package = NoPackage
  <2>1. [NoNonces EXCEPT ![n] = id] \in Nonces
    BY DEF NoNonces, Nonces
  <2>2. a \in ActiveSigning
    BY <1>1, <2>1, SessionType, Zenon
  <2> QED BY <2>2, Ids DEF Session
<1>5. /\ \A p \in Nodes : a.commitments[p] = IF p = n THEN id ELSE 0
      /\ \A p \in Nodes : a.signature_shares[p] = NoPackage
  <2>1. \A p \in Nodes : [NoNonces EXCEPT ![n] = id][p] = IF p = n THEN id ELSE 0
    BY DEF NoNonces
  <2>2. \A p \in Nodes : NoShares[p] = NoPackage
    BY DEF NoShares
  <2> HIDE DEF a
  <2> QED BY <1>4, <2>1, <2>2
<1> HIDE DEF a
<1>6. active_signing'[n] = a /\ \A p \in Nodes : p # n => active_signing'[p] = active_signing[p]
  BY <1>3 DEF Begins, a
<1>7. \A p \in Nodes : pending_spends'[p] =
        IF p = n /\ id \in Spends THEN pending_spends[p] \cup {id} ELSE pending_spends[p]
  BY <1>3 DEF Begins
<1>8. \A m \in asked : /\ m = Message(m.type, m.from, m.to, m.sign_id, m.body)
                       /\ m.type = "SignRequest" /\ m.from = n /\ m.to \in peers
                       /\ m.sign_id = id /\ m.body = 0
  BY DEF Message
<1>9. \A p \in peers : Message("SignRequest", n, p, id, 0) \in asked
  OBVIOUS
<1> HIDE DEF asked
<1>10. TypeOK'
  <2>1. active_signing' \in [Nodes -> ActiveSigning \cup {NoSession}]
    BY <1>3, <1>4, Zenon DEF Begins, a
  <2>2. pending_spends' \in [Nodes -> SUBSET Spends]
    BY <1>3 DEF Begins
  <2> QED BY <1>0, <2>1, <2>2 DEF SigningInv, TypeOK
<1>11. NeverPanics' /\ OwnSpends'
  <2>1. NeverPanics'
    BY <1>0 DEF SigningInv, NeverPanics
  <2>2. ASSUME NEW p \in Nodes, NEW k \in pending_spends'[p]
        PROVE  Coordinator[k] = p
    <3>1. k \in pending_spends[p] \/ (p = n /\ k = id)
      BY <1>7, <2>2, Zenon
    <3> QED BY <1>0, <3>1 DEF SigningInv, OwnSpends
  <2> QED BY <2>1, <2>2 DEF OwnSpends
<1>12. SpendInOnePlace'
  <2>1. OnePlace
    BY PlaceMeaning DEF SigningInv
  <2>2. OnePlace'
    BY <1>0, <1>2, <1>7, <2>1, Zenon DEF OnePlace
  <2> QED BY <2>2, PlaceMeaningNext
<1>13. (\A m \in net : MessageInv(m))'
  <2> SUFFICES ASSUME NEW m \in net' PROVE MessageInv(m)'
    OBVIOUS
  <2>1. CASE m \in net
    BY <1>0, <2>1 DEF SigningInv, MessageInv
  <2>2. CASE m \in asked
    BY <1>0, <1>1, <1>8, <2>2, Zenon DEF MessageInv, Peers
  <2> QED BY <1>0, <2>1, <2>2
<1>14. (\A s \in signed : SignedInv(s))'
  <2> SUFFICES ASSUME NEW s \in signed PROVE SignedInv(s)'
    BY <1>0
  <2>1. SignedInv(s)
    BY DEF SigningInv
  <2> QED BY <1>0, <1>2, <1>8, <2>1, Zenon DEF SignedInv
<1>15. (\A p \in Nodes : SessionInv(p, active_signing[p]))'
  <2> SUFFICES ASSUME NEW p \in Nodes PROVE SessionInv(p, active_signing[p])'
    OBVIOUS
  <2>1. SessionInv(p, active_signing[p])
    BY DEF SigningInv
  <2> QED BY <1>0, <1>4, <1>6, <2>1 DEF SessionInv
<1>16. \A p \in Nodes : \A k \in SignIds : k # id =>
         /\ Joined(p, k)' => Joined(p, k)
         /\ Leads(p, k)' <=> Leads(p, k)
  <2>1. active_signing[n].sign_id = 0
    BY <1>0, Ids
  <2> QED BY <1>4, <1>6, <2>1, Ids DEF Joined, Leads
<1>17. Leads(n, id)' /\ \A p \in Nodes : ~Joined(p, id)' /\ (p # n => ~Leads(p, id)')
  BY <1>2, <1>4, <1>6 DEF Joined, Leads
<1>18. LeadersInv'
  <2> SUFFICES ASSUME NEW p \in Nodes, NEW k \in SignIds, Leads(p, k)'
               PROVE  (CollectInv(p, active_signing[p]) /\ LeaderInv(p, active_signing[p]))'
    BY DEF LeadersInv
  <2>1. CASE k = id
    <3>1. p = n
      BY <1>17, <2>1
    <3>2. Commitments(a) = {n} /\ Shares(a) = {} /\ peers \cup {n} # {n}
      BY <1>1, <1>5, SignersAssumption DEF Commitments, Shares
    <3>3. CollectInv(n, a)
      BY <1>1, <1>4, <1>5, <3>2 DEF CollectInv
    <3>4. LeaderInv(n, active_signing[n])'
      <4>1. \A m \in net' : m.sign_id = id => Uncounted(m, a)
        BY <1>0, <1>1, <1>2, <1>4, <1>5, <1>8 DEF Uncounted
      <4>2. id \in Spends => id \in pending_spends'[n]
        BY <1>7, Zenon
      <4>3. \A s \in signed' : s.nonces # id
        BY <1>0, <1>2
      <4> QED BY <1>4, <1>6, <1>17, <4>1, <4>2, <4>3, Zenon DEF LeaderInv, Uncounted
    <3> QED BY <1>6, <3>1, <3>3, <3>4 DEF CollectInv
  <2>2. CASE k # id
    <3>1. Leads(p, k) /\ p # n
      BY <1>16, <2>2, <1>4, <1>6 DEF Leads
    <3>2. \A m \in net' : m.sign_id = k => m \in net
      BY <1>0, <1>8, <2>2
    <3> QED BY <1>0, <1>6, <1>7, <1>16, <2>2, <3>1, <3>2, LeaderKept, Zenon
  <2> QED BY <2>1, <2>2
<1>19. StageInv'
  <2> SUFFICES ASSUME NEW m \in net'
               PROVE  /\ m.type = "SignRequest" => /\ ~Joined(m.to, m.sign_id)'
                                                   /\ ~Sent("Commitments", m.to, m.from, m.sign_id)'
                      /\ m.type = "SignatureShare" => ~Joined(m.from, m.sign_id)'
    BY DEF StageInv
  <2>1. CASE m \in net
    <3>1. MessageInv(m) /\ StageInv /\ m.sign_id # id
      BY <1>2, <2>1 DEF SigningInv
    <3>2. m.sign_id \in SignIds /\ m.from \in Nodes /\ m.to \in Nodes
      BY <3>1 DEF MessageInv, Peers
    <3>3. Sent("Commitments", m.to, m.from, m.sign_id)' => Sent("Commitments", m.to, m.from, m.sign_id)
      BY <1>0, <1>8 DEF Sent
    <3> QED BY <1>16, <2>1, <3>1, <3>2, <3>3, Zenon DEF StageInv
  <2>2. CASE m \in asked
    <3>1. ~Sent("Commitments", m.to, m.from, m.sign_id)'
      BY <1>0, <1>2, <1>8, <2>2 DEF Sent
    <3> QED BY <1>1, <1>8, <1>17, <2>2, <3>1
  <2> QED BY <1>0, <2>1, <2>2
<1>20. \A p \in peers : Sent("SignRequest", n, p, id)'
  BY <1>0, <1>9, SentNew
<1>21. ASSUME AllUp', NEW k \in SignIds \ requests'
       PROVE  ProgressInv(k)'
  <2>1. CASE k = id
    <3>1. Awaited(n, active_signing[n])'
      BY <1>4, <1>6, <1>20, Zenon DEF Awaited
    <3> QED BY <1>0, <1>17, <2>1, <3>1 DEF ProgressInv
  <2>2. CASE k # id
    <3>1. ProgressInv(k)
      BY <1>0, <1>21, <2>2 DEF SigningInv, AllUp
    <3> DEFINE c == Coordinator[k]
    <3>2. c \in Nodes /\ (Leads(c, k)' <=> Leads(c, k))
      BY <1>16, <2>2, SignersAssumption, Zenon
    <3>3. CASE Leads(c, k) /\ Awaited(c, active_signing[c])
      <4>1. c # n
        BY <1>0, <3>3, Ids DEF Leads
      <4>2. active_signing'[c] = active_signing[c] /\ net \subseteq net'
        BY <1>0, <1>6, <3>2, <4>1, Zenon
      <4>3. Awaited(c, active_signing[c])'
        <5>1. \A type, p, q, j : Sent(type, p, q, j) => Sent(type, p, q, j)'
          BY <4>2 DEF Sent
        <5> HIDE DEF c
        <5> QED BY <3>3, <4>2, <5>1, Zenon DEF Awaited
      <4> QED BY <3>2, <3>3, <4>3 DEF ProgressInv
    <3>4. CASE ~Leads(c, k) /\ \E m \in net : m.sign_id = k
      BY <1>0, <3>2, <3>4 DEF ProgressInv
    <3>5. CASE ~Leads(c, k) /\ Ended(k)
      <4>1. Ended(k)'
        <5>1. k \notin pending_spends'[c]
          BY <1>7, <2>2, <3>2, <3>5, Zenon DEF Ended
        <5>2. \A p \in Nodes : active_signing'[p].sign_id # k
          BY <1>4, <1>6, <2>2, <3>5 DEF Ended
        <5> QED BY <5>1, <5>2 DEF Ended
      <4> QED BY <3>2, <3>5, <4>1 DEF ProgressInv
    <3> QED BY <3>1, <3>3, <3>4, <3>5, Zenon DEF ProgressInv
  <2> QED BY <2>1, <2>2
<1>22. requests' # SignIds
  BY <1>0, Zenon
<1>23. ASSUME NEW k \in SignIds \ Refused, SignIds \ requests' = {k}
       PROVE  LoneInv(k)'
  <2>1. k = id /\ requests = SignIds
    BY <1>0, <1>3, <1>23, Zenon
  <2>2. AllUp'
    BY <1>0, <2>1 DEF SigningInv, AllUp
  <2>3. net' = asked
    <3>1. net = {}
      BY <2>1 DEF SigningInv, MessageInv
    <3> QED BY <1>0, <3>1, Zenon
  <2> QED BY <1>0, <1>4, <1>6, <1>8, <1>17, <1>20, <2>1, <2>2, <2>3 DEF LoneInv
<1> QED BY <1>10, <1>11, <1>12, <1>13, <1>14, <1>15, <1>18, <1>19, <1>21, <1>22, <1>23
        DEF SigningInv

-----------------------------------------------------------------------------
(* Messages *)

(* A coordinator that is waiting waits for a message on its way.           *)
LEMMA Waiting ==
  ASSUME SigningInv, NEW n \in Nodes, NEW id \in SignIds, Leads(n, id),
         Awaited(n, active_signing[n])
  PROVE  \E m \in net : m.sign_id = id
<1> DEFINE a == active_signing[n]
<1>1. a.sign_id = id /\ CollectInv(n, a) /\ Awaited(n, a)
  BY DEF SigningInv, LeadersInv, Leads
<1>2. a.selected_peers \subseteq Nodes /\ 0 # id
  BY <1>1, SignersCount, Ids DEF CollectInv
<1> HIDE DEF a
<1>3. PICK p \in a.selected_peers :
        \/ a.commitments[p] = 0
        \/ a.signing_package # NoPackage /\ a.signature_shares[p] = NoPackage
  <2>1. CASE a.signing_package = NoPackage
    BY <1>1, <1>2, <2>1 DEF CollectInv, Commitments
  <2>2. CASE a.signing_package # NoPackage
    BY <1>1, <1>2, <2>2 DEF CollectInv, Shares
  <2> QED BY <2>1, <2>2, Zenon
<1> QED BY <1>1, <1>3 DEF Awaited, Sent

(* A message other than the one received stays on its way.                 *)
LEMMA SentKept ==
  ASSUME NEW m \in net, net \ {m} \subseteq net', NEW type, NEW n, NEW p, NEW id,
         Sent(type, n, p, id),
         m.type = type /\ m.from = n /\ m.to = p => m.sign_id # id
  PROVE  Sent(type, n, p, id)'
<1>1. PICK k \in net : k.type = type /\ k.from = n /\ k.to = p /\ k.sign_id = id
  BY DEF Sent
<1>2. k \in net'
  BY <1>1, Zenon
<1> QED BY <1>1, <1>2 DEF Sent

LEMMA SignRequestStep ==
  ASSUME SigningInv, NEW n \in Nodes, NEW m \in net, handle_sign_request(n, m)
  PROVE  SigningInv'
<1> DEFINE id == m.sign_id
           c  == m.from
           a  == Session(id, {}, id, NoNonces, FALSE)
           k  == Message("Commitments", n, c, id, id)
<1>0. /\ m.to = n /\ m.type = "SignRequest" /\ net' = (net \ {m}) \cup {k}
      /\ active_signing' = [active_signing EXCEPT ![n] = a]
      /\ UNCHANGED <<pending_spends, handlers, panicked, requests, stranded, broadcast, signed>>
  BY DEF handle_sign_request, Receives
<1>1. /\ MessageInv(m) /\ StageInv /\ active_signing \in [Nodes -> ActiveSigning \cup {NoSession}]
  BY DEF SigningInv, TypeOK
<1>2. /\ m = Message("SignRequest", c, n, id, 0) /\ id \in SignIds /\ id \notin requests
      /\ c \in Nodes /\ c # n /\ c = Coordinator[id]
  BY <1>0, <1>1 DEF MessageInv, Peers
<1>3. /\ a \in ActiveSigning /\ a # NoSession /\ a.sign_id = id /\ a.nonces = id
      /\ ~a.is_coordinator
  <2>1. NoNonces \in Nonces
    BY DEF NoNonces, Nonces
  <2>2. a \in ActiveSigning
    BY <1>2, <2>1, SessionType, Zenon
  <2> QED BY <2>2, Ids, Zenon DEF Session
<1>4. k.type = "Commitments" /\ k.from = n /\ k.to = c /\ k.sign_id = id /\ k.body = id
  BY DEF Message
<1>5. k = Message(k.type, k.from, k.to, k.sign_id, k.body)
  BY DEF Message
<1>6. \A q \in net : q.type = "SignRequest" /\ q.to = n /\ q.sign_id = id => q = m
  <2> SUFFICES ASSUME NEW q \in net, q.type = "SignRequest", q.to = n, q.sign_id = id
               PROVE  q = m
    OBVIOUS
  <2>1. MessageInv(q)
    BY Zenon DEF SigningInv
  <2> QED BY <1>2, <2>1 DEF MessageInv
<1>7. \A s \in signed : s.nonces # id
  BY <1>0 DEF SigningInv, SignedInv
<1> HIDE DEF a, k, id, c
<1>8. active_signing'[n] = a /\ \A p \in Nodes : p # n => active_signing'[p] = active_signing[p]
  BY <1>0, <1>1
<1>9. /\ \A p \in Nodes, j \in SignIds :
           /\ Joined(p, j)' => Joined(p, j) \/ (p = n /\ j = id)
           /\ Leads(p, j)' => Leads(p, j) /\ p # n
           /\ p # n => (Joined(p, j)' <=> Joined(p, j)) /\ (Leads(p, j)' <=> Leads(p, j))
      /\ Joined(n, id)'
  BY <1>3, <1>8, Zenon DEF Joined, Leads
<1>10. TypeOK'
  BY <1>0, <1>1, <1>3 DEF SigningInv, TypeOK
<1>11. NeverPanics' /\ OwnSpends' /\ SpendInOnePlace'
  <2>1. OnePlace
    BY PlaceMeaning DEF SigningInv
  <2>2. OnePlace'
    BY <1>0, <2>1, Zenon DEF OnePlace
  <2>3. NeverPanics' /\ OwnSpends'
    BY <1>0 DEF SigningInv, NeverPanics, OwnSpends
  <2> QED BY <2>2, <2>3, PlaceMeaningNext
<1>12. (\A q \in net : MessageInv(q))'
  <2> SUFFICES ASSUME NEW q \in net' PROVE MessageInv(q)'
    BY Zenon
  <2>1. CASE q \in net
    BY <1>0, <2>1, Zenon DEF SigningInv, MessageInv
  <2>2. CASE q = k
    BY <1>0, <1>2, <1>4, <1>5, <2>2, Zenon DEF MessageInv, Peers
  <2> QED BY <1>0, <2>1, <2>2
<1>13. (\A s \in signed : SignedInv(s))'
  <2> SUFFICES ASSUME NEW s \in signed PROVE SignedInv(s)'
    BY <1>0
  <2>1. SignedInv(s)
    BY Zenon DEF SigningInv
  <2> QED BY <1>0, <1>4, <1>7, <2>1 DEF SignedInv
<1>14. (\A p \in Nodes : SessionInv(p, active_signing[p]))'
  <2> SUFFICES ASSUME NEW p \in Nodes PROVE SessionInv(p, active_signing[p])'
    OBVIOUS
  <2>1. SessionInv(p, active_signing[p])
    BY DEF SigningInv
  <2> QED BY <1>0, <1>2, <1>3, <1>8, <2>1 DEF SessionInv
<1>15. LeadersInv'
  <2> SUFFICES ASSUME NEW p \in Nodes, NEW j \in SignIds, Leads(p, j)'
               PROVE  (CollectInv(p, active_signing[p]) /\ LeaderInv(p, active_signing[p]))'
    BY Zenon DEF LeadersInv
  <2>1. Leads(p, j) /\ p # n /\ active_signing'[p] = active_signing[p]
    BY <1>8, <1>9, Zenon
  <2>2. CASE j = id
    <3> DEFINE b == active_signing[p]
    <3>1. CollectInv(p, b) /\ LeaderInv(p, b) /\ b.sign_id = id
      BY <2>1, <2>2, Zenon DEF SigningInv, LeadersInv, Leads
    <3>2. n \in b.selected_peers /\ b.commitments[n] = 0
      BY <1>0, <3>1, Zenon DEF LeaderInv, Uncounted, id
    <3>3. b.signature_shares[n] = NoPackage
      BY <3>1, <3>2 DEF CollectInv, Commitments
    <3>4. Uncounted(k, b)
      BY <1>4, <3>2 DEF Uncounted
    <3> HIDE DEF b
    <3>5. \A q \in Nodes : Joined(q, j)' =>
            Joined(q, j) \/ (q \in b.selected_peers /\ b.signature_shares[q] = NoPackage)
      BY <1>9, <2>2, <3>2, <3>3
    <3>6. \A q \in net' : q.sign_id = j => q \in net \/ Uncounted(q, b)
      BY <1>0, <3>4, Zenon
    <3> QED BY <1>0, <2>1, <3>5, <3>6, LeaderKept, Zenon DEF b
  <2>3. CASE j # id
    <3>1. \A q \in Nodes : Joined(q, j)' => Joined(q, j)
      BY <1>9, <2>3
    <3>2. \A q \in net' : q.sign_id = j => q \in net
      BY <1>0, <1>4, <2>3
    <3> QED BY <1>0, <2>1, <3>1, <3>2, LeaderKept
  <2> QED BY <2>2, <2>3
<1>16. StageInv'
  <2> SUFFICES ASSUME NEW q \in net'
               PROVE  /\ q.type = "SignRequest" => /\ ~Joined(q.to, q.sign_id)'
                                                   /\ ~Sent("Commitments", q.to, q.from, q.sign_id)'
                      /\ q.type = "SignatureShare" => ~Joined(q.from, q.sign_id)'
    BY DEF StageInv
  <2>1. CASE q = k
    BY <1>4, <2>1
  <2>2. CASE q \in net /\ q # m
    <3>1. MessageInv(q)
      BY <2>2 DEF SigningInv
    <3>2. q.sign_id \in SignIds /\ q.from \in Nodes /\ q.to \in Nodes
      BY <3>1, Zenon DEF MessageInv, Peers
    <3>3. CASE q.type = "SignRequest"
      <4>1. ~(q.to = n /\ q.sign_id = id)
        BY <1>6, <2>2, <3>3
      <4>2. ~Joined(q.to, q.sign_id) /\ ~Sent("Commitments", q.to, q.from, q.sign_id)
        BY <1>1, <2>2, <3>3 DEF StageInv
      <4>3. ~Sent("Commitments", q.to, q.from, q.sign_id)'
        BY <1>0, <1>4, <4>1, <4>2, Zenon DEF Sent
      <4> QED BY <1>9, <3>2, <3>3, <4>1, <4>2, <4>3
    <3>4. CASE q.type = "SignatureShare"
      <4>1. Signature(q.to, q.sign_id, q.body) \in signed
        BY <3>1, <3>4 DEF MessageInv
      <4>2. q.sign_id # id
        BY <1>7, <4>1 DEF Signature
      <4> QED BY <1>1, <1>9, <2>2, <3>2, <3>4, <4>2, Zenon DEF StageInv
    <3> QED BY <3>3, <3>4
  <2> QED BY <1>0, <2>1, <2>2
<1>17. ASSUME NEW type, NEW p, NEW q, NEW j, Sent(type, p, q, j),
              type = "SignRequest" /\ q = n => j # id
       PROVE  Sent(type, p, q, j)'
  BY <1>0, <1>17, SentKept DEF id
<1>18. Sent("Commitments", n, c, id)'
  BY <1>0, SentNew, Zenon DEF k
<1>19. ASSUME AllUp', NEW j \in SignIds \ requests'
       PROVE  ProgressInv(j)'
  <2> DEFINE d == Coordinator[j]
             b == active_signing[d]
  <2>1. ProgressInv(j) /\ d \in Nodes
    BY <1>0, <1>19, SignersAssumption, Zenon DEF SigningInv, AllUp
  <2>2. CASE Leads(d, j) /\ Awaited(d, b) /\ d # n
    <3>1. b.sign_id = j /\ active_signing'[d] = b /\ Leads(d, j)'
      BY <1>8, <1>9, <2>1, <2>2, Zenon DEF Leads
    <3> HIDE DEF d, b
    <3>2. ASSUME NEW p \in b.selected_peers
          PROVE  /\ \/ b.commitments[p] # 0
                    \/ Sent("SignRequest", d, p, j)' \/ Sent("Commitments", p, d, j)'
                 /\ \/ b.signing_package = NoPackage \/ b.signature_shares[p] # NoPackage
                    \/ Sent("SignPackage", d, p, j)' \/ Sent("SignatureShare", p, d, j)'
      <4>1. /\ \/ b.commitments[p] # 0
               \/ Sent("SignRequest", d, p, j) \/ Sent("Commitments", p, d, j)
            /\ \/ b.signing_package = NoPackage \/ b.signature_shares[p] # NoPackage
               \/ Sent("SignPackage", d, p, j) \/ Sent("SignatureShare", p, d, j)
        BY <2>2, <3>1, <3>2, Zenon DEF Awaited
      <4>2. CASE p = n /\ j = id
        <5>1. d = c
          BY <1>2, <4>2, Zenon DEF d
        <5> QED BY <1>17, <1>18, <4>1, <4>2, <5>1
      <4>3. CASE ~(p = n /\ j = id)
        BY <1>17, <4>1, <4>3, Zenon
      <4> QED BY <4>2, <4>3, Zenon
    <3>3. Awaited(d, active_signing[d])'
      BY <3>1, <3>2 DEF Awaited
    <3> QED BY <3>1, <3>3, Zenon DEF ProgressInv, d
  <2>3. CASE ~Leads(d, j) \/ d = n
    <3>1. ~Leads(d, j)'
      BY <1>9, <2>1, <2>3, Zenon
    <3>2. CASE j = id
      BY <1>0, <1>4, <3>1, <3>2 DEF ProgressInv
    <3>3. CASE j # id
      <4>1. (\E q \in net : q.sign_id = j) \/ Ended(j)
        BY <2>1, Waiting, Zenon DEF ProgressInv
      <4>2. CASE \E q \in net : q.sign_id = j
        <5>1. \E q \in net' : q.sign_id = j
          BY <1>0, <3>3, <4>2 DEF id
        <5> QED BY <3>1, <5>1 DEF ProgressInv
      <4>3. CASE Ended(j)
        <5>1. Ended(j)'
          BY <1>0, <1>3, <1>8, <3>3, <4>3 DEF Ended
        <5> QED BY <3>1, <5>1, Zenon DEF ProgressInv
      <4> QED BY <4>1, <4>2, <4>3, Zenon
    <3> QED BY <3>2, <3>3
  <2> QED BY <2>1, <2>2, <2>3 DEF ProgressInv
<1>20. requests' = SignIds => AllUp'
  BY <1>0, Zenon DEF SigningInv, AllUp
<1>21. ASSUME NEW j \in SignIds \ Refused, SignIds \ requests' = {j}
       PROVE  LoneInv(j)'
  <2>1. j = id /\ LoneInv(id)
    BY <1>0, <1>2, <1>21, Zenon DEF SigningInv
  <2> DEFINE b == active_signing[c]
  <2>2. /\ AllUp /\ Leads(c, id)
        /\ \A q \in net : q.type = "SignPackage" => Joined(q.to, id)
        /\ \A p \in b.selected_peers :
             \/ Sent("SignRequest", c, p, id) \/ Joined(p, id)
             \/ b.signature_shares[p] # NoPackage \/ Sent("SignatureShare", p, c, id)
    BY <1>2, <2>1, Zenon DEF LoneInv
  <2>3. b.selected_peers \subseteq Nodes
    <3>1. CollectInv(c, b)
      BY <1>2, <2>2, Zenon DEF SigningInv, LeadersInv
    <3> QED BY <1>2, <3>1, SignersCount, Zenon DEF CollectInv
  <2>4. Leads(c, id)' /\ active_signing'[c] = b
    BY <1>2, <1>8, <1>9, <2>2, Zenon
  <2> HIDE DEF b
  <2>5. ASSUME NEW p \in b.selected_peers
        PROVE  \/ Sent("SignRequest", c, p, id)' \/ Joined(p, id)'
               \/ b.signature_shares[p] # NoPackage \/ Sent("SignatureShare", p, c, id)'
    <3>1. CASE p = n
      BY <1>9, <3>1, Zenon
    <3>2. CASE p # n
      BY <1>2, <1>9, <1>17, <2>2, <2>3, <3>2, Zenon
    <3> QED BY <3>1, <3>2, Zenon
  <2>6. \A q \in net' : q.type = "SignPackage" => Joined(q.to, id)'
    <3> SUFFICES ASSUME NEW q \in net', q.type = "SignPackage" PROVE Joined(q.to, id)'
      OBVIOUS
    <3>1. q \in net
      BY <1>0, <1>4
    <3>2. q.to \in Nodes /\ Joined(q.to, id)
      BY <2>2, <3>1, Zenon DEF SigningInv, MessageInv, Peers
    <3> QED BY <1>2, <1>9, <3>2
  <2>7. AllUp'
    BY <1>0, <2>2 DEF AllUp
  <2> QED BY <1>2, <2>1, <2>4, <2>5, <2>6, <2>7, Zenon DEF LoneInv
<1> QED BY <1>10, <1>11, <1>12, <1>13, <1>14, <1>15, <1>16, <1>19, <1>20, <1>21, Zenon DEF SigningInv

-----------------------------------------------------------------------------
(* Commitments *)

(* The progress of the sessions that a message is not about.               *)
LEMMA OthersProgress ==
  ASSUME SigningInv, NEW m \in net, net \ {m} \subseteq net', AllUp,
         NEW j \in SignIds \ requests, j # m.sign_id,
         Leads(Coordinator[j], j) =>
             active_signing'[Coordinator[j]] = active_signing[Coordinator[j]],
         Leads(Coordinator[j], j)' => Leads(Coordinator[j], j),
         Ended(j) => Ended(j)'
  PROVE  ProgressInv(j)'
<1> DEFINE d == Coordinator[j]
           b == active_signing[d]
<1>1. ProgressInv(j) /\ d \in Nodes
  BY SignersAssumption, Zenon DEF SigningInv
<1>2. CASE Leads(d, j) /\ Awaited(d, b)
  <2>1. b.sign_id = j /\ active_signing'[d] = b /\ Leads(d, j)'
    BY <1>2 DEF Leads
  <2> HIDE DEF d, b
  <2>2. ASSUME NEW type, NEW p, NEW q, Sent(type, p, q, j)
        PROVE  Sent(type, p, q, j)'
    BY <2>2, SentKept, Zenon
  <2>3. Awaited(d, active_signing[d])'
    BY <1>2, <2>1, <2>2 DEF Awaited
  <2> QED BY <2>1, <2>3, Zenon DEF ProgressInv, d
<1>3. CASE ~Leads(d, j) /\ ((\E q \in net : q.sign_id = j) \/ Ended(j))
  BY <1>3 DEF ProgressInv
<1> QED BY <1>1, <1>2, <1>3, Zenon DEF ProgressInv

(* A coordinator that receives the commitment of a peer, and a, its        *)
(* session with it.                                                        *)
Committing(n, m, a) ==
  LET b  == active_signing[n]
      id == m.sign_id
  IN  /\ id \in SignIds /\ id \notin requests /\ Coordinator[id] = n /\ Leads(n, id)
      /\ m.to = n /\ m.type = "Commitments" /\ m.from \in b.selected_peers
      /\ m.from # n /\ b.commitments[m.from] = 0
      /\ b \in ActiveSigning /\ a \in ActiveSigning /\ a # NoSession
      /\ a.sign_id = id /\ a.nonces = id /\ a.is_coordinator
      /\ a.selected_peers = b.selected_peers
      /\ \A p \in Nodes : a.commitments[p] = IF p = m.from THEN id ELSE b.commitments[p]
      /\ a.signing_package = NoPackage /\ b.signing_package = NoPackage
      /\ a.signature_shares = b.signature_shares
      /\ \A p \in Nodes : b.signature_shares[p] = NoPackage
      /\ \A s \in signed : s.nonces # id
      /\ \A q \in net : q.sign_id = id =>
            \/ q.type = "SignRequest" /\ q.to # m.from
            \/ q.type = "Commitments" /\ (q.from = m.from => q = m)

LEMMA CommitFacts ==
  ASSUME SigningInv, NEW n \in Nodes, NEW m \in net, Receives(n, m, "Commitments"),
         Coordinates(n, m), NEW a, a = [active_signing[n] EXCEPT !.commitments[m.from] = m.body]
  PROVE  Committing(n, m, a)
<1> DEFINE b  == active_signing[n]
           id == m.sign_id
<1>1. /\ m.to = n /\ m.type = "Commitments" /\ MessageInv(m) /\ StageInv
      /\ b # NoSession /\ b.is_coordinator /\ b.sign_id = id
  BY DEF Receives, Coordinates, SigningInv
<1>2. /\ m = Message("Commitments", m.from, n, id, id) /\ id \in SignIds /\ id \notin requests
      /\ m.from \in Nodes /\ m.from # n /\ Coordinator[id] = n /\ m.body = id
  BY <1>1 DEF MessageInv, Peers
<1>3. Leads(n, id) /\ b \in ActiveSigning /\ b.nonces = id
  BY <1>1, <1>2, InSession DEF Leads
<1>4. CollectInv(n, b) /\ LeaderInv(n, b)
  BY <1>2, <1>3 DEF SigningInv, LeadersInv
<1>5. m.from \in b.selected_peers /\ b.commitments[m.from] = 0
  BY <1>1, <1>4 DEF LeaderInv, Uncounted
<1>6. b.signing_package = NoPackage /\ \A p \in Nodes : b.signature_shares[p] = NoPackage
  BY <1>4, <1>5 DEF CollectInv, Commitments
<1>7. \A s \in signed : s.nonces # id
  BY <1>1 DEF SigningInv, SignedInv
<1>8. ASSUME NEW q \in net, q.sign_id = id
      PROVE  \/ q.type = "SignRequest" /\ q.to # m.from
             \/ q.type = "Commitments" /\ (q.from = m.from => q = m)
  <2>1. MessageInv(q)
    BY DEF SigningInv
  <2>2. \A x, y : Signature(x, id, y) \notin signed
    BY <1>7 DEF Signature
  <2>3. CASE q.type = "SignRequest"
    <3>1. q.from = n /\ ~Sent("Commitments", q.to, q.from, id)
      BY <1>1, <1>2, <1>8, <2>1, <2>3 DEF MessageInv, StageInv
    <3> QED BY <1>1, <2>3, <3>1 DEF Sent
  <2>4. CASE q.type = "Commitments"
    BY <1>2, <1>8, <2>1, <2>4 DEF MessageInv
  <2> QED BY <1>8, <2>1, <2>2, <2>3, <2>4 DEF MessageInv
<1>9. /\ a \in ActiveSigning /\ a # NoSession
      /\ a.sign_id = id /\ a.nonces = id /\ a.is_coordinator
      /\ a.selected_peers = b.selected_peers /\ a.signing_package = b.signing_package
      /\ a.signature_shares = b.signature_shares
      /\ a.commitments = [b.commitments EXCEPT ![m.from] = id]
  <2>1. a = [b EXCEPT !.commitments = [@ EXCEPT ![m.from] = id]]
    BY <1>2
  <2>2. b.commitments \in Nonces
    BY <1>3 DEF ActiveSigning
  <2>3. [b.commitments EXCEPT ![m.from] = id] \in Nonces
    BY <1>2, <2>2 DEF Nonces
  <2>4. a \in ActiveSigning
    BY <1>3, <2>1, <2>3 DEF ActiveSigning
  <2> QED BY <1>1, <1>3, <2>1, <2>4, Ids DEF ActiveSigning
<1>10. \A p \in Nodes : a.commitments[p] = IF p = m.from THEN id ELSE b.commitments[p]
  BY <1>2, <1>3, <1>9, Zenon DEF ActiveSigning, Nonces
<1> QED BY <1>1, <1>2, <1>3, <1>5, <1>6, <1>7, <1>8, <1>9, <1>10 DEF Committing

(* A coordinator counts a commitment or a share and waits for more.        *)
LEMMA CountStep ==
  ASSUME SigningInv, NEW n \in Nodes, NEW m \in net, m.sign_id \in SignIds, Leads(n, m.sign_id),
         NEW a \in ActiveSigning, a.sign_id = m.sign_id, a.nonces = m.sign_id, a.is_coordinator,
         active_signing' = [active_signing EXCEPT ![n] = a], net' = net \ {m},
         UNCHANGED <<pending_spends, handlers, panicked, requests, stranded, broadcast, signed>>,
         a.selected_peers = active_signing[n].selected_peers,
         a.signing_package = active_signing[n].signing_package,
         CollectInv(n, a),
         \A p \in Nodes : Joined(p, m.sign_id) => a.signature_shares[p] = NoPackage,
         \A q \in net \ {m} : q.sign_id = m.sign_id => Uncounted(q, a),
         \A p \in a.selected_peers :
            /\ active_signing[n].commitments[p] # 0 => a.commitments[p] # 0
            /\ active_signing[n].signature_shares[p] # NoPackage =>
                   a.signature_shares[p] # NoPackage,
         \/ m.type = "Commitments" /\ a.commitments[m.from] # 0
         \/ m.type = "SignatureShare" /\ a.signature_shares[m.from] # NoPackage
  PROVE  SigningInv'
<1> DEFINE id == m.sign_id
           b  == active_signing[n]
<1>1. /\ b.sign_id = id /\ b \in ActiveSigning /\ Coordinator[id] = n /\ id \notin requests
      /\ active_signing \in [Nodes -> ActiveSigning \cup {NoSession}] /\ a # NoSession
  BY InSession, Ids, Zenon DEF Leads, SigningInv, TypeOK
<1>2. active_signing'[n] = a /\ \A p \in Nodes : p # n => active_signing'[p] = active_signing[p]
  BY <1>1, Zenon
<1>3. \A p \in Nodes, j \in SignIds : (Joined(p, j)' <=> Joined(p, j)) /\ (Leads(p, j)' <=> Leads(p, j))
  BY <1>1, <1>2 DEF Joined, Leads
<1>4. ASSUME NEW type, NEW p, NEW q, NEW j, Sent(type, p, q, j),
             m.type = type /\ m.from = p => j # id
      PROVE  Sent(type, p, q, j)'
  BY <1>4, SentKept, Zenon
<1>5. a.selected_peers \subseteq Nodes
  BY SignersCount DEF CollectInv
<1>6. TypeOK'
  BY <1>1, Zenon DEF SigningInv, TypeOK
<1>7. NeverPanics' /\ OwnSpends' /\ SpendInOnePlace'
  <2>1. OnePlace
    BY PlaceMeaning, Zenon DEF SigningInv
  <2>2. OnePlace'
    BY <2>1, Zenon DEF OnePlace
  <2>3. NeverPanics' /\ OwnSpends'
    BY DEF SigningInv, NeverPanics, OwnSpends
  <2> QED BY <2>2, <2>3, PlaceMeaningNext
<1>8. (\A q \in net : MessageInv(q))'
  BY Zenon DEF SigningInv, MessageInv
<1>9. (\A s \in signed : SignedInv(s))'
  <2> SUFFICES ASSUME NEW s \in signed PROVE SignedInv(s)'
    BY Zenon
  <2>1. SignedInv(s)
    BY Zenon DEF SigningInv
  <2> QED BY <2>1, Zenon DEF SignedInv
<1>10. (\A p \in Nodes : SessionInv(p, active_signing[p]))'
  <2> SUFFICES ASSUME NEW p \in Nodes PROVE SessionInv(p, active_signing[p])'
    BY Zenon
  <2>1. SessionInv(p, active_signing[p])
    BY Zenon DEF SigningInv
  <2> QED BY <1>1, <1>2, <2>1, Zenon DEF SessionInv
<1>11. LeadersInv'
  <2> SUFFICES ASSUME NEW p \in Nodes, NEW j \in SignIds, Leads(p, j)'
               PROVE  (CollectInv(p, active_signing[p]) /\ LeaderInv(p, active_signing[p]))'
    BY Zenon DEF LeadersInv
  <2>1. Leads(p, j)
    BY <1>3, Zenon
  <2>2. CASE p = n
    <3>1. CollectInv(n, active_signing[n])'
      BY <1>2, Zenon DEF CollectInv
    <3>2. LeaderInv(n, b)
      BY DEF SigningInv, LeadersInv
    <3>3. \A q \in Nodes : Joined(q, id)' =>
             q \in a.selected_peers /\ a.signature_shares[q] = NoPackage
      BY <1>1, <1>3, <3>2, Zenon DEF LeaderInv
    <3>4. \A s \in signed' : s.nonces = id => s.package = a.signing_package
      BY <1>1, <3>2, Zenon DEF LeaderInv
    <3>5. id \in Spends => id \in pending_spends'[n]
      BY <1>1, <3>2, Zenon DEF LeaderInv
    <3>6. LeaderInv(n, active_signing[n])'
      <4>1. \A q \in net' : q.sign_id = id => Uncounted(q, active_signing[n])'
        BY <1>2 DEF Uncounted
      <4> QED BY <1>2, <3>3, <3>4, <3>5, <4>1 DEF LeaderInv
    <3> QED BY <2>2, <3>1, <3>6
  <2>3. CASE p # n
    BY <1>2, <1>3, <2>1, <2>3, LeaderKept, Zenon
  <2> QED BY <2>2, <2>3, Zenon
<1>12. StageInv'
  <2> SUFFICES ASSUME NEW q \in net'
               PROVE  /\ q.type = "SignRequest" => /\ ~Joined(q.to, q.sign_id)'
                                                   /\ ~Sent("Commitments", q.to, q.from, q.sign_id)'
                      /\ q.type = "SignatureShare" => ~Joined(q.from, q.sign_id)'
    BY Zenon DEF StageInv
  <2>1. MessageInv(q) /\ StageInv
    BY Zenon DEF SigningInv
  <2>2. q.sign_id \in SignIds /\ q.from \in Nodes /\ q.to \in Nodes
    BY <2>1, Zenon DEF MessageInv, Peers
  <2> QED BY <1>3, <2>1, <2>2 DEF StageInv, Sent
<1>13. ASSUME AllUp', NEW j \in SignIds \ requests'
       PROVE  ProgressInv(j)'
  <2>1. AllUp /\ Coordinator[j] \in Nodes
    BY <1>13, SignersAssumption DEF AllUp
  <2>2. CASE j = id
    <3>1. Awaited(n, b)
      BY <1>1, <2>1 DEF SigningInv, ProgressInv
    <3> HIDE DEF b
    <3>2. ASSUME NEW p \in a.selected_peers
          PROVE  /\ \/ a.commitments[p] # 0
                    \/ Sent("SignRequest", n, p, id)' \/ Sent("Commitments", p, n, id)'
                 /\ \/ a.signing_package = NoPackage \/ a.signature_shares[p] # NoPackage
                    \/ Sent("SignPackage", n, p, id)' \/ Sent("SignatureShare", p, n, id)'
      <4>1. /\ \/ b.commitments[p] # 0
               \/ Sent("SignRequest", n, p, id) \/ Sent("Commitments", p, n, id)
            /\ \/ b.signing_package = NoPackage \/ b.signature_shares[p] # NoPackage
               \/ Sent("SignPackage", n, p, id) \/ Sent("SignatureShare", p, n, id)
        BY <1>1, <3>1, Zenon DEF Awaited, b
      <4> QED BY <1>4, <4>1, Zenon DEF b
    <3>3. Awaited(n, active_signing[n])'
      BY <1>2, <3>2 DEF Awaited
    <3> QED BY <1>1, <1>3, <2>2, <3>3, Zenon DEF ProgressInv
  <2>3. CASE j # id
    <3>1. Ended(j) => Ended(j)'
      BY <1>1, <1>2, <2>3, Zenon DEF Ended
    <3>2. Leads(Coordinator[j], j) => Coordinator[j] # n
      BY <1>1, <2>3, Zenon DEF Leads
    <3> QED BY <1>2, <1>3, <2>1, <2>3, <3>1, <3>2, OthersProgress, Zenon
  <2> QED BY <2>2, <2>3, Zenon
<1>14. requests' = SignIds => AllUp'
  BY DEF SigningInv, AllUp
<1>15. ASSUME NEW j \in SignIds \ Refused, SignIds \ requests' = {j}
       PROVE  LoneInv(j)'
  <2>1. j = id /\ LoneInv(id)
    BY <1>1, <1>15 DEF SigningInv
  <2>2. /\ AllUp
        /\ \A q \in net : q.type = "SignPackage" => Joined(q.to, id)
        /\ \A p \in b.selected_peers :
             \/ Sent("SignRequest", n, p, id) \/ Joined(p, id)
             \/ b.signature_shares[p] # NoPackage \/ Sent("SignatureShare", p, n, id)
    BY <1>1, <2>1, Zenon DEF LoneInv
  <2> HIDE DEF b
  <2>3. ASSUME NEW p \in a.selected_peers
        PROVE  \/ Sent("SignRequest", n, p, id)' \/ Joined(p, id)'
               \/ a.signature_shares[p] # NoPackage \/ Sent("SignatureShare", p, n, id)'
    BY <1>3, <1>4, <1>5, <2>2, Zenon DEF b
  <2>4. \A q \in net' : q.type = "SignPackage" => Joined(q.to, id)'
    <3> SUFFICES ASSUME NEW q \in net', q.type = "SignPackage" PROVE Joined(q.to, id)'
      OBVIOUS
    <3>1. q.to \in Nodes /\ Joined(q.to, id)
      BY <2>2, Zenon DEF SigningInv, MessageInv, Peers
    <3> QED BY <1>3, <3>1, Zenon
  <2>5. AllUp'
    BY <2>2, Zenon DEF AllUp
  <2> QED BY <1>1, <1>2, <1>3, <2>1, <2>3, <2>4, <2>5, Zenon DEF LoneInv
<1> QED BY <1>6, <1>7, <1>8, <1>9, <1>10, <1>11, <1>12, <1>13, <1>14, <1>15 DEF SigningInv

LEMMA CollectStep ==
  ASSUME SigningInv, NEW n \in Nodes, NEW m \in net, Receives(n, m, "Commitments"),
         Coordinates(n, m), NEW a, a = [active_signing[n] EXCEPT !.commitments[m.from] = m.body],
         ~PackageReady(a), active_signing' = [active_signing EXCEPT ![n] = a], net' = net \ {m},
         UNCHANGED <<pending_spends, handlers, panicked, requests, stranded, broadcast, signed>>
  PROVE  SigningInv'
<1> DEFINE b  == active_signing[n]
           id == m.sign_id
<1>0. Committing(n, m, a)
  BY CommitFacts
<1>1. /\ id \in SignIds /\ Leads(n, id) /\ m.type = "Commitments" /\ m.from \in b.selected_peers
      /\ m.from # n /\ a \in ActiveSigning /\ a.sign_id = id /\ a.nonces = id /\ a.is_coordinator
      /\ a.selected_peers = b.selected_peers
      /\ \A p \in Nodes : a.commitments[p] = IF p = m.from THEN id ELSE b.commitments[p]
      /\ a.signing_package = NoPackage /\ b.signing_package = NoPackage
      /\ a.signature_shares = b.signature_shares
      /\ \A p \in Nodes : b.signature_shares[p] = NoPackage
      /\ \A q \in net : q.sign_id = id =>
            \/ q.type = "SignRequest" /\ q.to # m.from
            \/ q.type = "Commitments" /\ (q.from = m.from => q = m)
  BY <1>0 DEF Committing
<1>2. b.sign_id = id /\ CollectInv(n, b) /\ LeaderInv(n, b)
  BY <1>1 DEF SigningInv, LeadersInv, Leads
<1> HIDE DEF b, id
<1>3. /\ b.selected_peers \subseteq Nodes /\ 0 # id
      /\ \A T \in SUBSET (b.selected_peers \cup {n}) :
            Cardinality(T) = min_signers <=> T = b.selected_peers \cup {n}
  BY <1>1, <1>2, SignersCount, Ids DEF CollectInv
<1>4. Commitments(a) = Commitments(b) \cup {m.from}
  BY <1>1, <1>3 DEF Commitments
<1>5. Commitments(a) \subseteq b.selected_peers \cup {n}
  BY <1>1, <1>2, <1>4 DEF CollectInv
<1>6. Commitments(a) # b.selected_peers \cup {n}
  BY <1>3, <1>5 DEF PackageReady
<1>7. Shares(a) = Shares(b)
  BY <1>1 DEF Shares
<1>8. CollectInv(n, a)
  BY <1>1, <1>2, <1>5, <1>6, <1>7 DEF CollectInv
<1>9. \A q \in net \ {m} : q.sign_id = id => Uncounted(q, a)
  <2> SUFFICES ASSUME NEW q \in net \ {m}, q.sign_id = id PROVE Uncounted(q, a)
    OBVIOUS
  <2>1. Uncounted(q, b)
    BY <1>2 DEF LeaderInv
  <2>2. q.from \in Nodes /\ q.to \in Nodes
    BY DEF SigningInv, MessageInv, Peers
  <2> QED BY <1>1, <2>1, <2>2 DEF Uncounted
<1>10. \A p \in a.selected_peers : /\ b.commitments[p] # 0 => a.commitments[p] # 0
                                   /\ b.signature_shares[p] # NoPackage =>
                                          a.signature_shares[p] # NoPackage
  BY <1>1, <1>3
<1>11. a.commitments[m.from] # 0
  BY <1>1, <1>3
<1>12. \A p \in Nodes : a.signature_shares[p] = NoPackage
  BY <1>1
<1>13. /\ m.sign_id \in SignIds /\ Leads(n, m.sign_id) /\ a \in ActiveSigning
       /\ a.sign_id = m.sign_id /\ a.nonces = m.sign_id /\ a.is_coordinator
       /\ a.selected_peers = active_signing[n].selected_peers
       /\ a.signing_package = active_signing[n].signing_package
       /\ m.type = "Commitments"
  BY <1>1 DEF b, id
<1>14. /\ \A q \in net \ {m} : q.sign_id = m.sign_id => Uncounted(q, a)
       /\ \A p \in a.selected_peers :
            /\ active_signing[n].commitments[p] # 0 => a.commitments[p] # 0
            /\ active_signing[n].signature_shares[p] # NoPackage =>
                   a.signature_shares[p] # NoPackage
  BY <1>9, <1>10 DEF b, id
<1> QED BY <1>8, <1>11, <1>12, <1>13, <1>14, CountStep, Zenon

(* The last commitment: the package goes to every selected peer.           *)
Distributes(n, m, a, package) ==
  /\ active_signing' = [active_signing EXCEPT ![n] =
         [a EXCEPT !.signing_package = package, !.signature_shares[n] = package]]
  /\ net' = (net \ {m}) \cup
         {Message("SignPackage", n, p, a.sign_id, package) : p \in a.selected_peers}
  /\ signed' = signed \cup {Signature(n, a.nonces, package)}
  /\ UNCHANGED <<pending_spends, handlers, panicked, requests, stranded, broadcast>>

LEMMA ReadyStep ==
  ASSUME SigningInv, NEW n \in Nodes, NEW m \in net, Receives(n, m, "Commitments"),
         Coordinates(n, m), NEW a, a = [active_signing[n] EXCEPT !.commitments[m.from] = m.body],
         PackageReady(a),
         NEW package, package = [sign_id |-> a.sign_id, commitments |-> a.commitments],
         Distributes(n, m, a, package)
  PROVE  SigningInv'
<1> USE DEF Distributes
<1> DEFINE b    == active_signing[n]
           id   == m.sign_id
           e    == [a EXCEPT !.signing_package = package, !.signature_shares[n] = package]
           sent == {Message("SignPackage", n, p, id, package) : p \in a.selected_peers}
           s0   == Signature(n, id, package)
<1>0. Committing(n, m, a)
  BY CommitFacts
<1>1. /\ id \in SignIds /\ id \notin requests /\ Coordinator[id] = n /\ Leads(n, id)
      /\ m.type = "Commitments" /\ m.from \in b.selected_peers /\ m.from # n
      /\ a \in ActiveSigning /\ a.sign_id = id /\ a.nonces = id /\ a.is_coordinator
      /\ a.selected_peers = b.selected_peers
      /\ \A p \in Nodes : a.commitments[p] = IF p = m.from THEN id ELSE b.commitments[p]
      /\ a.signature_shares = b.signature_shares
      /\ \A p \in Nodes : b.signature_shares[p] = NoPackage
      /\ \A s \in signed : s.nonces # id
      /\ \A q \in net : q.sign_id = id =>
            \/ q.type = "SignRequest" /\ q.to # m.from
            \/ q.type = "Commitments" /\ (q.from = m.from => q = m)
  BY <1>0 DEF Committing
<1>2. b.sign_id = id /\ CollectInv(n, b) /\ LeaderInv(n, b)
  BY <1>1 DEF SigningInv, LeadersInv, Leads
<1>3. package \in Package /\ package # NoPackage /\ package.sign_id = id
      /\ package.commitments = a.commitments
  BY <1>1, Ids DEF Package, ActiveSigning
<1>4. /\ e \in ActiveSigning /\ e # NoSession /\ e.sign_id = id /\ e.nonces = id
      /\ e.is_coordinator /\ e.selected_peers = b.selected_peers
      /\ e.commitments = a.commitments /\ e.signing_package = package
      /\ e.signature_shares = [b.signature_shares EXCEPT ![n] = package]
  <2>1. [a.signature_shares EXCEPT ![n] = package] \in [Nodes -> Package \cup {NoPackage}]
    BY <1>1, <1>3 DEF ActiveSigning
  <2>2. e \in ActiveSigning
    BY <1>1, <1>3, <2>1, Zenon DEF ActiveSigning
  <2>3. e = [a EXCEPT !.signing_package = package,
                      !.signature_shares = [a.signature_shares EXCEPT ![n] = package]]
    OBVIOUS
  <2> HIDE DEF e
  <2>4. /\ e.sign_id = a.sign_id /\ e.nonces = a.nonces /\ e.is_coordinator = a.is_coordinator
        /\ e.selected_peers = a.selected_peers /\ e.commitments = a.commitments
        /\ e.signing_package = package
        /\ e.signature_shares = [a.signature_shares EXCEPT ![n] = package]
    BY <1>1, <2>3 DEF ActiveSigning
  <2> HIDE DEF b
  <2> QED BY <1>1, <2>2, <2>4, Ids
<1>5. \A p \in Nodes : e.signature_shares[p] = IF p = n THEN package ELSE NoPackage
  <2>1. b.signature_shares \in [Nodes -> Package \cup {NoPackage}]
    BY <1>1 DEF ActiveSigning
  <2> QED BY <1>1, <1>4, <2>1
<1>6. active_signing \in [Nodes -> ActiveSigning \cup {NoSession}]
  BY DEF SigningInv, TypeOK
<1>7. active_signing'[n] = e /\ \A p \in Nodes : p # n => active_signing'[p] = active_signing[p]
  BY <1>6
<1>8. active_signing' \in [Nodes -> ActiveSigning \cup {NoSession}]
  BY <1>4, <1>6
<1>9. net' = (net \ {m}) \cup sent /\ signed' = signed \cup {s0}
  BY <1>1
<1>10. \A q \in sent : /\ q = Message(q.type, q.from, q.to, q.sign_id, q.body)
                       /\ q.type = "SignPackage" /\ q.from = n /\ q.to \in b.selected_peers
                       /\ q.sign_id = id /\ q.body = package
  BY <1>1 DEF Message
<1>11. \A p \in b.selected_peers : Message("SignPackage", n, p, id, package) \in sent
  BY <1>1
<1>12. s0.node = n /\ s0.nonces = id /\ s0.package = package
  BY DEF Signature
<1>28. s0 \in signed' /\ s0 = Signature(n, id, package)
  BY <1>9
<1> HIDE DEF b, e, id, sent, s0
<1>13. /\ b.selected_peers \subseteq Nodes /\ n \notin b.selected_peers /\ b.selected_peers # {}
       /\ 0 # id
       /\ \A T \in SUBSET (b.selected_peers \cup {n}) :
             Cardinality(T) = min_signers <=> T = b.selected_peers \cup {n}
  BY <1>1, <1>2, SignersCount, Ids DEF CollectInv
<1>14. Commitments(a) = b.selected_peers \cup {n}
  <2>1. Commitments(a) = Commitments(b) \cup {m.from}
    BY <1>1, <1>13 DEF Commitments
  <2>2. Commitments(a) \subseteq b.selected_peers \cup {n}
    BY <1>1, <1>2, <2>1 DEF CollectInv
  <2> QED BY <1>13, <2>2 DEF PackageReady
<1>15. \A p \in b.selected_peers \cup {n} : a.commitments[p] = id
  <2>1. \A p \in Nodes : a.commitments[p] \in {0, id}
    BY <1>1, <1>2 DEF CollectInv
  <2> QED BY <1>14, <2>1 DEF Commitments
<1>16. \A q \in net \ {m} : q.sign_id # id
  <2> SUFFICES ASSUME NEW q \in net \ {m}, q.sign_id = id PROVE FALSE
    OBVIOUS
  <2>1. Uncounted(q, b)
    BY <1>2 DEF LeaderInv
  <2>2. q.from \in Nodes /\ q.to \in Nodes
    BY DEF SigningInv, MessageInv, Peers
  <2> QED BY <1>1, <1>13, <1>15, <2>1, <2>2 DEF Uncounted
<1>17. \A p \in Nodes, j \in SignIds : (Joined(p, j)' <=> Joined(p, j)) /\ (Leads(p, j)' <=> Leads(p, j))
  <2>1. b.is_coordinator
    BY <1>1 DEF Leads, b
  <2> QED BY <1>2, <1>4, <1>7, <2>1 DEF Joined, Leads, b
<1>18. TypeOK'
  BY <1>8 DEF SigningInv, TypeOK
<1>19. NeverPanics' /\ OwnSpends' /\ SpendInOnePlace'
  <2>1. OnePlace
    BY PlaceMeaning DEF SigningInv
  <2>2. OnePlace'
    BY <2>1 DEF OnePlace
  <2>3. NeverPanics' /\ OwnSpends'
    BY DEF SigningInv, NeverPanics, OwnSpends
  <2> QED BY <2>2, <2>3, PlaceMeaningNext
<1>20. (\A q \in net : MessageInv(q))'
  <2> SUFFICES ASSUME NEW q \in net' PROVE MessageInv(q)'
    OBVIOUS
  <2>1. CASE q \in net
    <3>1. MessageInv(q)
      BY <2>1 DEF SigningInv
    <3> QED BY <1>9, <3>1 DEF MessageInv
  <2>2. CASE q \in sent
    <3>1. Signature(q.from, q.sign_id, q.body) \in signed'
      BY <1>10, <1>28, <2>2
    <3>2. q.body.commitments[q.to] = q.sign_id
      <4>1. q.body = package /\ q.sign_id = id /\ q.to \in b.selected_peers
        BY <1>10, <2>2
      <4>2. package.commitments[q.to] = id
        BY <1>3, <1>15, <4>1
      <4> QED BY <4>1, <4>2
    <3> QED BY <1>1, <1>10, <1>13, <2>2, <3>1, <3>2 DEF MessageInv, Peers
  <2> QED BY <1>9, <2>1, <2>2
<1>21. (\A s \in signed : SignedInv(s))'
  <2> SUFFICES ASSUME NEW s \in signed' PROVE SignedInv(s)'
    OBVIOUS
  <2>1. CASE s = s0
    <3>1. \A t \in signed' : t.nonces = id => t = s0
      BY <1>1, <1>9
    <3>2. \A q \in net' : q.sign_id = id => q.type \notin {"SignRequest", "Commitments"}
      BY <1>9, <1>10, <1>16
    <3> QED BY <1>1, <1>3, <1>12, <1>28, <2>1, <3>1, <3>2 DEF SignedInv
  <2>2. CASE s \in signed
    <3>1. SignedInv(s) /\ s.nonces # id
      BY <1>1, <2>2 DEF SigningInv
    <3>2. \A q \in net' : q.sign_id = s.nonces => q \in net
      BY <1>9, <1>10, <3>1
    <3>3. \A t \in signed' : t.nonces = s.nonces => t \in signed
      BY <1>9, <1>12, <3>1
    <3> QED BY <1>9, <3>1, <3>2, <3>3 DEF SignedInv
  <2> QED BY <1>9, <2>1, <2>2
<1>22. (\A p \in Nodes : SessionInv(p, active_signing[p]))'
  <2> SUFFICES ASSUME NEW p \in Nodes PROVE SessionInv(p, active_signing[p])'
    OBVIOUS
  <2>1. SessionInv(p, active_signing[p])
    BY DEF SigningInv
  <2> QED BY <1>1, <1>4, <1>7, <2>1 DEF SessionInv
<1>23. LeadersInv'
  <2> SUFFICES ASSUME NEW p \in Nodes, NEW j \in SignIds, Leads(p, j)'
               PROVE  (CollectInv(p, active_signing[p]) /\ LeaderInv(p, active_signing[p]))'
    BY DEF LeadersInv
  <2>1. Leads(p, j)
    BY <1>17
  <2>2. CASE p = n
    <3>1. Commitments(e) = Commitments(a) /\ Shares(e) = {n}
      BY <1>3, <1>4, <1>5 DEF Commitments, Shares
    <3>2. e.signing_package = [sign_id |-> e.sign_id, commitments |-> e.commitments]
      BY <1>1, <1>4
    <3>3. \A q \in Nodes : e.commitments[q] \in {0, id}
      BY <1>1, <1>2, <1>4 DEF CollectInv
    <3>4. e.selected_peers \in kSubset(min_signers - 1, Peers(n))
      BY <1>2, <1>4 DEF CollectInv
    <3>5. CollectInv(n, e)
      BY <1>3, <1>4, <1>5, <1>13, <1>14, <1>15, <3>1, <3>2, <3>3, <3>4 DEF CollectInv
    <3>6. CollectInv(n, active_signing[n])'
      BY <1>7, <3>5, Zenon DEF CollectInv
    <3>7. \A q \in Nodes : Joined(q, id)' =>
             q \in e.selected_peers /\ e.signature_shares[q] = NoPackage
      BY <1>1, <1>2, <1>4, <1>5, <1>13, <1>17 DEF LeaderInv
    <3>8. \A s \in signed' : s.nonces = id => s.package = e.signing_package
      BY <1>1, <1>4, <1>9, <1>12
    <3>9. id \in Spends => id \in pending_spends'[n]
      BY <1>2 DEF LeaderInv
    <3>10. \A q \in net' : q.sign_id = id => Uncounted(q, e)
      BY <1>4, <1>9, <1>10, <1>16 DEF Uncounted
    <3>11. LeaderInv(n, active_signing[n])'
      <4>1. e.sign_id = id /\ active_signing'[n] = e
        BY <1>4, <1>7
      <4> QED BY <3>7, <3>8, <3>9, <3>10, <4>1, Zenon DEF LeaderInv, Uncounted
    <3> QED BY <2>2, <3>6, <3>11
  <2>3. CASE p # n
    <3>1. j # id
      BY <1>1, <2>1, <2>3, InSession DEF Leads
    <3>2. \A s \in signed' : s.nonces = j => s \in signed
      BY <1>9, <1>12, <3>1
    <3>3. \A q \in net' : q.sign_id = j => q \in net
      BY <1>9, <1>10, <3>1
    <3> QED BY <1>7, <1>17, <2>1, <2>3, <3>2, <3>3, LeaderKept
  <2> QED BY <2>2, <2>3
<1>24. StageInv'
  <2> SUFFICES ASSUME NEW q \in net'
               PROVE  /\ q.type = "SignRequest" => /\ ~Joined(q.to, q.sign_id)'
                                                   /\ ~Sent("Commitments", q.to, q.from, q.sign_id)'
                      /\ q.type = "SignatureShare" => ~Joined(q.from, q.sign_id)'
    BY DEF StageInv
  <2>1. CASE q \in net
    <3>1. MessageInv(q) /\ StageInv
      BY <2>1 DEF SigningInv
    <3>2. q.sign_id \in SignIds /\ q.from \in Nodes /\ q.to \in Nodes
      BY <3>1 DEF MessageInv, Peers
    <3>3. Sent("Commitments", q.to, q.from, q.sign_id)' => Sent("Commitments", q.to, q.from, q.sign_id)
      BY <1>9, <1>10 DEF Sent
    <3> QED BY <1>17, <2>1, <3>1, <3>2, <3>3 DEF StageInv
  <2>2. CASE q \in sent
    BY <1>10, <2>2
  <2> QED BY <1>9, <2>1, <2>2
<1>25. ASSUME AllUp', NEW j \in SignIds \ requests'
       PROVE  ProgressInv(j)'
  <2>1. AllUp /\ Coordinator[j] \in Nodes
    BY <1>25, SignersAssumption DEF AllUp
  <2>2. CASE j = id
    <3>1. \A p \in e.selected_peers : e.commitments[p] # 0 /\ Sent("SignPackage", n, p, id)'
      BY <1>4, <1>9, <1>11, <1>13, <1>15, SentNew
    <3>2. Awaited(n, active_signing[n])'
      BY <1>4, <1>7, <3>1, Zenon DEF Awaited
    <3> QED BY <1>1, <1>17, <2>2, <3>2, Zenon DEF ProgressInv
  <2>3. CASE j # id
    <3>1. Ended(j) => Ended(j)'
      BY <1>4, <1>7, <2>3 DEF Ended
    <3>2. Leads(Coordinator[j], j) => Coordinator[j] # n
      BY <1>2, <2>3 DEF Leads, b
    <3> QED BY <1>7, <1>9, <1>17, <2>1, <2>3, <3>1, <3>2, OthersProgress DEF id
  <2> QED BY <2>2, <2>3
<1>26. requests' = SignIds => AllUp'
  BY DEF SigningInv, AllUp
<1>27. ASSUME NEW j \in SignIds \ Refused, SignIds \ requests' = {j}
       PROVE  LoneInv(j)'
  <2>1. j = id /\ LoneInv(id)
    BY <1>1, <1>27 DEF SigningInv
  <2>2. /\ AllUp
        /\ \A p \in b.selected_peers :
             \/ Sent("SignRequest", n, p, id) \/ Joined(p, id)
             \/ b.signature_shares[p] # NoPackage \/ Sent("SignatureShare", p, n, id)
    BY <1>1, <2>1 DEF LoneInv, b
  <2>3. \A p : ~Sent("SignRequest", n, p, id) /\ ~Sent("SignatureShare", p, n, id)
    BY <1>1, <1>16 DEF Sent
  <2>4. \A p \in b.selected_peers : Joined(p, id)'
    BY <1>1, <1>13, <1>17, <2>2, <2>3
  <2>5. \A q \in net' : q.type = "SignPackage" => Joined(q.to, id)'
    <3> SUFFICES ASSUME NEW q \in net', q.type = "SignPackage" PROVE Joined(q.to, id)'
      OBVIOUS
    <3>1. CASE q \in sent
      BY <1>10, <2>4, <3>1
    <3>2. CASE q \in net \ {m}
      <4>1. q.sign_id \in SignIds \ requests
        BY <3>2 DEF SigningInv, MessageInv
      <4> QED BY <1>16, <1>27, <2>1, <3>2, <4>1
    <3> QED BY <1>9, <3>1, <3>2
  <2>6. AllUp'
    BY <2>2 DEF AllUp
  <2> QED BY <1>1, <1>4, <1>7, <1>17, <2>1, <2>4, <2>5, <2>6 DEF LoneInv
<1> QED BY <1>18, <1>19, <1>20, <1>21, <1>22, <1>23, <1>24, <1>25, <1>26, <1>27 DEF SigningInv

(* A participant signs the package and leaves its session.                 *)
LEMMA PackageStep ==
  ASSUME SigningInv, NEW n \in Nodes, NEW m \in net, Receives(n, m, "SignPackage"),
         active_signing[n] # NoSession, active_signing[n].sign_id = m.sign_id,
         active_signing' = [active_signing EXCEPT ![n] = NoSession],
         net' = (net \ {m}) \cup {Message("SignatureShare", n, m.from, m.sign_id, m.body)},
         signed' = signed \cup {Signature(n, active_signing[n].nonces, m.body)},
         UNCHANGED <<pending_spends, handlers, panicked, requests, stranded, broadcast>>
  PROVE  SigningInv'
<1> DEFINE id == m.sign_id
           c  == m.from
           P  == m.body
           k  == Message("SignatureShare", n, c, id, P)
           s0 == Signature(n, id, P)
           sc == Signature(c, id, P)
<1>1. /\ m.to = n /\ m.type = "SignPackage" /\ MessageInv(m) /\ StageInv
      /\ active_signing \in [Nodes -> ActiveSigning \cup {NoSession}]
  BY Zenon DEF Receives, SigningInv, TypeOK
<1>2. /\ m = Message("SignPackage", c, n, id, P) /\ id \in SignIds /\ id \notin requests
      /\ c \in Nodes /\ c # n /\ c = Coordinator[id] /\ sc \in signed /\ P.commitments[n] = id
  BY <1>1, Zenon DEF MessageInv, Peers
<1>3. Joined(n, id) /\ active_signing[n].nonces = id /\ active_signing[n].sign_id = id
  BY <1>2, InSession DEF Joined
<1>4. /\ k = Message(k.type, k.from, k.to, k.sign_id, k.body) /\ k.type = "SignatureShare"
      /\ k.from = n /\ k.to = c /\ k.sign_id = id /\ k.body = P
  BY DEF Message
<1>5. s0.node = n /\ s0.nonces = id /\ s0.package = P /\ sc.nonces = id /\ sc.package = P
  BY DEF Signature
<1>6. net' = (net \ {m}) \cup {k} /\ signed' = signed \cup {s0}
  BY <1>3, Zenon
<1>7. /\ P \in Package /\ P.sign_id = id
      /\ \A t \in signed : t.nonces = id => t.package = P
      /\ \A q \in net : q.sign_id = id => q.type \notin {"SignRequest", "Commitments"}
  <2>1. SignedInv(sc)
    BY <1>2, Zenon DEF SigningInv
  <2> HIDE DEF sc
  <2> QED BY <1>5, <2>1, Zenon DEF SignedInv
<1>8. \A q \in net : q.type = "SignPackage" /\ q.to = n /\ q.sign_id = id => q = m
  <2> SUFFICES ASSUME NEW q \in net, q.type = "SignPackage", q.to = n, q.sign_id = id
               PROVE  q = m
    BY Zenon
  <2>1. /\ q = Message("SignPackage", c, n, id, q.body) /\ Signature(c, id, q.body) \in signed
    BY <1>2 DEF SigningInv, MessageInv
  <2>2. Signature(c, id, q.body).nonces = id /\ Signature(c, id, q.body).package = q.body
    BY Zenon DEF Signature
  <2>3. q.body = P
    BY <1>7, <2>1, <2>2, Zenon
  <2> QED BY <1>2, <2>1, <2>3, Zenon
<1>9. sc = Signature(c, id, P)
  BY Zenon
<1> HIDE DEF id, c, P, k, s0, sc
<1>10. /\ active_signing'[n] = NoSession
       /\ \A p \in Nodes : p # n => active_signing'[p] = active_signing[p]
  BY <1>1, Zenon
<1>11. /\ \A p \in Nodes, j \in SignIds :
            /\ (Joined(p, j)' <=> Joined(p, j) /\ p # n)
            /\ (Leads(p, j)' <=> Leads(p, j) /\ p # n)
       /\ \A j \in SignIds : ~Leads(n, j)
  <2>1. \A j \in SignIds : ~Joined(n, j)' /\ ~Leads(n, j)'
    BY <1>10, Ids, Zenon DEF Joined, Leads
  <2>2. \A j \in SignIds : ~Leads(n, j)
    BY <1>3, Zenon DEF Joined, Leads
  <2> QED BY <1>10, <2>1, <2>2, Zenon DEF Joined, Leads
<1>12. TypeOK'
  BY <1>1, Zenon DEF SigningInv, TypeOK
<1>13. NeverPanics' /\ OwnSpends' /\ SpendInOnePlace'
  <2>1. OnePlace
    BY PlaceMeaning, Zenon DEF SigningInv
  <2>2. OnePlace'
    BY <2>1, Zenon DEF OnePlace
  <2>3. NeverPanics' /\ OwnSpends'
    BY DEF SigningInv, NeverPanics, OwnSpends
  <2> QED BY <2>2, <2>3, PlaceMeaningNext, Zenon
<1>14. (\A q \in net : MessageInv(q))'
  <2> SUFFICES ASSUME NEW q \in net' PROVE MessageInv(q)'
    BY Zenon
  <2>1. CASE q \in net
    <3>1. MessageInv(q)
      BY <2>1, Zenon DEF SigningInv
    <3> QED BY <1>6, <3>1 DEF MessageInv
  <2>2. CASE q = k
    <3>1. Signature(q.to, q.sign_id, q.body) \in signed'
      BY <1>2, <1>4, <1>6, <1>9, <2>2, Zenon
    <3> QED BY <1>2, <1>4, <2>2, <3>1, Zenon DEF MessageInv, Peers
  <2> QED BY <1>6, <2>1, <2>2
<1>15. (\A s \in signed : SignedInv(s))'
  <2> SUFFICES ASSUME NEW s \in signed' PROVE SignedInv(s)'
    BY Zenon
  <2>0. /\ \A t \in signed' : t.nonces = id => t.package = P
        /\ \A q \in net' : q.sign_id = id => q.type \notin {"SignRequest", "Commitments"}
    BY <1>4, <1>5, <1>6, <1>7, Zenon
  <2>1. CASE s = s0
    <3>1. Signature(Coordinator[s.nonces], s.nonces, s.package) \in signed'
      BY <1>2, <1>5, <1>6, <1>9, <2>1, Zenon
    <3> QED BY <1>2, <1>5, <1>7, <2>0, <2>1, <3>1 DEF SignedInv
  <2>2. CASE s \in signed
    <3>1. SignedInv(s)
      BY <2>2, Zenon DEF SigningInv
    <3>2. CASE s.nonces = id
      <4>1. s.package = P
        BY <1>7, <2>2, <3>2, Zenon
      <4> QED BY <1>6, <2>0, <3>1, <3>2, <4>1, Zenon DEF SignedInv
    <3>3. CASE s.nonces # id
      <4>1. \A q \in net' : q.sign_id = s.nonces => q \in net
        BY <1>4, <1>6, <3>3, Zenon
      <4>2. \A t \in signed' : t.nonces = s.nonces => t \in signed
        BY <1>5, <1>6, <3>3, Zenon
      <4> QED BY <1>6, <3>1, <4>1, <4>2, Zenon DEF SignedInv
    <3> QED BY <3>2, <3>3, Zenon
  <2> QED BY <1>6, <2>1, <2>2
<1>16. (\A p \in Nodes : SessionInv(p, active_signing[p]))'
  <2> SUFFICES ASSUME NEW p \in Nodes PROVE SessionInv(p, active_signing[p])'
    BY Zenon
  <2>1. SessionInv(p, active_signing[p])
    BY DEF SigningInv
  <2> QED BY <1>10, <2>1 DEF SessionInv
<1>17. LeadersInv'
  <2> SUFFICES ASSUME NEW p \in Nodes, NEW j \in SignIds, Leads(p, j)'
               PROVE  (CollectInv(p, active_signing[p]) /\ LeaderInv(p, active_signing[p]))'
    BY Zenon DEF LeadersInv
  <2> DEFINE b == active_signing[p]
  <2>1. Leads(p, j) /\ active_signing'[p] = active_signing[p]
    BY <1>10, <1>11
  <2>2. LeaderInv(p, b) /\ b.sign_id = j
    BY <2>1, Zenon DEF SigningInv, LeadersInv, Leads
  <2>3. j = id => P = b.signing_package /\ Uncounted(k, b)
    <3> SUFFICES ASSUME j = id PROVE P = b.signing_package /\ Uncounted(k, b)
      BY Zenon
    <3>1. P = b.signing_package
      BY <1>2, <1>5, <2>2, Zenon DEF LeaderInv
    <3>2. n \in b.selected_peers /\ b.signature_shares[n] = NoPackage
      BY <1>3, <2>2, Zenon DEF LeaderInv
    <3> QED BY <1>4, <3>1, <3>2, Zenon DEF Uncounted
  <2> HIDE DEF b
  <2>4. \A s \in signed' : s.nonces = j => s \in signed \/ s.package = b.signing_package
    BY <1>5, <1>6, <2>3, Zenon
  <2>5. \A q \in net' : q.sign_id = j => q \in net \/ Uncounted(q, b)
    BY <1>4, <1>6, <2>3, Zenon
  <2> QED BY <1>11, <2>1, <2>4, <2>5, LeaderKept, Zenon DEF b
<1>18. StageInv'
  <2> SUFFICES ASSUME NEW q \in net'
               PROVE  /\ q.type = "SignRequest" => /\ ~Joined(q.to, q.sign_id)'
                                                   /\ ~Sent("Commitments", q.to, q.from, q.sign_id)'
                      /\ q.type = "SignatureShare" => ~Joined(q.from, q.sign_id)'
    BY DEF StageInv
  <2>1. CASE q = k
    BY <1>2, <1>4, <1>11, <2>1, Zenon
  <2>2. CASE q \in net
    <3>1. MessageInv(q)
      BY <2>2, Zenon DEF SigningInv
    <3>2. q.sign_id \in SignIds /\ q.from \in Nodes /\ q.to \in Nodes
      BY <3>1, Zenon DEF MessageInv, Peers
    <3>3. Sent("Commitments", q.to, q.from, q.sign_id)' => Sent("Commitments", q.to, q.from, q.sign_id)
      BY <1>4, <1>6, Zenon DEF Sent
    <3> QED BY <1>1, <1>11, <2>2, <3>2, <3>3, Zenon DEF StageInv
  <2> QED BY <1>6, <2>1, <2>2, Zenon
<1>19. ASSUME NEW type, NEW p, NEW q, NEW j, Sent(type, p, q, j),
              type = "SignPackage" /\ q = n => j # id
       PROVE  Sent(type, p, q, j)'
  BY <1>1, <1>6, <1>19, SentKept, Zenon DEF id
<1>20. Sent("SignatureShare", n, c, id)'
  BY <1>6, SentNew, Zenon DEF k
<1>21. ASSUME AllUp', NEW j \in SignIds \ requests'
       PROVE  ProgressInv(j)'
  <2>1. AllUp /\ Coordinator[j] \in Nodes
    BY <1>21, SignersAssumption, Zenon DEF AllUp
  <2>2. CASE j = id /\ Leads(c, id)
    <3> DEFINE b == active_signing[c]
    <3>1. Awaited(c, b) /\ b.sign_id = id /\ active_signing'[c] = b /\ Leads(c, id)'
      BY <1>2, <1>10, <1>11, <2>1, <2>2, Zenon DEF SigningInv, ProgressInv, Leads
    <3> HIDE DEF b
    <3>2. ASSUME NEW p \in b.selected_peers
          PROVE  /\ \/ b.commitments[p] # 0
                    \/ Sent("SignRequest", c, p, id)' \/ Sent("Commitments", p, c, id)'
                 /\ \/ b.signing_package = NoPackage \/ b.signature_shares[p] # NoPackage
                    \/ Sent("SignPackage", c, p, id)' \/ Sent("SignatureShare", p, c, id)'
      <4>1. /\ \/ b.commitments[p] # 0
               \/ Sent("SignRequest", c, p, id) \/ Sent("Commitments", p, c, id)
            /\ \/ b.signing_package = NoPackage \/ b.signature_shares[p] # NoPackage
               \/ Sent("SignPackage", c, p, id) \/ Sent("SignatureShare", p, c, id)
        BY <3>1, <3>2 DEF Awaited
      <4> QED BY <1>19, <1>20, <4>1, Zenon
    <3>3. Awaited(c, active_signing[c])'
      BY <3>1, <3>2, Zenon DEF Awaited
    <3> QED BY <1>2, <2>2, <3>1, <3>3, Zenon DEF ProgressInv
  <2>3. CASE j = id /\ ~Leads(c, id)
    BY <1>2, <1>4, <1>6, <1>11, <2>3, Zenon DEF ProgressInv
  <2>4. CASE j # id
    <3>1. Ended(j) => Ended(j)'
      BY <1>10, Ids, Zenon DEF Ended
    <3> QED BY <1>6, <1>10, <1>11, <2>1, <2>4, <3>1, OthersProgress, Zenon DEF id
  <2> QED BY <2>2, <2>3, <2>4
<1>22. requests' = SignIds => AllUp'
  BY DEF SigningInv, AllUp
<1>23. ASSUME NEW j \in SignIds \ Refused, SignIds \ requests' = {j}
       PROVE  LoneInv(j)'
  <2>1. j = id /\ LoneInv(id)
    BY <1>2, <1>23, Zenon DEF SigningInv
  <2> DEFINE b == active_signing[c]
  <2>2. /\ AllUp /\ Leads(c, id)
        /\ \A q \in net : q.type = "SignPackage" => Joined(q.to, id)
        /\ \A p \in b.selected_peers :
             \/ Sent("SignRequest", c, p, id) \/ Joined(p, id)
             \/ b.signature_shares[p] # NoPackage \/ Sent("SignatureShare", p, c, id)
    BY <1>2, <2>1, Zenon DEF LoneInv
  <2>3. b.selected_peers \subseteq Nodes
    <3>1. CollectInv(c, b)
      BY <1>2, <2>2, Zenon DEF SigningInv, LeadersInv
    <3> QED BY <1>2, <3>1, SignersCount, Zenon DEF CollectInv
  <2>4. Leads(c, id)' /\ active_signing'[c] = b
    BY <1>2, <1>10, <1>11, <2>2, Zenon
  <2> HIDE DEF b
  <2>5. ASSUME NEW p \in b.selected_peers
        PROVE  \/ Sent("SignRequest", c, p, id)' \/ Joined(p, id)'
               \/ b.signature_shares[p] # NoPackage \/ Sent("SignatureShare", p, c, id)'
    <3>1. CASE p = n
      BY <1>20, <3>1, Zenon
    <3>2. CASE p # n
      BY <1>2, <1>11, <1>19, <2>2, <2>3, <3>2, Zenon
    <3> QED BY <3>1, <3>2, Zenon
  <2>6. \A q \in net' : q.type = "SignPackage" => Joined(q.to, id)'
    <3> SUFFICES ASSUME NEW q \in net', q.type = "SignPackage" PROVE Joined(q.to, id)'
      BY Zenon
    <3>1. q \in net /\ q # m
      BY <1>4, <1>6, <1>1
    <3>2. q.to \in Nodes /\ Joined(q.to, id) /\ q.sign_id \in SignIds \ requests
      BY <2>2, <3>1, Zenon DEF SigningInv, MessageInv, Peers
    <3>3. q.to # n
      BY <1>8, <1>23, <2>1, <3>1, <3>2, Zenon
    <3> QED BY <1>2, <1>11, <3>2, <3>3, Zenon
  <2>7. AllUp'
    BY <2>2, Zenon DEF AllUp
  <2> QED BY <1>2, <2>1, <2>4, <2>5, <2>6, <2>7, Zenon DEF LoneInv
<1> QED BY <1>12, <1>13, <1>14, <1>15, <1>16, <1>17, <1>18, <1>21, <1>22, <1>23, Zenon DEF SigningInv

-----------------------------------------------------------------------------
(* Shares *)

(* A coordinator that receives the share of a peer, and a, its session     *)
(* with it.                                                                *)
Sharing(n, m, a) ==
  LET b  == active_signing[n]
      id == m.sign_id
  IN  /\ id \in SignIds /\ id \notin requests /\ Coordinator[id] = n /\ Leads(n, id)
      /\ m.type = "SignatureShare" /\ m.from \in b.selected_peers /\ m.from # n
      /\ ~Joined(m.from, id) /\ b.signing_package # NoPackage
      /\ Commitments(b) = b.selected_peers \cup {n}
      /\ a \in ActiveSigning /\ a.sign_id = id /\ a.nonces = id /\ a.is_coordinator
      /\ a.selected_peers = b.selected_peers /\ a.commitments = b.commitments
      /\ a.signing_package = b.signing_package
      /\ \A p \in Nodes : a.signature_shares[p] = IF p = m.from THEN b.signing_package
                                                                 ELSE b.signature_shares[p]
      /\ Shares(a) \subseteq b.selected_peers \cup {n}
      /\ \A q \in net : q.type = "SignatureShare" /\ q.from = m.from /\ q.sign_id = id => q = m

LEMMA ShareFacts ==
  ASSUME SigningInv, NEW n \in Nodes, NEW m \in net, Receives(n, m, "SignatureShare"),
         Coordinates(n, m),
         NEW a, a = [active_signing[n] EXCEPT !.signature_shares[m.from] = m.body]
  PROVE  Sharing(n, m, a)
<1> DEFINE b  == active_signing[n]
           id == m.sign_id
           P  == m.body
<1>1. /\ m.to = n /\ m.type = "SignatureShare" /\ MessageInv(m) /\ StageInv
      /\ b # NoSession /\ b.is_coordinator /\ b.sign_id = id
  BY DEF Receives, Coordinates, SigningInv
<1>2. /\ m = Message("SignatureShare", m.from, n, id, P) /\ id \in SignIds /\ id \notin requests
      /\ m.from \in Nodes /\ m.from # n /\ Coordinator[id] = n
      /\ Signature(n, id, P) \in signed
  BY <1>1 DEF MessageInv, Peers
<1>3. Leads(n, id) /\ b \in ActiveSigning /\ b.nonces = id /\ ~Joined(m.from, id)
  BY <1>1, <1>2, InSession DEF Leads, StageInv
<1>4. CollectInv(n, b) /\ LeaderInv(n, b)
  BY <1>2, <1>3 DEF SigningInv, LeadersInv
<1>5. m.from \in b.selected_peers /\ b.signature_shares[m.from] = NoPackage
  BY <1>1, <1>4 DEF LeaderInv, Uncounted
<1>6. ASSUME NEW q \in net, q.type = "SignatureShare", q.sign_id = id
      PROVE  /\ q = Message("SignatureShare", q.from, n, id, q.body)
             /\ q.body = b.signing_package /\ q.body \in Package
  <2> DEFINE s == Signature(n, id, q.body)
  <2>1. q = Message("SignatureShare", q.from, n, id, q.body) /\ s \in signed
    BY <1>2, <1>6 DEF SigningInv, MessageInv
  <2>2. s.nonces = id /\ s.package = q.body
    BY DEF Signature
  <2> HIDE DEF s
  <2>3. s.package \in Package
    BY <2>1 DEF SigningInv, SignedInv
  <2>4. s.package = b.signing_package
    BY <1>1, <1>4, <2>1, <2>2 DEF LeaderInv
  <2> QED BY <2>1, <2>2, <2>3, <2>4
<1>7. P = b.signing_package /\ P \in Package /\ b.signing_package # NoPackage
  BY <1>1, <1>6, Ids
<1>8. \A q \in net : q.type = "SignatureShare" /\ q.from = m.from /\ q.sign_id = id => q = m
  BY <1>2, <1>6, <1>7
<1>9. /\ a \in ActiveSigning /\ a.sign_id = id /\ a.nonces = id /\ a.is_coordinator
      /\ a.selected_peers = b.selected_peers /\ a.commitments = b.commitments
      /\ a.signing_package = b.signing_package
      /\ a.signature_shares = [b.signature_shares EXCEPT ![m.from] = P]
      /\ b.signature_shares \in [Nodes -> Package \cup {NoPackage}]
  <2>1. a = [b EXCEPT !.signature_shares = [b.signature_shares EXCEPT ![m.from] = P]]
    OBVIOUS
  <2>2. b.signature_shares \in [Nodes -> Package \cup {NoPackage}]
    BY <1>3 DEF ActiveSigning
  <2>3. [b.signature_shares EXCEPT ![m.from] = P] \in [Nodes -> Package \cup {NoPackage}]
    BY <1>2, <1>7, <2>2
  <2>4. a \in ActiveSigning
    BY <1>3, <2>1, <2>3 DEF ActiveSigning
  <2> QED BY <1>1, <1>3, <2>1, <2>2, <2>4 DEF ActiveSigning
<1>10. \A p \in Nodes : a.signature_shares[p] = IF p = m.from THEN b.signing_package
                                                              ELSE b.signature_shares[p]
  BY <1>2, <1>7, <1>9
<1>11. Shares(a) \subseteq b.selected_peers \cup {n}
  BY <1>4, <1>5, <1>10 DEF CollectInv, Shares
<1>12. Commitments(b) = b.selected_peers \cup {n}
  BY <1>4, <1>7 DEF CollectInv
<1> QED BY <1>1, <1>2, <1>3, <1>5, <1>7, <1>8, <1>9, <1>10, <1>11, <1>12 DEF Sharing

LEMMA ShareStep ==
  ASSUME SigningInv, NEW n \in Nodes, NEW m \in net, NEW a, Sharing(n, m, a),
         Cardinality(Shares(a)) # min_signers,
         active_signing' = [active_signing EXCEPT ![n] = a], net' = net \ {m},
         UNCHANGED <<pending_spends, handlers, panicked, requests, stranded, broadcast, signed>>
  PROVE  SigningInv'
<1> DEFINE b  == active_signing[n]
           id == m.sign_id
<1>1. /\ id \in SignIds /\ Leads(n, id) /\ m.type = "SignatureShare"
      /\ m.from \in b.selected_peers /\ m.from # n /\ ~Joined(m.from, id)
      /\ b.signing_package # NoPackage
      /\ a \in ActiveSigning /\ a.sign_id = id /\ a.nonces = id /\ a.is_coordinator
      /\ a.selected_peers = b.selected_peers /\ a.commitments = b.commitments
      /\ a.signing_package = b.signing_package
      /\ \A p \in Nodes : a.signature_shares[p] = IF p = m.from THEN b.signing_package
                                                                 ELSE b.signature_shares[p]
      /\ Shares(a) \subseteq b.selected_peers \cup {n}
      /\ \A q \in net : q.type = "SignatureShare" /\ q.from = m.from /\ q.sign_id = id => q = m
  BY Zenon DEF Sharing
<1>2. b.sign_id = id /\ CollectInv(n, b) /\ LeaderInv(n, b)
  BY <1>1, Zenon DEF SigningInv, LeadersInv, Leads
<1> HIDE DEF b, id
<1>3. /\ b.selected_peers \subseteq Nodes
      /\ \A T \in SUBSET (b.selected_peers \cup {n}) :
            Cardinality(T) = min_signers <=> T = b.selected_peers \cup {n}
  BY <1>2, SignersCount, Zenon DEF CollectInv
<1>4. Shares(a) # b.selected_peers \cup {n}
  BY <1>1, <1>3, Zenon
<1>5. Commitments(a) = Commitments(b)
  BY <1>1, Zenon DEF Commitments
<1>6. CollectInv(n, a)
  BY <1>1, <1>2, <1>4, <1>5, Zenon DEF CollectInv
<1>7. \A p \in Nodes : Joined(p, id) => a.signature_shares[p] = NoPackage
  BY <1>1, <1>2, Zenon DEF LeaderInv
<1>8. \A q \in net \ {m} : q.sign_id = id => Uncounted(q, a)
  <2> SUFFICES ASSUME NEW q \in net \ {m}, q.sign_id = id PROVE Uncounted(q, a)
    BY Zenon
  <2>1. Uncounted(q, b)
    BY <1>2 DEF LeaderInv
  <2>2. q.from \in Nodes /\ q.to \in Nodes
    BY Zenon DEF SigningInv, MessageInv, Peers
  <2> QED BY <1>1, <2>1, <2>2, Zenon DEF Uncounted
<1>9. \A p \in a.selected_peers : /\ b.commitments[p] # 0 => a.commitments[p] # 0
                                  /\ b.signature_shares[p] # NoPackage =>
                                         a.signature_shares[p] # NoPackage
  BY <1>1, <1>3, Zenon
<1>10. a.signature_shares[m.from] # NoPackage
  BY <1>1, <1>3
<1>11. /\ m.sign_id \in SignIds /\ Leads(n, m.sign_id) /\ a \in ActiveSigning
       /\ a.sign_id = m.sign_id /\ a.nonces = m.sign_id /\ a.is_coordinator
       /\ a.selected_peers = active_signing[n].selected_peers
       /\ a.signing_package = active_signing[n].signing_package
       /\ m.type = "SignatureShare"
  BY <1>1, Zenon DEF b, id
<1>12. /\ \A p \in Nodes : Joined(p, m.sign_id) => a.signature_shares[p] = NoPackage
       /\ \A q \in net \ {m} : q.sign_id = m.sign_id => Uncounted(q, a)
       /\ \A p \in a.selected_peers :
            /\ active_signing[n].commitments[p] # 0 => a.commitments[p] # 0
            /\ active_signing[n].signature_shares[p] # NoPackage =>
                   a.signature_shares[p] # NoPackage
  BY <1>7, <1>8, <1>9, Zenon DEF b, id
<1> QED BY <1>6, <1>10, <1>11, <1>12, CountStep, Zenon

(* The last share: the signature is complete, and its package and the      *)
(* shares agree, so the aggregation succeeds.                              *)
LEMMA AllShares ==
  ASSUME SigningInv, NEW n \in Nodes, NEW m \in net, NEW a, Sharing(n, m, a),
         Cardinality(Shares(a)) = min_signers
  PROVE  /\ Shares(a) = active_signing[n].selected_peers \cup {n} /\ AggregateOk(a)
         /\ \A p \in Nodes : ~Joined(p, m.sign_id)
         /\ m.sign_id \in Spends => m.sign_id \in pending_spends[n]
<1> DEFINE b  == active_signing[n]
           id == m.sign_id
<1>1. /\ id \in SignIds /\ Leads(n, id) /\ ~Joined(m.from, id)
      /\ b.signing_package # NoPackage /\ Commitments(b) = b.selected_peers \cup {n}
      /\ a.commitments = b.commitments /\ a.signing_package = b.signing_package
      /\ \A p \in Nodes : a.signature_shares[p] = IF p = m.from THEN b.signing_package
                                                                 ELSE b.signature_shares[p]
      /\ Shares(a) \subseteq b.selected_peers \cup {n}
  BY DEF Sharing
<1>2. b.sign_id = id /\ CollectInv(n, b) /\ LeaderInv(n, b)
  BY <1>1, Zenon DEF SigningInv, LeadersInv, Leads
<1> HIDE DEF b, id
<1>3. Shares(a) = b.selected_peers \cup {n}
  <2>1. \A T \in SUBSET (b.selected_peers \cup {n}) :
            Cardinality(T) = min_signers <=> T = b.selected_peers \cup {n}
    BY <1>2, SignersCount, Zenon DEF CollectInv
  <2> QED BY <1>1, <2>1, Zenon
<1>4. AggregateOk(a)
  <2>1. Commitments(a.signing_package) = Commitments(b)
    <3>1. b.signing_package = [sign_id |-> b.sign_id, commitments |-> b.commitments]
      BY <1>1, <1>2, Zenon DEF CollectInv
    <3>2. a.signing_package = b.signing_package
      BY <1>1, Zenon
    <3>3. a.signing_package.commitments = b.commitments
      BY <3>1, <3>2
    <3> QED BY <3>3 DEF Commitments
  <2>2. \A p \in Shares(a) : a.signature_shares[p] = a.signing_package
    BY <1>1, <1>2, Zenon DEF CollectInv, Shares
  <2> QED BY <1>1, <1>3, <2>1, <2>2, Zenon DEF AggregateOk
<1>5. \A p \in Nodes : ~Joined(p, id)
  BY <1>1, <1>2, <1>3, Zenon DEF LeaderInv, Shares
<1>6. id \in Spends => id \in pending_spends[n]
  BY <1>2, Zenon DEF LeaderInv
<1> QED BY <1>3, <1>4, <1>5, <1>6, Zenon DEF b, id

LEMMA AggregateStep ==
  ASSUME SigningInv, NEW n \in Nodes, NEW m \in net, NEW a, Sharing(n, m, a),
         Cardinality(Shares(a)) = min_signers,
         active_signing' = [active_signing EXCEPT ![n] = NoSession], net' = net \ {m},
         pending_spends' = [pending_spends EXCEPT ![n] = @ \ {m.sign_id}],
         broadcast' = broadcast \cup (pending_spends[n] \cap {m.sign_id}),
         UNCHANGED <<handlers, panicked, requests, stranded, signed>>
  PROVE  SigningInv'
<1> DEFINE b  == active_signing[n]
           id == m.sign_id
<1>1. /\ id \in SignIds /\ id \notin requests /\ Coordinator[id] = n /\ Leads(n, id)
      /\ b.signing_package # NoPackage /\ Commitments(b) = b.selected_peers \cup {n}
      /\ \A p \in Nodes : a.signature_shares[p] = IF p = m.from THEN b.signing_package
                                                                 ELSE b.signature_shares[p]
      /\ \A q \in net : q.type = "SignatureShare" /\ q.from = m.from /\ q.sign_id = id => q = m
  BY Zenon DEF Sharing
<1>2. b.sign_id = id /\ LeaderInv(n, b)
  BY <1>1, Zenon DEF SigningInv, LeadersInv, Leads
<1>3. /\ active_signing \in [Nodes -> ActiveSigning \cup {NoSession}] /\ OwnSpends
      /\ pending_spends \in [Nodes -> SUBSET Spends] /\ broadcast \subseteq Spends
  BY DEF SigningInv, TypeOK
<1>4. /\ Shares(a) = b.selected_peers \cup {n} /\ \A p \in Nodes : ~Joined(p, id)
      /\ id \in Spends => id \in pending_spends[n]
  BY AllShares, Zenon
<1> HIDE DEF b
<1>5. /\ active_signing'[n] = NoSession
      /\ \A p \in Nodes : p # n => active_signing'[p] = active_signing[p]
  BY <1>3
<1>6. \A p \in Nodes : pending_spends'[p] = IF p = n THEN pending_spends[p] \ {id}
                                                     ELSE pending_spends[p]
  BY <1>3
<1>7. \A p \in Nodes, j \in SignIds : /\ Joined(p, j)' => Joined(p, j)
                                      /\ Leads(p, j)' => Leads(p, j) /\ p # n
  <2>1. \A j \in SignIds : ~Joined(n, j)' /\ ~Leads(n, j)'
    BY <1>5, Ids DEF Joined, Leads
  <2> QED BY <1>5, <2>1 DEF Joined, Leads
<1>8. TypeOK'
  <2>1. active_signing' \in [Nodes -> ActiveSigning \cup {NoSession}]
    BY <1>3
  <2>2. pending_spends' \in [Nodes -> SUBSET Spends] /\ broadcast' \subseteq Spends
    BY <1>3, Zenon
  <2> QED BY <2>1, <2>2, Zenon DEF SigningInv, TypeOK
<1>9. NeverPanics' /\ OwnSpends'
  BY <1>3, <1>6 DEF SigningInv, NeverPanics, OwnSpends
<1>10. SpendInOnePlace'
  <2>1. OnePlace
    BY PlaceMeaning DEF SigningInv
  <2>2. \A p \in Nodes : id \notin pending_spends'[p]
    BY <1>1, <1>3, <1>6, Zenon DEF OwnSpends
  <2>3. \A p \in Nodes : pending_spends'[p] \subseteq pending_spends[p]
    BY <1>6
  <2>4. OnePlace'
    BY <2>1, <2>2, <2>3 DEF OnePlace
  <2> QED BY <2>4, PlaceMeaningNext
<1>11. (\A q \in net : MessageInv(q))'
  BY Zenon DEF SigningInv, MessageInv
<1>12. (\A s \in signed : SignedInv(s))'
  <2> SUFFICES ASSUME NEW s \in signed PROVE SignedInv(s)'
    OBVIOUS
  <2>1. SignedInv(s)
    BY Zenon DEF SigningInv
  <2> QED BY <2>1, Zenon DEF SignedInv
<1>13. (\A p \in Nodes : SessionInv(p, active_signing[p]))'
  <2> SUFFICES ASSUME NEW p \in Nodes PROVE SessionInv(p, active_signing[p])'
    OBVIOUS
  <2>1. SessionInv(p, active_signing[p])
    BY DEF SigningInv
  <2> QED BY <1>5, <2>1 DEF SessionInv
<1>14. LeadersInv'
  <2> SUFFICES ASSUME NEW p \in Nodes, NEW j \in SignIds, Leads(p, j)'
               PROVE  (CollectInv(p, active_signing[p]) /\ LeaderInv(p, active_signing[p]))'
    BY DEF LeadersInv
  <2>1. /\ Leads(p, j) /\ active_signing'[p] = active_signing[p]
        /\ pending_spends'[p] = pending_spends[p]
    BY <1>5, <1>6, <1>7
  <2> QED BY <1>7, <2>1, LeaderKept, Zenon
<1>15. StageInv'
  <2> SUFFICES ASSUME NEW q \in net'
               PROVE  /\ q.type = "SignRequest" => /\ ~Joined(q.to, q.sign_id)'
                                                   /\ ~Sent("Commitments", q.to, q.from, q.sign_id)'
                      /\ q.type = "SignatureShare" => ~Joined(q.from, q.sign_id)'
    BY Zenon DEF StageInv
  <2>1. MessageInv(q) /\ StageInv
    BY DEF SigningInv
  <2>2. q.sign_id \in SignIds /\ q.from \in Nodes /\ q.to \in Nodes
    BY <2>1, Zenon DEF MessageInv, Peers
  <2> QED BY <1>7, <2>1, <2>2, Zenon DEF StageInv, Sent
<1>16. ASSUME AllUp', NEW j \in SignIds \ requests'
       PROVE  ProgressInv(j)'
  <2>1. AllUp /\ Coordinator[j] \in Nodes
    BY <1>16, SignersAssumption DEF AllUp
  <2>2. CASE j = id
    <3>1. \A p \in Nodes : p # n => active_signing[p].sign_id # id
      <4> SUFFICES ASSUME NEW p \in Nodes, p # n, active_signing[p].sign_id = id PROVE FALSE
        OBVIOUS
      <4>1. active_signing[p].is_coordinator <=> Coordinator[id] = p
        BY <1>1, InSession, Zenon
      <4> QED BY <1>1, <1>4, <4>1, Zenon DEF Joined
    <3>2. \A p \in Nodes : active_signing'[p].sign_id # id
      <4>1. NoSession.sign_id # id
        BY <1>1, Ids
      <4> QED BY <1>5, <3>1, <4>1, Zenon
    <3>3. id \notin pending_spends'[n]
      BY <1>6
    <3> QED BY <1>1, <1>7, <2>2, <3>2, <3>3, Zenon DEF ProgressInv, Ended
  <2>3. CASE j # id
    <3>1. Ended(j) => Ended(j)'
      <4> SUFFICES ASSUME Ended(j) PROVE Ended(j)'
        BY Zenon
      <4>1. j \notin pending_spends'[Coordinator[j]]
        BY <1>6, <2>1 DEF Ended
      <4>2. \A p \in Nodes : active_signing'[p].sign_id # j
        BY <1>5, Ids, Zenon DEF Ended
      <4> QED BY <4>1, <4>2 DEF Ended
    <3>2. Leads(Coordinator[j], j) => Coordinator[j] # n
      BY <1>2, <2>3, Zenon DEF Leads, b
    <3> QED BY <1>5, <1>7, <2>1, <2>3, <3>1, <3>2, OthersProgress, Zenon
  <2> QED BY <2>2, <2>3
<1>17. requests' = SignIds => AllUp'
  BY DEF SigningInv, AllUp
<1>18. ASSUME NEW j \in SignIds \ Refused, SignIds \ requests' = {j}
       PROVE  LoneInv(j)'
  <2>1. j = id /\ LoneInv(id)
    BY <1>1, <1>18, Zenon DEF SigningInv
  <2>2. net' = {}
    <3> SUFFICES ASSUME NEW q \in net \ {m} PROVE FALSE
      OBVIOUS
    <3>1. MessageInv(q)
      BY DEF SigningInv
    <3>2. q.sign_id = id /\ q.from \in Nodes /\ q.to \in Nodes
      BY <1>18, <2>1, <3>1, Zenon DEF MessageInv, Peers
    <3>3. Uncounted(q, b)
      BY <1>2, <3>2, Zenon DEF LeaderInv
    <3>4. CASE q.type \in {"SignRequest", "Commitments"}
      BY <1>1, <3>2, <3>3, <3>4, Zenon DEF Uncounted, Commitments
    <3>5. CASE q.type = "SignPackage"
      BY <1>4, <2>1, <3>2, <3>5, Zenon DEF LoneInv
    <3>6. CASE q.type = "SignatureShare"
      <4>1. q.from \in Shares(a) /\ q.from # m.from /\ b.signature_shares[q.from] = NoPackage
        BY <1>1, <1>4, <3>2, <3>3, <3>6, Zenon DEF Uncounted
      <4> QED BY <1>1, <3>2, <4>1, Zenon DEF Shares
    <3> QED BY <3>1, <3>4, <3>5, <3>6, Zenon DEF MessageInv
  <2>3. id \in Spends => id \in broadcast'
    BY <1>4
  <2>4. AllUp'
    BY <2>1, Zenon DEF LoneInv, AllUp
  <2> QED BY <2>1, <2>2, <2>3, <2>4, Zenon DEF LoneInv
<1> QED BY <1>8, <1>9, <1>10, <1>11, <1>12, <1>13, <1>14, <1>15, <1>16, <1>17, <1>18, Zenon
        DEF SigningInv

-----------------------------------------------------------------------------
(* Lost handlers *)

LEMMA LoseStep ==
  ASSUME SigningInv, NEW n \in Nodes, LoseHandlers(n),
         net' \subseteq net, requests' \subseteq requests, requests' # SignIds,
         UNCHANGED <<panicked, stranded, signed>>,
         \/ broadcast' = broadcast
         \/ \E id \in pending_spends[n] : broadcast' = broadcast \cup {id},
         \A id \in SignIds \ Refused : SignIds \ requests' # {id}
  PROVE  SigningInv'
<1>1. /\ active_signing \in [Nodes -> ActiveSigning \cup {NoSession}]
      /\ pending_spends \in [Nodes -> SUBSET Spends] /\ handlers \in [Nodes -> BOOLEAN]
  BY DEF SigningInv, TypeOK
<1>2. /\ active_signing' \in [Nodes -> ActiveSigning \cup {NoSession}]
      /\ pending_spends' \in [Nodes -> SUBSET Spends] /\ handlers' \in [Nodes -> BOOLEAN]
  BY <1>1 DEF LoseHandlers
<1>3. /\ active_signing'[n] = NoSession /\ pending_spends'[n] = {}
      /\ \A p \in Nodes : p # n => /\ active_signing'[p] = active_signing[p]
                                   /\ pending_spends'[p] = pending_spends[p]
  BY <1>1, Zenon DEF LoseHandlers
<1>4. ~AllUp'
  <2>1. ~handlers'[n]
    BY <1>1 DEF LoseHandlers
  <2> QED BY <2>1 DEF AllUp
<1>5. \A p \in Nodes :
         \/ active_signing'[p] = active_signing[p] /\ pending_spends'[p] = pending_spends[p]
         \/ active_signing'[p] = NoSession /\ pending_spends'[p] = {}
  BY <1>3
<1>6. \/ broadcast' = broadcast
      \/ \E p \in Nodes : \E id \in pending_spends[p] :
            broadcast' = broadcast \cup {id} /\ pending_spends'[p] = {}
  BY <1>3
<1> QED BY <1>2, <1>4, <1>5, <1>6, ShrinkStep

(* A session that is alone meets no mismatch.                              *)
LEMMA MismatchStep ==
  ASSUME SigningInv, NEW n \in Nodes, NEW m \in net, SessionMismatch(n, m),
         \A id \in SignIds \ Refused : SignIds \ requests = {id} => ~LoneInv(id)
  PROVE  SigningInv'
<1>1. /\ LoseHandlers(n) /\ net' \subseteq net
      /\ UNCHANGED <<panicked, requests, stranded, broadcast, signed>>
  BY Zenon DEF SessionMismatch
<1>2. m.sign_id \in SignIds \ requests
  BY DEF SigningInv, MessageInv
<1>3. \A id \in SignIds \ Refused : SignIds \ requests # {id}
  BY DEF SigningInv
<1> QED BY <1>1, <1>2, <1>3, LoseStep

LEMMA CoordinatorMismatch ==
  ASSUME SigningInv, NEW n \in Nodes, NEW m \in net, m.to = n,
         m.type \in {"Commitments", "SignatureShare"}, ~Coordinates(n, m), SessionMismatch(n, m)
  PROVE  SigningInv'
<1>1. m.sign_id \in SignIds \ requests /\ Coordinator[m.sign_id] = n
  BY Zenon DEF SigningInv, MessageInv
<1>2. ASSUME NEW id \in SignIds \ Refused, SignIds \ requests = {id}, LoneInv(id)
      PROVE  FALSE
  <2>1. id = m.sign_id /\ Leads(n, id)
    BY <1>1, <1>2, Zenon DEF LoneInv
  <2> QED BY <2>1, Ids, Zenon DEF Leads, Coordinates
<1> QED BY <1>2, MismatchStep

LEMMA PackageMismatch ==
  ASSUME SigningInv, NEW n \in Nodes, NEW m \in net, m.to = n, m.type = "SignPackage",
         ~(/\ active_signing[n] # NoSession /\ active_signing[n].sign_id = m.sign_id
           /\ SignOk(n, active_signing[n].nonces, m.body)),
         SessionMismatch(n, m)
  PROVE  SigningInv'
<1>1. m.sign_id \in SignIds \ requests /\ m.body.commitments[n] = m.sign_id
  BY Zenon DEF SigningInv, MessageInv
<1>2. ASSUME NEW id \in SignIds \ Refused, SignIds \ requests = {id}, LoneInv(id)
      PROVE  FALSE
  <2>1. id = m.sign_id /\ active_signing[n].sign_id = id
    BY <1>1, <1>2, Zenon DEF LoneInv, Joined
  <2>2. active_signing[n] # NoSession /\ active_signing[n].nonces = id
    BY <2>1, InSession
  <2> QED BY <1>1, <2>1, <2>2 DEF SignOk
<1> QED BY <1>2, MismatchStep

LEMMA IgnoreStep ==
  ASSUME SigningInv, NEW n \in Nodes, NEW m \in net, Ignore(n, m)
  PROVE  SigningInv'
<1>1. /\ net' \subseteq net /\ ~handlers[n]
      /\ UNCHANGED <<active_signing, pending_spends, handlers, panicked, requests, stranded,
                     broadcast, signed>>
  BY DEF Ignore
<1>2. ~AllUp /\ ~AllUp'
  BY <1>1 DEF AllUp
<1>3. /\ requests' # SignIds
      /\ \A id \in SignIds \ Refused : SignIds \ requests' # {id}
  BY <1>1, <1>2, Zenon DEF SigningInv, LoneInv
<1>4. /\ active_signing' \in [Nodes -> ActiveSigning \cup {NoSession}]
      /\ pending_spends' \in [Nodes -> SUBSET Spends] /\ handlers' \in [Nodes -> BOOLEAN]
  BY <1>1 DEF SigningInv, TypeOK
<1> QED BY <1>1, <1>2, <1>3, <1>4, ShrinkStep

-----------------------------------------------------------------------------
(* The handlers *)

LEMMA StartStep ==
  ASSUME SigningInv, NEW n \in Nodes, NEW id \in SignIds, StartSigningSession(n, id)
  PROVE  SigningInv'
<1>1. /\ id \in requests /\ id \notin Spends /\ Coordinator[id] = n /\ requests' = requests \ {id}
      /\ UNCHANGED <<panicked, stranded, broadcast, signed>>
  BY DEF StartSigningSession, Requested
<1>2. CASE active_signing[n] = NoSession
  <2>1. start_signing_session(n, id) /\ UNCHANGED <<pending_spends, handlers>>
    BY <1>2 DEF StartSigningSession
  <2>2. PICK peers \in kSubset(min_signers - 1, Peers(n)) : Begins(n, id, peers)
    BY <1>1, <1>2, <2>1, Zenon DEF start_signing_session, Begins
  <2> QED BY <2>2, BeginStep
<1>3. CASE active_signing[n] # NoSession
  <2>1. LoseHandlers(n) /\ UNCHANGED net
    BY <1>3 DEF StartSigningSession
  <2>2. active_signing[n].sign_id \in SignIds
    BY <1>3, OutOfSession
  <2>3. active_signing[n].sign_id \notin requests
    BY <2>2, InSession, Zenon
  <2> QED BY <1>1, <2>1, <2>2, <2>3, LoseStep
<1> QED BY <1>2, <1>3, Zenon

LEMMA SpendStep ==
  ASSUME SigningInv, NEW n \in Nodes, NEW id \in SignIds, start_spend_request(n, id)
  PROVE  SigningInv'
<1>1. /\ id \in requests /\ id \in Spends /\ Coordinator[id] = n /\ requests' = requests \ {id}
      /\ UNCHANGED <<handlers, panicked, broadcast, signed>>
  BY DEF start_spend_request, Requested
<1>2. CASE /\ active_signing[n] = NoSession
           /\ start_signing_session(n, id)
           /\ pending_spends' = [pending_spends EXCEPT ![n] = @ \cup {id}]
           /\ UNCHANGED stranded
  <2>1. PICK peers \in kSubset(min_signers - 1, Peers(n)) : Begins(n, id, peers)
    BY <1>1, <1>2, Zenon DEF start_signing_session, Begins
  <2> QED BY <2>1, BeginStep
<1>3. CASE /\ active_signing[n] # NoSession
           /\ stranded' = stranded \cup {id}
           /\ UNCHANGED <<active_signing, pending_spends, net>>
  BY <1>1, <1>3, DropStep, Zenon
<1>4. CASE /\ id \in Refused
           /\ UNCHANGED <<active_signing, pending_spends, stranded, net>>
  BY <1>1, <1>4, DropStep
<1> QED BY <1>2, <1>3, <1>4, Zenon DEF start_spend_request

LEMMA CommitmentsStep ==
  ASSUME SigningInv, NEW n \in Nodes, NEW m \in net, handle_commitments_response(n, m)
  PROVE  SigningInv'
<1> DEFINE a       == [active_signing[n] EXCEPT !.commitments[m.from] = m.body]
           package == [sign_id |-> a.sign_id, commitments |-> a.commitments]
<1>1. Receives(n, m, "Commitments") /\ m.to = n /\ m.type = "Commitments"
  BY DEF handle_commitments_response, Receives
<1>2. CASE ~Coordinates(n, m) /\ SessionMismatch(n, m)
  BY <1>1, <1>2, CoordinatorMismatch
<1>3. CASE /\ Coordinates(n, m) /\ ~PackageReady(a)
           /\ active_signing' = [active_signing EXCEPT ![n] = a]
           /\ net' = net \ {m}
           /\ UNCHANGED <<pending_spends, handlers, panicked, requests, stranded,
                          broadcast, signed>>
  BY <1>1, <1>3, CollectStep, Zenon
<1>4. CASE /\ Coordinates(n, m) /\ PackageReady(a)
           /\ active_signing' = [active_signing EXCEPT ![n] =
                  [a EXCEPT !.signing_package = package, !.signature_shares[n] = package]]
           /\ net' = (net \ {m}) \cup
                  {Message("SignPackage", n, p, a.sign_id, package) : p \in a.selected_peers}
           /\ signed' = signed \cup {Signature(n, a.nonces, package)}
           /\ UNCHANGED <<pending_spends, handlers, panicked, requests, stranded, broadcast>>
  <2>1. a = [active_signing[n] EXCEPT !.commitments[m.from] = m.body]
    OBVIOUS
  <2>2. package = [sign_id |-> a.sign_id, commitments |-> a.commitments]
    OBVIOUS
  <2> HIDE DEF a, package
  <2>3. Distributes(n, m, a, package)
    BY <1>4 DEF Distributes
  <2> QED BY <1>1, <1>4, <2>1, <2>2, <2>3, ReadyStep, Zenon
<1> QED BY <1>2, <1>3, <1>4 DEF handle_commitments_response

LEMMA SignPackageStep ==
  ASSUME SigningInv, NEW n \in Nodes, NEW m \in net, handle_sign_package(n, m)
  PROVE  SigningInv'
<1> DEFINE a  == active_signing[n]
           ok == a # NoSession /\ a.sign_id = m.sign_id /\ SignOk(n, a.nonces, m.body)
<1>1. Receives(n, m, "SignPackage") /\ m.to = n /\ m.type = "SignPackage"
  BY Zenon DEF handle_sign_package, Receives
<1>2. CASE ~ok /\ SessionMismatch(n, m)
  BY <1>1, <1>2, PackageMismatch
<1>3. CASE /\ ok
           /\ active_signing' = [active_signing EXCEPT ![n] = NoSession]
           /\ net' = (net \ {m}) \cup {Message("SignatureShare", n, m.from, m.sign_id, m.body)}
           /\ signed' = signed \cup {Signature(n, a.nonces, m.body)}
           /\ UNCHANGED <<pending_spends, handlers, panicked, requests, stranded, broadcast>>
  BY <1>1, <1>3, PackageStep, Zenon
<1> QED BY <1>2, <1>3, Zenon DEF handle_sign_package

LEMMA SignatureShareStep ==
  ASSUME SigningInv, NEW n \in Nodes, NEW m \in net, handle_signature_share(n, m)
  PROVE  SigningInv'
<1> DEFINE a == [active_signing[n] EXCEPT !.signature_shares[m.from] = m.body]
<1>1. Receives(n, m, "SignatureShare") /\ m.to = n /\ m.type = "SignatureShare"
  BY DEF handle_signature_share, Receives
<1>2. CASE ~Coordinates(n, m)
  <2>1. SessionMismatch(n, m)
    BY <1>2 DEF handle_signature_share
  <2> QED BY <1>1, <1>2, <2>1, CoordinatorMismatch
<1>3. CASE Coordinates(n, m)
  <2>1. Sharing(n, m, a)
    BY <1>1, <1>3, ShareFacts
  <2>2. /\ a.sign_id = m.sign_id /\ m.sign_id \in SignIds
        /\ Coordinator[m.sign_id] = n /\ m.sign_id \notin requests
    BY <2>1 DEF Sharing
  <2>3. /\ net' = net \ {m} /\ UNCHANGED <<requests, stranded, signed>>
        /\ \/ /\ Cardinality(Shares(a)) # min_signers
              /\ active_signing' = [active_signing EXCEPT ![n] = a]
              /\ UNCHANGED <<pending_spends, handlers, panicked, broadcast>>
           \/ /\ Cardinality(Shares(a)) = min_signers
              /\ AggregateOk(a) => Aggregate(n, a.sign_id) /\ UNCHANGED panicked
    BY <1>3 DEF handle_signature_share
  <2> HIDE DEF a
  <2>4. CASE /\ Cardinality(Shares(a)) # min_signers
             /\ active_signing' = [active_signing EXCEPT ![n] = a]
             /\ UNCHANGED <<pending_spends, handlers, panicked, broadcast>>
    BY <2>1, <2>3, <2>4, ShareStep, Zenon
  <2>5. CASE /\ Cardinality(Shares(a)) = min_signers
             /\ AggregateOk(a) => Aggregate(n, a.sign_id) /\ UNCHANGED panicked
    <3>1. AggregateOk(a) /\ (m.sign_id \in Spends => m.sign_id \in pending_spends[n])
      BY <2>1, <2>5, AllShares, Zenon
    <3>2. Aggregate(n, m.sign_id) /\ UNCHANGED panicked
      BY <2>2, <2>5, <3>1
    <3>3. CASE /\ active_signing' = [active_signing EXCEPT ![n] = NoSession]
               /\ pending_spends' = [pending_spends EXCEPT ![n] = @ \ {m.sign_id}]
               /\ broadcast' = broadcast \cup (pending_spends[n] \cap {m.sign_id})
               /\ UNCHANGED handlers
      BY <2>1, <2>3, <2>5, <3>2, <3>3, AggregateStep, Zenon
    <3>4. CASE /\ m.sign_id \in Refused
               /\ LoseHandlers(n)
               /\ broadcast' \in {broadcast, broadcast \cup {m.sign_id}}
      <4>1. m.sign_id \in pending_spends[n]
        BY <3>1, <3>4, SignersAssumption, Zenon
      <4>2. requests' # SignIds /\ \A id \in SignIds \ Refused : SignIds \ requests' # {id}
        BY <2>2, <2>3, <3>4
      <4> QED BY <2>3, <3>2, <3>4, <4>1, <4>2, LoseStep, Zenon
    <3> QED BY <3>2, <3>3, <3>4, Zenon DEF Aggregate
  <2> QED BY <2>3, <2>4, <2>5
<1> QED BY <1>2, <1>3

LEMMA InvInit == Init => SigningInv
<1> SUFFICES ASSUME Init PROVE SigningInv
  OBVIOUS
<1>1. \A n \in Nodes : active_signing[n] = NoSession /\ pending_spends[n] = {} /\ handlers[n]
  BY DEF Init
<1>2. TypeOK /\ NeverPanics /\ OwnSpends
  BY DEF Init, TypeOK, NeverPanics, OwnSpends
<1>3. SpendInOnePlace
  <2>1. OnePlace
    BY <1>1, Zenon DEF Init, OnePlace
  <2> QED BY <2>1, PlaceMeaning
<1>4. LeadersInv /\ StageInv
  BY <1>1, Ids DEF Init, LeadersInv, Leads, StageInv
<1>5. \A n \in Nodes : SessionInv(n, active_signing[n])
  BY <1>1 DEF SessionInv
<1>6. AllUp /\ net = {} /\ signed = {} /\ requests = SignIds
  BY <1>1 DEF Init, AllUp
<1> QED BY <1>2, <1>3, <1>4, <1>5, <1>6 DEF SigningInv

LEMMA InvNext == SigningInv /\ [Next]_vars => SigningInv'
<1> SUFFICES ASSUME SigningInv, [Next]_vars PROVE SigningInv'
  OBVIOUS
<1>1. CASE Next
  <2>1. PICK n \in Nodes :
          \/ \E id \in SignIds : StartSigningSession(n, id) \/ start_spend_request(n, id)
          \/ \E m \in net : \/ handle_sign_request(n, m)
                            \/ handle_commitments_response(n, m)
                            \/ handle_sign_package(n, m)
                            \/ handle_signature_share(n, m)
                            \/ Ignore(n, m)
    BY <1>1 DEF Next
  <2> QED BY <2>1, StartStep, SpendStep, SignRequestStep, CommitmentsStep, SignPackageStep,
             SignatureShareStep, IgnoreStep, Zenon
<1>2. CASE UNCHANGED vars
  <2>1. OnePlace'
    BY <1>2, PlaceMeaning, Zenon DEF SigningInv, OnePlace, vars
  <2>2. SpendInOnePlace'
    BY <2>1, PlaceMeaningNext
  <2>3. (\A m \in net : MessageInv(m))' /\ (\A s \in signed : SignedInv(s))'
    BY <1>2, Zenon DEF SigningInv, MessageInv, SignedInv, vars
  <2>4. LeadersInv' /\ (\A n \in Nodes : SessionInv(n, active_signing[n]))'
    <3>1. (\A n \in Nodes : SessionInv(n, active_signing[n]))'
      BY <1>2, Zenon DEF SigningInv, SessionInv, vars
    <3>2. ASSUME NEW n \in Nodes, NEW id \in SignIds, Leads(n, id)'
          PROVE  (CollectInv(n, active_signing[n]) /\ LeaderInv(n, active_signing[n]))'
      <4>1. Leads(n, id) /\ \A p \in Nodes : Joined(p, id)' => Joined(p, id)
        BY <1>2, <3>2, Zenon DEF Leads, Joined, vars
      <4> QED BY <1>2, <4>1, LeaderKept, Zenon DEF vars
    <3> QED BY <3>1, <3>2 DEF LeadersInv
  <2>5. StageInv'
    BY <1>2 DEF SigningInv, StageInv, Joined, Sent, vars
  <2>6. \A id : (ProgressInv(id)' <=> ProgressInv(id)) /\ (LoneInv(id)' <=> LoneInv(id))
    <3>1. /\ active_signing' = active_signing /\ pending_spends' = pending_spends
          /\ handlers' = handlers /\ broadcast' = broadcast /\ net' = net
      BY <1>2 DEF vars
    <3>2. \A n, id : (Leads(n, id)' <=> Leads(n, id)) /\ (Joined(n, id)' <=> Joined(n, id))
      BY <3>1 DEF Leads, Joined
    <3>3. \A type, n, p, id : Sent(type, n, p, id)' <=> Sent(type, n, p, id)
      BY <3>1, Zenon DEF Sent
    <3>4. \A n : Awaited(n, active_signing[n])' <=> Awaited(n, active_signing[n])
      BY <3>1, <3>3, Zenon DEF Awaited
    <3>5. (AllUp' <=> AllUp) /\ \A id : Ended(id)' <=> Ended(id)
      BY <3>1 DEF AllUp, Ended
    <3>6. \A id : ProgressInv(id)' <=> ProgressInv(id)
      BY <3>1, <3>2, <3>4, <3>5, Zenon DEF ProgressInv
    <3>7. \A id : LoneInv(id)' <=> LoneInv(id)
      BY <3>1, <3>2, <3>3, <3>5, Zenon DEF LoneInv
    <3> QED BY <3>6, <3>7
  <2>7. TypeOK' /\ NeverPanics' /\ OwnSpends' /\ (AllUp' <=> AllUp) /\ requests' = requests
    BY <1>2 DEF SigningInv, TypeOK, NeverPanics, OwnSpends, AllUp, vars
  <2> QED BY <2>2, <2>3, <2>4, <2>5, <2>6, <2>7, Zenon DEF SigningInv
<1> QED BY <1>1, <1>2

-----------------------------------------------------------------------------
(* Theorems *)

(* For any number of signers, any threshold and any sessions, whichever    *)
(* session starts, joins, replaces or loses another one, SigningInv holds. *)
THEOREM Inductive == Spec => []SigningInv
  BY InvInit, InvNext, PTL DEF Spec

(* No nonce that handle_sign_request or start_signing_session draws ever   *)
(* signs two different packages.                                           *)
THEOREM NonceSafety == Spec => []NoncesSignOnce
<1>1. SigningInv => NoncesSignOnce
  BY DEF SigningInv, SignedInv, NoncesSignOnce
<1> QED BY <1>1, Inductive, PTL

(* The expect of the aggregation (create_signature.rs:383) never fails.    *)
THEOREM NoPanic == Spec => []NeverPanics
<1>1. SigningInv => NeverPanics
  BY DEF SigningInv
<1> QED BY <1>1, Inductive, PTL

(* A spend is never in two places, so start_spend_request and              *)
(* handle_signed_withdrawal broadcast it at most once.                     *)
THEOREM OneSpendPlace == Spec => []SpendInOnePlace
<1>1. SigningInv => SpendInOnePlace
  BY DEF SigningInv
<1> QED BY <1>1, Inductive, PTL

(* With every handler in place, silence means that every session is over.  *)
LEMMA QuietIdle ==
  ASSUME SigningInv, AllUp, net = {}, NEW n \in Nodes
  PROVE  Idle(n)
<1>1. ASSUME NEW id \in SignIds, id \notin requests
      PROVE  Ended(id)
  <2>1. ProgressInv(id) /\ Coordinator[id] \in Nodes
    BY <1>1, SignersAssumption DEF SigningInv
  <2> QED BY <2>1, Waiting DEF ProgressInv
<1>2. active_signing[n] = NoSession
  <2> SUFFICES ASSUME active_signing[n].sign_id \in SignIds PROVE FALSE
    BY OutOfSession
  <2>1. active_signing[n].sign_id \notin requests
    BY InSession
  <2> QED BY <1>1, <2>1 DEF Ended
<1>3. ASSUME NEW id \in pending_spends[n]
      PROVE  FALSE
  <2>1. id \in Spends /\ id \in SignIds /\ Coordinator[id] = n
    BY SignersAssumption, Zenon DEF SigningInv, TypeOK, OwnSpends
  <2>2. id \notin requests
    BY <2>1, PlaceMeaning DEF SigningInv, OnePlace
  <2> QED BY <1>1, <1>3, <2>1, <2>2, Zenon DEF Ended
<1> QED BY <1>2, <1>3, Zenon DEF Idle

(* When no message is left, every session is over or a handler returned an *)
(* error and took its node's handlers with it.                             *)
THEOREM QuietDone == Spec => []QuietMeansDone
<1>1. SigningInv => QuietMeansDone
  BY QuietIdle DEF QuietMeansDone, AllUp
<1> QED BY <1>1, Inductive, PTL

(* A session that meets no other one loses no handler, and it ends with    *)
(* its signature made and its spend broadcast.                             *)
THEOREM LoneCompletes == Spec => []LoneSessionCompletes
<1>1. SigningInv => LoneSessionCompletes
  <2> SUFFICES ASSUME SigningInv, NEW id \in SignIds \ Refused, SignIds \ requests = {id}
               PROVE  /\ \A n \in Nodes : handlers[n]
                      /\ net = {} => /\ \A n \in Nodes : Idle(n)
                                     /\ id \in Spends => id \in broadcast
    BY DEF LoneSessionCompletes
  <2>1. LoneInv(id) /\ AllUp
    BY Zenon DEF SigningInv, LoneInv
  <2>2. ASSUME net = {}
        PROVE  (\A n \in Nodes : Idle(n)) /\ (id \in Spends => id \in broadcast)
    <3>1. \A n \in Nodes : Idle(n)
      BY <2>1, <2>2, QuietIdle
    <3>2. Coordinator[id] \in Nodes
      BY SignersAssumption
    <3>3. ~Leads(Coordinator[id], id)
      BY <3>1, <3>2, Ids DEF Idle, Leads
    <3> QED BY <2>1, <3>1, <3>3, Zenon DEF LoneInv
  <2> QED BY <2>1, <2>2 DEF AllUp
<1> QED BY <1>1, Inductive, PTL
=============================================================================
