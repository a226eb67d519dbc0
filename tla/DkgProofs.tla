----------------------------- MODULE DkgProofs ------------------------------
(***************************************************************************)
(* Proofs about key generation, for any number of signers, any interleaving*)
(* of gossip and direct messages, and any number of restarts.              *)
(***************************************************************************)
EXTENDS Dkg, FiniteSetTheorems, TLAPS

(* Packages of all peers are counted, not compared with a list of names.   *)
LEMMA AllPeers ==
  ASSUME NEW n \in Nodes, NEW S \in SUBSET Peers(n), Cardinality(S) + 1 = max_signers
  PROVE  S = Peers(n)
<1>1. IsFiniteSet(Nodes)
  BY NodesAssumption
<1>2. IsFiniteSet(Peers(n)) /\ Cardinality(Peers(n)) = Cardinality(Nodes) - 1
  BY <1>1, FS_RemoveElement DEF Peers
<1>3. Cardinality(Nodes) \in Nat /\ Cardinality(S) \in Nat /\ Cardinality(Peers(n)) \in Nat
  BY <1>1, <1>2, FS_CardinalityType, FS_Subset
<1>4. Cardinality(S) = Cardinality(Peers(n))
  BY <1>2, <1>3 DEF max_signers
<1> QED BY <1>2, <1>4, FS_Subset

-----------------------------------------------------------------------------
(* The state of one node *)

(* A state that node n may pass from one part of a handler to the next.    *)
Sound(n, s, rs) ==
    /\ s \in DkgState
    /\ s.listeners \subseteq Peers(n)
    /\ s.r1_secret <= rs[n] /\ s.r2_secret <= rs[n]
    /\ \A p \in Nodes : s.round1[p] <= rs[p] /\ s.round2[p] <= rs[p]
    /\ s.round1[n] = 0 /\ s.round2[n] = 0
    /\ restarts = 0 /\ s.r2_secret # 0 => Packages(s.round1) = Peers(n)

LEMMA SoundNow ==
  ASSUME KeyInv, NEW n \in Nodes
  PROVE  Sound(n, dkg[n], runs)
  BY DEF KeyInv, TypeOK, Drawn, FirstRun, Sound

LEMMA StateFields ==
  ASSUME NEW s \in DkgState
  PROVE  /\ s.dkg_started \in BOOLEAN /\ s.listeners \in SUBSET Nodes
         /\ s.round1 \in [Nodes -> Nat] /\ s.round2 \in [Nodes -> Nat]
         /\ s.r1_secret \in Nat /\ s.r2_secret \in Nat
  BY DEF DkgState

LEMMA NewState ==
  /\ NewDkgState \in DkgState
  /\ NewDkgState.listeners = {} /\ NewDkgState.dkg_started = FALSE
  /\ NewDkgState.r1_secret = 0 /\ NewDkgState.r2_secret = 0
  /\ \A p \in Nodes : NewDkgState.round1[p] = 0 /\ NewDkgState.round2[p] = 0
  /\ \A ls \in SUBSET Nodes :
        LET t == [NewDkgState EXCEPT !.listeners = ls]
        IN  /\ t \in DkgState /\ t.listeners = ls /\ t.dkg_started = FALSE
            /\ t.r1_secret = 0 /\ t.r2_secret = 0
            /\ \A p \in Nodes : t.round1[p] = 0 /\ t.round2[p] = 0
  BY DEF NewDkgState, DkgState

LEMMA StartedState ==
  ASSUME NEW s \in DkgState, NEW k \in Nat
  PROVE  LET s1 == [s EXCEPT !.dkg_started = TRUE, !.r1_secret = k + 1]
         IN  /\ s1 \in DkgState /\ s1.dkg_started = TRUE
             /\ s1.listeners = s.listeners /\ s1.round1 = s.round1 /\ s1.round2 = s.round2
             /\ s1.r1_secret = k + 1 /\ s1.r2_secret = s.r2_secret
<1> DEFINE a == [s EXCEPT !.dkg_started = TRUE]
           b == [a EXCEPT !.r1_secret = k + 1]
<1>1. /\ a \in DkgState /\ a.dkg_started = TRUE
      /\ a.listeners = s.listeners /\ a.round1 = s.round1 /\ a.round2 = s.round2
      /\ a.r2_secret = s.r2_secret
  BY DEF DkgState
<1> HIDE DEF a
<1>2. /\ b \in DkgState /\ b.dkg_started = TRUE
      /\ b.listeners = s.listeners /\ b.round1 = s.round1 /\ b.round2 = s.round2
      /\ b.r1_secret = k + 1 /\ b.r2_secret = s.r2_secret
  BY <1>1 DEF DkgState
<1> QED BY <1>2 DEF a

LEMMA FullRound1 ==
  ASSUME NEW n \in Nodes, NEW s, NEW rs, Sound(n, s, rs), AllRound1(s)
  PROVE  Packages(s.round1) = Peers(n)
<1>1. Packages(s.round1) \subseteq Peers(n)
  BY DEF Packages, Peers, Sound
<1> QED BY <1>1, AllPeers DEF AllRound1

(* try_enter_round2 keeps a state sound.                                   *)
LEMMA TryEnter ==
  ASSUME NEW n \in Nodes, NEW s, NEW rs, Sound(n, s, rs)
  PROVE  /\ Sound(n, try_enter_round2(s), rs)
         /\ try_enter_round2(s).dkg_started = s.dkg_started
<1>1. s \in DkgState
  BY DEF Sound
<1>2. CASE AllRound1(s)
  <2> DEFINE t == [s EXCEPT !.r1_secret = 0, !.r2_secret = s.r1_secret]
  <2>1. /\ t \in DkgState
        /\ t.dkg_started = s.dkg_started /\ t.listeners = s.listeners
        /\ t.round1 = s.round1 /\ t.round2 = s.round2
        /\ t.r1_secret = 0 /\ t.r2_secret = s.r1_secret
    BY <1>1 DEF DkgState
  <2>2. 0 <= s.r1_secret
    BY <1>1, StateFields
  <2>3. 0 <= rs[n]
    BY <1>1, StateFields DEF Sound
  <2>4. Packages(s.round1) = Peers(n)
    BY <1>2, FullRound1
  <2> HIDE DEF t
  <2>5. Sound(n, t, rs)
    BY <2>1, <2>2, <2>3, <2>4 DEF Sound
  <2> QED BY <1>2, <2>1, <2>5 DEF try_enter_round2, t
<1>3. CASE ~AllRound1(s)
  BY <1>3 DEF try_enter_round2
<1> QED BY <1>2, <1>3

-----------------------------------------------------------------------------
(* Messages *)

WellFormed(m, rs) ==
    /\ m.type \in {"Subscribed", "StartDkg", "Round1", "Round2"}
    /\ m.to \in Nodes /\ m.from \in Peers(m.to) /\ m.run \in 0 .. rs[m.from]
    /\ m.type = "Round1" => m.run # 0

LEMMA OldMessages ==
  ASSUME KeyInv, runs' \in [Nodes -> Nat], \A p \in Nodes : runs[p] <= runs'[p]
  PROVE  \A m \in net : WellFormed(m, runs')
<1> SUFFICES ASSUME NEW m \in net PROVE WellFormed(m, runs')
  OBVIOUS
<1>1. WellFormed(m, runs) /\ runs \in [Nodes -> Nat]
  BY DEF KeyInv, TypeOK, WellFormed
<1>2. m.from \in Nodes
  BY <1>1 DEF WellFormed, Peers
<1>3. runs[m.from] <= runs'[m.from] /\ runs[m.from] \in Nat /\ runs'[m.from] \in Nat
  BY <1>1, <1>2
<1> QED BY <1>1, <1>3 DEF WellFormed

LEMMA NewEvents ==
  ASSUME NEW rs \in [Nodes -> Nat], NEW n \in Nodes, NEW p \in Peers(n)
  PROVE  /\ WellFormed(Event("Subscribed", n, p), rs)
         /\ WellFormed(Event("Subscribed", p, n), rs)
         /\ WellFormed(Event("StartDkg", n, p), rs)
  BY DEF WellFormed, Event, Peers

LEMMA NewPackages ==
  ASSUME NEW rs \in [Nodes -> Nat], NEW n \in Nodes, NEW p \in Peers(n), NEW k \in 1 .. rs[n]
  PROVE  /\ WellFormed(Package("Round1", n, p, k), rs)
         /\ WellFormed(Package("Round2", n, p, k), rs)
  BY DEF WellFormed, Package, Peers

LEMMA NewRound2 ==
  ASSUME NEW rs \in [Nodes -> Nat], NEW n \in Nodes, NEW s \in DkgState,
         s.listeners \subseteq Peers(n), s.r1_secret <= rs[n]
  PROVE  \A m \in Round2Packages(n, s) : WellFormed(m, rs)
<1> SUFFICES ASSUME NEW m \in Round2Packages(n, s) PROVE WellFormed(m, rs)
  OBVIOUS
<1>1. AllRound1(s) /\ \E p \in s.listeners : m = Package("Round2", n, p, s.r1_secret)
  BY DEF Round2Packages
<1>2. s.r1_secret \in 1 .. rs[n]
  BY <1>1, StateFields DEF AllRound1
<1> QED BY <1>1, <1>2, NewPackages

-----------------------------------------------------------------------------
(* A handler changes the state of its own node, and draws at most one      *)
(* polynomial.                                                             *)
LEMMA Handled ==
  ASSUME KeyInv, NEW n \in Nodes, NEW t,
         runs' \in [Nodes -> Nat], \A p \in Nodes : runs[p] <= runs'[p],
         \A p \in Peers(n) : runs'[p] = runs[p],
         dkg' = [dkg EXCEPT ![n] = t],
         Sound(n, t, runs'), restarts' = restarts
  PROVE  /\ dkg' \in [Nodes -> DkgState]
         /\ \A p \in Nodes : Drawn(p)'
         /\ \A p \in Peers(n) : dkg'[p] = dkg[p]
<1>1. dkg \in [Nodes -> DkgState] /\ runs \in [Nodes -> Nat] /\ n \in Nodes
  BY DEF KeyInv, TypeOK
<1>2. t \in DkgState /\ dkg'[n] = t
  BY <1>1 DEF Sound
<1>3. \A p \in Peers(n) : dkg'[p] = dkg[p]
  BY <1>1 DEF Peers
<1>4. ASSUME NEW p \in Peers(n) PROVE Drawn(p)'
  <2>1. Drawn(p) /\ p \in Nodes /\ dkg[p] \in DkgState
    BY <1>1, <1>4 DEF KeyInv, Peers
  <2>2. dkg'[p] = dkg[p] /\ runs'[p] = runs[p]
    BY <1>3, <1>4
  <2>3. \A q \in Nodes : /\ dkg[p].round1[q] <= runs'[q]
                         /\ dkg[p].round2[q] <= runs'[q]
    <3> TAKE q \in Nodes
    <3>1. dkg[p].round1[q] \in Nat /\ dkg[p].round2[q] \in Nat
      BY <2>1, StateFields
    <3>2. dkg[p].round1[q] <= runs[q] /\ dkg[p].round2[q] <= runs[q]
      BY <2>1 DEF Drawn
    <3>3. runs[q] \in Nat /\ runs'[q] \in Nat /\ runs[q] <= runs'[q]
      BY <1>1
    <3> QED BY <3>1, <3>2, <3>3
  <2> QED BY <2>1, <2>2, <2>3 DEF Drawn
<1>5. Drawn(n)'
  BY <1>2 DEF Sound, Drawn
<1> QED BY <1>1, <1>2, <1>3, <1>4, <1>5 DEF Peers

LEMMA PeersFirst ==
  ASSUME KeyInv, NEW n \in Nodes, restarts = 0,
         \A p \in Peers(n) : /\ dkg'[p] = dkg[p] /\ keys'[p] = keys[p]
                             /\ runs'[p] = runs[p] /\ handlers'[p] = handlers[p]
  PROVE  \A p \in Peers(n) : FirstRun(p)'
<1> TAKE p \in Peers(n)
<1>1. FirstRun(p)
  BY DEF KeyInv, Peers
<1> QED BY <1>1 DEF FirstRun, NoKey, Peers

(* The parts that a message is handled by leave keys and files alone.  A   *)
(* run is started only by a node that has handlers and no keys and that is *)
(* not in a run.                                                           *)
LEMMA HandlerStep ==
  ASSUME KeyInv, NEW n \in Nodes, NEW s, NEW rest \in SUBSET net,
         Sound(n, s, runs), s.dkg_started = dkg[n].dkg_started, handlers[n],
         \/ start_dkg(n, s, rest) /\ ~s.dkg_started /\ keys[n] = NoKey
         \/ Continue(n, s, rest)
         \/ dkg' = [dkg EXCEPT ![n] = s] /\ net' = rest /\ UNCHANGED runs,
         UNCHANGED <<keys, key_file, handlers, restarts>>
  PROVE  KeyInv' /\ (keys[n] # NoKey => runs'[n] = runs[n])
                 /\ \A p \in Peers(n) : runs'[p] = runs[p]
<1>0. /\ dkg \in [Nodes -> DkgState] /\ runs \in [Nodes -> Nat] /\ s \in DkgState
      /\ s.r1_secret \in Nat /\ s.r2_secret \in Nat
      /\ keys \in [Nodes -> [Nodes -> Nat]]
      /\ saved_keys \in [Nodes -> [Nodes -> Nat]] /\ restarts \in Nat
  BY StateFields DEF KeyInv, TypeOK, Sound
<1>1. KeysDurable'
  BY DEF KeyInv, KeysDurable, key_file
<1> DEFINE Goal(t) ==
      /\ runs' \in [Nodes -> Nat] /\ \A p \in Nodes : runs[p] <= runs'[p]
      /\ \A p \in Peers(n) : runs'[p] = runs[p]
      /\ dkg' = [dkg EXCEPT ![n] = t] /\ Sound(n, t, runs')
      /\ \A m \in net' : WellFormed(m, runs')
      /\ keys[n] # NoKey => runs'[n] = runs[n]
      /\ \/ runs'[n] = runs[n] /\ t.dkg_started = s.dkg_started
         \/ runs'[n] = runs[n] + 1 /\ t.dkg_started /\ ~s.dkg_started /\ keys[n] = NoKey
<1>2. ASSUME NEW t, Goal(t) PROVE KeyInv' /\ (keys[n] # NoKey => runs'[n] = runs[n])
                                          /\ \A p \in Peers(n) : runs'[p] = runs[p]
  <2>1. /\ dkg' \in [Nodes -> DkgState]
        /\ \A p \in Nodes : Drawn(p)'
        /\ \A p \in Peers(n) : dkg'[p] = dkg[p]
    BY <1>2, Handled
  <2>2. TypeOK'
    BY <1>0, <1>2, <2>1 DEF KeyInv, TypeOK, WellFormed, key_file
  <2>3. ASSUME restarts' = 0 PROVE \A p \in Nodes : FirstRun(p)'
    <3>1. restarts = 0 /\ FirstRun(n)
      BY <2>3 DEF KeyInv
    <3>2. \A p \in Peers(n) : FirstRun(p)'
      BY <1>2, <2>1, <3>1, PeersFirst DEF Peers
    <3>3. dkg'[n] = t
      BY <1>0, <1>2
    <3>4. runs'[n] <= 1 /\ (runs'[n] = 1 => t.dkg_started \/ keys[n] # NoKey)
      BY <1>0, <1>2, <3>1 DEF FirstRun
    <3>5. t.r2_secret # 0 => Packages(t.round1) = Peers(n)
      BY <1>2, <2>3 DEF Sound
    <3>6. keys'[n] # NoKey => keys'[n] = [p \in Nodes |-> 1]
      BY <3>1 DEF FirstRun
    <3>7. FirstRun(n)'
      BY <3>3, <3>4, <3>5, <3>6 DEF FirstRun, NoKey
    <3> QED BY <3>2, <3>7 DEF Peers
  <2> QED BY <1>1, <1>2, <2>1, <2>2, <2>3 DEF KeyInv, WellFormed
<1> HIDE DEF Goal
<1>3. CASE dkg' = [dkg EXCEPT ![n] = s] /\ net' = rest /\ UNCHANGED runs
  <2>1. Sound(n, s, runs')
    BY <1>3 DEF Sound
  <2>2. \A m \in net' : WellFormed(m, runs')
    BY <1>0, <1>3, OldMessages
  <2>3. Goal(s)
    BY <1>0, <1>3, <2>1, <2>2 DEF Goal
  <2> QED BY <1>2, <2>3
<1>4. CASE Continue(n, s, rest)
  <2> DEFINE t == try_enter_round2(s)
  <2>1. dkg' = [dkg EXCEPT ![n] = t] /\ net' = rest \cup Round2Packages(n, s) /\ runs' = runs
    BY <1>4 DEF Continue
  <2>2. Sound(n, t, runs) /\ t.dkg_started = s.dkg_started
    BY TryEnter
  <2> HIDE DEF t
  <2>3. Sound(n, t, runs')
    BY <2>1, <2>2 DEF Sound
  <2>4. \A m \in Round2Packages(n, s) : WellFormed(m, runs)
    BY <1>0, NewRound2 DEF Sound
  <2>5. \A m \in net : WellFormed(m, runs')
    BY <1>0, <2>1, OldMessages
  <2>6. \A m \in net' : WellFormed(m, runs')
    BY <2>1, <2>4, <2>5
  <2>7. Goal(t)
    BY <1>0, <2>1, <2>2, <2>3, <2>6 DEF Goal
  <2> QED BY <1>2, <2>7
<1>5. CASE start_dkg(n, s, rest) /\ ~s.dkg_started /\ keys[n] = NoKey
  <2> DEFINE s1 == [s EXCEPT !.dkg_started = TRUE, !.r1_secret = runs[n] + 1]
             t == try_enter_round2(s1)
  <2>1. PICK reached \in SUBSET Peers(n) :
            /\ runs' = [runs EXCEPT ![n] = @ + 1]
            /\ dkg' = [dkg EXCEPT ![n] = t]
            /\ net' = rest \cup {Event("StartDkg", n, p) : p \in reached}
                           \cup {Package("Round1", n, p, runs[n] + 1) : p \in reached}
                           \cup Round2Packages(n, s1)
    BY <1>5 DEF start_dkg
  <2>2. /\ runs' \in [Nodes -> Nat] /\ runs'[n] = runs[n] + 1
        /\ \A p \in Peers(n) : runs'[p] = runs[p]
        /\ \A p \in Nodes : runs[p] <= runs'[p]
    BY <1>0, <2>1 DEF Peers
  <2>3. /\ s1 \in DkgState /\ s1.dkg_started = TRUE
        /\ s1.listeners = s.listeners /\ s1.round1 = s.round1 /\ s1.round2 = s.round2
        /\ s1.r1_secret = runs[n] + 1 /\ s1.r2_secret = s.r2_secret
    BY <1>0, StartedState
  <2> HIDE DEF s1
  <2>4. \A p \in Nodes : s.round1[p] <= runs'[p] /\ s.round2[p] <= runs'[p]
    <3> TAKE p \in Nodes
    <3>1. s.round1[p] <= runs[p] /\ s.round2[p] <= runs[p]
      BY DEF Sound
    <3>2. s.round1[p] \in Nat /\ s.round2[p] \in Nat
      BY <1>0, StateFields
    <3>3. runs[p] \in Nat /\ runs'[p] \in Nat /\ runs[p] <= runs'[p]
      BY <1>0, <2>2
    <3> QED BY <3>1, <3>2, <3>3
  <2>5. Sound(n, s1, runs')
    <3>1. s.r2_secret <= runs'[n] /\ s1.r1_secret <= runs'[n]
      BY <1>0, <2>2, <2>3 DEF Sound
    <3> QED BY <2>3, <2>4, <3>1 DEF Sound
  <2>6. Sound(n, t, runs') /\ t.dkg_started
    BY <2>3, <2>5, TryEnter DEF t
  <2>7. \A m \in Round2Packages(n, s1) : WellFormed(m, runs')
    BY <2>2, <2>3, <2>5, NewRound2 DEF Sound
  <2>8. \A p \in reached : /\ WellFormed(Event("StartDkg", n, p), runs')
                           /\ WellFormed(Package("Round1", n, p, runs[n] + 1), runs')
    <3> TAKE p \in reached
    <3>1. p \in Peers(n) /\ runs[n] + 1 \in 1 .. runs'[n]
      BY <1>0, <2>2
    <3> QED BY <2>2, <3>1, NewEvents, NewPackages
  <2>9. \A m \in net : WellFormed(m, runs')
    BY <2>2, OldMessages
  <2>10. \A m \in net' : WellFormed(m, runs')
    BY <2>1, <2>7, <2>8, <2>9
  <2> HIDE DEF t
  <2>11. Goal(t)
    BY <1>5, <2>1, <2>2, <2>6, <2>10 DEF Goal
  <2> QED BY <1>2, <2>11
<1> QED BY <1>3, <1>4, <1>5

-----------------------------------------------------------------------------
(* The handlers of the four messages *)

LEMMA MessageFields ==
  ASSUME KeyInv, NEW m \in net
  PROVE  /\ WellFormed(m, runs) /\ m.from \in Nodes /\ m.to \in Nodes /\ m.from # m.to
         /\ m.run \in Nat /\ m.run <= runs[m.from]
<1>1. WellFormed(m, runs) /\ runs \in [Nodes -> Nat]
  BY DEF KeyInv, TypeOK, WellFormed
<1>2. m.from \in Nodes /\ m.to \in Nodes /\ m.from # m.to
  BY <1>1 DEF WellFormed, Peers
<1>3. runs[m.from] \in Nat /\ m.run \in 0 .. runs[m.from]
  BY <1>1, <1>2 DEF WellFormed
<1> QED BY <1>1, <1>2, <1>3

LEMMA SubscribedStep ==
  ASSUME KeyInv, NEW n \in Nodes, NEW m \in net, Subscribed(n, m)
  PROVE  KeyInv' /\ (keys[n] # NoKey => runs'[n] = runs[n])
                 /\ \A p \in Peers(n) : runs'[p] = runs[p]
<1> DEFINE s == [dkg[n] EXCEPT !.listeners = @ \cup {m.from}]
<1>1. /\ handlers[n] /\ m.to = n /\ handle_dkg_start(n, s, net \ {m})
      /\ UNCHANGED <<keys, key_file, handlers, restarts>>
  BY DEF Subscribed, Handles
<1>2. dkg[n] \in DkgState
  BY DEF KeyInv, TypeOK
<1>3. m.from \in Peers(n)
  BY <1>1, MessageFields DEF Peers
<1>4. /\ s \in DkgState /\ s.listeners = dkg[n].listeners \cup {m.from}
      /\ s.dkg_started = dkg[n].dkg_started /\ s.round1 = dkg[n].round1
      /\ s.round2 = dkg[n].round2
      /\ s.r1_secret = dkg[n].r1_secret /\ s.r2_secret = dkg[n].r2_secret
  BY <1>2, <1>3 DEF DkgState, Peers
<1> HIDE DEF s
<1>5. Sound(n, s, runs)
  BY <1>3, <1>4, SoundNow DEF Sound
<1>6. \/ start_dkg(n, s, net \ {m}) /\ ~s.dkg_started /\ keys[n] = NoKey
      \/ dkg' = [dkg EXCEPT ![n] = s] /\ net' = net \ {m} /\ UNCHANGED runs
  BY <1>1 DEF handle_dkg_start
<1> QED BY <1>1, <1>4, <1>5, <1>6, HandlerStep

LEMMA StartDkgStep ==
  ASSUME KeyInv, NEW n \in Nodes, NEW m \in net, StartDkg(n, m)
  PROVE  KeyInv' /\ (keys[n] # NoKey => runs'[n] = runs[n])
                 /\ \A p \in Peers(n) : runs'[p] = runs[p]
<1>1. /\ handlers[n] /\ handle_dkg_start(n, dkg[n], net \ {m})
      /\ UNCHANGED <<keys, key_file, handlers, restarts>>
  BY DEF StartDkg, Handles
<1>2. \/ start_dkg(n, dkg[n], net \ {m}) /\ ~dkg[n].dkg_started /\ keys[n] = NoKey
      \/ dkg' = [dkg EXCEPT ![n] = dkg[n]] /\ net' = net \ {m} /\ UNCHANGED runs
  BY <1>1 DEF handle_dkg_start
<1> QED BY <1>1, <1>2, SoundNow, HandlerStep

LEMMA Round1Step ==
  ASSUME KeyInv, NEW n \in Nodes, NEW m \in net, handle_round1_payload(n, m)
  PROVE  KeyInv' /\ (keys[n] # NoKey => runs'[n] = runs[n])
                 /\ \A p \in Peers(n) : runs'[p] = runs[p]
<1> DEFINE s == [dkg[n] EXCEPT !.round1[m.from] = m.run]
<1>1. /\ handlers[n] /\ m.to = n /\ m.type = "Round1"
      /\ UNCHANGED <<keys, key_file, handlers, restarts>>
      /\ \/ start_dkg(n, s, net \ {m}) /\ ~s.dkg_started /\ keys[n] = NoKey
         \/ Continue(n, s, net \ {m})
  BY DEF handle_round1_payload, Handles
<1>2. dkg[n] \in DkgState /\ dkg[n].round1 \in [Nodes -> Nat]
  BY StateFields DEF KeyInv, TypeOK
<1>3. /\ m.from \in Nodes /\ m.from # n /\ m.run \in Nat /\ m.run <= runs[m.from]
      /\ m.run # 0
  BY <1>1, MessageFields DEF WellFormed
<1>4. /\ s \in DkgState /\ s.round1 = [dkg[n].round1 EXCEPT ![m.from] = m.run]
      /\ s.dkg_started = dkg[n].dkg_started /\ s.listeners = dkg[n].listeners
      /\ s.round2 = dkg[n].round2
      /\ s.r1_secret = dkg[n].r1_secret /\ s.r2_secret = dkg[n].r2_secret
  BY <1>2, <1>3 DEF DkgState
<1> HIDE DEF s
<1>5. /\ \A p \in Nodes : s.round1[p] <= runs[p]
      /\ s.round1[n] = 0
  BY <1>2, <1>3, <1>4, SoundNow DEF Sound
<1>6. restarts = 0 /\ s.r2_secret # 0 => Packages(s.round1) = Peers(n)
  BY <1>2, <1>3, <1>4, SoundNow DEF Sound, Packages, Peers
<1>7. Sound(n, s, runs)
  BY <1>4, <1>5, <1>6, SoundNow DEF Sound
<1>8. s.dkg_started = dkg[n].dkg_started
  BY <1>4
<1> QED BY <1>1, <1>7, <1>8, HandlerStep

(* Before the first restart part3 never fails: there is one package of     *)
(* each peer for either round, of the same polynomial.                     *)
LEMMA FirstPart3 ==
  ASSUME KeyInv, restarts = 0, NEW n \in Nodes, NEW s, Sound(n, s, runs), AllRound2(s)
  PROVE  Part3Ok(s) /\ GroupKey(n, s) = [p \in Nodes |-> 1]
<1>1. /\ s \in DkgState /\ s.round1 \in [Nodes -> Nat] /\ s.round2 \in [Nodes -> Nat]
      /\ s.r2_secret \in Nat
  BY StateFields DEF Sound
<1>2. \A p \in Nodes : runs[p] \in 0 .. 1
  <2> TAKE p \in Nodes
  <2>1. FirstRun(p) /\ runs[p] \in Nat
    BY DEF KeyInv, TypeOK
  <2> QED BY <2>1 DEF FirstRun
<1>3. Packages(s.round2) \subseteq Peers(n)
  BY DEF Packages, Peers, Sound
<1>4. Packages(s.round2) = Peers(n) /\ Packages(s.round1) = Peers(n) /\ s.r2_secret # 0
  BY <1>3, AllPeers DEF AllRound2, Sound
<1>5. \A p \in Peers(n) : s.round1[p] = 1 /\ s.round2[p] = 1
  BY <1>1, <1>2, <1>4 DEF Packages, Peers, Sound
<1>6. s.r2_secret = 1 /\ s.round1[n] = 0 /\ s.round2[n] = 0
  BY <1>1, <1>2, <1>4 DEF Sound
<1>7. \A p \in Nodes : s.round1[p] = s.round2[p]
  BY <1>5, <1>6 DEF Peers
<1>8. \A p \in Nodes : [s.round1 EXCEPT ![n] = s.r2_secret][p] = 1
  BY <1>1, <1>5, <1>6 DEF Peers
<1>9. GroupKey(n, s) = [p \in Nodes |-> 1]
  BY <1>1, <1>8 DEF GroupKey
<1> QED BY <1>1, <1>7, <1>9 DEF Part3Ok

LEMMA Round2Step ==
  ASSUME KeyInv, NEW n \in Nodes, NEW m \in net, handle_round2_payload(n, m)
  PROVE  KeyInv' /\ runs' = runs
<1> DEFINE s == [dkg[n] EXCEPT !.round2[m.from] = m.run]
<1>1. /\ handlers[n] /\ m.to = n /\ net' = net \ {m} /\ UNCHANGED <<runs, restarts>>
      /\ \/ AllRound2(s) /\ Part3(n, s)
         \/ dkg' = [dkg EXCEPT ![n] = s] /\ UNCHANGED <<keys, key_file, handlers>>
  BY DEF handle_round2_payload, Handles
<1>2. /\ dkg \in [Nodes -> DkgState] /\ dkg[n] \in DkgState
      /\ dkg[n].round2 \in [Nodes -> Nat]
      /\ keys \in [Nodes -> [Nodes -> Nat]] /\ saved_keys \in [Nodes -> [Nodes -> Nat]]
      /\ readable \in [Nodes -> BOOLEAN] /\ handlers \in [Nodes -> BOOLEAN]
      /\ runs \in [Nodes -> Nat] /\ NoKey \in [Nodes -> Nat] /\ save_keys \subseteq Nodes
  BY StateFields DEF KeyInv, TypeOK, NoKey
<1>3. m.from \in Nodes /\ m.from # n /\ m.run \in Nat /\ m.run <= runs[m.from]
  BY <1>1, MessageFields
<1>4. /\ s \in DkgState /\ s.round2 = [dkg[n].round2 EXCEPT ![m.from] = m.run]
      /\ s.dkg_started = dkg[n].dkg_started /\ s.listeners = dkg[n].listeners
      /\ s.round1 = dkg[n].round1
      /\ s.r1_secret = dkg[n].r1_secret /\ s.r2_secret = dkg[n].r2_secret
  BY <1>2, <1>3 DEF DkgState
<1> HIDE DEF s
<1>5. Sound(n, s, runs)
  <2>1. (\A p \in Nodes : s.round2[p] <= runs[p]) /\ s.round2[n] = 0
    BY <1>2, <1>3, <1>4, SoundNow DEF Sound
  <2> QED BY <1>4, <2>1, SoundNow DEF Sound
<1> DEFINE Goal(t) ==
      /\ dkg' = [dkg EXCEPT ![n] = t] /\ Sound(n, t, runs)
      /\ keys' \in [Nodes -> [Nodes -> Nat]] /\ saved_keys' \in [Nodes -> [Nodes -> Nat]]
      /\ readable' \in [Nodes -> BOOLEAN] /\ handlers' \in [Nodes -> BOOLEAN]
      /\ save_keys' = save_keys
      /\ \A p \in Peers(n) : /\ keys'[p] = keys[p] /\ saved_keys'[p] = saved_keys[p]
                             /\ readable'[p] = readable[p] /\ handlers'[p] = handlers[p]
      /\ handlers'[n] => readable'[n] /\ (n \in save_keys => keys'[n] = saved_keys'[n])
      /\ restarts = 0 => /\ t.dkg_started \/ keys'[n] # NoKey \/ ~handlers'[n] \/ runs[n] # 1
                         /\ keys'[n] # NoKey => keys'[n] = [p \in Nodes |-> 1]
<1>6. ASSUME NEW t, Goal(t) PROVE KeyInv'
  <2>0. /\ save_keys' = save_keys
        /\ \A p \in Peers(n) : /\ keys'[p] = keys[p] /\ saved_keys'[p] = saved_keys[p]
                               /\ readable'[p] = readable[p] /\ handlers'[p] = handlers[p]
        /\ handlers'[n] => readable'[n] /\ (n \in save_keys => keys'[n] = saved_keys'[n])
    BY <1>6
  <2>1. /\ dkg' \in [Nodes -> DkgState]
        /\ \A p \in Nodes : Drawn(p)'
        /\ \A p \in Peers(n) : dkg'[p] = dkg[p]
    <3>0. runs' = runs /\ Sound(n, t, runs)
      BY <1>1, <1>6
    <3>1. Sound(n, t, runs') /\ runs' \in [Nodes -> Nat] /\ \A p \in Nodes : runs[p] <= runs'[p]
      <4>1. runs \in [Nodes -> Nat]
        BY <1>2
      <4> QED BY <3>0, <4>1
    <3>2. dkg' = [dkg EXCEPT ![n] = t] /\ restarts' = restarts /\ runs' = runs
      BY <1>1, <1>6
    <3> QED BY <3>1, <3>2, Handled
  <2>2. \A k \in net' : WellFormed(k, runs')
    BY <1>1, <1>2, OldMessages
  <2>3. TypeOK'
    <3>1. /\ keys' \in [Nodes -> [Nodes -> Nat]] /\ saved_keys' \in [Nodes -> [Nodes -> Nat]]
          /\ readable' \in [Nodes -> BOOLEAN] /\ handlers' \in [Nodes -> BOOLEAN]
          /\ save_keys' = save_keys
      BY <1>6
    <3>2. runs' \in [Nodes -> Nat] /\ restarts' \in Nat /\ save_keys' \subseteq Nodes
      BY <1>1, <1>2, <3>1 DEF KeyInv, TypeOK
    <3> QED BY <2>1, <2>2, <3>1, <3>2 DEF TypeOK, WellFormed
  <2>4. KeysDurable'
    <3>1. KeysDurable
      BY DEF KeyInv
    <3> QED BY <2>0, <3>1 DEF KeysDurable, Peers
  <2>5. ASSUME restarts' = 0 PROVE \A p \in Nodes : FirstRun(p)'
    <3>1. restarts = 0 /\ FirstRun(n)
      BY <1>1, <2>5 DEF KeyInv
    <3>2. \A p \in Peers(n) : FirstRun(p)'
      <4>1. \A p \in Peers(n) : /\ dkg'[p] = dkg[p] /\ keys'[p] = keys[p]
                                /\ runs'[p] = runs[p] /\ handlers'[p] = handlers[p]
        BY <1>1, <2>0, <2>1
      <4> QED BY <3>1, <4>1, PeersFirst
    <3>3. dkg'[n] = t
      BY <1>2, <1>6
    <3>4. t.r2_secret # 0 => Packages(t.round1) = Peers(n)
      BY <1>6, <3>1 DEF Sound
    <3>5. runs'[n] <= 1
      BY <1>1, <3>1 DEF FirstRun
    <3>6. FirstRun(n)'
      BY <1>1, <1>6, <3>1, <3>3, <3>4, <3>5 DEF FirstRun, NoKey
    <3> QED BY <3>2, <3>6 DEF Peers
  <2> QED BY <2>1, <2>2, <2>3, <2>4, <2>5 DEF KeyInv, WellFormed
<1> HIDE DEF Goal
<1>7. CASE dkg' = [dkg EXCEPT ![n] = s] /\ UNCHANGED <<keys, key_file, handlers>>
  <2>1. handlers[n] => readable[n] /\ (n \in save_keys => keys[n] = saved_keys[n])
    BY DEF KeyInv, KeysDurable
  <2>2. restarts = 0 => FirstRun(n)
    BY DEF KeyInv
  <2>3. Goal(s)
    BY <1>2, <1>4, <1>5, <1>7, <2>1, <2>2 DEF Goal, FirstRun, key_file
  <2> QED BY <1>1, <1>6, <2>3
<1>8. CASE AllRound2(s) /\ Part3(n, s)
  <2> DEFINE k == GroupKey(n, s)
             done == [s EXCEPT !.dkg_started = FALSE]
  <2>1. k \in [Nodes -> Nat]
    BY <1>4, StateFields DEF GroupKey
  <2>2. Sound(n, NewDkgState, runs) /\ Sound(n, reset_dkg_state(s), runs)
    <3>1. \A p \in Nodes : runs[p] \in Nat /\ 0 <= runs[p]
      BY <1>2
    <3>2. s.listeners \in SUBSET Nodes /\ s.listeners \subseteq Peers(n)
      BY <1>4, <1>5, StateFields DEF Sound
    <3>3. /\ Sound(n, NewDkgState, runs)
          /\ reset_dkg_state(s) = [NewDkgState EXCEPT !.listeners = s.listeners]
      BY <3>1, NewState DEF Sound, reset_dkg_state
    <3>4. Sound(n, [NewDkgState EXCEPT !.listeners = s.listeners], runs)
      BY <3>1, <3>2, NewState DEF Sound
    <3> QED BY <3>3, <3>4
  <2>3. Sound(n, done, runs)
    <3>1. /\ done \in DkgState /\ done.listeners = s.listeners
          /\ done.round1 = s.round1 /\ done.round2 = s.round2
          /\ done.r1_secret = s.r1_secret /\ done.r2_secret = s.r2_secret
      BY <1>4 DEF DkgState
    <3> HIDE DEF done
    <3> QED BY <1>5, <3>1 DEF Sound
  <2>4. restarts = 0 => Part3Ok(s) /\ k = [p \in Nodes |-> 1] /\ k # NoKey
    BY <1>5, <1>8, FirstPart3 DEF NoKey
  <2>5. restarts = 0 => FirstRun(n)
    BY DEF KeyInv
  <2>6. readable[n] /\ (n \in save_keys => keys[n] = saved_keys[n])
    BY <1>1 DEF KeyInv, KeysDurable
  <2> HIDE DEF k, done
  <2>7. CASE /\ ~Part3Ok(s) /\ dkg' = [dkg EXCEPT ![n] = reset_dkg_state(s)]
             /\ UNCHANGED <<keys, key_file, handlers>>
    <3>1. Goal(reset_dkg_state(s))
      BY <1>2, <2>2, <2>4, <2>6, <2>7 DEF Goal, key_file
    <3> QED BY <1>1, <1>6, <3>1
  <2>8. CASE /\ keys' = [keys EXCEPT ![n] = k] /\ save_dkg_keys(n, k)
             /\ dkg' = [dkg EXCEPT ![n] = done] /\ UNCHANGED handlers
    <3>1. Goal(done)
      BY <1>2, <2>1, <2>3, <2>4, <2>6, <2>8 DEF Goal, save_dkg_keys, Peers
    <3> QED BY <1>1, <1>6, <3>1
  <2>9. CASE /\ keys' = [keys EXCEPT ![n] = k]
             /\ UNCHANGED key_file \/ SaveCutOff(n) \/ save_dkg_keys(n, k)
             /\ dkg' = [dkg EXCEPT ![n] = s] /\ handlers' = [handlers EXCEPT ![n] = FALSE]
    <3>1. /\ save_keys' = save_keys /\ saved_keys' \in [Nodes -> [Nodes -> Nat]]
          /\ readable' \in [Nodes -> BOOLEAN]
          /\ \A p \in Peers(n) : saved_keys'[p] = saved_keys[p] /\ readable'[p] = readable[p]
      <4>1. CASE UNCHANGED key_file
        BY <1>2, <4>1 DEF key_file
      <4>2. CASE SaveCutOff(n)
        BY <1>2, <4>2 DEF SaveCutOff, Peers
      <4>3. CASE save_dkg_keys(n, k)
        BY <1>2, <2>1, <4>3 DEF save_dkg_keys, Peers
      <4> QED BY <2>9, <4>1, <4>2, <4>3
    <3>2. Goal(s)
      BY <1>2, <1>5, <2>1, <2>4, <2>9, <3>1 DEF Goal, Peers
    <3> QED BY <1>1, <1>6, <3>2
  <2>10. CASE /\ SaveCutOff(n) /\ keys' = [keys EXCEPT ![n] = NoKey]
              /\ dkg' = [dkg EXCEPT ![n] = NewDkgState]
              /\ handlers' = [handlers EXCEPT ![n] = FALSE]
    <3>1. Goal(NewDkgState)
      BY <1>2, <2>2, <2>10 DEF Goal, SaveCutOff, Peers
    <3> QED BY <1>1, <1>6, <3>1
  <2> QED BY <1>8, <2>7, <2>8, <2>9, <2>10 DEF Part3, k, done
<1> QED BY <1>1, <1>7, <1>8

-----------------------------------------------------------------------------
(* Restarts, and the whole *)

LEMMA RestartStep ==
  ASSUME KeyInv, NEW n \in Nodes, Restart(n)
  PROVE  KeyInv' /\ runs' = runs
<1>1. /\ dkg \in [Nodes -> DkgState] /\ keys \in [Nodes -> [Nodes -> Nat]]
      /\ saved_keys \in [Nodes -> [Nodes -> Nat]] /\ save_keys \subseteq Nodes
      /\ readable \in [Nodes -> BOOLEAN] /\ handlers \in [Nodes -> BOOLEAN]
      /\ runs \in [Nodes -> Nat] /\ restarts \in Nat
  BY DEF KeyInv, TypeOK
<1>2. NewDkgState \in DkgState
  BY DEF NewDkgState, DkgState
<1>3. restarts' \in Nat /\ restarts' # 0 /\ runs' = runs
  BY <1>1 DEF Restart
<1>4. /\ dkg' \in [Nodes -> DkgState] /\ keys' \in [Nodes -> [Nodes -> Nat]]
      /\ saved_keys' = saved_keys /\ save_keys' = save_keys /\ readable' = readable
      /\ handlers' \in [Nodes -> BOOLEAN]
  BY <1>1, <1>2 DEF Restart, key_file, load_dkg_keys, get_config
<1>5. \A m \in net' : WellFormed(m, runs')
  <2> TAKE m \in net'
  <2>1. \/ m \in net
        \/ \E p \in Peers(n) : m \in {Event("Subscribed", n, p), Event("Subscribed", p, n)}
    BY DEF Restart
  <2> QED BY <1>1, <1>3, <2>1, OldMessages, NewEvents
<1>6. \A p \in Nodes : Drawn(p)'
  <2> TAKE p \in Nodes
  <2>1. CASE p = n
    <3>1. dkg'[n] = NewDkgState
      BY <1>1 DEF Restart
    <3> QED BY <1>1, <1>3, <2>1, <3>1 DEF Drawn, NewDkgState
  <2>2. CASE p # n
    <3>1. dkg'[p] = dkg[p] /\ Drawn(p)
      BY <1>1, <2>2 DEF Restart, KeyInv
    <3> QED BY <1>3, <3>1 DEF Drawn
  <2> QED BY <2>1, <2>2
<1>7. KeysDurable'
  BY <1>1, <1>4 DEF KeyInv, KeysDurable, Restart, load_dkg_keys, get_config
<1>8. TypeOK'
  BY <1>1, <1>3, <1>4, <1>5 DEF TypeOK, WellFormed
<1> QED BY <1>3, <1>5, <1>6, <1>7, <1>8 DEF KeyInv, WellFormed

LEMMA IgnoreStep ==
  ASSUME KeyInv, NEW n \in Nodes, NEW m \in net, Ignore(n, m)
  PROVE  KeyInv' /\ runs' = runs
  BY DEF KeyInv, TypeOK, Drawn, FirstRun, KeysDurable, Ignore, key_file, NoKey

LEMMA InitInv ==
  ASSUME Init
  PROVE  KeyInv
<1>1. NewDkgState \in DkgState /\ NoKey \in [Nodes -> Nat]
  BY DEF NewDkgState, DkgState, NoKey
<1>2. runs \in [Nodes -> Nat] /\ \A n \in Nodes : runs[n] = 0
  BY DEF Init
<1>3. \A m \in net : WellFormed(m, runs)
  BY <1>2, NewEvents DEF Init
<1>4. TypeOK
  BY <1>1, <1>3 DEF Init, TypeOK, WellFormed
<1>5. \A n \in Nodes : Drawn(n) /\ FirstRun(n)
  BY <1>2 DEF Init, Drawn, FirstRun, NewDkgState
<1>6. KeysDurable
  BY DEF Init, KeysDurable
<1> QED BY <1>3, <1>4, <1>5, <1>6 DEF KeyInv, WellFormed

(* One step: the invariant is kept, and a node with keys draws nothing.    *)
LEMMA StepInv ==
  ASSUME KeyInv, [Next]_vars
  PROVE  KeyInv' /\ \A n \in Nodes : keys[n] # NoKey => runs'[n] = runs[n]
<1>1. CASE UNCHANGED vars
  BY <1>1 DEF KeyInv, TypeOK, Drawn, FirstRun, KeysDurable, vars, key_file, NoKey
<1>2. ASSUME NEW n \in Nodes, Restart(n)
      PROVE  KeyInv' /\ runs' = runs
  BY <1>2, RestartStep
<1>3. ASSUME NEW n \in Nodes, NEW m \in net,
             \/ Subscribed(n, m) \/ StartDkg(n, m) \/ handle_round1_payload(n, m)
             \/ handle_round2_payload(n, m) \/ Ignore(n, m)
      PROVE  KeyInv' /\ (keys[n] # NoKey => runs'[n] = runs[n])
                     /\ \A p \in Peers(n) : runs'[p] = runs[p]
  BY <1>3, SubscribedStep, StartDkgStep, Round1Step, Round2Step, IgnoreStep
<1> QED BY <1>1, <1>2, <1>3 DEF Next, Peers

-----------------------------------------------------------------------------
(* Where key generation stops *)

LEMMA PeersAdvanced ==
  ASSUME NEW n \in Nodes, \A p \in Nodes : Advanced(p),
         \A p \in Peers(n) : /\ dkg'[p] = dkg[p] /\ keys'[p] = keys[p]
                             /\ runs'[p] = runs[p] /\ handlers'[p] = handlers[p]
  PROVE  \A p \in Peers(n) : Advanced(p)'
<1> TAKE p \in Peers(n)
<1>1. Advanced(p)
  BY DEF Peers
<1>2. /\ dkg'[p] = dkg[p] /\ keys'[p] = keys[p]
      /\ runs'[p] = runs[p] /\ handlers'[p] = handlers[p]
  OBVIOUS
<1> QED BY <1>1, <1>2 DEF Advanced, NoKey

(* try_enter_round2 leaves a node in round 2, or short of a package.       *)
LEMMA TryAdvances ==
  ASSUME NEW s \in DkgState, s.r1_secret # 0 \/ s.r2_secret # 0
  PROVE  LET t == try_enter_round2(s)
         IN  t.r2_secret # 0 \/ (t.r1_secret # 0 /\ ~AllRound1(t))
<1>1. CASE AllRound1(s)
  <2>1. [s EXCEPT !.r1_secret = 0, !.r2_secret = s.r1_secret].r2_secret = s.r1_secret
    BY DEF DkgState
  <2> QED BY <1>1, <2>1 DEF try_enter_round2, AllRound1
<1>2. CASE ~AllRound1(s)
  BY <1>2 DEF try_enter_round2
<1> QED BY <1>1, <1>2

(* A handler that calls part1, or that only takes a package, in the same   *)
(* state s and with the same cases as HandlerStep.                         *)
LEMMA HandlerAdvances ==
  ASSUME KeyInv, NEW n \in Nodes, NEW s \in DkgState, NEW rest, handlers[n],
         \A p \in Nodes : Advanced(p),
         s.r1_secret = dkg[n].r1_secret, s.r2_secret = dkg[n].r2_secret,
         s.dkg_started = dkg[n].dkg_started,
         \/ start_dkg(n, s, rest)
         \/ Continue(n, s, rest) /\ (s.dkg_started \/ keys[n] # NoKey)
         \/ dkg' = [dkg EXCEPT ![n] = s] /\ s.round1 = dkg[n].round1 /\ UNCHANGED runs,
         UNCHANGED <<keys, key_file, handlers, restarts>>
  PROVE  \A p \in Nodes : Advanced(p)'
<1>0. /\ dkg \in [Nodes -> DkgState] /\ runs \in [Nodes -> Nat] /\ keys' = keys
      /\ handlers' = handlers /\ Advanced(n)
  BY DEF KeyInv, TypeOK
<1>1. CASE start_dkg(n, s, rest)
  <2> DEFINE s1 == [s EXCEPT !.dkg_started = TRUE, !.r1_secret = runs[n] + 1]
             t == try_enter_round2(s1)
  <2>1. runs' = [runs EXCEPT ![n] = @ + 1] /\ dkg' = [dkg EXCEPT ![n] = t]
    BY <1>1 DEF start_dkg
  <2>2. s1 \in DkgState /\ s1.r1_secret # 0
    <3>1. runs[n] \in Nat /\ runs[n] + 1 # 0
      BY <1>0
    <3>2. s1 \in DkgState /\ s1.r1_secret = runs[n] + 1
      BY <3>1, StartedState
    <3> QED BY <3>1, <3>2
  <2> HIDE DEF s1
  <2>3. t.r2_secret # 0 \/ (t.r1_secret # 0 /\ ~AllRound1(t))
    BY <2>2, TryAdvances
  <2> HIDE DEF t
  <2>4. dkg'[n] = t /\ runs'[n] # 0
    BY <1>0, <2>1
  <2>5. Advanced(n)'
    BY <2>3, <2>4 DEF Advanced
  <2>6. \A p \in Peers(n) : /\ dkg'[p] = dkg[p] /\ keys'[p] = keys[p]
                            /\ runs'[p] = runs[p] /\ handlers'[p] = handlers[p]
    BY <1>0, <2>1 DEF Peers
  <2> QED BY <2>5, <2>6, PeersAdvanced DEF Peers
<1>2. CASE Continue(n, s, rest) /\ (s.dkg_started \/ keys[n] # NoKey)
  <2> DEFINE t == try_enter_round2(s)
  <2>1. runs' = runs /\ dkg' = [dkg EXCEPT ![n] = t]
    BY <1>2 DEF Continue
  <2>2. runs[n] # 0 /\ (s.r1_secret # 0 \/ s.r2_secret # 0)
    BY <1>0, <1>2 DEF Advanced
  <2>3. t.r2_secret # 0 \/ (t.r1_secret # 0 /\ ~AllRound1(t))
    BY <2>2, TryAdvances
  <2> HIDE DEF t
  <2>4. dkg'[n] = t /\ runs'[n] # 0
    BY <1>0, <2>1, <2>2
  <2>5. Advanced(n)'
    BY <2>3, <2>4 DEF Advanced
  <2>6. \A p \in Peers(n) : /\ dkg'[p] = dkg[p] /\ keys'[p] = keys[p]
                            /\ runs'[p] = runs[p] /\ handlers'[p] = handlers[p]
    BY <1>0, <2>1 DEF Peers
  <2> QED BY <2>5, <2>6, PeersAdvanced DEF Peers
<1>3. CASE dkg' = [dkg EXCEPT ![n] = s] /\ s.round1 = dkg[n].round1 /\ UNCHANGED runs
  <2>1. dkg'[n] = s /\ runs' = runs
    BY <1>0, <1>3
  <2>2. AllRound1(s) <=> AllRound1(dkg[n])
    BY <1>3 DEF AllRound1
  <2>3. Advanced(n)'
    BY <1>0, <1>3, <2>1, <2>2 DEF Advanced, NoKey
  <2>4. \A p \in Peers(n) : /\ dkg'[p] = dkg[p] /\ keys'[p] = keys[p]
                            /\ runs'[p] = runs[p] /\ handlers'[p] = handlers[p]
    BY <1>0, <1>3, <2>1 DEF Peers
  <2> QED BY <2>3, <2>4, PeersAdvanced DEF Peers
<1> QED BY <1>1, <1>2, <1>3

(* The last round 2 package ends with keys, or with the loss of handlers.  *)
LEMMA Round2Advances ==
  ASSUME KeyInv, NEW n \in Nodes, NEW m \in net, handle_round2_payload(n, m),
         restarts = 0, \A p \in Nodes : Advanced(p)
  PROVE  \A p \in Nodes : Advanced(p)'
<1> DEFINE s == [dkg[n] EXCEPT !.round2[m.from] = m.run]
<1>1. /\ handlers[n] /\ m.to = n /\ UNCHANGED <<runs, restarts>>
      /\ \/ AllRound2(s) /\ Part3(n, s)
         \/ dkg' = [dkg EXCEPT ![n] = s] /\ UNCHANGED <<keys, key_file, handlers>>
  BY DEF handle_round2_payload, Handles
<1>2. /\ dkg \in [Nodes -> DkgState] /\ dkg[n] \in DkgState
      /\ dkg[n].round2 \in [Nodes -> Nat]
      /\ keys \in [Nodes -> [Nodes -> Nat]] /\ handlers \in [Nodes -> BOOLEAN]
      /\ runs \in [Nodes -> Nat] /\ Advanced(n)
  BY StateFields DEF KeyInv, TypeOK
<1>3. m.from \in Nodes /\ m.from # n /\ m.run \in Nat /\ m.run <= runs[m.from]
  BY <1>1, MessageFields
<1>4. /\ s \in DkgState /\ s.round2 = [dkg[n].round2 EXCEPT ![m.from] = m.run]
      /\ s.dkg_started = dkg[n].dkg_started /\ s.listeners = dkg[n].listeners
      /\ s.round1 = dkg[n].round1
      /\ s.r1_secret = dkg[n].r1_secret /\ s.r2_secret = dkg[n].r2_secret
  BY <1>2, <1>3 DEF DkgState
<1> HIDE DEF s
<1>5. Sound(n, s, runs)
  <2>1. (\A p \in Nodes : s.round2[p] <= runs[p]) /\ s.round2[n] = 0
    BY <1>2, <1>3, <1>4, SoundNow DEF Sound
  <2> QED BY <1>4, <2>1, SoundNow DEF Sound
<1>6. CASE dkg' = [dkg EXCEPT ![n] = s] /\ UNCHANGED <<keys, key_file, handlers>>
  <2>1. UNCHANGED <<keys, key_file, handlers, restarts>>
    BY <1>1, <1>6
  <2>2. dkg' = [dkg EXCEPT ![n] = s] /\ s.round1 = dkg[n].round1 /\ UNCHANGED runs
    BY <1>1, <1>4, <1>6
  <2>3. s.r1_secret = dkg[n].r1_secret /\ s.r2_secret = dkg[n].r2_secret
    BY <1>4
  <2>4. s \in DkgState /\ s.dkg_started = dkg[n].dkg_started /\ handlers[n]
    BY <1>1, <1>4
  <2> QED BY <2>1, <2>2, <2>3, <2>4, HandlerAdvances
<1>7. CASE AllRound2(s) /\ Part3(n, s)
  <2> DEFINE done == [s EXCEPT !.dkg_started = FALSE]
  <2>1. Part3Ok(s)
    BY <1>5, <1>7, FirstPart3
  <2>2. done.r2_secret = s.r2_secret /\ s.r2_secret # 0 /\ runs[n] # 0
    BY <1>2, <1>4, <1>5, <1>7 DEF DkgState, AllRound2, Sound
  <2> HIDE DEF done
  <2>3. /\ \A p \in Peers(n) : /\ dkg'[p] = dkg[p] /\ keys'[p] = keys[p]
                               /\ handlers'[p] = handlers[p]
        /\ ~handlers'[n] \/ dkg'[n] = done
    BY <1>2, <1>7, <2>1 DEF Part3, Peers, done
  <2>4. Advanced(n)'
    BY <1>1, <2>2, <2>3 DEF Advanced
  <2> QED BY <1>1, <2>3, <2>4, PeersAdvanced DEF Peers
<1> QED BY <1>1, <1>6, <1>7

LEMMA StallStep ==
  ASSUME KeyInv, StallInv, [Next]_vars
  PROVE  StallInv'
<1> SUFFICES ASSUME restarts' = 0 PROVE \A p \in Nodes : Advanced(p)'
  BY DEF StallInv
<1>1. CASE UNCHANGED vars
  BY <1>1 DEF StallInv, Advanced, vars, NoKey
<1>2. ASSUME NEW n \in Nodes, Restart(n) PROVE FALSE
  BY <1>2 DEF Restart, KeyInv, TypeOK
<1>3. ASSUME NEW n \in Nodes, NEW m \in net, Ignore(n, m) PROVE \A p \in Nodes : Advanced(p)'
  BY <1>3 DEF StallInv, Ignore, Advanced, NoKey
<1>4. ASSUME NEW n \in Nodes, NEW m \in net, Subscribed(n, m)
      PROVE  \A p \in Nodes : Advanced(p)'
  <2> DEFINE s == [dkg[n] EXCEPT !.listeners = @ \cup {m.from}]
  <2>1. /\ handlers[n] /\ handle_dkg_start(n, s, net \ {m})
        /\ UNCHANGED <<keys, key_file, handlers, restarts>>
    BY <1>4 DEF Subscribed, Handles
  <2>2. dkg[n] \in DkgState /\ m.from \in Nodes
    BY <1>4, MessageFields DEF KeyInv, TypeOK
  <2>3. /\ s \in DkgState /\ s.dkg_started = dkg[n].dkg_started /\ s.round1 = dkg[n].round1
        /\ s.r1_secret = dkg[n].r1_secret /\ s.r2_secret = dkg[n].r2_secret
    BY <2>2 DEF DkgState
  <2> HIDE DEF s
  <2>4. \/ start_dkg(n, s, net \ {m})
        \/ dkg' = [dkg EXCEPT ![n] = s] /\ s.round1 = dkg[n].round1 /\ UNCHANGED runs
    BY <2>1, <2>3 DEF handle_dkg_start
  <2>5. \A p \in Nodes : Advanced(p)
    BY <2>1 DEF StallInv
  <2> QED BY <2>1, <2>3, <2>4, <2>5, HandlerAdvances
<1>5. ASSUME NEW n \in Nodes, NEW m \in net, StartDkg(n, m)
      PROVE  \A p \in Nodes : Advanced(p)'
  <2>1. /\ handlers[n] /\ handle_dkg_start(n, dkg[n], net \ {m})
        /\ UNCHANGED <<keys, key_file, handlers, restarts>>
    BY <1>5 DEF StartDkg, Handles
  <2>2. dkg[n] \in DkgState
    BY DEF KeyInv, TypeOK
  <2>3. \/ start_dkg(n, dkg[n], net \ {m})
        \/ dkg' = [dkg EXCEPT ![n] = dkg[n]] /\ UNCHANGED runs
    BY <2>1 DEF handle_dkg_start
  <2>4. \A p \in Nodes : Advanced(p)
    BY <2>1 DEF StallInv
  <2> QED BY <2>1, <2>2, <2>3, <2>4, HandlerAdvances
<1>6. ASSUME NEW n \in Nodes, NEW m \in net, handle_round1_payload(n, m)
      PROVE  \A p \in Nodes : Advanced(p)'
  <2> DEFINE s == [dkg[n] EXCEPT !.round1[m.from] = m.run]
  <2>1. /\ handlers[n]
        /\ UNCHANGED <<keys, key_file, handlers, restarts>>
        /\ \/ start_dkg(n, s, net \ {m})
           \/ Continue(n, s, net \ {m}) /\ (s.dkg_started \/ keys[n] # NoKey)
    BY <1>6 DEF handle_round1_payload, Handles
  <2>2. dkg[n] \in DkgState /\ dkg[n].round1 \in [Nodes -> Nat]
    BY StateFields DEF KeyInv, TypeOK
  <2>3. m.from \in Nodes /\ m.run \in Nat
    BY <1>6, MessageFields
  <2>4. /\ s \in DkgState /\ s.dkg_started = dkg[n].dkg_started
        /\ s.r1_secret = dkg[n].r1_secret /\ s.r2_secret = dkg[n].r2_secret
    BY <2>2, <2>3 DEF DkgState
  <2> HIDE DEF s
  <2>5. \A p \in Nodes : Advanced(p)
    BY <2>1 DEF StallInv
  <2> QED BY <2>1, <2>4, <2>5, HandlerAdvances
<1>7. ASSUME NEW n \in Nodes, NEW m \in net, handle_round2_payload(n, m)
      PROVE  \A p \in Nodes : Advanced(p)'
  <2>1. restarts = 0
    BY <1>7 DEF handle_round2_payload
  <2> QED BY <1>7, <2>1, Round2Advances DEF StallInv
<1> QED BY <1>1, <1>2, <1>3, <1>4, <1>5, <1>6, <1>7 DEF Next

LEMMA PeerCount ==
  ASSUME NEW n \in Nodes
  PROVE  Peers(n) # {} /\ Cardinality(Peers(n)) + 1 = max_signers
<1>1. IsFiniteSet(Nodes) /\ IsFiniteSet(Peers(n))
  BY NodesAssumption, FS_RemoveElement DEF Peers
<1>2. Cardinality(Peers(n)) = Cardinality(Nodes) - 1
  BY <1>1, FS_RemoveElement DEF Peers
<1>3. Cardinality(Nodes) \in Nat /\ Cardinality(Peers(n)) # 0
  BY <1>1, <1>2, FS_CardinalityType, SignersAssumption
<1>4. Cardinality({}) = 0
  BY FS_EmptySet
<1>5. Cardinality(Peers(n)) + 1 = Cardinality(Nodes)
  BY <1>2, <1>3
<1> QED BY <1>3, <1>4, <1>5 DEF max_signers

LEMMA StallsExplained ==
  ASSUME KeyInv, StallInv
  PROVE  KnownStallsOnly
<1> SUFFICES ASSUME Undisturbed, NEW q \in Nodes, keys[q] = NoKey,
                    \A n \in Nodes : \A p \in Peers(n) : ~Missed(n, p)
             PROVE  LastToRound2(q)
  BY DEF KnownStallsOnly
<1>1. ASSUME NEW n \in Nodes PROVE dkg[n].r2_secret # 0
  <2>1. Sound(n, dkg[n], runs) /\ Advanced(n) /\ handlers[n]
    BY SoundNow DEF Undisturbed, StallInv
  <2>2. Packages(dkg[n].round1) = Peers(n)
    BY <2>1 DEF Packages, Peers, Missed, Sound
  <2>3. dkg[n].r2_secret # 0 \/ (dkg[n].r1_secret # 0 /\ ~AllRound1(dkg[n]))
    BY <2>1, <2>2, PeerCount DEF Advanced
  <2> QED BY <2>2, <2>3, PeerCount DEF AllRound1
<1>2. Sound(q, dkg[q], runs)
  BY SoundNow
<1>3. Packages(dkg[q].round2) = Peers(q)
  BY <1>1, <1>2 DEF Packages, Peers, Missed, Sound
<1> QED BY <1>1, <1>3, PeerCount DEF LastToRound2, AllRound2

(* DkgInv is an inductive invariant of key generation: of handle_dkg_start,*)
(* the handlers of both rounds, part3 with its save, and restarts.         *)
THEOREM Inductive == Spec => []DkgInv
<1>1. Init => DkgInv
  <2>1. ASSUME Init PROVE \A n \in Nodes : Advanced(n)
    BY <2>1 DEF Init, Advanced, NewDkgState, Packages
  <2> QED BY <2>1, InitInv DEF DkgInv, StallInv
<1>2. DkgInv /\ [Next]_vars => DkgInv'
  BY StepInv, StallStep DEF DkgInv
<1> QED BY <1>1, <1>2, PTL DEF Spec

(* Without a restart any two nodes that finish key generation have shares  *)
(* of the same group key: no handler lets a node draw a second polynomial. *)
THEOREM Agreement == Spec => []KeyAgreement
<1>1. DkgInv => KeyAgreement
  BY DEF DkgInv, KeyInv, FirstRun, KeyAgreement
<1> QED BY <1>1, Inductive, PTL

(* A node that still has its handlers signs with the keys in its key file. *)
THEOREM Durable == Spec => []KeysDurable
<1>1. DkgInv => KeysDurable
  BY DEF DkgInv, KeyInv
<1> QED BY <1>1, Inductive, PTL

(* A node with keys never calls part1 again, restarts included.            *)
THEOREM RunsEnd == Spec => KeysEndTheRuns
<1>1. DkgInv /\ [Next]_vars => [\A n \in Nodes : keys[n] # NoKey => runs'[n] = runs[n]]_vars
  BY StepInv DEF DkgInv
<1> QED BY <1>1, Inductive, PTL DEF Spec, KeysEndTheRuns

(* An undisturbed key generation that came to rest without keys lost a     *)
(* package to a peer not seen in time, or entered round 2 too late.        *)
THEOREM StallsKnown == Spec => []KnownStallsOnly
<1>1. DkgInv => KnownStallsOnly
  BY StallsExplained DEF DkgInv
<1> QED BY <1>1, Inductive, PTL
=============================================================================
