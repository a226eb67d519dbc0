-------------------------------- MODULE Dkg ---------------------------------
(***************************************************************************)
(* Distributed key generation (crates/node/src/handlers/dkg).              *)
(*                                                                         *)
(* A node that has seen every other signer subscribe, or that receives a   *)
(* round 1 package, calls part1 and broadcasts its package.  With all      *)
(* round 1 packages it calls part2 and sends each peer it knows its own    *)
(* round 2 package; the round 2 package that completes the set runs part3, *)
(* which yields the group key, saves it and creates the genesis block.     *)
(*                                                                         *)
(* Gossip and direct requests are separate channels: nothing orders a      *)
(* message of one with respect to a message of the other.  A restart loses *)
(* the DkgState; only keys in the key file survive it.  The file holds the *)
(* node's own key pair as well and is rewritten in place: a save that is   *)
(* cut off leaves a file that does not parse, and a node that cannot start.*)
(***************************************************************************)
EXTENDS Integers, FiniteSets

CONSTANTS
    Nodes,        \* the signers; max_signers is their number
    SaveFails,    \* nodes whose save_dkg_keys or genesis block may fail
    Unsaved,      \* nodes that may be configured with save_keys false
    MaxRestarts   \* bound: restarts of a node

ASSUME NodesAssumption ==
    IsFiniteSet(Nodes) /\ SaveFails \subseteq Nodes /\ Unsaved \subseteq Nodes
(* part1 refuses a key generation with fewer than two signers.             *)
ASSUME SignersAssumption == Cardinality(Nodes) >= 2
ASSUME RestartAssumption == MaxRestarts \in Nat

VARIABLES
    dkg,         \* DkgState of each node
    keys,        \* NodeState.private_key_package and pubkey_package
    save_keys,   \* NodeConfig.save_keys: the nodes where it is true
    saved_keys,  \* dkg_keys in the key file
    readable,    \* the key file parses
    handlers,    \* NodeState.handlers is not empty
    runs,        \* history: calls of part1 by each node
    net,         \* messages and events on their way
    restarts     \* history: restarts so far

key_file == <<save_keys, saved_keys, readable>>
vars == <<dkg, keys, key_file, handlers, runs, net, restarts>>

-----------------------------------------------------------------------------
(* State and messages *)

max_signers == Cardinality(Nodes)

Peers(n) == Nodes \ {n}

(* A polynomial is the number of the part1 call that drew it; 0 is none.   *)
(* dkg_listeners and round1_listeners always receive the same insert.      *)
DkgState == [dkg_started : BOOLEAN, listeners : SUBSET Nodes,
             round1 : [Nodes -> Nat], round2 : [Nodes -> Nat],
             r1_secret : Nat, r2_secret : Nat]

NewDkgState == [dkg_started |-> FALSE, listeners |-> {},
                round1 |-> [p \in Nodes |-> 0], round2 |-> [p \in Nodes |-> 0],
                r1_secret |-> 0, r2_secret |-> 0]

(* A group key is the sum of one polynomial of each signer.                *)
NoKey == [p \in Nodes |-> 0]

Event(type, n, p) == [type |-> type, from |-> n, to |-> p, run |-> 0]

Package(type, n, p, run) == [type |-> type, from |-> n, to |-> p, run |-> run]

Packages(s) == {p \in Nodes : s[p] # 0}

-----------------------------------------------------------------------------
(* Entering a round *)

(* The condition of try_enter_round2.                                      *)
AllRound1(s) == s.r1_secret # 0 /\ Cardinality(Packages(s.round1)) + 1 = max_signers

(* try_enter_round2: part2 turns the round 1 secret into a round 2 secret. *)
try_enter_round2(s) ==
    IF AllRound1(s) THEN [s EXCEPT !.r1_secret = 0, !.r2_secret = s.r1_secret] ELSE s

(* Variant of Round2Packages: the sender is among the receivers.           *)
Round2ToSelf(n, s) ==
    {Package("Round2", n, p, s.r1_secret) : p \in IF AllRound1(s) THEN s.listeners \cup {n} ELSE {}}

(* ... and sends a package to the peers seen so far, and to no other.      *)
Round2Packages(n, s) ==
    {Package("Round2", n, p, s.r1_secret) : p \in IF AllRound1(s) THEN s.listeners ELSE {}}

(* start_dkg, with the rest of the messages: part1, then a start signal and *)
(* the package by gossip.  They reach every subscribed peer; a peer not    *)
(* seen yet may miss them.                                                 *)
start_dkg(n, s, rest) ==
    LET s1 == [s EXCEPT !.dkg_started = TRUE, !.r1_secret = runs[n] + 1]
    IN  \E reached \in SUBSET Peers(n) :
            /\ s.listeners \subseteq reached
            /\ runs' = [runs EXCEPT ![n] = @ + 1]
            /\ dkg' = [dkg EXCEPT ![n] = try_enter_round2(s1)]
            /\ net' = rest \cup {Event("StartDkg", n, p) : p \in reached}
                           \cup {Package("Round1", n, p, runs[n] + 1) : p \in reached}
                           \cup Round2Packages(n, s1)

(* Variant of Continue: round 2 is entered from start_dkg only.            *)
ContinueRound1(n, s, rest) ==
    /\ dkg' = [dkg EXCEPT ![n] = s]
    /\ net' = rest
    /\ UNCHANGED runs

(* A handler that starts no run may still enter round 2.                   *)
Continue(n, s, rest) ==
    /\ dkg' = [dkg EXCEPT ![n] = try_enter_round2(s)]
    /\ net' = rest \cup Round2Packages(n, s)
    /\ UNCHANGED runs

(* Variant of handle_dkg_start: existing keys are not looked at.           *)
StartDespiteKeys(n, s, rest) ==
    IF s.dkg_started \/ Cardinality(s.listeners) + 1 < max_signers
    THEN /\ dkg' = [dkg EXCEPT ![n] = s]
         /\ net' = rest
         /\ UNCHANGED runs
    ELSE start_dkg(n, s, rest)

(* handle_dkg_start: once, without keys, and when everyone has subscribed. *)
handle_dkg_start(n, s, rest) ==
    IF s.dkg_started \/ keys[n] # NoKey \/ Cardinality(s.listeners) + 1 < max_signers
    THEN /\ dkg' = [dkg EXCEPT ![n] = s]
         /\ net' = rest
         /\ UNCHANGED runs
    ELSE start_dkg(n, s, rest)

-----------------------------------------------------------------------------
(* The handler *)

Handles(n, m) == m \in net /\ m.to = n /\ handlers[n]

Subscribed(n, m) ==
    /\ Handles(n, m) /\ m.type = "Subscribed"
    /\ handle_dkg_start(n, [dkg[n] EXCEPT !.listeners = @ \cup {m.from}], net \ {m})
    /\ UNCHANGED <<keys, key_file, handlers, restarts>>

StartDkg(n, m) ==
    /\ Handles(n, m) /\ m.type = "StartDkg"
    /\ handle_dkg_start(n, dkg[n], net \ {m})
    /\ UNCHANGED <<keys, key_file, handlers, restarts>>

(* Variant of handle_round1_payload: existing keys are not looked at.      *)
Round1StartsDespiteKeys(n, m) ==
    LET s == [dkg[n] EXCEPT !.round1[m.from] = m.run]
    IN  /\ Handles(n, m) /\ m.type = "Round1"
        /\ IF ~s.dkg_started
           THEN start_dkg(n, s, net \ {m})
           ELSE Continue(n, s, net \ {m})
        /\ UNCHANGED <<keys, key_file, handlers, restarts>>

(* handle_round1_payload: a package starts a run that has not started yet, *)
(* whoever has subscribed.                                                 *)
handle_round1_payload(n, m) ==
    LET s == [dkg[n] EXCEPT !.round1[m.from] = m.run]
    IN  /\ Handles(n, m) /\ m.type = "Round1"
        /\ IF ~s.dkg_started /\ keys[n] = NoKey
           THEN start_dkg(n, s, net \ {m})
           ELSE Continue(n, s, net \ {m})
        /\ UNCHANGED <<keys, key_file, handlers, restarts>>

(* part3 checks every round 2 share against the sender's round 1 package.  *)
Part3Ok(s) == s.round1 = s.round2

GroupKey(n, s) == [s.round1 EXCEPT ![n] = s.r2_secret]

(* reset_dkg_state: only the listeners stay.                               *)
reset_dkg_state(s) == [NewDkgState EXCEPT !.listeners = s.listeners]

(* Variant of Part3: the keys are not saved.                               *)
Part3WithoutSave(n, s) ==
    /\ keys' = IF Part3Ok(s) THEN [keys EXCEPT ![n] = GroupKey(n, s)] ELSE keys
    /\ dkg' = [dkg EXCEPT ![n] = IF Part3Ok(s) THEN [s EXCEPT !.dkg_started = FALSE]
                                               ELSE reset_dkg_state(s)]
    /\ UNCHANGED <<key_file, handlers>>

(* NodeConfig::save_dkg_keys                                               *)
save_dkg_keys(n, k) ==
    /\ saved_keys' = IF n \in save_keys THEN [saved_keys EXCEPT ![n] = k] ELSE saved_keys
    /\ UNCHANGED <<save_keys, readable>>

(* The write is cut off, by an error or by the end of the process: the     *)
(* file was emptied when it was opened.                                    *)
SaveCutOff(n) ==
    /\ n \in save_keys
    /\ readable' = [readable EXCEPT ![n] = FALSE]
    /\ saved_keys' = [saved_keys EXCEPT ![n] = NoKey]
    /\ UNCHANGED save_keys

(* The tail of handle_round2_payload: the keys are set, saved, and the     *)
(* genesis block is created.  An error leaves the handler, and the         *)
(* dispatcher loses every handler of the node.  Or the node stops while it *)
(* saves.                                                                  *)
Part3(n, s) ==
    \/ /\ ~Part3Ok(s)
       /\ dkg' = [dkg EXCEPT ![n] = reset_dkg_state(s)]
       /\ UNCHANGED <<keys, key_file, handlers>>
    \/ /\ Part3Ok(s)
       /\ keys' = [keys EXCEPT ![n] = GroupKey(n, s)]
       /\ \/ /\ save_dkg_keys(n, GroupKey(n, s))
             /\ dkg' = [dkg EXCEPT ![n] = [s EXCEPT !.dkg_started = FALSE]]
             /\ UNCHANGED handlers
          \/ /\ n \in SaveFails
             /\ UNCHANGED key_file \/ SaveCutOff(n) \/ save_dkg_keys(n, GroupKey(n, s))
             /\ dkg' = [dkg EXCEPT ![n] = s]
             /\ handlers' = [handlers EXCEPT ![n] = FALSE]
    \/ /\ Part3Ok(s) /\ n \in SaveFails /\ SaveCutOff(n)
       /\ keys' = [keys EXCEPT ![n] = NoKey]
       /\ dkg' = [dkg EXCEPT ![n] = NewDkgState]
       /\ handlers' = [handlers EXCEPT ![n] = FALSE]

AllRound2(s) == s.r2_secret # 0 /\ Cardinality(Packages(s.round2)) + 1 = max_signers

handle_round2_payload(n, m) ==
    LET s == [dkg[n] EXCEPT !.round2[m.from] = m.run]
    IN  /\ Handles(n, m) /\ m.type = "Round2"
        /\ net' = net \ {m}
        /\ IF AllRound2(s)
           THEN Part3(n, s)
           ELSE dkg' = [dkg EXCEPT ![n] = s] /\ UNCHANGED <<keys, key_file, handlers>>
        /\ UNCHANGED <<runs, restarts>>

(* A node without handlers takes the event from the channel and drops it.  *)
Ignore(n, m) ==
    /\ m \in net /\ m.to = n /\ ~handlers[n]
    /\ net' = net \ {m}
    /\ UNCHANGED <<dkg, keys, key_file, handlers, runs, restarts>>

(* NodeConfig::get_config: the key file must parse.                        *)
get_config(n) == readable[n]

(* NodeConfig::load_dkg_keys: the keys that save_dkg_keys last wrote.      *)
load_dkg_keys(n) == saved_keys[n]

(* The process runs: a node without a key file to read cannot start, and   *)
(* one that was running then had just made its keys.                       *)
Up(n) == get_config(n) \/ keys[n] # NoKey

(* A restart: what was on its way to the node is lost, the keys come from  *)
(* the key file, and the node and its peers see each other subscribe.  A   *)
(* node whose key file does not parse stops before it joins the network.   *)
Restart(n) ==
    /\ restarts < MaxRestarts
    /\ dkg' = [dkg EXCEPT ![n] = NewDkgState]
    /\ keys' = [keys EXCEPT ![n] = load_dkg_keys(n)]
    /\ handlers' = [handlers EXCEPT ![n] = get_config(n)]
    /\ net' = {m \in net : m.to # n} \cup
               UNION {{Event("Subscribed", n, p), Event("Subscribed", p, n)} :
                          p \in {q \in Peers(n) : get_config(n) /\ Up(q)}}
    /\ restarts' = restarts + 1
    /\ UNCHANGED <<key_file, runs>>

(* The first start after the command line tool's setup: a key file without *)
(* dkg_keys.                                                               *)
Init ==
    /\ dkg = [n \in Nodes |-> NewDkgState]
    /\ keys = [n \in Nodes |-> NoKey]
    /\ save_keys \in {Nodes \ ns : ns \in SUBSET Unsaved}
    /\ saved_keys = [n \in Nodes |-> NoKey]
    /\ readable = [n \in Nodes |-> TRUE]
    /\ handlers = [n \in Nodes |-> TRUE]
    /\ runs = [n \in Nodes |-> 0]
    /\ net = UNION {{Event("Subscribed", p, n) : p \in Peers(n)} : n \in Nodes}
    /\ restarts = 0

Next == \E n \in Nodes :
    \/ Restart(n)
    \/ \E m \in net : \/ Subscribed(n, m)
                      \/ StartDkg(n, m)
                      \/ handle_round1_payload(n, m)
                      \/ handle_round2_payload(n, m)
                      \/ Ignore(n, m)

Spec == Init /\ [][Next]_vars

-----------------------------------------------------------------------------
(* Properties *)

(* Every variable has the type its Rust field has, and no package is       *)
(* addressed to its own sender.                                            *)
TypeOK ==
    /\ dkg \in [Nodes -> DkgState]
    /\ keys \in [Nodes -> [Nodes -> Nat]] /\ saved_keys \in [Nodes -> [Nodes -> Nat]]
    /\ save_keys \subseteq Nodes /\ readable \in [Nodes -> BOOLEAN]
    /\ handlers \in [Nodes -> BOOLEAN] /\ runs \in [Nodes -> Nat] /\ restarts \in Nat
    /\ \A m \in net : /\ m.type \in {"Subscribed", "StartDkg", "Round1", "Round2"}
                      /\ m.to \in Nodes /\ m.from \in Peers(m.to) /\ m.run \in 0 .. runs[m.from]

(* As long as no node restarts, any two nodes that hold keys hold shares   *)
(* of the same group key: no node draws a second polynomial, not even when *)
(* a late start signal or round 1 package finds it with dkg_started reset. *)
KeyAgreement ==
    restarts = 0 =>
        \A n, p \in Nodes : keys[n] # NoKey /\ keys[p] # NoKey => keys[n] = keys[p]

(* The keys a working node signs with are the ones it will find again      *)
(* after a restart, in a file that it can read, if it saves its keys: only *)
(* a node that lost its handlers may hold others, or have a broken file.   *)
KeysDurable ==
    \A n \in Nodes : handlers[n] => /\ readable[n]
                                    /\ n \in save_keys => keys[n] = saved_keys[n]

(* A node that holds keys never calls part1 again, restarted or not: "DKG  *)
(* keys already exist, skipping DKG process" (key_creation.rs:34).         *)
KeysEndTheRuns ==
    [][\A n \in Nodes : keys[n] # NoKey => runs'[n] = runs[n]]_vars

(* A node knows polynomials that were drawn, and only its peers' packages. *)
Drawn(n) ==
    /\ dkg[n].listeners \subseteq Peers(n)
    /\ dkg[n].r1_secret <= runs[n] /\ dkg[n].r2_secret <= runs[n]
    /\ \A p \in Nodes : dkg[n].round1[p] <= runs[p] /\ dkg[n].round2[p] <= runs[p]
    /\ dkg[n].round1[n] = 0 /\ dkg[n].round2[n] = 0

(* Before the first restart a node draws one polynomial: what it drew is   *)
(* either being used, or in its keys, or its handlers are gone.            *)
FirstRun(n) ==
    /\ runs[n] <= 1
    /\ runs[n] = 1 => dkg[n].dkg_started \/ keys[n] # NoKey \/ ~handlers[n]
    /\ dkg[n].r2_secret # 0 => Packages(dkg[n].round1) = Peers(n)
    /\ keys[n] # NoKey => keys[n] = [p \in Nodes |-> 1]

(* The strengthening of KeyAgreement and KeysDurable.                      *)
KeyInv ==
    /\ TypeOK
    /\ \A n \in Nodes : Drawn(n)
    /\ \A m \in net : m.type = "Round1" => m.run # 0
    /\ restarts = 0 => \A n \in Nodes : FirstRun(n)
    /\ KeysDurable

(* A node that has handlers and a peer's package is in a run, and a node   *)
(* in a run is in round 2 unless it lacks a round 1 package.               *)
Advanced(n) == handlers[n] =>
    /\ dkg[n].dkg_started \/ keys[n] # NoKey \/ Packages(dkg[n].round1) # {} => runs[n] # 0
    /\ runs[n] # 0 => \/ dkg[n].r2_secret # 0
                      \/ dkg[n].r1_secret # 0 /\ ~AllRound1(dkg[n])

(* The strengthening of KnownStallsOnly.                                   *)
StallInv == restarts = 0 => \A n \in Nodes : Advanced(n)

(* The inductive invariant of key generation.                              *)
DkgInv == KeyInv /\ StallInv

Quiet == net = {}

Undisturbed == restarts = 0 /\ \A n \in Nodes : handlers[n]

(* p never addressed this package to n.                                    *)
Missed(n, p) == dkg[n].round1[p] = 0 \/ (dkg[p].r2_secret # 0 /\ dkg[n].round2[p] = 0)

(* What tests/src/dkg/mod.rs (test_dkg_completion) asserts: with no event  *)
(* left, and every package delivered, every node has its keys.             *)
CompletedWhenQuiet ==
    Quiet /\ Undisturbed /\ (\A n \in Nodes : \A p \in Peers(n) : ~Missed(n, p)) =>
        \A n \in Nodes : keys[n] # NoKey

(* n entered round 2 after the last round 2 package had arrived.           *)
LastToRound2(n) == AllRound2(dkg[n]) /\ keys[n] = NoKey

(* An undisturbed key generation stops short of keys only because a node   *)
(* did not address a peer it had not seen subscribe, or because the last   *)
(* node to enter round 2 already held every round 2 package.               *)
KnownStallsOnly ==
    Quiet /\ Undisturbed =>
        \/ \A n \in Nodes : keys[n] # NoKey
        \/ \E n \in Nodes : LastToRound2(n) \/ \E p \in Peers(n) : Missed(n, p)
=============================================================================
