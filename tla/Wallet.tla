------------------------------- MODULE Wallet -------------------------------
(***************************************************************************)
(* TaprootWallet (crates/node/src/wallet/taproot.rs): the unspent outputs  *)
(* a node tracks, how a spend picks and removes them, and how a confirmed  *)
(* or gossiped transaction updates them.                                   *)
(*                                                                         *)
(* The list is a sequence, as in the code: nothing keeps an output from    *)
(* being in it twice.  Addresses are integers, in the order of Address;    *)
(* 0 is an address that is not the wallet's.                               *)
(***************************************************************************)
EXTENDS Integers, Sequences, Functions, FiniteSetsExt

CONSTANT Dust  \* a change output of this value or less is not made

ASSUME DustAssumption == Dust \in Nat

OutPoint(txid, vout) == [txid |-> txid, vout |-> vout]

Utxo(txid, vout, out) == [outpoint |-> OutPoint(txid, vout), value |-> out.value,
                          address |-> out.address]

Output(value, address) == [value |-> value, address |-> address]

Tx(txid, inputs, outputs) == [txid |-> txid, input |-> inputs, output |-> outputs]

(* The value of the outputs at some positions of the list.                 *)
total_val(utxos, positions) ==
    SumFunctionOnSet([i \in DOMAIN utxos |-> utxos[i].value], positions)

OutPoints(utxos) == {utxos[i].outpoint : i \in DOMAIN utxos}

(* The order of select_utxos: by value, the largest first; the sort keeps  *)
(* the order of outputs of one value.                                      *)
Sooner(utxos, i, j) ==
    \/ utxos[i].value > utxos[j].value
    \/ utxos[i].value = utxos[j].value /\ i < j

(* select_utxos: the positions of the outputs that are taken, each as long *)
(* as the ones before it do not reach the target.                          *)
select_utxos(utxos, target) ==
    {i \in DOMAIN utxos :
         total_val(utxos, {j \in DOMAIN utxos : Sooner(utxos, j, i)}) < target}

HasFunds(utxos, target) == total_val(utxos, select_utxos(utxos, target)) >= target

(* The change goes to the smallest address among all tracked outputs.      *)
change_address(utxos) == Min({utxos[i].address : i \in DOMAIN utxos})

change_sat(utxos, amount, fee) ==
    total_val(utxos, select_utxos(utxos, amount + fee)) - amount - fee

(* create_spend: the transaction ...                                       *)
create_spend(utxos, txid, amount, fee) ==
    LET change == change_sat(utxos, amount, fee)
    IN  Tx(txid, {utxos[i].outpoint : i \in select_utxos(utxos, amount + fee)},
           IF change > Dust
           THEN <<Output(amount, 0), Output(change, change_address(utxos))>>
           ELSE <<Output(amount, 0)>>)

(* Vec::retain: the members of keep, in their order.                       *)
retain(utxos, keep) ==
    LET kept[i \in 0 .. Len(utxos)] ==
            IF i = 0 THEN <<>>
            ELSE IF utxos[i] \in keep THEN Append(kept[i - 1], utxos[i]) ELSE kept[i - 1]
    IN  kept[Len(utxos)]

Unspent(utxos, tx) == retain(utxos, {u \in Range(utxos) : u.outpoint \notin tx.input})

(* Variant of AfterSpend: the inputs stay in the wallet.                   *)
AfterDryRun(utxos, tx) == utxos

(* ... and what it leaves in the wallet, its change included.              *)
AfterSpend(utxos, tx) ==
    Unspent(utxos, tx) \o
        IF Len(tx.output) = 2 THEN <<Utxo(tx.txid, 1, tx.output[2])>> ELSE <<>>

(* ingest_external_tx: the inputs go, the outputs to known addresses come, *)
(* whether they are tracked already or not.                                *)
ingest_external_tx(utxos, addresses, tx) ==
    LET outputs == [i \in DOMAIN tx.output |-> Utxo(tx.txid, i - 1, tx.output[i])]
    IN  Unspent(utxos, tx) \o retain(outputs, {u \in Range(outputs) : u.address \in addresses})
=============================================================================
