----------------------------- MODULE FundsSteps -----------------------------
(***************************************************************************)
(* Proofs about bitcoin moving through one node, first part: lemmas about  *)
(* the wallet, the proposed transactions and the payments, and the steps   *)
(* of FundsInv that are about the type of the state, the transactions and  *)
(* the monitor.  They hold for any number of deposits and withdrawals, and *)
(* any amounts, fees and depth.                                            *)
(***************************************************************************)
EXTENDS Funds, Sums

-----------------------------------------------------------------------------
(* Sequences, events and spends as the steps use them *)

LEMMA SeqFacts ==
  ASSUME NEW X, NEW s \in Seq(X)
  PROVE  /\ \A i \in DOMAIN s : s[i] \in X
         /\ \A x \in X : Append(s, x) \in Seq(X)
  OBVIOUS

LEMMA ShortSeqs ==
  /\ \A x, y : DOMAIN <<x>> = {1} /\ DOMAIN <<x, y>> = {1, 2} /\ <<x, y>>[2] = y /\ 1 # 2
  /\ \A X : \A x, y \in X : <<x>> \in Seq(X) /\ <<x, y>> \in Seq(X)
  OBVIOUS

LEMMA EventFacts == \A k, x : Event(k, x).type = k
  BY DEF Event

LEMMA SpendId == \A us, w, amount, fee : create_spend(us, w, amount, fee).txid = w
  BY DEF create_spend, Tx

-----------------------------------------------------------------------------
(* The list of outputs *)

(* The members of keep among the first n of s, in their order, for each n. *)
Kept(s, keep, g) ==
    g = [i \in 0 .. Len(s) |->
            IF i = 0 THEN <<>>
            ELSE IF s[i] \in keep THEN Append(g[i - 1], s[i]) ELSE g[i - 1]]

(* Such a function exists for every sequence.                              *)
LEMMA KeptExists ==
  ASSUME NEW X, NEW s \in Seq(X), NEW keep
  PROVE  \E g : Kept(s, keep, g)
<1> DEFINE Body(g, i) == IF i = 0 THEN <<>>
                         ELSE IF s[i] \in keep THEN Append(g[i - 1], s[i]) ELSE g[i - 1]
           Upto(g, n) == g = [i \in 0 .. n |-> Body(g, i)]
           Bad == {n \in Nat : ~ \E g : Upto(g, n)}
<1>1. ASSUME NEW n \in Bad, \A m \in Bad : n <= m
      PROVE  FALSE
  <2>1. CASE n = 0
    <3>1. Upto([i \in 0 .. 0 |-> <<>>], 0)
      OBVIOUS
    <3> HIDE DEF Upto
    <3> QED BY <1>1, <2>1, <3>1
  <2>2. CASE n # 0
    <3>0. n \in Nat /\ n - 1 \in Nat /\ ~(n <= n - 1)
      BY <2>2
    <3>1. n - 1 \in Nat /\ n - 1 \notin Bad
      <4> HIDE DEF Bad
      <4> QED BY <1>1, <3>0
    <3>2. PICK g : Upto(g, n - 1)
      BY <3>1, Zenon
    <3> DEFINE h == [i \in 0 .. n |-> Body(g, i)]
    <3>3. \A i \in 0 .. n - 1 : h[i] = g[i]
      <4>1. \A i \in 0 .. n - 1 : i \in 0 .. n
        BY <3>1
      <4>2. \A i \in 0 .. n - 1 : g[i] = Body(g, i)
        BY <3>2, Zenon
      <4> HIDE DEF Body
      <4> QED BY <4>1, <4>2
    <3>4. \A i \in 0 .. n : Body(h, i) = Body(g, i)
      <4> TAKE i \in 0 .. n
      <4>1. CASE i = 0
        BY <4>1
      <4>2. CASE i # 0
        <5>0. i - 1 \in 0 .. n - 1
          BY <3>1, <4>2
        <5> HIDE DEF h
        <5>1. h[i - 1] = g[i - 1]
          BY <3>3, <5>0
        <5> QED BY <4>2, <5>1
      <4> QED BY <4>1, <4>2
    <3>5. Upto(h, n)
      <4> HIDE DEF Body
      <4> QED BY <3>4
    <3> HIDE DEF Upto
    <3> QED BY <1>1, <3>5
  <2> QED BY <2>1, <2>2
<1>2. Bad \in SUBSET Nat
  OBVIOUS
<1> HIDE DEF Upto, Bad
<1>3. Bad = {}
  BY <1>1, <1>2, LeastNumber
<1>4. \E g : Upto(g, Len(s))
  <2>1. Len(s) \in Nat
    OBVIOUS
  <2> QED BY <1>3, <2>1 DEF Bad
<1> QED BY <1>4 DEF Upto, Kept

(* retain computes it.                                                     *)
LEMMA RetainIsKept ==
  ASSUME NEW X, NEW s \in Seq(X), NEW keep
  PROVE  \E g : Kept(s, keep, g) /\ retain(s, keep) = g[Len(s)]
<1> DEFINE c == CHOOSE g : Kept(s, keep, g)
<1>1. Kept(s, keep, c)
  BY KeptExists
<1>2. retain(s, keep) = c[Len(s)]
  BY DEF retain, Kept
<1> QED BY <1>1, <1>2, Zenon

(* retain keeps the members of keep and no others, and none more often     *)
(* than it was there.                                                      *)
LEMMA Retain ==
  ASSUME NEW X, NEW s \in Seq(X), NEW keep
  PROVE  LET r == retain(s, keep)
         IN  /\ r \in Seq(X)
             /\ \A k \in DOMAIN r : r[k] \in keep /\ \E i \in DOMAIN s : r[k] = s[i]
             /\ \A i \in DOMAIN s : s[i] \in keep => \E k \in DOMAIN r : r[k] = s[i]
             /\ \A Y : (\A i, j \in DOMAIN s : s[i] \in Y /\ s[j] \in Y => i = j) =>
                           \A k, l \in DOMAIN r : r[k] \in Y /\ r[l] \in Y => k = l
<1>1. PICK g : Kept(s, keep, g) /\ retain(s, keep) = g[Len(s)]
  BY RetainIsKept
<1> DEFINE P(n) ==
      /\ g[n] \in Seq(X)
      /\ \A k \in DOMAIN g[n] : g[n][k] \in keep /\ \E i \in 1 .. n : g[n][k] = s[i]
      /\ \A i \in 1 .. n : s[i] \in keep => \E k \in DOMAIN g[n] : g[n][k] = s[i]
      /\ \A Y : (\A i, j \in 1 .. n : s[i] \in Y /\ s[j] \in Y => i = j) =>
                    \A k, l \in DOMAIN g[n] : g[n][k] \in Y /\ g[n][l] \in Y => k = l
           Bad == {n \in 0 .. Len(s) : ~P(n)}
<1>2. P(0)
  <2>1. g[0] = <<>>
    BY <1>1 DEF Kept
  <2> QED BY <2>1
<1>3. ASSUME NEW n \in 1 .. Len(s), P(n - 1)
      PROVE  P(n)
  <2> DEFINE a == g[n - 1]
             b == g[n]
             x == s[n]
  <2>1. b = IF x \in keep THEN Append(a, x) ELSE a
    <3>1. Len(s) \in Nat /\ n \in 0 .. Len(s) /\ n # 0
      OBVIOUS
    <3> QED BY <1>1, <3>1, Zenon DEF Kept
  <2>2. a \in Seq(X) /\ x \in X
    BY <1>3
  <2>3. /\ \A k \in DOMAIN a : a[k] \in keep /\ \E i \in 1 .. n - 1 : a[k] = s[i]
        /\ \A i \in 1 .. n - 1 : s[i] \in keep => \E k \in DOMAIN a : a[k] = s[i]
    BY <1>3
  <2>4. \A Y : (\A i, j \in 1 .. n - 1 : s[i] \in Y /\ s[j] \in Y => i = j) =>
                    \A k, l \in DOMAIN a : a[k] \in Y /\ a[l] \in Y => k = l
    BY <1>3, Zenon
  <2>5. n \in Nat /\ 1 .. n = (1 .. n - 1) \cup {n} /\ n \notin 1 .. n - 1
    OBVIOUS
  <2> HIDE DEF P, a, b, x
  <2>6. CASE x \notin keep
    <3>1. b = a
      BY <2>1, <2>6
    <3>2. /\ \A k \in DOMAIN b : b[k] \in keep /\ \E i \in 1 .. n : b[k] = s[i]
          /\ \A i \in 1 .. n : s[i] \in keep => \E k \in DOMAIN b : b[k] = s[i]
      BY <2>3, <2>5, <2>6, <3>1 DEF x
    <3>3. \A Y : (\A i, j \in 1 .. n : s[i] \in Y /\ s[j] \in Y => i = j) =>
                    \A k, l \in DOMAIN b : b[k] \in Y /\ b[l] \in Y => k = l
      BY <2>4, <2>5, <3>1
    <3> QED BY <2>2, <3>1, <3>2, <3>3 DEF P, b
  <2>7. CASE x \in keep
    <3> DEFINE m == Len(a)
    <3>1. /\ m \in Nat /\ DOMAIN a = 1 .. m /\ b \in Seq(X) /\ DOMAIN b = 1 .. m + 1
          /\ b[m + 1] = x /\ \A k \in 1 .. m : b[k] = a[k]
      BY <2>1, <2>2, <2>7
    <3>2. 1 .. m + 1 = (1 .. m) \cup {m + 1}
      BY <3>1
    <3> HIDE DEF m
    <3>3. \A k \in DOMAIN b : b[k] \in keep /\ \E i \in 1 .. n : b[k] = s[i]
      BY <2>3, <2>5, <2>7, <3>1, <3>2 DEF x
    <3>4. \A i \in 1 .. n : s[i] \in keep => \E k \in DOMAIN b : b[k] = s[i]
      BY <2>3, <2>5, <3>1, <3>2 DEF x
    <3>5. ASSUME NEW Y, \A i, j \in 1 .. n : s[i] \in Y /\ s[j] \in Y => i = j,
                 NEW k \in DOMAIN b, NEW l \in DOMAIN b, b[k] \in Y, b[l] \in Y
          PROVE  k = l
      <4>1. CASE k \in 1 .. m /\ l \in 1 .. m
        <5>1. a[k] \in Y /\ a[l] \in Y /\ k \in DOMAIN a /\ l \in DOMAIN a
          BY <3>1, <3>5, <4>1
        <5>2. \A i, j \in 1 .. n - 1 : s[i] \in Y /\ s[j] \in Y => i = j
          BY <2>5, <3>5
        <5> QED BY <2>4, <5>1, <5>2
      <4>2. ASSUME NEW h \in 1 .. m, b[h] \in Y, x \in Y PROVE FALSE
        <5>1. PICK i \in 1 .. n - 1 : a[h] = s[i]
          BY <2>3, <3>1, <4>2, Zenon
        <5>2. s[i] \in Y /\ s[n] \in Y /\ i \in 1 .. n /\ n \in 1 .. n /\ i # n
          BY <2>5, <3>1, <4>2, <5>1 DEF x
        <5> QED BY <3>5, <5>2
      <4> QED BY <3>1, <3>2, <3>5, <4>1, <4>2
    <3>6. \A Y : (\A i, j \in 1 .. n : s[i] \in Y /\ s[j] \in Y => i = j) =>
                    \A k, l \in DOMAIN b : b[k] \in Y /\ b[l] \in Y => k = l
      BY <3>5
    <3> QED BY <3>1, <3>3, <3>4, <3>6 DEF P, b
  <2> QED BY <2>6, <2>7
<1> HIDE DEF P
<1>4. ASSUME NEW n \in Bad, \A m \in Bad : n <= m
      PROVE  FALSE
  <2>1. n \in 1 .. Len(s) /\ n - 1 \in 0 .. Len(s) /\ ~(n <= n - 1)
    BY <1>2
  <2>2. n - 1 \notin Bad
    BY <1>4, <2>1
  <2> QED BY <1>3, <1>4, <2>1, <2>2
<1>5. Bad \in SUBSET Nat
  OBVIOUS
<1>6. Bad = {}
  <2> HIDE DEF Bad
  <2> QED BY <1>4, <1>5, LeastNumber
<1>7. P(Len(s)) /\ DOMAIN s = 1 .. Len(s)
  BY <1>6
<1> QED BY <1>1, <1>7, Zenon DEF P

(* The positions of an output.                                             *)
At(us, o) == {i \in DOMAIN us : us[i].outpoint = o}

(* An output that is not spent stays in its one place, and one that is     *)
(* spent is gone.                                                          *)
LEMMA UnspentFacts ==
  ASSUME NEW X, NEW us \in Seq(X), NEW tx
  PROVE  LET r == Unspent(us, tx)
         IN  /\ r \in Seq(X)
             /\ \A k \in DOMAIN r : \E i \in DOMAIN us : r[k] = us[i]
             /\ \A o : o \in tx.input => At(r, o) = {}
             /\ \A o : At(us, o) = {} => At(r, o) = {}
             /\ \A o : o \notin tx.input /\ (\E i \in DOMAIN us : At(us, o) = {i})
                           => \E k \in DOMAIN r : At(r, o) = {k}
<1> DEFINE keep == {u \in Range(us) : u.outpoint \notin tx.input}
           r == retain(us, keep)
<1>0. Unspent(us, tx) = r
  BY DEF Unspent
<1>1. r \in Seq(X)
  BY Retain
<1>2. \A k \in DOMAIN r : r[k] \in keep /\ \E i \in DOMAIN us : r[k] = us[i]
  BY Retain, Zenon
<1>3. \A i \in DOMAIN us : us[i] \in keep => \E k \in DOMAIN r : r[k] = us[i]
  BY Retain, Zenon
<1>4. \A Y : (\A i, j \in DOMAIN us : us[i] \in Y /\ us[j] \in Y => i = j) =>
                           \A k, l \in DOMAIN r : r[k] \in Y /\ r[l] \in Y => k = l
  BY Retain
<1> HIDE DEF r
<1>5. \A k \in DOMAIN r : r[k].outpoint \notin tx.input
  BY <1>2
<1>6. ASSUME NEW o, o \notin tx.input, NEW i \in DOMAIN us, At(us, o) = {i}
      PROVE  \E k \in DOMAIN r : At(r, o) = {k}
  <2>1. us[i] \in keep /\ us[i].outpoint = o
    BY <1>6 DEF At, Range
  <2>2. PICK k \in DOMAIN r : r[k] = us[i]
    BY <1>3, <2>1
  <2> DEFINE Y == {u \in Range(us) : u.outpoint = o}
  <2>3. \A m, n \in DOMAIN us : us[m] \in Y /\ us[n] \in Y => m = n
    BY <1>6 DEF At
  <2>4. \A l \in At(r, o) : r[l] \in Y /\ l \in DOMAIN r
    BY <1>2 DEF At, Range
  <2>5. r[k] \in Y /\ k \in At(r, o)
    BY <2>1, <2>2 DEF At, Range
  <2> HIDE DEF Y
  <2>6. \A l \in At(r, o) : l = k
    BY <1>4, <2>3, <2>4, <2>5
  <2> QED BY <2>5, <2>6
<1>7. \A o : o \in tx.input => At(r, o) = {}
  BY <1>5 DEF At
<1>8. \A o : At(us, o) = {} => At(r, o) = {}
  BY <1>2 DEF At
<1> QED BY <1>0, <1>1, <1>2, <1>6, <1>7, <1>8

Joined(s, t) == s \o t

From(r, s, t) ==
    \A l \in DOMAIN r : (\E i \in DOMAIN s : r[l] = s[i]) \/ (\E i \in DOMAIN t : r[l] = t[i])

(* The places of an output in a list that is appended to another.          *)
LEMMA AtJoined ==
  ASSUME NEW X, NEW s \in Seq(X), NEW t \in Seq(X)
  PROVE  LET r == Joined(s, t)
         IN  /\ r \in Seq(X)
             /\ From(r, s, t)
             /\ \A o : At(t, o) = {} => At(r, o) = At(s, o)
             /\ \A o : At(s, o) = {} => \A k \in DOMAIN t : At(t, o) = {k} =>
                    \E l \in DOMAIN r : At(r, o) = {l}
<1> DEFINE m == Len(s)
           n == Len(t)
           r == s \o t
<1>1. /\ m \in Nat /\ n \in Nat /\ r \in Seq(X)
      /\ DOMAIN s = 1 .. m /\ DOMAIN t = 1 .. n /\ DOMAIN r = 1 .. m + n
  OBVIOUS
<1>2. /\ \A i \in 1 .. m : r[i] = s[i]
      /\ \A i \in m + 1 .. m + n : r[i] = t[i - m]
  OBVIOUS
<1> HIDE DEF m, n, r
<1>3. /\ \A i \in 1 .. m : i \in 1 .. m + n
      /\ \A i \in 1 .. m + n : i \in 1 .. m \/ (i \in m + 1 .. m + n /\ i - m \in 1 .. n)
      /\ \A i \in 1 .. n : m + i \in m + 1 .. m + n /\ m + i \in 1 .. m + n /\ (m + i) - m = i
      /\ \A i \in m + 1 .. m + n, k \in 1 .. n : i - m = k => i = m + k
  BY <1>1
<1>4. ASSUME NEW o, At(t, o) = {} PROVE At(r, o) = At(s, o)
  <2>1. \A i \in 1 .. n : t[i].outpoint # o
    BY <1>1, <1>4 DEF At
  <2> QED BY <1>1, <1>2, <1>3, <2>1 DEF At
<1>5. ASSUME NEW o, At(s, o) = {}, NEW k \in DOMAIN t, At(t, o) = {k}
      PROVE  \E l \in DOMAIN r : At(r, o) = {l}
  <2>1. (\A i \in 1 .. m : s[i].outpoint # o) /\ k \in 1 .. n /\ t[k].outpoint = o
    BY <1>1, <1>5 DEF At
  <2>2. \A i \in 1 .. n : t[i].outpoint = o => i = k
    BY <1>1, <1>5 DEF At
  <2>3. m + k \in DOMAIN r /\ r[m + k].outpoint = o
    BY <1>1, <1>2, <1>3, <2>1
  <2>4. \A l \in DOMAIN r : r[l].outpoint = o => l = m + k
    BY <1>1, <1>2, <1>3, <2>1, <2>2
  <2>5. At(r, o) = {m + k}
    BY <2>3, <2>4 DEF At
  <2> QED BY <2>3, <2>5
<1>6. \A l \in DOMAIN r : (\E i \in DOMAIN s : r[l] = s[i]) \/ (\E i \in DOMAIN t : r[l] = t[i])
  BY <1>1, <1>2, <1>3, Zenon
<1> QED BY <1>1, <1>4, <1>5, <1>6, Zenon DEF Joined, From, r

LEMMA AtJoinedOnce ==
  \A X : \A s, t \in Seq(X) : \A o : At(s, o) = {} => \A k \in DOMAIN t : At(t, o) = {k} =>
      \E l \in DOMAIN Joined(s, t) : At(Joined(s, t), o) = {l}
  BY AtJoined

UtxosOf(A) == [outpoint : [txid : Txids, vout : Nat], value : Nat, address : A]

(* The outputs in r are those in us and the ones of tx to addresses A.     *)
TakenIn(r, us, A, tx) ==
    \A k \in DOMAIN r : \/ \E i \in DOMAIN us : r[k] = us[i]
                        \/ \E i \in DOMAIN tx.output :
                               /\ r[k] = Utxo(tx.txid, i - 1, tx.output[i])
                               /\ tx.output[i].address \in A

(* Of the outputs of other transactions, r lacks what tx spends.           *)
SpentOnly(r, us, tx) ==
    /\ \A o : o.txid # tx.txid /\ (o \in tx.input \/ At(us, o) = {}) => At(r, o) = {}
    /\ \A o : o.txid # tx.txid /\ o \notin tx.input /\ (\E i \in DOMAIN us : At(us, o) = {i})
                  => \E k \in DOMAIN r : At(r, o) = {k}

(* ingest_external_tx takes in the outputs to the addresses A, and leaves  *)
(* the outputs of other transactions where they are, if they are not spent.*)
LEMMA IngestFacts ==
  ASSUME NEW A \in SUBSET Nat, NEW us \in Seq(UtxosOf(A)), NEW tx,
         tx.output \in Seq([value : Nat, address : Nat]),
         \A i \in DOMAIN tx.output : tx.output[i].address \in A => tx.txid \in Txids
  PROVE  LET r == ingest_external_tx(us, A, tx)
         IN  r \in Seq(UtxosOf(A)) /\ TakenIn(r, us, A, tx) /\ SpentOnly(r, us, tx)
<1> DEFINE outs == [i \in DOMAIN tx.output |-> Utxo(tx.txid, i - 1, tx.output[i])]
           keep == {u \in Range(outs) : u.address \in A}
           a == Unspent(us, tx)
           b == retain(outs, keep)
           r == Joined(a, b)
<1>0. ingest_external_tx(us, A, tx) = r
  BY DEF ingest_external_tx, Joined
<1>1. outs \in Seq(Range(outs)) /\ DOMAIN outs = DOMAIN tx.output
  <2>1. DOMAIN tx.output = 1 .. Len(tx.output) /\ Len(tx.output) \in Nat
    OBVIOUS
  <2>2. DOMAIN outs = DOMAIN tx.output /\ outs = [i \in DOMAIN tx.output |-> outs[i]]
    OBVIOUS
  <2> HIDE DEF outs
  <2>3. \A i \in DOMAIN outs : outs[i] \in Range(outs)
    BY DEF Range
  <2>4. outs \in [1 .. Len(tx.output) -> Range(outs)]
    BY <2>1, <2>2, <2>3, Zenon
  <2> QED BY <2>1, <2>2, <2>4
<1>2. \A i \in DOMAIN tx.output :
         /\ outs[i] = Utxo(tx.txid, i - 1, tx.output[i])
         /\ outs[i].address = tx.output[i].address
         /\ outs[i].outpoint.txid = tx.txid
         /\ outs[i].address \in A => outs[i] \in UtxosOf(A)
  <2> TAKE i \in DOMAIN tx.output
  <2>0. outs[i] = Utxo(tx.txid, i - 1, tx.output[i])
    OBVIOUS
  <2> HIDE DEF outs
  <2>1. tx.output[i] \in [value : Nat, address : Nat] /\ i - 1 \in Nat
    <3> DEFINE O == [value : Nat, address : Nat]
               q == tx.output
    <3>1. q \in Seq(O) /\ i \in DOMAIN q
      OBVIOUS
    <3> HIDE DEF O, q
    <3>2. q[i] \in O /\ i \in 1 .. Len(q) /\ Len(q) \in Nat
      BY <3>1
    <3> QED BY <3>2 DEF O, q
  <2>2. outs[i] = Utxo(tx.txid, i - 1, tx.output[i])
    BY <2>0
  <2> QED BY <2>1, <2>2 DEF Utxo, OutPoint, UtxosOf
<1> HIDE DEF outs
<1>3. b \in Seq(Range(outs)) /\ \A k \in DOMAIN b : b[k] \in keep /\ \E i \in DOMAIN outs : b[k] = outs[i]
  <2> HIDE DEF keep
  <2>1. outs \in Seq(Range(outs))
    BY <1>1
  <2> QED BY <2>1, Retain
<1> HIDE DEF b
<1>4. \A k \in DOMAIN b : \E i \in DOMAIN tx.output :
          /\ b[k] = Utxo(tx.txid, i - 1, tx.output[i]) /\ tx.output[i].address \in A
          /\ b[k] \in UtxosOf(A) /\ b[k].outpoint.txid = tx.txid
  BY <1>1, <1>2, <1>3, Zenon
<1>5. b \in Seq(UtxosOf(A))
  <2>1. DOMAIN b = 1 .. Len(b) /\ Len(b) \in Nat /\ b = [i \in 1 .. Len(b) |-> b[i]]
    BY <1>3
  <2>2. \A i \in 1 .. Len(b) : b[i] \in UtxosOf(A)
    BY <1>4, <2>1
  <2> HIDE DEF keep
  <2> QED BY <2>1, <2>2
<1>6. \A o : o.txid # tx.txid => At(b, o) = {}
  BY <1>4 DEF At
<1>7. /\ a \in Seq(UtxosOf(A))
      /\ \A k \in DOMAIN a : \E i \in DOMAIN us : a[k] = us[i]
      /\ \A o : o \in tx.input => At(a, o) = {}
      /\ \A o : At(us, o) = {} => At(a, o) = {}
      /\ \A o : o \notin tx.input /\ (\E i \in DOMAIN us : At(us, o) = {i})
                    => \E k \in DOMAIN a : At(a, o) = {k}
  BY UnspentFacts, Zenon
<1> HIDE DEF a
<1>8. /\ r \in Seq(UtxosOf(A))
      /\ \A o : At(b, o) = {} => At(r, o) = At(a, o)
      /\ From(r, a, b)
  <2>1. a \in Seq(UtxosOf(A)) /\ b \in Seq(UtxosOf(A))
    BY <1>5, <1>7
  <2> HIDE DEF keep
  <2> QED BY <2>1, AtJoined
<1> HIDE DEF r
<1>9. \A k \in DOMAIN r : \/ \E i \in DOMAIN us : r[k] = us[i]
                          \/ \E i \in DOMAIN tx.output :
                                /\ r[k] = Utxo(tx.txid, i - 1, tx.output[i])
                                /\ tx.output[i].address \in A
  BY <1>4, <1>7, <1>8 DEF From
<1>10. \A o : o.txid # tx.txid => At(r, o) = At(a, o)
  BY <1>6, <1>8
<1>11. \A o, k : At(r, o) = {k} => k \in DOMAIN r
  BY DEF At
<1>12. \A o : o.txid # tx.txid /\ (o \in tx.input \/ At(us, o) = {}) => At(r, o) = {}
  BY <1>7, <1>10
<1>13. \A o : o.txid # tx.txid /\ o \notin tx.input /\ (\E i \in DOMAIN us : At(us, o) = {i})
                  => \E k \in DOMAIN r : At(r, o) = {k}
  BY <1>7, <1>10, <1>11, Zenon
<1> QED BY <1>0, <1>8, <1>9, <1>12, <1>13, Zenon DEF TakenIn, SpentOnly

(* The outputs of the wallet have an integer total.                        *)
LEMMA TotalInt ==
  ASSUME NEW A, NEW us \in Seq(UtxosOf(A)), NEW S \in SUBSET DOMAIN us
  PROVE  total_val(us, S) \in Int /\ (S = {} => total_val(us, S) = 0)
<1> DEFINE f == [i \in DOMAIN us |-> us[i].value]
<1>1. DOMAIN us = 1 .. Len(us) /\ Len(us) \in Nat
  OBVIOUS
<1>2. IsFiniteSet(S)
  <2>1. IsFiniteSet(1 .. Len(us))
    BY <1>1, FS_Interval
  <2> QED BY <1>1, <2>1, FS_Subset
<1>3. \A x \in S : f[x] \in Int
  <2> TAKE x \in S
  <2>1. us[x] \in UtxosOf(A)
    OBVIOUS
  <2>2. us[x].value \in Nat
    BY <2>1 DEF UtxosOf
  <2> QED BY <2>2
<1> HIDE DEF f
<1>4. SumFunctionOnSet(f, S) \in Int /\ SumFunctionOnSet(f, {}) = 0
  BY <1>2, <1>3, SumFacts
<1> QED BY <1>4, Zenon DEF total_val, f

(* The address of the change is one of the wallet.                         *)
LEMMA LeastAddress ==
  ASSUME NEW A \in SUBSET Nat, NEW us \in Seq(UtxosOf(A)), DOMAIN us # {}
  PROVE  \E i \in DOMAIN us : change_address(us) = us[i].address
<1> DEFINE S == {us[i].address : i \in DOMAIN us}
<1>1. S \in SUBSET Nat /\ S # {}
  <2>1. \A i \in DOMAIN us : us[i] \in UtxosOf(A)
    OBVIOUS
  <2>2. \A i \in DOMAIN us : us[i].address \in Nat
    BY <2>1, Zenon DEF UtxosOf
  <2> QED BY <2>2
<1> HIDE DEF S
<1>2. PICK n \in S : \A m \in S : n <= m
  BY <1>1, LeastNumber
<1>3. Min(S) \in S
  BY <1>2 DEF Min
<1> QED BY <1>3, Zenon DEF change_address, S

AmountAndChange(outputs, amount, us) ==
    \/ outputs = <<Output(amount, 0)>>
    \/ \E c \in Nat : \E i \in DOMAIN us :
           outputs = <<Output(amount, 0), Output(c, us[i].address)>>

(* create_spend takes its inputs from the wallet, and its change, if any,  *)
(* goes to an address of the wallet.                                       *)
LEMMA SpendFacts ==
  ASSUME NEW A \in SUBSET Nat, NEW us \in Seq(UtxosOf(A)), NEW w,
         NEW amount \in Nat \ {0}, NEW fee \in Nat,
         NEW target, target = amount + fee, HasFunds(us, target),
         NEW tx, tx = create_spend(us, w, amount, fee)
  PROVE  /\ \A o \in tx.input : \E i \in DOMAIN us : us[i].outpoint = o
         /\ AmountAndChange(tx.output, amount, us)
<1> DEFINE S == select_utxos(us, amount + fee)
           c == change_sat(us, amount, fee)
<1>1. S \in SUBSET DOMAIN us
  BY DEF select_utxos
<1> HIDE DEF S
<1>2. total_val(us, S) \in Int /\ (S = {} => total_val(us, S) = 0)
  BY <1>1, TotalInt
<1>3. total_val(us, S) >= amount + fee /\ c = total_val(us, S) - amount - fee
  BY DEF HasFunds, change_sat, S
<1> HIDE DEF c
<1>4. c \in Int /\ S # {}
  BY <1>2, <1>3
<1>5. PICK i \in DOMAIN us : change_address(us) = us[i].address
  BY <1>1, <1>4, LeastAddress
<1>6. tx = Tx(w, {us[j].outpoint : j \in S},
              IF c > Dust THEN <<Output(amount, 0), Output(c, change_address(us))>>
                          ELSE <<Output(amount, 0)>>)
  BY DEF create_spend, S, c
<1>7. /\ tx.txid = w /\ tx.input = {us[j].outpoint : j \in S}
      /\ tx.output = IF c > Dust THEN <<Output(amount, 0), Output(c, change_address(us))>>
                                 ELSE <<Output(amount, 0)>>
  BY <1>6 DEF Tx
<1>8. c > Dust => c \in Nat
  BY <1>4, DustAssumption
<1>9. CASE c > Dust
  BY <1>1, <1>5, <1>7, <1>8, <1>9 DEF AmountAndChange
<1>10. CASE ~(c > Dust)
  BY <1>1, <1>7, <1>10, Zenon DEF AmountAndChange
<1> QED BY <1>9, <1>10

(* What a spend leaves in the wallet: the outputs it did not take, and its *)
(* change.                                                                 *)
LEMMA AfterSpendFacts ==
  ASSUME NEW A \in SUBSET Nat, NEW us \in Seq(UtxosOf(A)), NEW tx, tx.txid \in Txids,
         \/ \E x : tx.output = <<x>>
         \/ \E x : \E c \in Nat : \E a \in A : tx.output = <<x, Output(c, a)>>
  PROVE  LET r == AfterSpend(us, tx)
         IN  /\ r \in Seq(UtxosOf(A))
             /\ \A k \in DOMAIN r :
                   \/ \E i \in DOMAIN us : r[k] = us[i]
                   \/ 2 \in DOMAIN tx.output /\ r[k] = Utxo(tx.txid, 1, tx.output[2])
             /\ SpentOnly(r, us, tx)
<1> DEFINE u == Utxo(tx.txid, 1, tx.output[2])
           a == Unspent(us, tx)
           b == IF Len(tx.output) = 2 THEN <<u>> ELSE <<>>
           r == Joined(a, b)
<1>0. AfterSpend(us, tx) = r
  BY DEF AfterSpend, Joined
<1>1. /\ b \in Seq(UtxosOf(A))
      /\ \A k \in DOMAIN b : 2 \in DOMAIN tx.output /\ b[k] = u
  <2>1. CASE \E x : tx.output = <<x>>
    <3>1. Len(tx.output) = 1
      BY <2>1
    <3>2. b = <<>>
      BY <3>1
    <3> HIDE DEF b
    <3> QED BY <3>2
  <2>2. ASSUME NEW x, NEW c \in Nat, NEW d \in A, tx.output = <<x, Output(c, d)>>
        PROVE  /\ b \in Seq(UtxosOf(A))
               /\ \A k \in DOMAIN b : 2 \in DOMAIN tx.output /\ b[k] = u
    <3>1. Len(tx.output) = 2 /\ 2 \in DOMAIN tx.output /\ tx.output[2] = Output(c, d)
      BY <2>2
    <3>2. u \in UtxosOf(A)
      BY <3>1 DEF Utxo, OutPoint, Output, UtxosOf
    <3>3. b = <<u>>
      BY <3>1
    <3> HIDE DEF b, u
    <3> QED BY <3>1, <3>2, <3>3
  <2> QED BY <2>1, <2>2, Zenon
<1>2. \A k \in DOMAIN b : b[k].outpoint.txid = tx.txid
  BY <1>1 DEF Utxo, OutPoint
<1>3. /\ a \in Seq(UtxosOf(A))
      /\ \A k \in DOMAIN a : \E i \in DOMAIN us : a[k] = us[i]
      /\ \A o : o \in tx.input => At(a, o) = {}
      /\ \A o : At(us, o) = {} => At(a, o) = {}
      /\ \A o : o \notin tx.input /\ (\E i \in DOMAIN us : At(us, o) = {i})
                    => \E k \in DOMAIN a : At(a, o) = {k}
  BY UnspentFacts, Zenon
<1> HIDE DEF a, b, u
<1>4. /\ r \in Seq(UtxosOf(A)) /\ From(r, a, b)
      /\ \A o : At(b, o) = {} => At(r, o) = At(a, o)
  BY <1>1, <1>3, AtJoined
<1> HIDE DEF r
<1>5. \A k \in DOMAIN r : \/ \E i \in DOMAIN us : r[k] = us[i]
                          \/ 2 \in DOMAIN tx.output /\ r[k] = u
  BY <1>1, <1>3, <1>4 DEF From
<1>6. \A o : o.txid # tx.txid => At(r, o) = At(a, o)
  BY <1>2, <1>4 DEF At
<1>7. \A o, k : At(r, o) = {k} => k \in DOMAIN r
  BY DEF At
<1>8. \A o : o.txid # tx.txid /\ (o \in tx.input \/ At(us, o) = {}) => At(r, o) = {}
  BY <1>3, <1>6
<1>9. \A o : o.txid # tx.txid /\ o \notin tx.input /\ (\E i \in DOMAIN us : At(us, o) = {i})
                  => \E k \in DOMAIN r : At(r, o) = {k}
  BY <1>3, <1>6, <1>7, Zenon
<1> QED BY <1>0, <1>4, <1>5, <1>8, <1>9, Zenon DEF u, SpentOnly

-----------------------------------------------------------------------------
(* The user's transactions *)

(* A sequence stays one when its set of members grows.                     *)
LEMMA SeqGrows ==
  ASSUME NEW S, NEW T, S \subseteq T, NEW s \in Seq(S)
  PROVE  s \in Seq(T)
  OBVIOUS

(* The user's transactions only become more.                               *)
LEMMA UserTxsGrow ==
  ASSUME amount_sat' = amount_sat, chain_txs \subseteq chain_txs'
  PROVE  UserTxs \subseteq UserTxs'
  BY DEF UserTxs, Credits, Credit, Debit

(* What a withdrawal is about, and what it costs.                          *)
LEMMA Amounts_ ==
  ASSUME amount_sat \in Amounts, NEW w \in Withdrawals
  PROVE  /\ amount_sat[w] \in Nat /\ amount_sat[w] # 0 /\ Fee \in Nat
         /\ amount_sat[w] + Fee \in Nat
  BY FundsAssumption

(* Each of the user's transactions is a credit or a debit.                 *)
LEMMA Kinds ==
  ASSUME amount_sat \in Amounts, NEW t \in UserTxs
  PROVE  /\ t.amount \in Nat /\ Worth(t) \in Int
         /\ \/ /\ t.type = "Deposit" /\ Worth(t) = t.amount
               /\ \E d \in chain_txs \cap Own : t = Credit(d)
            \/ /\ t.type = "Withdrawal" /\ Worth(t) = -t.amount
               /\ \E w \in chain_txs \cap Withdrawals : t = Debit(w) /\ t.amount = amount_sat[w] + Fee
<1>1. ASSUME NEW d \in chain_txs \cap Own, t = Credit(d)
      PROVE  t.type = "Deposit" /\ t.amount \in Nat /\ Worth(t) = t.amount
  <2>1. Paid[d] \in Nat
    BY FundsAssumption, Zenon
  <2>2. t.type = "Deposit" /\ t.amount = Paid[d]
    BY <1>1 DEF Credit
  <2> QED BY <2>1, <2>2 DEF Worth
<1>2. ASSUME NEW w \in chain_txs \cap Withdrawals, t = Debit(w)
      PROVE  /\ t.type = "Withdrawal" /\ t.amount \in Nat /\ Worth(t) = -t.amount
             /\ t.amount = amount_sat[w] + Fee
  <2>1. amount_sat[w] + Fee \in Nat
    BY Amounts_
  <2>2. t.type = "Withdrawal" /\ t.amount = amount_sat[w] + Fee
    BY <1>2 DEF Debit
  <2> QED BY <2>1, <2>2 DEF Worth
<1>3. \A n \in Nat : -n \in Int /\ n \in Int
  OBVIOUS
<1>4. (\E d \in chain_txs \cap Own : t = Credit(d)) \/ (\E w \in chain_txs \cap Withdrawals : t = Debit(w))
  BY DEF UserTxs, Credits
<1> QED BY <1>1, <1>2, <1>3, <1>4

(* add_transaction_to_block, for the one credit there may be.              *)
LEMMA OneCredit ==
  ASSUME NEW pt, NEW t
  PROVE  /\ FoldSet(add_transaction_to_block, pt, {}) = pt
         /\ FoldSet(add_transaction_to_block, pt, {t}) = add_transaction_to_block(t, pt)
<1> DEFINE next(h, s) == IF s = {} THEN pt
                         ELSE add_transaction_to_block(CHOOSE x \in s : TRUE, h[s \ {CHOOSE x \in s : TRUE}])
           iter(S) == CHOOSE h : h = [s \in SUBSET S |-> next(h, s)]
<1>1. \A S : FoldSet(add_transaction_to_block, pt, S) = iter(S)[S]
  BY DEF FoldSet, MapThenFoldSet
<1>2. iter({})[{}] = pt
  <2> DEFINE g == [s \in SUBSET {} |-> pt]
  <2>1. g = [s \in SUBSET {} |-> next(g, s)]
    OBVIOUS
  <2>2. iter({}) = [s \in SUBSET {} |-> next(iter({}), s)]
    BY <2>1, Zenon
  <2> QED BY <2>2, Zenon
<1>3. iter({t})[{t}] = add_transaction_to_block(t, pt)
  <2> DEFINE g == [s \in SUBSET {t} |-> IF s = {} THEN pt ELSE add_transaction_to_block(t, pt)]
  <2>1. \A s \in SUBSET {t} : s # {} => s = {t} /\ (CHOOSE x \in s : TRUE) = t /\ s \ {t} = {}
    OBVIOUS
  <2>2. g[{}] = pt
    OBVIOUS
  <2>3. \A s \in SUBSET {t} : g[s] = next(g, s)
    BY <2>1, <2>2
  <2>4. g = [s \in SUBSET {t} |-> next(g, s)]
    BY <2>3
  <2> HIDE DEF g
  <2>5. iter({t}) = [s \in SUBSET {t} |-> next(iter({t}), s)]
    BY <2>4, Zenon
  <2> HIDE DEF iter
  <2>6. iter({t})[{}] = pt
    BY <2>5, Zenon
  <2>7. iter({t})[{t}] = next(iter({t}), {t})
    BY <2>5, Zenon
  <2> QED BY <2>1, <2>6, <2>7
<1> QED BY <1>1, <1>2, <1>3, Zenon

-----------------------------------------------------------------------------
(* Sums of proposed transactions *)

Worths(pt) == [i \in DOMAIN pt |-> Worth(pt[i])]

SumTo(pt, k) == SumFunctionOnSet(Worths(pt), 1 .. k)

(* The sum of the first k, and one of them taken out of it.                *)
LEMMA SumToType ==
  ASSUME NEW X, \A t \in X : Worth(t) \in Int, NEW pt \in Seq(X), NEW k \in 0 .. Len(pt)
  PROVE  /\ SumTo(pt, k) \in Int /\ SumTo(pt, 0) = 0
         /\ \A j \in 1 .. k : SumTo(pt, k) =
                Worth(pt[j]) + SumFunctionOnSet(Worths(pt), (1 .. k) \ {j})
<1> DEFINE f == Worths(pt)
<1>1. Len(pt) \in Nat /\ DOMAIN pt = 1 .. Len(pt) /\ k \in Nat /\ 1 .. k \subseteq DOMAIN pt
  OBVIOUS
<1>2. \A i \in 1 .. k : f[i] = Worth(pt[i]) /\ f[i] \in Int
  BY <1>1 DEF Worths
<1>3. IsFiniteSet(1 .. k) /\ 1 .. 0 = {}
  BY <1>1, FS_Interval
<1> HIDE DEF f
<1>4. /\ SumFunctionOnSet(f, 1 .. k) \in Int /\ SumFunctionOnSet(f, {}) = 0
      /\ \A j \in 1 .. k : SumFunctionOnSet(f, 1 .. k) = f[j] + SumFunctionOnSet(f, (1 .. k) \ {j})
  BY <1>2, <1>3, SumFacts, Zenon
<1> QED BY <1>2, <1>3, <1>4 DEF SumTo, f

(* A transaction more in the block.                                        *)
LEMMA SumToAppend ==
  ASSUME NEW X, \A t \in X : Worth(t) \in Int, NEW pt \in Seq(X), NEW t \in X
  PROVE  /\ \A k \in 0 .. Len(pt) : SumTo(Append(pt, t), k) = SumTo(pt, k)
         /\ SumTo(Append(pt, t), Len(pt) + 1) = SumTo(pt, Len(pt)) + Worth(t)
<1> DEFINE f == Worths(pt)
           qt == Append(pt, t)
           g == Worths(qt)
           n == Len(pt)
<1>1. /\ n \in Nat /\ DOMAIN pt = 1 .. n /\ DOMAIN qt = 1 .. n + 1 /\ qt[n + 1] = t
      /\ \A i \in 1 .. n : qt[i] = pt[i]
  OBVIOUS
<1>2. /\ \A i \in 1 .. n : f[i] \in Int /\ g[i] = f[i]
      /\ g[n + 1] = Worth(t) /\ g[n + 1] \in Int
  <2>1. \A i \in 1 .. n : i \in 1 .. n + 1 /\ pt[i] \in X
    BY <1>1
  <2>2. n + 1 \in 1 .. n + 1
    BY <1>1
  <2> HIDE DEF qt, n
  <2> QED BY <1>1, <2>1, <2>2 DEF Worths
<1>3. \A k \in 0 .. n : SumTo(qt, k) = SumTo(pt, k)
  <2> TAKE k \in 0 .. n
  <2> HIDE DEF f, g, qt, n
  <2>1. IsFiniteSet(1 .. k) /\ \A i \in 1 .. k : i \in 1 .. n
    <3>1. k \in Int /\ \A i \in 1 .. k : i \in 1 .. n
      BY <1>1
    <3>2. IsFiniteSet(1 .. k)
      BY <3>1, FS_Interval
    <3> QED BY <3>1, <3>2
  <2> DEFINE K == 1 .. k
  <2>2. IsFiniteSet(K) /\ \A i \in K : f[i] \in Int /\ g[i] = f[i]
    BY <1>2, <2>1
  <2> HIDE DEF K
  <2>3. SumFunctionOnSet(g, K) = SumFunctionOnSet(f, K)
    BY <2>2, SumSame
  <2> QED BY <2>3 DEF SumTo, f, g, K
<1>4. SumTo(qt, n + 1) = SumTo(pt, n) + Worth(t)
  <2> DEFINE m == n + 1
             S == 1 .. n
  <2>1. 1 .. m = S \cup {m} /\ m \notin S /\ n \in 0 .. n
    BY <1>1
  <2>2. IsFiniteSet(S)
    <3>1. 1 \in Int /\ n \in Int
      BY <1>1
    <3> QED BY <3>1, FS_Interval
  <2>3. (\A y \in S : g[y] \in Int) /\ g[m] \in Int /\ g[m] = Worth(t)
    <3> HIDE DEF f, g, qt, n
    <3> QED BY <1>2
  <2> HIDE DEF f, g, qt, n, m, S
  <2>4. SumFunctionOnSet(g, S \cup {m}) = SumFunctionOnSet(g, S) + g[m]
    BY <2>1, <2>2, <2>3, SumAdd
  <2>5. SumTo(qt, m) = SumTo(qt, n) + g[m]
    BY <2>1, <2>4, Zenon DEF SumTo, g, S
  <2> QED BY <1>3, <2>1, <2>3, <2>5 DEF m
<1> QED BY <1>3, <1>4

(* With at most one debit, the balance falls by that debit at most.        *)
LEMMA OneDebit ==
  ASSUME NEW X, \A t \in X : Worth(t) \in Int, NEW pt \in Seq(X), NEW k \in 0 .. Len(pt),
         NEW j, NEW b \in Nat,
         \A i \in 1 .. Len(pt) : i # j => Worth(pt[i]) \in Nat,
         j \in 1 .. Len(pt) => Worth(pt[j]) >= -b
  PROVE  SumTo(pt, k) >= -b
<1> DEFINE f == Worths(pt)
<1>1. Len(pt) \in Nat /\ DOMAIN pt = 1 .. Len(pt) /\ k \in Nat /\ \A i \in 1 .. k : i \in 1 .. Len(pt)
  OBVIOUS
<1>2. \A i \in 1 .. k : f[i] = Worth(pt[i]) /\ f[i] \in Int /\ (i # j => f[i] \in Nat)
  BY <1>1 DEF Worths
<1>3. IsFiniteSet((1 .. k) \ {j})
  <2>1. IsFiniteSet(1 .. k)
    BY <1>1, FS_Interval
  <2> QED BY <2>1, FS_Subset
<1>4. \A x \in (1 .. k) \ {j} : f[x] \in Nat
  BY <1>2
<1>5. SumFunctionOnSet(f, (1 .. k) \ {j}) \in Nat
  <2> HIDE DEF f
  <2> QED BY <1>3, <1>4, SumNat
<1>6. CASE j \in 1 .. k
  <2>1. SumTo(pt, k) = Worth(pt[j]) + SumFunctionOnSet(f, (1 .. k) \ {j})
    BY <1>6, SumToType, Zenon
  <2>2. Worth(pt[j]) >= -b /\ Worth(pt[j]) \in Int
    BY <1>1, <1>2, <1>6
  <2> HIDE DEF f
  <2> QED BY <1>5, <2>1, <2>2
<1>7. CASE j \notin 1 .. k
  <2>1. (1 .. k) \ {j} = 1 .. k
    BY <1>7
  <2>2. SumTo(pt, k) \in Nat
    BY <1>5, <2>1, Zenon DEF SumTo
  <2> QED BY <2>2
<1> QED BY <1>6, <1>7

-----------------------------------------------------------------------------
(* The height the monitor scans up to *)

(* A height that is deep enough, or one that has wrapped around.           *)
LEMMA ConfirmedFacts ==
  ASSUME NEW h \in 0 .. MaxHeight
  PROVE  /\ Confirmed(h) \in 0 .. MaxU32
         /\ h >= confirmation_depth => Confirmed(h) = h - confirmation_depth
         /\ h < confirmation_depth => Confirmed(h) > MaxHeight
<1> DEFINE n == MaxU32 + 1
           x == h - confirmation_depth
<1>1. /\ n \in Nat /\ n > 0 /\ x \in Int /\ x < n /\ -n < x /\ h \in Nat
      /\ confirmation_depth \in Nat /\ MaxHeight \in Nat /\ MaxU32 \in Nat
      /\ MaxHeight + confirmation_depth <= MaxU32
  BY FundsAssumption
<1>2. Confirmed(h) = x % n
  BY DEF Confirmed
<1>3. \A m \in Nat, y \in Int : m > 0 /\ 0 <= y /\ y < m => y % m = y
  OBVIOUS
<1>4. \A m \in Nat, y \in Int : m > 0 /\ -m < y /\ y < 0 => y % m = y + m
  OBVIOUS
<1>5. h >= confirmation_depth => Confirmed(h) = x
  <2>1. h >= confirmation_depth => 0 <= x
    BY <1>1
  <2> HIDE DEF n, x
  <2> QED BY <1>1, <1>2, <1>3, <2>1
<1>6. h < confirmation_depth => Confirmed(h) = x + n
  <2>1. h < confirmation_depth => x < 0
    BY <1>1
  <2> HIDE DEF n, x
  <2> QED BY <1>1, <1>2, <1>4, <2>1
<1>7. h >= confirmation_depth \/ h < confirmation_depth
  BY <1>1
<1> QED BY <1>1, <1>5, <1>6, <1>7

-----------------------------------------------------------------------------
(* Payments and spends *)

(* A payment has one output, of its own address.                           *)
LEMMA PaymentFacts ==
  ASSUME NEW d \in Deposits
  PROVE  /\ Payment(d).txid = d /\ Payment(d).input = {}
         /\ Payment(d).output \in Seq([value : Nat, address : Nat])
         /\ DOMAIN Payment(d).output = {1}
         /\ Payment(d).output[1] = Output(Paid[d], d)
         /\ Payment(d).output[1].address = d
         /\ d \in Nat \ {0} /\ d \in Txids /\ d \notin Withdrawals /\ d \notin Foreign
<1>1. Paid[d] \in Nat /\ d \in Nat \ {0} /\ d \in Txids /\ d \notin Withdrawals /\ d \notin Foreign
  BY FundsAssumption DEF Txids
<1>2. Output(Paid[d], d) \in [value : Nat, address : Nat] /\ Output(Paid[d], d).address = d
  BY <1>1 DEF Output
<1> DEFINE x == Output(Paid[d], d)
<1>3. /\ Payment(d).txid = d /\ Payment(d).input = {} /\ Payment(d).output = <<x>>
  BY DEF Payment, Tx
<1> HIDE DEF x
<1>4. <<x>> \in Seq({x}) /\ DOMAIN <<x>> = {1} /\ <<x>>[1] = x
  OBVIOUS
<1>5. <<x>> \in Seq([value : Nat, address : Nat])
  <2>1. {x} \subseteq [value : Nat, address : Nat]
    BY <1>2 DEF x
  <2> HIDE DEF Output
  <2> QED BY <1>4, <2>1, SeqGrows
<1> QED BY <1>1, <1>2, <1>3, <1>4, <1>5 DEF x

(* A payment to an address of the wallet is tracked once.                  *)
LEMMA PaymentTaken ==
  ASSUME NEW A \in SUBSET Nat, NEW us \in Seq(UtxosOf(A)), NEW d \in Deposits, d \in A,
         At(us, OutPoint(d, 0)) = {}
  PROVE  LET r == ingest_external_tx(us, A, Payment(d))
         IN  \E k \in DOMAIN r : At(r, OutPoint(d, 0)) = {k}
<1> DEFINE tx == Payment(d)
           outs == [i \in DOMAIN tx.output |-> Utxo(tx.txid, i - 1, tx.output[i])]
           keep == {u \in Range(outs) : u.address \in A}
           a == Unspent(us, tx)
           b == retain(outs, keep)
           r == Joined(a, b)
           o == OutPoint(d, 0)
           u == Utxo(d, 0, Output(Paid[d], d))
<1>0. ingest_external_tx(us, A, tx) = r
  BY DEF ingest_external_tx, Joined
<1>1. u.outpoint = o /\ u.address = d /\ u \in UtxosOf(A)
  <2>1. d \in Txids /\ Paid[d] \in Nat
    BY FundsAssumption DEF Txids
  <2> QED BY <2>1 DEF Utxo, Output, OutPoint, UtxosOf
<1>2. DOMAIN outs = {1} /\ outs[1] = u
  <2>1. DOMAIN tx.output = {1} /\ tx.txid = d /\ tx.output[1] = Output(Paid[d], d)
    BY PaymentFacts
  <2> HIDE DEF tx, u
  <2>2. DOMAIN outs = {1} /\ outs[1] = Utxo(d, 1 - 1, Output(Paid[d], d)) /\ 1 - 1 = 0
    BY <2>1
  <2> QED BY <2>2 DEF u
<1>3. outs \in Seq(UtxosOf(A)) /\ u \in keep
  <2> HIDE DEF u
  <2>1. outs = [i \in {1} |-> outs[i]] /\ {1} = 1 .. 1
    BY <1>2
  <2>2. outs[1] \in UtxosOf(A)
    BY <1>1, <1>2
  <2> HIDE DEF outs
  <2>3. outs \in [1 .. 1 -> UtxosOf(A)]
    BY <2>1, <2>2
  <2>4. u \in Range(outs)
    BY <1>2 DEF Range
  <2>5. outs \in Seq(UtxosOf(A))
    <3>1. \A n \in Nat : \A f \in [1 .. n -> UtxosOf(A)] : f \in Seq(UtxosOf(A))
      OBVIOUS
    <3>2. 1 \in Nat
      OBVIOUS
    <3> QED BY <2>3, <3>1, <3>2, Zenon
  <2>6. u \in keep
    BY <1>1, <2>4, Zenon
  <2> QED BY <2>5, <2>6
<1> HIDE DEF outs, u
<1>4. /\ b \in Seq(UtxosOf(A))
      /\ \A k \in DOMAIN b : \E i \in DOMAIN outs : b[k] = outs[i]
      /\ \A i \in DOMAIN outs : outs[i] \in keep => \E k \in DOMAIN b : b[k] = outs[i]
      /\ \A Y : (\A i, j \in DOMAIN outs : outs[i] \in Y /\ outs[j] \in Y => i = j) =>
                    \A k, l \in DOMAIN b : b[k] \in Y /\ b[l] \in Y => k = l
  <2> HIDE DEF keep
  <2> QED BY <1>3, Retain
<1> HIDE DEF b
<1>5. PICK k \in DOMAIN b : b[k] = u
  BY <1>2, <1>3, <1>4
<1>6. \A l \in DOMAIN b : b[l] = u /\ l = k
  <2>1. \A l \in DOMAIN b : b[l] = u
    BY <1>2, <1>4
  <2> DEFINE Y == {u}
  <2>2. \A i, j \in DOMAIN outs : outs[i] \in Y /\ outs[j] \in Y => i = j
    BY <1>2
  <2>3. \A l \in DOMAIN b : b[l] \in Y
    BY <2>1
  <2> HIDE DEF Y
  <2> QED BY <1>4, <1>5, <2>1, <2>2, <2>3
<1>7. At(b, o) = {k}
  BY <1>1, <1>5, <1>6 DEF At
<1>8. a \in Seq(UtxosOf(A)) /\ At(a, o) = {}
  BY UnspentFacts, Zenon
<1> HIDE DEF a, o
<1>9. \E l \in DOMAIN r : At(r, o) = {l}
  <2> HIDE DEF keep, tx
  <2>1. a \in Seq(UtxosOf(A)) /\ b \in Seq(UtxosOf(A))
    BY <1>4, <1>8, Zenon
  <2>2. \A s, t \in Seq(UtxosOf(A)) :
           At(s, o) = {} /\ k \in DOMAIN t /\ At(t, o) = {k} =>
               \E l \in DOMAIN Joined(s, t) : At(Joined(s, t), o) = {l}
    BY ONLY AtJoinedOnce
  <2>3. k \in DOMAIN b
    BY <1>5
  <2>4. \E l \in DOMAIN Joined(a, b) : At(Joined(a, b), o) = {l}
    BY ONLY <1>7, <1>8, <2>1, <2>2, <2>3, Zenon
  <2> QED BY ONLY <2>4, Zenon
<1> QED BY <1>0, <1>9 DEF o

(* A transaction that is sent, spent or confirmed is a payment or a spend. *)
LEMMA Known ==
  ASSUME TypeOK, TxInv, NEW tx \in sent \cup Confirming \cup spends
  PROVE  /\ \/ \E d \in Deposits : tx = Payment(d)
            \/ tx \in spends /\ tx.txid \in Withdrawals /\ tx.txid \notin Deposits
         /\ tx.txid \in Txids
         /\ \A d \in Deposits : tx.txid = d => tx = Payment(d)
<1>1. tx \in Payments \cup spends
  BY DEF TxInv
<1>2. \A d \in Deposits : Payment(d).txid = d /\ d \notin Withdrawals /\ d \in Txids
  BY PaymentFacts
<1>3. CASE tx \in spends
  <2>1. tx.txid \in Withdrawals
    BY <1>3 DEF TxInv, TypeOK
  <2> QED BY <1>2, <1>3, <2>1 DEF Txids
<1>4. CASE tx \in Payments
  BY <1>2, <1>4 DEF Payments
<1> QED BY <1>1, <1>3, <1>4

(* A transaction pays at most the intent it belongs to.                    *)
LEMMA PaidByFacts ==
  ASSUME TypeOK, TxInv, DepositInv, NEW tx \in Confirming
  PROVE  /\ PaidBy(tx) \subseteq {tx.txid} \cap Deposits \cap intents
         /\ tx \in spends => PaidBy(tx) = {}
         /\ \A d \in Deposits : tx = Payment(d) => PaidBy(tx) = {d} \cap deposit_addresses \cap intents
<1>1. ASSUME NEW d \in Deposits, tx = Payment(d)
      PROVE  PaidBy(tx) = {d} \cap deposit_addresses \cap intents /\ tx.txid = d
  <2>1. DOMAIN tx.output = {1} /\ tx.output[1].address = d /\ tx.txid = d
    BY <1>1, PaymentFacts
  <2> QED BY <2>1 DEF PaidBy
<1>2. ASSUME tx \in spends
      PROVE  PaidBy(tx) = {}
  <2> DEFINE O == [value : Nat, address : {0} \cup (addresses \cap chain_txs)]
             q == tx.output
  <2>1. q \in Seq(O)
    BY <1>2, Zenon DEF TxInv
  <2>2. \A i \in DOMAIN q : q[i] \in O
    <3> HIDE DEF O, q
    <3> QED BY <2>1
  <2>3. \A i \in DOMAIN q : q[i].address \in {0} \cup (addresses \cap chain_txs)
    <3> HIDE DEF q
    <3> QED BY <2>2
  <2>4. 0 \notin intents /\ intents \cap chain_txs = {}
    BY FundsAssumption DEF TypeOK, DepositInv
  <2> QED BY <2>3, <2>4 DEF PaidBy
<1>3. tx \in spends \/ \E d \in Deposits : tx = Payment(d)
  BY Known
<1>4. intents \subseteq Deposits
  BY DEF TypeOK
<1> QED BY <1>1, <1>2, <1>3, <1>4

(* What becomes of the block's transactions when a deposit is credited.    *)
LEMMA CreditFacts ==
  ASSUME TypeOK, TxInv, DepositInv, NEW tx \in Confirming, NEW pt
  PROVE  LET r == FoldSet(add_transaction_to_block, pt, Credits(PaidBy(tx)))
         IN  \/ PaidBy(tx) \cap Own = {} /\ r = pt
             \/ /\ PaidBy(tx) \cap Own = {tx.txid}
                /\ r = add_transaction_to_block(Credit(tx.txid), pt)
<1>1. PaidBy(tx) \subseteq {tx.txid}
  BY PaidByFacts
<1>2. CASE PaidBy(tx) \cap Own = {}
  <2>1. Credits(PaidBy(tx)) = {}
    BY <1>2 DEF Credits
  <2> QED BY <1>2, <2>1, OneCredit, Zenon
<1>3. CASE PaidBy(tx) \cap Own = {tx.txid}
  <2>1. Credits(PaidBy(tx)) = {Credit(tx.txid)}
    BY <1>3 DEF Credits
  <2> QED BY <1>3, <2>1, OneCredit, Zenon
<1> QED BY <1>1, <1>2, <1>3, Zenon

(* The block's transactions stay those of the user.                        *)
LEMMA AddToBlock ==
  ASSUME NEW X, NEW pt \in Seq(X), NEW t \in X
  PROVE  /\ add_transaction_to_block(t, pt) \in Seq(X)
         /\ (\E i \in DOMAIN pt : pt[i] = t) => add_transaction_to_block(t, pt) = pt
         /\ (\A i \in DOMAIN pt : pt[i] # t) => add_transaction_to_block(t, pt) = Append(pt, t)
<1>1. t \in Range(pt) <=> \E i \in DOMAIN pt : pt[i] = t
  BY DEF Range
<1>2. Append(pt, t) \in Seq(X)
  BY SeqFacts, Zenon
<1> QED BY <1>1, <1>2 DEF add_transaction_to_block

(* The spend of a withdrawal: what it takes, and what it leaves.           *)
TakesFromWallet(tx) == \A o \in tx.input : \E i \in DOMAIN utxos : utxos[i].outpoint = o

LeavesChange(r, w) ==
    \A k \in DOMAIN r : \/ \E i \in DOMAIN utxos : r[k] = utxos[i]
                        \/ r[k].address \in chain_txs /\ r[k].outpoint.txid = w

(* A spend as start_spend_request makes it.                                *)
LEMMA SpendMade ==
  ASSUME TypeOK, UtxoInv, NEW w \in Withdrawals, HasFunds(utxos, amount_sat[w] + Fee),
         NEW tx, tx = create_spend(utxos, w, amount_sat[w], Fee)
  PROVE  /\ tx.txid = w
         /\ tx.output \in Seq([value : Nat, address : {0} \cup (addresses \cap chain_txs)])
         /\ TakesFromWallet(tx)
         /\ AfterSpend(utxos, tx) \in Seq(UtxosOf(addresses))
         /\ LeavesChange(AfterSpend(utxos, tx), w)
         /\ SpentOnly(AfterSpend(utxos, tx), utxos, tx)
<1> DEFINE A == addresses
           amount == amount_sat[w]
           B == {0} \cup (addresses \cap chain_txs)
           O == [value : Nat, address : B]
           r == AfterSpend(utxos, tx)
<1>1. A \in SUBSET Nat /\ utxos \in Seq(UtxosOf(A)) /\ amount \in Nat \ {0} /\ Fee \in Nat /\ w \in Txids
  BY FundsAssumption, Amounts_, Zenon DEF TypeOK, UtxosOf, Txids
<1>2. \A i \in DOMAIN utxos : utxos[i].address \in A \cap chain_txs
  <2>1. \A i \in DOMAIN utxos : utxos[i] \in UtxosOf(A)
    <3> HIDE DEF A
    <3> QED BY <1>1, SeqFacts, Zenon
  <2> QED BY <2>1 DEF UtxosOf, UtxoInv
<1>3. /\ tx.txid = w
      /\ \A o \in tx.input : \E i \in DOMAIN utxos : utxos[i].outpoint = o
      /\ AmountAndChange(tx.output, amount, utxos)
  <2> DEFINE target == amount + Fee
  <2>1. HasFunds(utxos, target) /\ tx = create_spend(utxos, w, amount, Fee)
    OBVIOUS
  <2>2. A \in SUBSET Nat /\ utxos \in Seq(UtxosOf(A)) /\ amount \in Nat \ {0} /\ Fee \in Nat
    BY <1>1
  <2>3. target = amount + Fee
    OBVIOUS
  <2> HIDE DEF A, amount, B, O, r, target
  <2>4. \A o \in tx.input : \E i \in DOMAIN utxos : utxos[i].outpoint = o
    BY ONLY <2>1, <2>2, <2>3, SpendFacts
  <2>5. AmountAndChange(tx.output, amount, utxos)
    BY ONLY <2>1, <2>2, <2>3, SpendFacts, Zenon
  <2>6. tx.txid = w
    BY ONLY <2>1, SpendId
  <2> QED BY <2>4, <2>5, <2>6
<1>4. \/ tx.output = <<Output(amount, 0)>>
      \/ \E c \in Nat : \E a \in A \cap chain_txs : tx.output = <<Output(amount, 0), Output(c, a)>>
  BY <1>2, <1>3 DEF AmountAndChange
<1>5. Output(amount, 0) \in O /\ \A c \in Nat : \A a \in A \cap chain_txs : Output(c, a) \in O
  BY <1>1 DEF Output
<1>6. tx.output \in Seq(O)
  <2> DEFINE x == Output(amount, 0)
  <2>1. \A y, z \in O : <<y>> \in Seq(O) /\ <<y, z>> \in Seq(O)
    BY ShortSeqs, Zenon
  <2> HIDE DEF O, x
  <2> QED BY <1>4, <1>5, <2>1, Zenon DEF x
<1>7. /\ r \in Seq(UtxosOf(A))
      /\ \A k \in DOMAIN r :
            \/ \E i \in DOMAIN utxos : r[k] = utxos[i]
            \/ 2 \in DOMAIN tx.output /\ r[k] = Utxo(tx.txid, 1, tx.output[2])
      /\ SpentOnly(r, utxos, tx)
  <2>1. \/ \E x : tx.output = <<x>>
        \/ \E x : \E c \in Nat : \E a \in A : tx.output = <<x, Output(c, a)>>
    BY <1>4
  <2>2. tx.txid \in Txids
    BY <1>1, <1>3
  <2> HIDE DEF A, amount, B, O
  <2>3. A \in SUBSET Nat /\ utxos \in Seq(UtxosOf(A))
    BY <1>1, Zenon
  <2> QED BY ONLY <2>1, <2>2, <2>3, AfterSpendFacts, Zenon
<1>8. \A k \in DOMAIN r : \/ \E i \in DOMAIN utxos : r[k] = utxos[i]
                          \/ r[k].address \in chain_txs /\ r[k].outpoint.txid = w
  <2> HIDE DEF A, amount, B, O, r
  <2>1. 2 \in DOMAIN tx.output =>
            \E c \in Nat : \E a \in A \cap chain_txs : tx.output[2] = Output(c, a)
    BY ONLY <1>4
  <2>2. 2 \in DOMAIN tx.output => /\ Utxo(tx.txid, 1, tx.output[2]).address \in chain_txs
                                  /\ Utxo(tx.txid, 1, tx.output[2]).outpoint.txid = w
    <3>1. \A id, n, c, a : /\ Utxo(id, n, Output(c, a)).address = a
                           /\ Utxo(id, n, Output(c, a)).outpoint.txid = id
      BY DEF Utxo, OutPoint, Output
    <3> QED BY <1>3, <2>1, <3>1
  <2> QED BY <1>7, <2>2, Zenon
<1> HIDE DEF r
<1> QED BY <1>3, <1>6, <1>7, <1>8, Zenon DEF r, TakesFromWallet, LeavesChange

-----------------------------------------------------------------------------
(* Steps *)

(* The heights the monitor compares.                                       *)
LEMMA Heights ==
  ASSUME TypeOK
  PROVE  /\ height \in 0 .. MaxHeight /\ height \in Nat /\ height <= MaxHeight /\ MaxHeight \in Nat
         /\ monitor.last_confirmed_height \in Nat /\ confirmation_depth \in Nat
<1>1. /\ height \in 0 .. MaxHeight
      /\ monitor \in [started : BOOLEAN, addresses : SUBSET Deposits,
                      last_confirmed_height : 0 .. MaxU32]
  BY Zenon DEF TypeOK
<1>2. MaxHeight \in Nat /\ MaxU32 \in Nat /\ confirmation_depth \in Nat
  BY FundsAssumption, Zenon
<1> QED BY <1>1, <1>2

(* Steps that hand nothing to the chain.                                   *)
LEMMA UserTxsSame ==
  ASSUME amount_sat' = amount_sat, chain_txs' = chain_txs
  PROVE  UserTxs' = UserTxs
  BY DEF UserTxs, Credits, Credit, Debit

(* Steps that post no confirmed transaction.                               *)
LEMMA ConfirmingSame ==
  ASSUME events' = events
  PROVE  Confirming' = Confirming
  BY DEF Confirming

(* A confirmed transaction, and what its handling takes away.              *)
LEMMA ConfirmingFacts ==
  ASSUME NEW tx
  PROVE  /\ Event("ConfirmDeposit", tx) \in events => tx \in Confirming
         /\ \A w, E : E = events \cup {Event("Spend", w)} /\ events' = E => Confirming' = Confirming
         /\ \A w, E : E = events \ {Event("Spend", w)} /\ events' = E => Confirming' = Confirming
         /\ \A w, E : E = events \ {Event("ConfirmDeposit", w)} /\ events' = E => Confirming' \subseteq Confirming
         /\ \A X, E : E = events \cup {Event("ConfirmDeposit", x) : x \in X} /\ events' = E => Confirming' = Confirming \cup X
<1>1. \A w : Event("Spend", w).type = "Spend" /\ Event("ConfirmDeposit", w).type = "ConfirmDeposit"
               /\ Event("ConfirmDeposit", w).body = w
  BY DEF Event
<1>2. Event("ConfirmDeposit", tx) \in events => tx \in Confirming
  BY <1>1 DEF Confirming
<1>3. ASSUME NEW w, events' = events \cup {Event("Spend", w)} \/ events' = events \ {Event("Spend", w)}
      PROVE  Confirming' = Confirming
  <2>1. \A e : e.type = "ConfirmDeposit" => (e \in events' <=> e \in events)
    BY <1>1, <1>3
  <2> QED BY <2>1 DEF Confirming
<1>4. ASSUME NEW w, events' = events \ {Event("ConfirmDeposit", w)}
      PROVE  Confirming' \subseteq Confirming
  BY <1>4 DEF Confirming
<1>5. ASSUME NEW X, events' = events \cup {Event("ConfirmDeposit", x) : x \in X}
      PROVE  Confirming' = Confirming \cup X
  <2>1. ASSUME NEW x \in Confirming' PROVE x \in Confirming \cup X
    BY <1>1, <1>5, <2>1 DEF Confirming
  <2>2. ASSUME NEW x \in Confirming \cup X PROVE x \in Confirming'
    <3>1. CASE x \in X
      <4>1. Event("ConfirmDeposit", x) \in events'
        BY <1>5, <3>1
      <4> QED BY <1>1, <4>1 DEF Confirming
    <3>2. CASE x \in Confirming
      BY <1>5, <3>2, Zenon DEF Confirming
    <3> QED BY <2>2, <3>1, <3>2
  <2> QED BY <2>1, <2>2
<1> QED BY <1>2, <1>3, <1>4, <1>5

(* What the wallet takes in with a confirmed transaction.                  *)
LEMMA Ingested ==
  ASSUME TypeOK, TxInv, NEW tx \in Confirming, NEW r, r = ingest_external_tx(utxos, addresses, tx)
  PROVE  r \in Seq(UtxosOf(addresses)) /\ TakenIn(r, utxos, addresses, tx) /\ SpentOnly(r, utxos, tx)
<1>1. addresses \in SUBSET Nat /\ utxos \in Seq(UtxosOf(addresses)) /\ tx.txid \in Txids
  BY FundsAssumption, Known, Zenon DEF TypeOK, UtxosOf
<1>2. tx.output \in Seq([value : Nat, address : Nat])
  <2>1. CASE tx \in spends
    <3> DEFINE O == [value : Nat, address : {0} \cup (addresses \cap chain_txs)]
               P == [value : Nat, address : Nat]
    <3>1. tx.output \in Seq(O)
      BY <2>1, Zenon DEF TxInv
    <3>2. O \subseteq P
      <4>1. \A x \in {0} \cup (addresses \cap chain_txs) : x \in Nat
        BY <1>1
      <4> QED BY <4>1, Zenon
    <3> HIDE DEF O, P
    <3>3. tx.output \in Seq(P)
      BY <3>1, <3>2, SeqGrows, Zenon
    <3> QED BY <3>3 DEF P
  <2> QED BY <2>1, Known, PaymentFacts
<1> QED BY <1>1, <1>2, IngestFacts

(* The spend of another node changes no output of this wallet.             *)
LEMMA ForeignIngested ==
  ASSUME TypeOK, NEW f \in Foreign, NEW r, r = ingest_external_tx(utxos, addresses, ForeignTx(f))
  PROVE  /\ r \in Seq(UtxosOf(addresses))
         /\ \A k \in DOMAIN r : \E i \in DOMAIN utxos : r[k] = utxos[i]
         /\ \A d \in Deposits : At(utxos, OutPoint(d, 0)) = {} => At(r, OutPoint(d, 0)) = {}
         /\ \A d \in Deposits : (\E i \in DOMAIN utxos : At(utxos, OutPoint(d, 0)) = {i})
                                    => \E k \in DOMAIN r : At(r, OutPoint(d, 0)) = {k}
<1> DEFINE tx == ForeignTx(f)
<1>1. addresses \in SUBSET Nat /\ 0 \notin addresses /\ utxos \in Seq(UtxosOf(addresses))
  BY FundsAssumption, Zenon DEF TypeOK, UtxosOf
<1>2. tx.txid = f /\ tx.input = {OutPoint(0, f)} /\ tx.output = <<Output(1, 0)>>
  BY Zenon DEF ForeignTx, Tx
<1>3. tx.output \in Seq([value : Nat, address : Nat]) /\ \A i \in DOMAIN tx.output : tx.output[i].address = 0
  <2> DEFINE x == Output(1, 0)
             O == [value : Nat, address : Nat]
  <2>1. x \in O /\ x.address = 0
    BY DEF Output
  <2> HIDE DEF x, O
  <2>2. <<x>> \in Seq(O) /\ \A i \in DOMAIN <<x>> : <<x>>[i] = x
    BY <2>1
  <2> QED BY <1>2, <2>1, <2>2 DEF x, O
<1> HIDE DEF tx
<1>4. r \in Seq(UtxosOf(addresses)) /\ TakenIn(r, utxos, addresses, tx) /\ SpentOnly(r, utxos, tx)
  <2>1. \A i \in DOMAIN tx.output : tx.output[i].address \in addresses => tx.txid \in Txids
    BY <1>1, <1>3
  <2>2. r = ingest_external_tx(utxos, addresses, tx)
    BY DEF tx
  <2> QED BY <1>1, <1>3, <2>1, <2>2, IngestFacts, Zenon
<1>5. \A d \in Deposits : /\ OutPoint(d, 0).txid = d /\ d # f /\ d # 0
                          /\ OutPoint(d, 0) # OutPoint(0, f)
  BY FundsAssumption, Zenon DEF OutPoint
<1>6. \A k \in DOMAIN r : \E i \in DOMAIN utxos : r[k] = utxos[i]
  BY <1>1, <1>3, <1>4, Zenon DEF TakenIn
<1> QED BY <1>2, <1>4, <1>5, <1>6 DEF SpentOnly

(* Every step keeps the state well formed.                                 *)
LEMMA TypeStep ==
  ASSUME FundsInv, Next
  PROVE  TypeOK'
<1> USE DEF bitcoin, monitoring, depositing, wallet, spending, account, history
<1>0. TypeOK /\ TxInv /\ DepositInv /\ UtxoInv
  BY DEF FundsInv
<1>1. CASE Mine
  <2>1. UserTxs' = UserTxs
    BY <1>1, UserTxsSame, Zenon DEF Mine
  <2>2. height' = height + 1 /\ height' \in 0 .. MaxHeight /\ height \in Nat
    BY <1>0, <1>1, FundsAssumption DEF Mine, TypeOK
  <2>3. mined' \in [Txids -> 0 .. height']
    <3>1. PICK txs : mined' = [id \in Txids |->
                        IF \E tx \in txs : tx.txid = id THEN height + 1 ELSE mined[id]]
      BY <1>1, Zenon DEF Mine
    <3>2. \A id \in Txids : mined[id] \in 0 .. height
      BY <1>0 DEF TypeOK
    <3>3. \A i \in 0 .. height : i \in 0 .. height + 1 /\ height + 1 \in 0 .. height + 1
      BY <2>2
    <3>4. height + 1 \in 0 .. height + 1
      BY <2>2
    <3> HIDE DEF bitcoin
    <3> QED BY <2>2, <3>1, <3>2, <3>3, <3>4, Zenon
  <2>4. watched' \subseteq Deposits
    BY <1>0, <1>1 DEF Mine, TypeOK
  <2> QED BY <1>0, <1>1, <2>1, <2>2, <2>3, <2>4, Zenon DEF Mine, TypeOK
<1>2. CASE MonitorStart
  <2>1. UserTxs' = UserTxs
    BY <1>2, UserTxsSame, Zenon DEF MonitorStart
  <2>2. Confirmed(height) \in 0 .. MaxU32 /\ 0 \in 0 .. MaxU32
    BY <1>0, ConfirmedFacts, FundsAssumption DEF TypeOK
  <2>3. monitor' \in [started : BOOLEAN, addresses : SUBSET Deposits, last_confirmed_height : 0 .. MaxU32]
    BY <1>0, <1>2, <2>2, Zenon DEF MonitorStart, TypeOK
  <2> QED BY <1>0, <1>2, <2>1, <2>3 DEF MonitorStart, TypeOK
<1>3. CASE Poll
  <2>1. UserTxs' = UserTxs
    BY <1>3, UserTxsSame DEF Poll
  <2>2. Confirmed(height) \in 0 .. MaxU32
    BY <1>0, ConfirmedFacts DEF TypeOK
  <2>3. monitor' \in [started : BOOLEAN, addresses : SUBSET Deposits, last_confirmed_height : 0 .. MaxU32]
    BY <1>0, <1>3, <2>2, Zenon DEF Poll, TypeOK, new_confirmed_height
  <2>4. missed' \subseteq Deposits
    BY <1>0, <1>3, FundsAssumption DEF Poll, TypeOK
  <2>5. \A e \in events' : e.type \in {"ConfirmDeposit", "Spend"}
    <3>1. PICK T : events' = events \cup {Event("ConfirmDeposit", tx) : tx \in T}
      BY <1>3, Zenon DEF Poll
    <3>2. \A e \in events : e.type \in {"ConfirmDeposit", "Spend"}
      BY <1>0, Zenon DEF TypeOK
    <3> QED BY <3>1, <3>2, EventFacts, Zenon
  <2> QED BY <1>0, <1>3, <2>1, <2>3, <2>4, <2>5, Zenon DEF Poll, TypeOK
<1>4. CASE NodeStart
  <2>1. UserTxs' = UserTxs
    BY <1>4, UserTxsSame, Zenon DEF NodeStart
  <2> QED BY <1>0, <1>4, <2>1 DEF NodeStart, TypeOK, Announce
<1>5. CASE SessionReplaced
  <2>1. UserTxs' = UserTxs
    BY <1>5, UserTxsSame, Zenon DEF SessionReplaced
  <2> QED BY <1>0, <1>5, <2>1 DEF SessionReplaced, TypeOK
<1>6. CASE FinalizeBlock
  <2>1. UserTxs' = UserTxs
    BY <1>6, UserTxsSame DEF FinalizeBlock
  <2>2. balance' \in Nat
    <3> DEFINE pt == proposed_transactions
               n == Len(pt)
    <3>1. pt \in Seq(UserTxs) /\ balance \in Nat /\ \A t \in UserTxs : Worth(t) \in Int
      BY <1>0, Kinds DEF TypeOK
    <3>2. n \in DOMAIN pt /\ n \in 0 .. n
      BY <1>6, <3>1 DEF FinalizeBlock
    <3>3. balance' = BalanceAfter(n) /\ BalanceAfter(n) >= 0
      BY <1>6, <3>2 DEF FinalizeBlock, Outlook
    <3>4. BalanceAfter(n) = balance + SumTo(pt, n)
      BY DEF BalanceAfter, SumTo, Worths
    <3>5. SumTo(pt, n) \in Int
      <4> HIDE DEF n, pt
      <4> QED BY <3>1, <3>2, SumToType, Zenon DEF n
    <3>6. \A b \in Nat, z \in Int : b + z >= 0 => b + z \in Nat
      OBVIOUS
    <3> QED BY <3>1, <3>3, <3>4, <3>5, <3>6, Zenon
  <2> QED BY <1>0, <1>6, <2>1, <2>2 DEF FinalizeBlock, TypeOK
<1>7. ASSUME NEW d \in Deposits, Pay(d)
      PROVE  TypeOK'
  <2>1. UserTxs' = UserTxs
    BY <1>7, UserTxsSame DEF Pay
  <2> QED BY <1>0, <1>7, <2>1, Zenon DEF Pay, TypeOK
<1>8. ASSUME NEW d \in Deposits, MonitorAddress(d)
      PROVE  TypeOK'
  <2>1. UserTxs' = UserTxs
    BY <1>8, UserTxsSame DEF MonitorAddress
  <2>2. monitor' \in [started : BOOLEAN, addresses : SUBSET Deposits, last_confirmed_height : 0 .. MaxU32]
    BY <1>0, <1>8 DEF MonitorAddress, TypeOK
  <2>3. \A e \in events' : e.type \in {"ConfirmDeposit", "Spend"}
    <3>1. events' \subseteq events \cup {Event("ConfirmDeposit", Payment(d))}
      BY <1>8 DEF MonitorAddress
    <3>2. \A e \in events : e.type \in {"ConfirmDeposit", "Spend"}
      BY <1>0, Zenon DEF TypeOK
    <3> QED BY <3>1, <3>2, EventFacts, Zenon
  <2> QED BY <1>0, <1>8, <2>1, <2>2, <2>3 DEF MonitorAddress, TypeOK
<1>9. ASSUME NEW d \in Deposits, create_deposit(d)
      PROVE  TypeOK'
  <2>1. UserTxs' = UserTxs
    BY <1>9, UserTxsSame DEF create_deposit
  <2>2. UtxosOf(addresses) \subseteq UtxosOf(addresses')
    BY <1>9 DEF create_deposit, UtxosOf
  <2>3. utxos' \in Seq(UtxosOf(addresses'))
    <3>1. utxos \in Seq(UtxosOf(addresses))
      BY <1>0 DEF TypeOK, UtxosOf
    <3>2. utxos' = utxos
      BY <1>9 DEF create_deposit
    <3> QED BY <2>2, <3>1, <3>2, SeqGrows
  <2> QED BY <1>0, <1>9, <2>1, <2>3, Zenon DEF create_deposit, TypeOK, Announce, UtxosOf
<1>10. ASSUME NEW tx \in Confirming, insert_pending_deposit_transaction(tx)
       PROVE  TypeOK'
  <2>1. CASE tx.txid \in processed_txids
    <3>1. UserTxs' = UserTxs
      BY <1>10, <2>1, UserTxsSame DEF insert_pending_deposit_transaction
    <3> QED BY <1>0, <1>10, <2>1, <3>1, Zenon DEF insert_pending_deposit_transaction, TypeOK
  <2>2. CASE tx.txid \notin processed_txids
    <3>1. /\ PaidBy(tx) \subseteq {tx.txid} \cap Deposits \cap intents
          /\ tx.txid \in Txids
      BY <1>0, PaidByFacts, Known, Zenon
    <3>2. /\ chain_txs' = chain_txs \cup PaidBy(tx) /\ amount_sat' = amount_sat
          /\ proposed_transactions' = FoldSet(add_transaction_to_block, proposed_transactions,
                                              Credits(PaidBy(tx)))
          /\ utxos' = ingest_external_tx(utxos, addresses, tx) /\ addresses' = addresses
      BY <1>10, <2>2 DEF insert_pending_deposit_transaction
    <3>3. UserTxs \subseteq UserTxs' /\ \A d \in PaidBy(tx) \cap Own : Credit(d) \in UserTxs'
      <4>1. UserTxs \subseteq UserTxs'
        BY <3>2, UserTxsGrow, Zenon
      <4>2. \A d \in PaidBy(tx) \cap Own : Credit(d) \in UserTxs'
        BY <3>2, Zenon DEF UserTxs, Credits, Credit
      <4> QED BY <4>1, <4>2
    <3>4. proposed_transactions \in Seq(UserTxs')
      BY <1>0, <3>3, SeqGrows DEF TypeOK
    <3>5. proposed_transactions' \in Seq(UserTxs')
      <4>1. CASE PaidBy(tx) \cap Own = {} /\ proposed_transactions' = proposed_transactions
        BY <3>4, <4>1
      <4>2. CASE /\ PaidBy(tx) \cap Own = {tx.txid}
                 /\ proposed_transactions' = add_transaction_to_block(Credit(tx.txid), proposed_transactions)
        <5>1. Credit(tx.txid) \in UserTxs'
          BY <3>3, <4>2
        <5> QED BY <3>4, <4>2, <5>1, AddToBlock
      <4> QED BY <1>0, <3>2, <4>1, <4>2, CreditFacts, Zenon
    <3>6. utxos' \in Seq(UtxosOf(addresses'))
      BY <1>0, <3>2, Ingested
    <3> QED BY <1>0, <1>10, <2>2, <3>1, <3>5, <3>6, Zenon DEF insert_pending_deposit_transaction, TypeOK, UtxosOf
  <2> QED BY <2>1, <2>2
<1>11. ASSUME NEW w \in Withdrawals, propose_withdrawal(w)
       PROVE  TypeOK'
  <2>1. UserTxs' = UserTxs
    BY <1>11, UserTxsSame DEF propose_withdrawal
  <2> QED BY <1>0, <1>11, <2>1, Zenon DEF propose_withdrawal, HandlerError, TypeOK
<1>12. ASSUME NEW w \in Withdrawals, confirm_withdrawal(w)
       PROVE  TypeOK'
  <2>1. UserTxs' = UserTxs
    BY <1>12, UserTxsSame, Zenon DEF confirm_withdrawal
  <2>2. \A e \in events' : e.type \in {"ConfirmDeposit", "Spend"}
    BY <1>0, <1>12 DEF confirm_withdrawal, TypeOK, Event
  <2> QED BY <1>0, <1>12, <2>1, <2>2, Zenon DEF confirm_withdrawal, HandlerError, TypeOK
<1>13. ASSUME NEW w \in Withdrawals, start_spend_request(w)
       PROVE  TypeOK'
  <2>1. UserTxs' = UserTxs
    BY <1>13, UserTxsSame DEF start_spend_request
  <2>2. utxos' \in Seq(UtxosOf(addresses'))
    <3>1. CASE utxos' = utxos
      BY <1>0, <1>13, <3>1 DEF start_spend_request, TypeOK, UtxosOf
    <3>2. CASE ~(utxos' = utxos)
      <4> DEFINE tx == create_spend(utxos, w, amount_sat[w], Fee)
      <4>1. HasFunds(utxos, amount_sat[w] + Fee) /\ utxos' = AfterSpend(utxos, tx) /\ addresses' = addresses
        BY <1>13, <3>2 DEF start_spend_request
      <4>2. tx = create_spend(utxos, w, amount_sat[w], Fee)
        BY Zenon
      <4> HIDE DEF tx
      <4> QED BY <1>0, <4>1, <4>2, SpendMade, Zenon
    <3> QED BY <3>1, <3>2, Zenon
  <2>3. session' \subseteq spends' /\ \A s, t \in session' : s = t
    BY <1>0, <1>13 DEF start_spend_request, TypeOK, NewSession
  <2> QED BY <1>0, <1>13, <2>1, <2>2, <2>3, Zenon DEF start_spend_request, TypeOK, UtxosOf
<1>14. ASSUME NEW tx \in session, handle_signed_withdrawal(tx)
       PROVE  TypeOK'
  <2>0. tx.txid \in Withdrawals
    BY <1>0, Zenon DEF TypeOK, TxInv
  <2>1. proposed_transactions' \in Seq(UserTxs')
    <3>1. CASE UNCHANGED <<chain_txs, proposed_transactions>>
      <4>1. UserTxs' = UserTxs
        BY <1>14, <3>1, UserTxsSame DEF handle_signed_withdrawal
      <4> QED BY <1>0, <3>1, <4>1, Zenon DEF TypeOK
    <3>2. CASE /\ chain_txs' = chain_txs \cup {tx.txid}
               /\ proposed_transactions' = add_transaction_to_block(Debit(tx.txid), proposed_transactions)
      <4>1. amount_sat' = amount_sat
        BY <1>14 DEF handle_signed_withdrawal
      <4>2. UserTxs \subseteq UserTxs'
        BY <3>2, <4>1, UserTxsGrow, Zenon
      <4>3. Debit(tx.txid) \in UserTxs'
        BY <2>0, <3>2, <4>1 DEF UserTxs, Debit
      <4>4. proposed_transactions \in Seq(UserTxs')
        BY <1>0, <4>2, SeqGrows, Zenon DEF TypeOK
      <4> QED BY <3>2, <4>3, <4>4, AddToBlock, Zenon
    <3> QED BY <1>14, <3>1, <3>2 DEF handle_signed_withdrawal
  <2>2. session' \subseteq spends /\ \A s, t \in session' : s = t
    BY <1>0, <1>14 DEF handle_signed_withdrawal, HandlerError, TypeOK
  <2> QED BY <1>0, <1>14, <2>0, <2>1, <2>2, Zenon DEF handle_signed_withdrawal, HandlerError, TypeOK, Txids
<1>15. ASSUME NEW f \in Foreign, handle_withdrawl_message(f)
       PROVE  TypeOK'
  <2>1. proposed_transactions' \in Seq(UserTxs')
    <3>1. UserTxs \subseteq UserTxs' /\ proposed_transactions' = proposed_transactions
      BY <1>15, UserTxsGrow DEF handle_withdrawl_message
    <3> QED BY <1>0, <3>1, SeqGrows DEF TypeOK
  <2>2. utxos' \in Seq(UtxosOf(addresses'))
    <3>1. CASE utxos' = utxos
      BY <1>0, <1>15, <3>1 DEF handle_withdrawl_message, TypeOK, UtxosOf
    <3>2. CASE utxos' = ingest_external_tx(utxos, addresses, ForeignTx(f))
      <4>1. addresses' = addresses
        BY <1>15, Zenon DEF handle_withdrawl_message
      <4> QED BY <1>0, <3>2, <4>1, ForeignIngested
    <3> QED BY <1>15, <3>1, <3>2, Zenon DEF handle_withdrawl_message
  <2> QED BY <1>0, <1>15, <2>1, <2>2, Zenon DEF handle_withdrawl_message, HandlerError, TypeOK, UtxosOf
<1> QED BY <1>1, <1>2, <1>3, <1>4, <1>5, <1>6, <1>7, <1>8, <1>9, <1>10, <1>11, <1>12, <1>13,
           <1>14, <1>15, Zenon DEF Next

(* What only grows, and what never changes.                                *)
LEMMA Monotone ==
  ASSUME Next
  PROVE  /\ addresses \subseteq addresses' /\ chain_txs \subseteq chain_txs'
         /\ proposed \subseteq proposed' /\ spends \subseteq spends' /\ sent \subseteq sent'
         /\ amount_sat' = amount_sat /\ use_mock_oracle' = use_mock_oracle
         /\ monitor_start_block' = monitor_start_block
         /\ spends' = spends \/ \E w \in Withdrawals : start_spend_request(w)
<1> USE DEF bitcoin, monitoring, depositing, wallet, spending, account, history
<1>1. CASE Mine \/ MonitorStart \/ Poll \/ NodeStart \/ SessionReplaced \/ FinalizeBlock
  BY <1>1 DEF Mine, MonitorStart, Poll, NodeStart, SessionReplaced, FinalizeBlock
<1>2. CASE \E d \in Deposits : Pay(d) \/ MonitorAddress(d) \/ create_deposit(d)
  BY <1>2 DEF Pay, MonitorAddress, create_deposit
<1>3. CASE \E tx \in Confirming : insert_pending_deposit_transaction(tx)
  BY <1>3, Zenon DEF insert_pending_deposit_transaction
<1>4. CASE \E w \in Withdrawals : propose_withdrawal(w) \/ confirm_withdrawal(w)
  BY <1>4, Zenon DEF propose_withdrawal, confirm_withdrawal
<1>5. CASE \E w \in Withdrawals : start_spend_request(w)
  BY <1>5 DEF start_spend_request
<1>6. CASE \E tx \in session : handle_signed_withdrawal(tx)
  BY <1>6 DEF handle_signed_withdrawal
<1>7. CASE \E f \in Foreign : handle_withdrawl_message(f)
  BY <1>7, Zenon DEF handle_withdrawl_message
<1> QED BY <1>1, <1>2, <1>3, <1>4, <1>5, <1>6, <1>7, Zenon DEF Next

(* Only the monitor adds to the transactions that are to be confirmed.     *)
LEMMA ConfirmingStep ==
  ASSUME Next
  PROVE  \/ Confirming' \subseteq Confirming
         \/ Poll /\ Confirming' \subseteq
                        Confirming \cup ConfirmedTxs(min_height, new_confirmed_height)
         \/ use_mock_oracle /\ \E d \in Deposits : Confirming' = Confirming \cup {Payment(d)}
<1> USE DEF bitcoin, monitoring, depositing, wallet, spending, account, history
<1>1. CASE events' = events
  BY <1>1, ConfirmingSame
<1>2. CASE Poll
  <2> DEFINE found == ConfirmedTxs(min_height, new_confirmed_height)
  <2>1. PICK X \in SUBSET found : events' = events \cup {Event("ConfirmDeposit", x) : x \in X}
    <3>1. PICK failed : events' = events \cup {Event("ConfirmDeposit", tx) : tx \in found \ failed}
      BY <1>2 DEF Poll
    <3> DEFINE X == found \ failed
    <3>2. X \in SUBSET found
      OBVIOUS
    <3> HIDE DEF found
    <3> QED BY <3>1, <3>2, Zenon
  <2> HIDE DEF found
  <2>2. Confirming' = Confirming \cup X
    BY <2>1, ConfirmingFacts
  <2> QED BY <1>2, <2>2 DEF found
<1>3. ASSUME NEW d \in Deposits, MonitorAddress(d), use_mock_oracle
      PROVE  Confirming' = Confirming \cup {Payment(d)}
  <2> DEFINE X == {Payment(d)}
  <2>1. events' = events \cup {Event("ConfirmDeposit", x) : x \in X}
    BY <1>3 DEF MonitorAddress
  <2> HIDE DEF X
  <2>2. Confirming' = Confirming \cup X
    BY <2>1, ConfirmingFacts, Zenon
  <2> QED BY <2>2 DEF X
<1>4. CASE \E d \in Deposits : MonitorAddress(d)
  <2>1. CASE use_mock_oracle
    BY <1>3, <1>4, <2>1
  <2>2. CASE ~use_mock_oracle
    BY <1>1, <1>4, <2>2 DEF MonitorAddress
  <2> QED BY <2>1, <2>2
<1>5. CASE \E tx \in Confirming : insert_pending_deposit_transaction(tx)
  BY <1>5, ConfirmingFacts, Zenon DEF insert_pending_deposit_transaction
<1>6. CASE \E w \in Withdrawals : confirm_withdrawal(w)
  BY <1>1, <1>6, ConfirmingFacts DEF confirm_withdrawal
<1>7. CASE \E w \in Withdrawals : start_spend_request(w)
  BY <1>7, ConfirmingFacts, Zenon DEF start_spend_request
<1>8. CASE Mine \/ MonitorStart \/ NodeStart \/ SessionReplaced \/ FinalizeBlock
  <2>1. events' = events
    BY <1>8, Zenon DEF Mine, MonitorStart, NodeStart, SessionReplaced, FinalizeBlock
  <2> QED BY <1>1, <2>1
<1>9. CASE \E d \in Deposits : Pay(d) \/ create_deposit(d)
  BY <1>1, <1>9 DEF Pay, create_deposit
<1>10. CASE \E w \in Withdrawals : propose_withdrawal(w)
  BY <1>1, <1>10, Zenon DEF propose_withdrawal
<1>11. CASE \E tx \in session : handle_signed_withdrawal(tx)
  BY <1>1, <1>11, Zenon DEF handle_signed_withdrawal
<1>12. CASE \E f \in Foreign : handle_withdrawl_message(f)
  BY <1>1, <1>12 DEF handle_withdrawl_message
<1> QED BY <1>2, <1>4, <1>5, <1>6, <1>7, <1>8, <1>9, <1>10, <1>11, <1>12, Zenon DEF Next

(* Payments and spends are all that is sent.                               *)
LEMMA SentStep ==
  ASSUME FundsInv, Next
  PROVE  /\ sent' \cup Confirming' \subseteq Payments \cup spends
         /\ \/ sent' = sent
            \/ \E d \in Deposits : Pay(d) /\ sent' = sent \cup {Payment(d)}
            \/ \E tx \in session : handle_signed_withdrawal(tx) /\ sent' = sent \cup {tx}
<1> USE DEF bitcoin, monitoring, depositing, wallet, spending, account, history
<1>0. sent \cup Confirming \subseteq Payments \cup spends /\ session \subseteq spends
  BY Zenon DEF FundsInv, TypeOK, TxInv
<1>1. \/ sent' = sent
      \/ \E d \in Deposits : Pay(d) /\ sent' = sent \cup {Payment(d)}
      \/ \E tx \in session : handle_signed_withdrawal(tx) /\ sent' = sent \cup {tx}
  <2>1. CASE Mine \/ MonitorStart \/ Poll \/ NodeStart \/ SessionReplaced \/ FinalizeBlock
    BY <2>1 DEF Mine, MonitorStart, Poll, NodeStart, SessionReplaced, FinalizeBlock
  <2>2. CASE \E d \in Deposits : Pay(d) \/ MonitorAddress(d) \/ create_deposit(d)
    BY <2>2, Zenon DEF Pay, MonitorAddress, create_deposit
  <2>3. CASE \E tx \in Confirming : insert_pending_deposit_transaction(tx)
    BY <2>3 DEF insert_pending_deposit_transaction
  <2>4. CASE \E w \in Withdrawals : propose_withdrawal(w) \/ confirm_withdrawal(w) \/ start_spend_request(w)
    BY <2>4, Zenon DEF propose_withdrawal, confirm_withdrawal, start_spend_request
  <2>5. CASE \E tx \in session : handle_signed_withdrawal(tx)
    BY <2>5 DEF handle_signed_withdrawal
  <2>6. CASE \E f \in Foreign : handle_withdrawl_message(f)
    BY <2>6 DEF handle_withdrawl_message
  <2> QED BY <2>1, <2>2, <2>3, <2>4, <2>5, <2>6, Zenon DEF Next
<1>2. \A d \in Deposits : Payment(d) \in Payments
  BY DEF Payments
<1>3. sent' \subseteq Payments \cup spends
  BY <1>0, <1>1, <1>2
<1>4. ConfirmedTxs(min_height, new_confirmed_height) \subseteq sent
  BY Zenon DEF ConfirmedTxs
<1>5. Confirming' \subseteq Payments \cup spends
  BY <1>0, <1>2, <1>4, ConfirmingStep
<1> QED BY <1>1, <1>3, <1>5, Zenon

(* Every step keeps the transactions payments or spends.                   *)
LEMMA TxStep ==
  ASSUME FundsInv, Next
  PROVE  TxInv'
<1> USE DEF bitcoin, monitoring, depositing, wallet, spending, account, history
<1>0. TypeOK /\ TxInv /\ UtxoInv /\ SpendInv
  BY DEF FundsInv
<1>1. /\ addresses \subseteq addresses' /\ chain_txs \subseteq chain_txs' /\ proposed \subseteq proposed'
      /\ spends \subseteq spends'
  BY Monotone
<1>2. sent' \cup Confirming' \subseteq Payments \cup spends'
  BY <1>1, SentStep
<1> DEFINE O == [value : Nat, address : {0} \cup (addresses \cap chain_txs)]
           P == [value : Nat, address : {0} \cup (addresses' \cap chain_txs')]
<1>3. O \subseteq P
  BY <1>1
<1>4. ASSUME NEW tx, tx.output \in Seq(O)
      PROVE  tx.output \in Seq(P)
  <2> HIDE DEF O, P
  <2> QED BY <1>3, <1>4, SeqGrows, Zenon
<1>5. ASSUME NEW tx \in spends
      PROVE  /\ tx.txid \in proposed'
             /\ tx.output \in Seq(P)
             /\ \A o \in tx.input : o.txid \in Deposits => o.txid \in chain_txs'
  <2>1. /\ tx.txid \in proposed /\ tx.output \in Seq(O)
        /\ \A o \in tx.input : o.txid \in Deposits => o.txid \in chain_txs
    BY <1>0, Zenon DEF TxInv
  <2>2. tx.output \in Seq(P)
    BY <1>4, <2>1, Zenon
  <2> HIDE DEF O, P
  <2> QED BY <1>1, <2>1, <2>2
<1>6. ASSUME NEW w \in Withdrawals, start_spend_request(w), NEW tx \in spends' \ spends
      PROVE  /\ tx.txid \in proposed'
             /\ tx.output \in Seq(P)
             /\ \A o \in tx.input : o.txid \in Deposits => o.txid \in chain_txs'
  <2>1. HasFunds(utxos, amount_sat[w] + Fee) /\ tx = create_spend(utxos, w, amount_sat[w], Fee)
    BY <1>6, Zenon DEF start_spend_request
  <2>2. w \in proposed
    <3>1. Event("Spend", w) \in events
      BY <1>6 DEF start_spend_request
    <3> QED BY <1>0, <3>1, Zenon DEF SpendInv
  <2>3. tx.txid = w /\ tx.output \in Seq(O) /\ TakesFromWallet(tx)
    BY <1>0, <2>1, SpendMade, Zenon
  <2>4. tx.output \in Seq(P)
    BY <1>4, <2>3, Zenon
  <2>5. \A o \in tx.input : o.txid \in Deposits => o.txid \in chain_txs
    BY <1>0, <2>3 DEF UtxoInv, TakesFromWallet
  <2> HIDE DEF O, P
  <2> QED BY <1>1, <2>2, <2>3, <2>4, <2>5, Zenon
<1> HIDE DEF O, P
<1>7. \A tx \in spends' : /\ tx.txid \in proposed'
                          /\ tx.output \in Seq(P)
                          /\ \A o \in tx.input : o.txid \in Deposits => o.txid \in chain_txs'
  BY <1>5, <1>6, Monotone, Zenon
<1>8. Payments' = Payments
  BY Zenon DEF Payments, Payment, Tx, Output
<1> QED BY <1>2, <1>7, <1>8 DEF TxInv, P

(* The history of the chain stays finite.                                  *)
LEMMA FiniteStep ==
  ASSUME FundsInv, Next
  PROVE  IsFiniteSet(chain_txs')
<1> USE DEF bitcoin, monitoring, depositing, wallet, spending, account, history
<1>0. IsFiniteSet(chain_txs) /\ TypeOK /\ TxInv /\ DepositInv
  BY DEF FundsInv
<1>1. \A x : IsFiniteSet(chain_txs \cup {x})
  BY <1>0, FS_AddElement
<1>2. CASE \E tx \in Confirming : insert_pending_deposit_transaction(tx)
  <2>1. PICK tx \in Confirming : insert_pending_deposit_transaction(tx)
    BY <1>2, Zenon
  <2>2. chain_txs' = chain_txs \/ chain_txs' = chain_txs \cup PaidBy(tx)
    BY <2>1 DEF insert_pending_deposit_transaction
  <2>3. PaidBy(tx) \subseteq {tx.txid}
    BY <1>0, PaidByFacts, Zenon
  <2>4. chain_txs' \subseteq chain_txs \cup {tx.txid}
    BY <2>2, <2>3
  <2> QED BY <1>1, <2>4, FS_Subset, Zenon
<1>3. CASE \E tx \in session : handle_signed_withdrawal(tx)
  BY <1>0, <1>1, <1>3, Zenon DEF handle_signed_withdrawal
<1>4. CASE \E f \in Foreign : handle_withdrawl_message(f)
  BY <1>0, <1>1, <1>4, Zenon DEF handle_withdrawl_message
<1>5. CASE Mine \/ MonitorStart \/ Poll \/ NodeStart \/ SessionReplaced \/ FinalizeBlock
  BY <1>0, <1>5 DEF Mine, MonitorStart, Poll, NodeStart, SessionReplaced, FinalizeBlock
<1>6. CASE \E d \in Deposits : Pay(d) \/ MonitorAddress(d) \/ create_deposit(d)
  BY <1>0, <1>6 DEF Pay, MonitorAddress, create_deposit
<1>7. CASE \E w \in Withdrawals : propose_withdrawal(w) \/ confirm_withdrawal(w) \/ start_spend_request(w)
  BY <1>0, <1>7, Zenon DEF propose_withdrawal, confirm_withdrawal, start_spend_request
<1> QED BY <1>2, <1>3, <1>4, <1>5, <1>6, <1>7 DEF Next

-----------------------------------------------------------------------------
(* The monitor *)

(* Steps that leave the chain and the monitor alone.                       *)
LEMMA ScanSame ==
  ASSUME ScanInv,
         UNCHANGED <<height, mined, monitor, announced, watched, use_mock_oracle>>,
         sent \subseteq sent', Confirming' \subseteq Confirming
  PROVE  ScanInv'
  BY Zenon DEF ScanInv, Payment, Tx, Output

(* Every step keeps what is known of the monitor.                          *)
LEMMA ScanStep ==
  ASSUME FundsInv, Next
  PROVE  ScanInv'
<1> USE DEF bitcoin, monitoring, depositing, wallet, spending, account, history
<1>0. TypeOK /\ TxInv /\ ScanInv
  BY DEF FundsInv
<1>1. sent \subseteq sent' /\ use_mock_oracle' = use_mock_oracle
  BY Monotone, Zenon
<1> DEFINE l == monitor.last_confirmed_height
<1>2. /\ height \in 0 .. MaxHeight /\ height \in Nat /\ MaxHeight \in Nat
      /\ l \in Nat /\ confirmation_depth \in Nat
  BY <1>0, Heights, Zenon
<1>n. \A id \in Txids : mined[id] \in Nat
  BY <1>0 DEF TypeOK
<1>s. monitor.addresses \subseteq Deposits /\ watched \subseteq Deposits
  BY <1>0 DEF TypeOK
<1>3. \A tx \in Confirming : tx.txid \in Txids
  BY <1>0, Known
<1>4. \A d \in Deposits : d \in Txids /\ Payment(d).txid = d
  BY PaymentFacts, Zenon
<1>5. CASE Mine
  <2>1. Confirming' = Confirming
    BY <1>5, ConfirmingSame, Zenon DEF Mine
  <2>2. PICK txs \in SUBSET {tx \in sent : mined[tx.txid] = 0} :
           /\ mined' = [id \in Txids |->
                           IF \E tx \in txs : tx.txid = id THEN height + 1 ELSE mined[id]]
           /\ watched' = watched \cup {d \in monitor.addresses : Payment(d) \in txs}
    BY <1>5, Zenon DEF Mine
  <2>3. /\ height' = height + 1 /\ UNCHANGED <<sent, monitor, announced, use_mock_oracle>>
        /\ ~use_mock_oracle
    BY <1>5, Zenon DEF Mine
  <2>4. \A id \in Txids : /\ mined[id] > 0 => mined'[id] = mined[id]
                          /\ (\E tx \in txs : tx.txid = id) => mined'[id] = height + 1
    <3>1. \A tx \in txs : ~(mined[tx.txid] > 0)
      BY <2>2
    <3> QED BY <2>2, <3>1, Zenon
  <2>5. ~monitor.started => watched' = {}
    BY <1>0, <2>2, Zenon DEF ScanInv
  <2>6. \A d \in watched' : d \in monitor.addresses /\ mined'[d] > 0 /\ Payment(d) \in sent
    <3> TAKE d \in watched'
    <3>1. CASE d \in watched
      BY <1>0, <1>4, <1>s, <2>4, <3>1, Zenon DEF ScanInv
    <3>2. CASE d \in monitor.addresses /\ Payment(d) \in txs
      <4>1. d \in Deposits /\ Payment(d) \in sent
        BY <1>s, <2>2, <3>2, Zenon
      <4>2. mined'[d] = height + 1
        BY <1>4, <2>4, <3>2, <4>1, Zenon
      <4>3. height + 1 > 0
        BY <1>2
      <4>4. mined'[d] > 0
        BY ONLY <4>2, <4>3, Zenon
      <4> QED BY <3>2, <4>1, <4>4, Zenon
    <3> QED BY <2>2, <3>1, <3>2, Zenon
  <2>7. ASSUME NEW tx \in Confirming, l <= MaxHeight
        PROVE  mined'[tx.txid] > 0 /\ mined'[tx.txid] + confirmation_depth <= height'
    <3>1. mined[tx.txid] > 0 /\ mined[tx.txid] + confirmation_depth <= height
      BY <1>0, <2>3, <2>7, Zenon DEF ScanInv
    <3>2. mined'[tx.txid] = mined[tx.txid] /\ mined[tx.txid] \in Nat
      BY <1>3, <1>n, <2>4, <3>1, Zenon
    <3> QED BY <1>2, <2>3, <3>1, <3>2
  <2>8. ~monitor.started \/ l > MaxHeight \/ l + confirmation_depth <= height'
    <3>1. ~monitor.started \/ l > MaxHeight \/ l + confirmation_depth <= height
      BY <1>0, <2>3, Zenon DEF ScanInv
    <3>2. height' = height + 1
      BY <2>3
    <3> HIDE DEF l
    <3> QED BY <1>2, <3>1, <3>2
  <2>9. \A d : Payment(d)' = Payment(d)
    BY Zenon DEF Payment, Tx, Output
  <2> QED BY <1>0, <2>1, <2>3, <2>5, <2>6, <2>7, <2>8, <2>9 DEF ScanInv
<1>6. CASE MonitorStart
  <2>1. Confirming' = Confirming
    BY <1>6, ConfirmingSame DEF MonitorStart
  <2>2. /\ UNCHANGED <<height, mined, sent, announced, use_mock_oracle, watched>>
        /\ ~monitor.started /\ monitor'.started /\ monitor'.addresses = monitor.addresses
        /\ ~use_mock_oracle => monitor'.last_confirmed_height = Confirmed(height)
    BY <1>0, <1>6, Zenon DEF MonitorStart, TypeOK
  <2>3. \/ Confirmed(height) > MaxHeight \/ Confirmed(height) + confirmation_depth <= height
    BY <1>2, ConfirmedFacts
  <2>4. l <= MaxHeight
    <3>1. l = 0
      BY <1>0, <2>2, Zenon DEF ScanInv
    <3> QED BY <1>2, <3>1
  <2>5. \A d : Payment(d)' = Payment(d)
    BY Zenon DEF Payment, Tx, Output
  <2> QED BY <1>0, <2>1, <2>2, <2>3, <2>4, <2>5, Zenon DEF ScanInv
<1>7. CASE Poll
  <2> DEFINE c == Confirmed(height)
             found == ConfirmedTxs(min_height, new_confirmed_height)
  <2>1. /\ UNCHANGED <<height, mined, sent, announced, use_mock_oracle, watched>>
        /\ monitor.started /\ monitor'.started = monitor.started /\ monitor'.addresses = monitor.addresses
        /\ ~use_mock_oracle /\ monitor'.last_confirmed_height = c
        /\ c > monitor.last_confirmed_height
    BY <1>0, <1>7, Zenon DEF Poll, TypeOK, new_confirmed_height
  <2>2. c \in Nat /\ (c > MaxHeight \/ c + confirmation_depth <= height)
    BY <1>2, ConfirmedFacts
  <2>3. \A tx \in found : mined[tx.txid] # 0 /\ mined[tx.txid] \in min_height .. c /\ tx.txid \in Txids
    BY <1>0, Known, Zenon DEF ConfirmedTxs, new_confirmed_height
  <2>4. Confirming' \subseteq Confirming \cup found
    BY <2>1, ConfirmingStep, Zenon
  <2> HIDE DEF c, found
  <2>5. ASSUME NEW tx \in found, c <= MaxHeight
        PROVE  mined[tx.txid] > 0 /\ mined[tx.txid] + confirmation_depth <= height
    <3>1. mined[tx.txid] # 0 /\ mined[tx.txid] \in min_height .. c /\ mined[tx.txid] \in Nat
      BY <1>n, <2>3, Zenon
    <3>2. mined[tx.txid] > 0 /\ mined[tx.txid] <= c
      BY <3>1
    <3>3. c \in Nat /\ c + confirmation_depth <= height
      BY <1>2, <2>2, <2>5
    <3> QED BY <1>2, <3>1, <3>2, <3>3
  <2>6. ASSUME NEW tx \in Confirming, c <= MaxHeight
        PROVE  mined[tx.txid] > 0 /\ mined[tx.txid] + confirmation_depth <= height
    <3>1. c > l /\ ~use_mock_oracle
      BY <2>1
    <3>2. l <= MaxHeight
      <4> HIDE DEF l
      <4> QED BY <1>2, <2>2, <2>6, <3>1
    <3> QED BY <1>0, <3>1, <3>2, Zenon DEF ScanInv
  <2>7. c <= MaxHeight => \A tx \in Confirming \cup found :
               mined[tx.txid] > 0 /\ mined[tx.txid] + confirmation_depth <= height
    BY <2>5, <2>6, Zenon
  <2>8. \A d : Payment(d)' = Payment(d)
    BY Zenon DEF Payment, Tx, Output
  <2> QED BY <1>0, <2>1, <2>2, <2>4, <2>7, <2>8 DEF ScanInv
<1>8. CASE NodeStart
  <2>1. Confirming' = Confirming
    BY <1>8, ConfirmingSame DEF NodeStart
  <2> QED BY <1>0, <1>8, <2>1, Zenon DEF NodeStart, Announce, ScanInv, Payment, Tx, Output
<1>9. ASSUME NEW d \in Deposits, MonitorAddress(d)
      PROVE  ScanInv'
  <2>1. CASE use_mock_oracle
    <3>1. UNCHANGED <<height, mined, sent, watched, use_mock_oracle, monitor>> /\ announced' \subseteq announced
      BY <1>9, <2>1, Zenon DEF MonitorAddress
    <3> QED BY <1>0, <2>1, <3>1, Zenon DEF ScanInv, Payment, Tx, Output
  <2>2. CASE ~use_mock_oracle
    <3>1. Confirming' = Confirming
      BY <1>9, <2>2, ConfirmingSame DEF MonitorAddress
    <3>2. /\ UNCHANGED <<height, mined, sent, watched, use_mock_oracle>>
          /\ announced # {} /\ monitor'.started = monitor.started
          /\ monitor.addresses \subseteq monitor'.addresses
          /\ monitor'.last_confirmed_height = monitor.last_confirmed_height
      BY <1>0, <1>9, <2>2 DEF MonitorAddress, TypeOK
    <3> QED BY <1>0, <3>1, <3>2, Zenon DEF ScanInv, Payment, Tx, Output
  <2> QED BY <2>1, <2>2
<1>10. ASSUME NEW d \in Deposits, create_deposit(d)
       PROVE  ScanInv'
  <2>1. Confirming' = Confirming
    BY <1>10, ConfirmingSame DEF create_deposit
  <2> QED BY <1>0, <1>10, <2>1, Zenon DEF create_deposit, Announce, ScanInv, Payment, Tx, Output
<1>11. ASSUME UNCHANGED <<height, mined, monitor, announced, watched, use_mock_oracle>>, ~Poll
       PROVE  ScanInv'
  <2>1. CASE use_mock_oracle
    BY <1>0, <1>1, <1>11, <2>1, Zenon DEF ScanInv, Payment, Tx, Output
  <2>2. CASE ~use_mock_oracle
    BY <1>0, <1>1, <1>11, <2>2, ConfirmingStep, ScanSame, Zenon
  <2> QED BY <2>1, <2>2
<1>12. CASE SessionReplaced \/ FinalizeBlock
  <2>1. UNCHANGED <<height, mined, monitor, announced, watched, use_mock_oracle>>
    BY <1>12, Zenon DEF SessionReplaced, FinalizeBlock
  <2> QED BY <1>7, <1>11, <2>1, Zenon
<1>13. CASE \E d \in Deposits : Pay(d)
  <2>1. UNCHANGED <<height, mined, monitor, announced, watched, use_mock_oracle>>
    BY <1>13, Zenon DEF Pay
  <2> QED BY <1>7, <1>11, <2>1
<1>14. CASE \E tx \in Confirming : insert_pending_deposit_transaction(tx)
  <2>1. UNCHANGED <<height, mined, monitor, announced, watched, use_mock_oracle>>
    BY <1>14 DEF insert_pending_deposit_transaction
  <2> QED BY <1>7, <1>11, <2>1
<1>15. CASE \E w \in Withdrawals : propose_withdrawal(w) \/ confirm_withdrawal(w) \/ start_spend_request(w)
  <2>1. UNCHANGED <<height, mined, monitor, announced, watched, use_mock_oracle>>
    BY <1>15, Zenon DEF propose_withdrawal, confirm_withdrawal, start_spend_request
  <2> QED BY <1>7, <1>11, <2>1
<1>16. CASE \E tx \in session : handle_signed_withdrawal(tx)
  <2>1. UNCHANGED <<height, mined, monitor, announced, watched, use_mock_oracle>>
    BY <1>16, Zenon DEF handle_signed_withdrawal
  <2> QED BY <1>7, <1>11, <2>1
<1>17. CASE \E f \in Foreign : handle_withdrawl_message(f)
  <2>1. UNCHANGED <<height, mined, monitor, announced, watched, use_mock_oracle>>
    BY <1>17 DEF handle_withdrawl_message
  <2> QED BY <1>7, <1>11, <2>1
<1> QED BY <1>5, <1>6, <1>7, <1>8, <1>9, <1>10, <1>12, <1>13, <1>14, <1>15, <1>16, <1>17, Zenon DEF Next

(* Once the height the monitor scanned up to has wrapped around, a block   *)
(* more does not reach it.                                                 *)
LEMMA WrappedStays ==
  ASSUME TypeOK, ScanInv, ~use_mock_oracle, Mine, Wrapped
  PROVE  Wrapped'
<1> USE DEF bitcoin, monitoring, depositing, wallet, spending, account, history
<1> DEFINE l == monitor.last_confirmed_height
<1>1. height \in Nat /\ MaxHeight \in Nat /\ l \in Nat /\ confirmation_depth \in Nat
  BY Heights, Zenon
<1>2. l = 0 \/ l > MaxHeight \/ l + confirmation_depth <= height
  BY Zenon DEF ScanInv
<1>3. height' = height + 1 /\ height < MaxHeight /\ l' = l
  BY Zenon DEF Mine
<1>4. l > height /\ (Wrapped' <=> l' > height')
  BY DEF Wrapped
<1> HIDE DEF l
<1> QED BY <1>1, <1>2, <1>3, <1>4

(* No step credits a deposit that is not deep enough.                      *)
LEMMA DeepStep ==
  ASSUME FundsInv, Next
  PROVE  CreditedWhenDeep'
<1> USE DEF bitcoin, monitoring, depositing, wallet, spending, account, history
<1>0. TypeOK /\ TxInv /\ ScanInv /\ DepositInv /\ CreditedWhenDeep
  BY DEF FundsInv
<1>1. use_mock_oracle' = use_mock_oracle
  BY Monotone, Zenon
<1> DEFINE l == monitor.last_confirmed_height
<1>2. /\ height \in Nat /\ height <= MaxHeight /\ MaxHeight \in Nat
      /\ l \in Nat /\ confirmation_depth \in Nat
  BY <1>0, Heights, Zenon
<1>n. \A id \in Deposits : id \in Txids /\ mined[id] \in Nat
  BY <1>0 DEF TypeOK, Txids
<1>3. CASE use_mock_oracle
  BY <1>1, <1>3, Zenon DEF CreditedWhenDeep
<1>4. ASSUME ~use_mock_oracle, Mine
      PROVE  CreditedWhenDeep'
  <2>1. PICK txs \in SUBSET {tx \in sent : mined[tx.txid] = 0} :
           mined' = [id \in Txids |->
                           IF \E tx \in txs : tx.txid = id THEN height + 1 ELSE mined[id]]
    BY <1>4, Zenon DEF Mine
  <2>2. height' = height + 1 /\ UNCHANGED <<monitor, chain_txs>> /\ height < MaxHeight
    BY <1>4, Zenon DEF Mine
  <2>3. \A id \in Txids : mined[id] > 0 => mined'[id] = mined[id]
    <3>1. \A tx \in txs : ~(mined[tx.txid] > 0)
      BY <2>1
    <3> QED BY <2>1, <3>1, Zenon
  <2>4. Wrapped => Wrapped'
    BY <1>0, <1>4, WrappedStays, Zenon
  <2>5. ASSUME NEW d \in chain_txs \cap Deposits, ~Wrapped'
        PROVE  mined'[d] > 0 /\ mined'[d] + confirmation_depth <= height'
    <3>1. mined[d] > 0 /\ mined[d] + confirmation_depth <= height
      BY <1>0, <1>4, <2>4, <2>5, Zenon DEF CreditedWhenDeep
    <3>2. mined'[d] = mined[d] /\ mined[d] \in Nat
      BY <1>n, <2>3, <3>1, Zenon
    <3>3. \A m, c, h \in Nat : m + c <= h => m + c <= h + 1
      OBVIOUS
    <3> QED BY <1>2, <2>2, <3>1, <3>2, <3>3, Zenon
  <2> QED BY <2>2, <2>5, Zenon DEF CreditedWhenDeep
<1>5. ASSUME ~use_mock_oracle, MonitorStart \/ Poll
      PROVE  CreditedWhenDeep'
  <2>1. UNCHANGED <<height, mined, chain_txs>>
    BY <1>5 DEF MonitorStart, Poll
  <2>2. Wrapped => Wrapped'
    <3>1. CASE MonitorStart
      BY <1>0, <1>2, <3>1 DEF MonitorStart, ScanInv, Wrapped
    <3>2. CASE Poll
      <4>1. monitor'.last_confirmed_height = Confirmed(height) /\ Confirmed(height) > monitor.last_confirmed_height
        BY <1>0, <3>2 DEF Poll, TypeOK, new_confirmed_height
      <4>2. Confirmed(height) \in Nat
        BY <1>2, ConfirmedFacts
      <4> QED BY <1>2, <2>1, <4>1, <4>2 DEF Wrapped
    <3> QED BY <1>5, <3>1, <3>2
  <2> QED BY <1>0, <1>1, <2>1, <2>2 DEF CreditedWhenDeep
<1>6. ASSUME NEW tx \in Confirming, insert_pending_deposit_transaction(tx), ~use_mock_oracle
      PROVE  CreditedWhenDeep'
  <2>1. UNCHANGED <<height, mined, monitor>> /\ chain_txs' \subseteq chain_txs \cup PaidBy(tx)
    BY <1>6 DEF insert_pending_deposit_transaction
  <2>2. PaidBy(tx) \subseteq {tx.txid}
    BY <1>0, PaidByFacts
  <2>3. Wrapped' <=> Wrapped
    BY <2>1, Zenon DEF Wrapped
  <2>4. ~Wrapped => mined[tx.txid] > 0 /\ mined[tx.txid] + confirmation_depth <= height
    BY <1>0, <1>2, <1>6 DEF ScanInv, Wrapped
  <2> QED BY <1>0, <1>1, <2>1, <2>2, <2>3, <2>4, Zenon DEF CreditedWhenDeep
<1>7. ASSUME UNCHANGED <<height, mined>>, monitor'.last_confirmed_height = monitor.last_confirmed_height,
             chain_txs' \cap Deposits = chain_txs \cap Deposits
      PROVE  CreditedWhenDeep'
  BY <1>0, <1>1, <1>7, Zenon DEF CreditedWhenDeep, Wrapped
<1>8. CASE NodeStart \/ SessionReplaced \/ FinalizeBlock
  BY <1>7, <1>8, Zenon DEF NodeStart, SessionReplaced, FinalizeBlock
<1>9. CASE \E d \in Deposits : Pay(d) \/ create_deposit(d)
  BY <1>7, <1>9 DEF Pay, create_deposit
<1>10. CASE \E d \in Deposits : MonitorAddress(d)
  BY <1>0, <1>7, <1>10 DEF MonitorAddress, TypeOK
<1>11. CASE \E w \in Withdrawals : propose_withdrawal(w) \/ confirm_withdrawal(w) \/ start_spend_request(w)
  BY <1>7, <1>11, Zenon DEF propose_withdrawal, confirm_withdrawal, start_spend_request
<1>12. CASE \E tx \in session : handle_signed_withdrawal(tx)
  <2>1. \A tx \in session : tx.txid \notin Deposits
    BY <1>0, FundsAssumption, Zenon DEF TypeOK, TxInv
  <2> QED BY <1>7, <1>12, <2>1 DEF handle_signed_withdrawal
<1>13. CASE \E f \in Foreign : handle_withdrawl_message(f)
  BY <1>7, <1>13, FundsAssumption DEF handle_withdrawl_message
<1> QED BY <1>3, <1>4, <1>5, <1>6, <1>8, <1>9, <1>10, <1>11, <1>12, <1>13, Zenon DEF Next

(* No step lets the monitor skip a payment it watches.                     *)
LEMMA WatchedStep ==
  ASSUME FundsInv, Next
  PROVE  WatchedNeverMissed'
<1> USE DEF bitcoin, monitoring, depositing, wallet, spending, account, history
<1> DEFINE E(d) == Event("ConfirmDeposit", Payment(d))
<1>0. TypeOK /\ TxInv /\ ScanInv /\ WatchedNeverMissed
  BY DEF FundsInv
<1>1. monitor_start_block' = monitor_start_block /\ \A d : E(d)' = E(d)
  BY Monotone, Zenon DEF Event, Payment, Tx, Output
<1> DEFINE l == monitor.last_confirmed_height
<1>2. /\ height \in Nat /\ height <= MaxHeight /\ MaxHeight \in Nat
      /\ l \in Nat /\ confirmation_depth \in Nat
  BY <1>0, Heights, Zenon
<1>n. \A id \in Txids : mined[id] \in Nat
  BY <1>0 DEF TypeOK
<1>s. Deposits \subseteq Txids /\ monitor.addresses \subseteq Deposits /\ watched \subseteq Deposits
  BY <1>0 DEF TypeOK, Txids
<1>3. \A d \in Deposits : Payment(d).txid = d
  BY PaymentFacts, Zenon
<1>4. ASSUME UNCHANGED <<height, mined, watched, missed>>, handlers' => handlers,
             monitor'.last_confirmed_height = monitor.last_confirmed_height,
             \A d \in watched : E(d) \in events /\ handlers' => E(d) \in events' \/ d \in processed_txids',
             handlers' => processed_txids \subseteq processed_txids'
      PROVE  WatchedNeverMissed'
  BY <1>0, <1>1, <1>4, Zenon DEF WatchedNeverMissed, Wrapped
<1>5. CASE Mine
  <2>1. PICK txs \in SUBSET {tx \in sent : mined[tx.txid] = 0} :
           /\ mined' = [id \in Txids |->
                           IF \E tx \in txs : tx.txid = id THEN height + 1 ELSE mined[id]]
           /\ watched' = watched \cup {d \in monitor.addresses : Payment(d) \in txs}
    BY <1>5, Zenon DEF Mine
  <2>2. /\ height' = height + 1 /\ UNCHANGED <<monitor, events, processed_txids, handlers, missed>>
        /\ height < MaxHeight /\ ~use_mock_oracle
    BY <1>5, Zenon DEF Mine
  <2>3. \A id \in Txids : /\ mined[id] > 0 => mined'[id] = mined[id]
                          /\ (\E tx \in txs : tx.txid = id) => mined'[id] = height + 1
    <3>1. \A tx \in txs : ~(mined[tx.txid] > 0)
      BY <2>1
    <3> QED BY <2>1, <3>1, Zenon
  <2>4. Wrapped => Wrapped'
    BY <1>0, <1>5, <2>2, WrappedStays, Zenon
  <2>5. ASSUME NEW d \in watched' \ missed', handlers', ~Wrapped', monitor_start_block' <= mined'[d],
               mined'[d] <= monitor'.last_confirmed_height
        PROVE  E(d) \in events' \/ d \in processed_txids'
    <3>1. CASE d \in watched
      <4>1. mined'[d] = mined[d]
        BY <1>0, <1>s, <2>3, <3>1, Zenon DEF ScanInv
      <4> QED BY <1>0, <1>1, <2>2, <2>4, <2>5, <3>1, <4>1, Zenon DEF WatchedNeverMissed
    <3>2. CASE d \in monitor.addresses /\ Payment(d) \in txs
      <4>1. mined'[d] = height + 1
        BY <1>3, <1>s, <2>3, <3>2, Zenon
      <4>2. monitor.started
        BY <1>0, <3>2, Zenon DEF ScanInv
      <4>3. l' = l /\ height' = height + 1 /\ height < MaxHeight /\ ~(l' > height')
        BY <2>2, <2>5 DEF Wrapped
      <4>4. l > MaxHeight \/ l + confirmation_depth <= height
        BY <1>0, <2>2, <4>2, Zenon DEF ScanInv
      <4>5. height + 1 <= l
        BY <2>5, <4>1, <4>3
      <4> HIDE DEF l
      <4> QED BY <1>2, <4>3, <4>4, <4>5
    <3> QED BY <2>1, <2>5, <3>1, <3>2, Zenon
  <2> QED BY <1>1, <2>5, Zenon DEF WatchedNeverMissed
<1>6. CASE MonitorStart
  <2>1. watched' = {}
    BY <1>0, <1>6, Zenon DEF MonitorStart, ScanInv
  <2> QED BY <2>1 DEF WatchedNeverMissed
<1>7. CASE Poll
  <2> DEFINE c == Confirmed(height)
             found == ConfirmedTxs(min_height, new_confirmed_height)
  <2>1. /\ UNCHANGED <<height, mined, watched, handlers, processed_txids>>
        /\ monitor'.last_confirmed_height = c /\ c > monitor.last_confirmed_height
    BY <1>0, <1>7 DEF Poll, TypeOK, new_confirmed_height
  <2>2. c \in Nat
    BY <1>2, ConfirmedFacts
  <2>3. PICK failed \in SUBSET {tx \in found : tx.txid \in Lost} :
           /\ events' = events \cup {Event("ConfirmDeposit", tx) : tx \in found \ failed}
           /\ missed' = missed \cup {tx.txid : tx \in failed}
    BY <1>7, Zenon DEF Poll
  <2>4. ASSUME NEW d \in watched' \ missed', handlers', ~Wrapped', monitor_start_block' <= mined'[d],
               mined'[d] <= monitor'.last_confirmed_height
        PROVE  E(d) \in events' \/ d \in processed_txids'
    <3>1. CASE mined[d] <= monitor.last_confirmed_height
      <4>1. ~Wrapped
        <5>1. ~(c > height) /\ c > l
          BY <2>1, <2>4 DEF Wrapped
        <5>2. ~(l > height)
          <6> HIDE DEF c, l
          <6> QED BY <1>2, <2>2, <5>1
        <5> QED BY <5>2 DEF Wrapped
      <4>2. d \in watched \ missed /\ handlers /\ monitor_start_block <= mined[d]
        BY <1>1, <2>1, <2>3, <2>4, Zenon
      <4>3. E(d) \in events \/ d \in processed_txids
        BY <1>0, <3>1, <4>1, <4>2 DEF WatchedNeverMissed
      <4> QED BY <2>1, <2>3, <4>3, Zenon
    <3>2. CASE mined[d] > monitor.last_confirmed_height
      <4>1. d \in monitor.addresses /\ mined[d] > 0 /\ Payment(d) \in sent /\ d \in Deposits /\ d \in Txids
        BY <1>0, <1>s, <2>1, <2>4, Zenon DEF ScanInv
      <4>2. TxOf(Payment(d), d)
        BY <4>1, PaymentFacts, Zenon DEF TxOf
      <4>3. mined[d] \in min_height .. new_confirmed_height
        <5>1. monitor_start_block \in Nat
          BY <1>0, FundsAssumption DEF TypeOK
        <5>2. /\ monitor_start_block <= mined[d] /\ mined[d] <= c /\ mined[d] \in Nat
          BY <1>1, <1>n, <2>1, <2>4, <4>1, Zenon
        <5>3. min_height \in Nat /\ (min_height = monitor_start_block \/ min_height = l + 1)
          BY <1>2, <5>1 DEF min_height
        <5> DEFINE m == mined[d]
        <5>4. m > l /\ monitor_start_block <= m /\ m <= c /\ m \in Nat
          BY <3>2, <5>2, Zenon
        <5> HIDE DEF m, l, c
        <5>5. m >= min_height
          BY <1>2, <5>3, <5>4
        <5>6. m \in min_height .. c
          BY <2>2, <5>3, <5>4, <5>5
        <5> QED BY <5>6, Zenon DEF m, c, new_confirmed_height
      <4>4. Payment(d) \in found
        BY <1>3, <4>1, <4>2, <4>3 DEF ConfirmedTxs
      <4> HIDE DEF found
      <4>5. Payment(d) \notin failed
        BY <1>3, <2>3, <2>4, <4>1, Zenon
      <4> QED BY <2>3, <4>4, <4>5, Zenon
    <3>3. mined[d] \in Nat /\ d \in Deposits
      BY <1>n, <1>s, <2>1, <2>4, Zenon
    <3> QED BY <1>2, <3>1, <3>2, <3>3
  <2> QED BY <1>1, <2>4 DEF WatchedNeverMissed
<1>8. CASE NodeStart \/ SessionReplaced \/ FinalizeBlock
  BY <1>4, <1>8, Zenon DEF NodeStart, SessionReplaced, FinalizeBlock
<1>9. CASE \E d \in Deposits : Pay(d) \/ create_deposit(d)
  BY <1>4, <1>9 DEF Pay, create_deposit
<1>10. CASE \E d \in Deposits : MonitorAddress(d)
  <2> HIDE DEF E
  <2> QED BY <1>0, <1>4, <1>10 DEF MonitorAddress, TypeOK
<1>11. CASE \E tx \in Confirming : insert_pending_deposit_transaction(tx)
  <2>1. PICK tx \in Confirming : insert_pending_deposit_transaction(tx)
    BY <1>11
  <2>2. /\ UNCHANGED <<height, mined, watched, missed, monitor, handlers>>
        /\ events' = events \ {Event("ConfirmDeposit", tx)}
        /\ processed_txids \subseteq processed_txids' /\ tx.txid \in processed_txids'
    BY <2>1 DEF insert_pending_deposit_transaction
  <2>3. \A d \in watched : E(d) \in events => E(d) \in events' \/ d \in processed_txids'
    <3>1. \A d \in watched : E(d) = Event("ConfirmDeposit", tx) => tx.txid = d
      BY <1>3, <1>s, Zenon DEF Event
    <3> HIDE DEF E
    <3> QED BY <2>2, <3>1, Zenon
  <2> HIDE DEF E
  <2> QED BY <1>4, <2>2, <2>3, Zenon
<1>12. CASE \E w \in Withdrawals : propose_withdrawal(w)
  <2>1. PICK w : propose_withdrawal(w)
    BY <1>12, Zenon
  <2>2. UNCHANGED <<height, mined, watched, missed, monitor>> /\ events \subseteq events'
    BY <2>1, Zenon DEF propose_withdrawal
  <2>3. handlers' => handlers /\ processed_txids' = processed_txids
    BY <2>1, Zenon DEF propose_withdrawal, HandlerError
  <2> QED BY <1>4, <2>2, <2>3, Zenon
<1>13. CASE \E w \in Withdrawals : confirm_withdrawal(w)
  <2>1. PICK w : confirm_withdrawal(w)
    BY <1>13, Zenon
  <2>2. UNCHANGED <<height, mined, watched, missed, monitor>> /\ events \subseteq events'
    BY <2>1 DEF confirm_withdrawal
  <2>3. handlers' => handlers /\ processed_txids' = processed_txids
    BY <2>1, Zenon DEF confirm_withdrawal, HandlerError
  <2> QED BY <1>4, <2>2, <2>3, Zenon
<1>14. CASE \E w \in Withdrawals : start_spend_request(w)
  <2>1. \A d, w : E(d) # Event("Spend", w)
    BY Zenon DEF Event
  <2> HIDE DEF E
  <2> QED BY <1>4, <1>14, <2>1 DEF start_spend_request
<1>15. CASE \E tx \in session : handle_signed_withdrawal(tx)
  <2>1. PICK tx : handle_signed_withdrawal(tx)
    BY <1>15, Zenon
  <2>2. UNCHANGED <<height, mined, watched, missed, monitor>> /\ events \subseteq events'
    BY <2>1 DEF handle_signed_withdrawal
  <2>3. handlers' => handlers /\ processed_txids' = processed_txids
    BY <2>1, Zenon DEF handle_signed_withdrawal, HandlerError
  <2> QED BY <1>4, <2>2, <2>3, Zenon
<1>16. CASE \E f \in Foreign : handle_withdrawl_message(f)
  BY <1>4, <1>16 DEF handle_withdrawl_message, HandlerError
<1> QED BY <1>5, <1>6, <1>7, <1>8, <1>9, <1>10, <1>11, <1>12, <1>13, <1>14, <1>15, <1>16, Zenon DEF Next
=============================================================================
